------------------------ MODULE MCInvestmentDecision ------------------------
(* An instance of InvestmentDecision for TLC: a stream that names the       *)
(* symbol, one that must find it, a direct request with a symbol and one    *)
(* without.                                                                 *)
EXTENDS InvestmentDecision

CONSTANTS s1, s2, d1, d2, x1

MCRequests == {s1, s2, d1, d2}
MCAskedSymbol == [r \in MCRequests |-> IF r \in {s2, d2} THEN NoSymbol ELSE x1]
=============================================================================
