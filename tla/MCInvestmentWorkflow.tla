------------------------ MODULE MCInvestmentWorkflow ------------------------
(* An instance of InvestmentWorkflow for TLC.                              *)
EXTENDS InvestmentWorkflow

\* One source twice, one that does not exist beside a known one, and none
\* that is known, which stands for all five.
MCReplies == {<<"news", "news">>, <<"stock", "unknown", "price">>, <<"unknown">>}

\* One bad event of each weight.
MCNewsFound ==
    {[NoNews EXCEPT !.negative = [NoEvents EXCEPT !["high"] = 1, !["low"] = 1]]}
MCYouTubeFound == {[volume |-> 10, sentiment |-> 7]}

\* A price that rose by 5 % without any other signal crosses the threshold of
\* the direction by its weight alone.
MCPricesFound == {Given(50)}

\* A loss, and debts of 800 %.
MCFinancialsFound == {[margin |-> Given(-50), debt |-> Given(8000)]}
=============================================================================
