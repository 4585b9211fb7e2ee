---------------------------- MODULE MCPipelineRun ----------------------------
(* Instances of PipelineRun for TLC.                                       *)
EXTENDS PipelineRun

CONSTANTS r1, r2, c1, a1, x1, x2, d1, d2, d3

\* r1 is a run of account a1, r2 a scheduled run, c1 a collect request.
MCTwoRuns == {r1, r2}
MCRunAndRequest == {r1, c1}
MCTask == [s \in Sessions |-> IF s = c1 THEN "collect" ELSE "run"]
MCAccounts == {a1}
MCAccount == [s \in Sessions |-> IF s = r1 THEN a1 ELSE Anonymous]
MCSelected == [s \in Sessions |-> {}]
MCSymbols == {x1, x2}
MCWatchlists == {{}, [account : {a1}, symbol : MCSymbols]}

\* d2 is found for both symbols.
MCDocs == {d1, d2, d3}
MCOffered == [x \in MCSymbols |-> IF x = x1 THEN {d1, d2} ELSE {d2, d3}]
MCDocKind == [d \in MCDocs |-> IF d = d1 THEN "REPORT" ELSE "NEWS"]
MCRecency == [d \in MCDocs |-> IF d = d3 THEN 1 ELSE 2]
=============================================================================
