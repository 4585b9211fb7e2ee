-------------------------- MODULE MCArticleAnalysis --------------------------
(* Instances of ArticleAnalysis for TLC.                                   *)
EXTENDS ArticleAnalysis

CONSTANTS b1, b2, a1, a2, a3, a4, a5

\* More analyses than permits; a batch of old articles only (b2), dates that
\* are equal (a1, a2) or missing (a5); a batch with nothing.
MCBatches == {b1, b2}
MCRaw == {a1, a2, a3, a4, a5}
MCPublished ==
    [a \in MCRaw |-> CASE a \in {a1, a2} -> 3 [] a = a5 -> 0 [] OTHER -> 1]
MCInputs ==
    {[b \in MCBatches |-> IF b = b1 THEN <<a3, a1, a2>> ELSE <<a5, a4>>],
     [b \in MCBatches |-> IF b = b1 THEN <<>> ELSE <<a4>>]}
MCModes == {"LATEST_3", "LAST_24H"}
=============================================================================
