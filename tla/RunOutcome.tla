----------------------------- MODULE RunOutcome -----------------------------
(***************************************************************************)
(* What a pipeline run promises to whoever reads the analysis logs: a run   *)
(* is either published, and then all of its logs became durable in one     *)
(* step, or it is aborted and leaves no log at all.  A published run holds  *)
(* at most one log for a symbol and a kind of source.  A process crash may *)
(* abort several runs at once.                                             *)
(***************************************************************************)
CONSTANTS Run,        \* the runs
          Log         \* the log records, with fields run, symbol, kind, doc

VARIABLES status,     \* status[r]: idle, running, published or aborted
          durable     \* the set of log records in the database

vars == <<status, durable>>

Statuses == {"idle", "running", "published", "aborted"}

\* The logs one run may publish: all its own, one per symbol and kind.
Publishable(r) ==
    {L \in SUBSET {l \in Log : l.run = r} :
        \A l, m \in L : l.symbol = m.symbol /\ l.kind = m.kind => l = m}

Init ==
    /\ status = [r \in Run |-> "idle"]
    /\ durable = {}

Begin(r) ==
    /\ status[r] = "idle"
    /\ status' = [status EXCEPT ![r] = "running"]
    /\ UNCHANGED durable

Publish(r) ==
    /\ status[r] = "running"
    /\ status' = [status EXCEPT ![r] = "published"]
    /\ \E L \in Publishable(r) : durable' = durable \cup L

Abort(S) ==
    /\ S # {}
    /\ \A r \in S : status[r] = "running"
    /\ status' = [r \in Run |-> IF r \in S THEN "aborted" ELSE status[r]]
    /\ UNCHANGED durable

Next ==
    \/ \E r \in Run : Begin(r) \/ Publish(r)
    \/ \E S \in SUBSET Run : Abort(S)

Spec == Init /\ [][Next]_vars
=============================================================================
