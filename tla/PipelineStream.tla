---------------------------- MODULE PipelineStream ----------------------------
(***************************************************************************)
(* POST /pipeline/run-stream: a task runs the pipeline and puts its events  *)
(* on an unbounded queue, a generator takes them off and sends them to the *)
(* client as server-sent events until it meets the sentinel None.  The     *)
(* client may go away at any time; the generator is then cancelled, the    *)
(* task is not.                                                            *)
(*                                                                         *)
(* Putting on an unbounded queue never suspends, so the task runs without  *)
(* interruption from one answer (of the collecting thread, of the language *)
(* model) to the next.  What happens to the articles is in PipelineRun; a   *)
(* collection here just ends in one of its three ways.                     *)
(***************************************************************************)
EXTENDS Naturals, Sequences, SequencesExt

CONSTANTS MaxItems    \* the longest watchlist

ASSUME StreamAssumption == MaxItems \in Nat \ {0}

Indices == 1 .. MaxItems

VARIABLES
    client,     \* "connected" or "gone"
    stream,     \* the generator: "unread", "reading", "closed" or "cancelled"
    queue,      \* the events put and not yet taken
    taken,      \* the events the generator took, the client has all but None
    task,       \* "none", "created", "collecting", "analyzing" or "ended"
    session,    \* local_db: "none", "open" or "closed"
    total,      \* the number of items
    item,       \* the item being collected
    ready,      \* the items with an entry in symbol_data
    asked,      \* those whose analysis has begun
    answered,   \* those whose analysis has ended
    succeeded,  \* those with a result
    stored      \* the run's logs: "no", "yes", or "none" if there were none

delivery == <<client, stream, taken>>
analysis == <<asked, answered, succeeded>>
vars == <<client, stream, queue, taken, task, session, total, item, ready,
          asked, answered, succeeded, stored>>

\* Events by type and phase; "done" and a bare "error" have no phase.
Event(type, ph, i) == [type |-> type, phase |-> ph, item |-> i]
Start == Event("progress", "START", 0)
Collecting(i) == Event("progress", "COLLECT", i)
CollectError(i) == Event("error", "COLLECT", i)
CollectEnd == Event("progress", "COLLECT", 0)
Analyzing(i) == Event("progress", "ANALYZE", i)
Finish == Event("progress", "DONE", 0)
Done == Event("done", "", 0)
Failure == Event("error", "", 0)
None == Event("none", "", 0)

Terminal == {Done, Failure}
Events == [type : {"progress", "error", "done", "none"},
           phase : {"START", "COLLECT", "ANALYZE", "DONE", ""},
           item : Indices \cup {0}]

TypeOK ==
    /\ client \in {"connected", "gone"}
    /\ stream \in {"unread", "reading", "closed", "cancelled"}
    /\ queue \in Seq(Events) /\ taken \in Seq(Events)
    /\ task \in {"none", "created", "collecting", "analyzing", "ended"}
    /\ session \in {"none", "open", "closed"}
    /\ total \in 0 .. MaxItems /\ item \in 0 .. total
    /\ answered \subseteq asked /\ asked \subseteq ready /\ ready \subseteq Indices
    /\ succeeded \subseteq answered
    /\ stored \in {"no", "yes", "none"}

Init ==
    /\ client = "connected"
    /\ stream = "unread"
    /\ queue = <<>> /\ taken = <<>>
    /\ task = "none"
    /\ session = "none"
    /\ total = 0 /\ item = 0
    /\ ready = {} /\ asked = {} /\ answered = {} /\ succeeded = {}
    /\ stored = "no"

-----------------------------------------------------------------------------
(* The generator and its client.                                           *)

\* The first read of the body: the queue and the task are created.
Open ==
    /\ stream = "unread"
    /\ stream' = "reading"
    /\ task' = "created"
    /\ UNCHANGED <<client, queue, taken, session, total, item, ready, analysis,
                   stored>>

Deliver ==
    /\ stream = "reading"
    /\ queue # <<>>
    /\ taken' = Append(taken, Head(queue))
    /\ queue' = Tail(queue)
    /\ stream' = IF Head(queue) = None THEN "closed" ELSE "reading"
    /\ UNCHANGED <<client, task, session, total, item, ready, analysis, stored>>

\* The run dies with the request (mutant).
DisconnectStopsRun ==
    /\ client = "connected"
    /\ stream \in {"unread", "reading"}
    /\ client' = "gone"
    /\ stream' = "cancelled"
    /\ task' = IF task = "none" THEN "none" ELSE "ended"
    /\ UNCHANGED <<queue, taken, session, total, item, ready, analysis, stored>>

\* The client closes the connection: the generator is cancelled where it
\* stands, the task goes on.
Disconnect ==
    /\ client = "connected"
    /\ stream \in {"unread", "reading"}
    /\ client' = "gone"
    /\ stream' = "cancelled"
    /\ UNCHANGED <<queue, taken, task, session, total, item, ready, analysis,
                   stored>>

-----------------------------------------------------------------------------
(* The task.                                                               *)

Put(events) == queue' = queue \o events

\* Mutant: the sentinel is put where the run succeeds, not in "finally".
CloseOnlyIfDone(events) ==
    /\ session' = "closed"
    /\ task' = "ended"
    /\ Put(IF Last(events) = Done THEN events \o <<None>> ELSE events)
\* The last event, then "finally": the session is closed, the sentinel put.
Close(events) ==
    /\ session' = "closed"
    /\ task' = "ended"
    /\ Put(events \o <<None>>)

\* Mutant: done is put before the logs are saved, error after it.
PublishEarly(events, results) ==
    \/ /\ Close(events \o <<Done>>)
       /\ stored' = IF results = {} THEN "none" ELSE "yes"
    \/ /\ Close(events \o <<Done, Failure>>)
       /\ UNCHANGED stored
\* execute has returned: put_all, save_all, and "done", or "error" if
\* save_all raises.
Publish(events, results) ==
    \/ /\ Close(events \o <<Done>>)
       /\ stored' = IF results = {} THEN "none" ELSE "yes"
    \/ /\ Close(events \o <<Failure>>)
       /\ UNCHANGED stored

\* The watchlist is empty, or nothing of it is selected.
RunNothing ==
    /\ task = "created"
    /\ Publish(<<>>, {})
    /\ UNCHANGED <<delivery, total, item, ready, analysis>>

\* The watchlist cannot be read.
RunFails ==
    /\ task = "created"
    /\ Close(<<Failure>>)
    /\ UNCHANGED <<delivery, total, item, ready, analysis, stored>>

Run ==
    /\ task = "created"
    /\ session' = "open"
    /\ total' \in Indices
    /\ item' = 1
    /\ task' = "collecting"
    /\ Put(<<Start, Collecting(1)>>)
    /\ UNCHANGED <<delivery, ready, analysis, stored>>

\* The thread has returned: the item is skipped after an error, skipped for
\* want of articles, or ready to be analysed.
Outcome(event) ==
    \/ event = CollectError(item) /\ ready' = ready
    \/ event = Collecting(item) /\ ready' = ready
    \/ event = Collecting(item) /\ ready' = ready \cup {item}

CollectNext ==
    /\ task = "collecting"
    /\ item < total
    /\ \E event \in {Collecting(item), CollectError(item)} :
          Outcome(event) /\ Put(<<event, Collecting(item + 1)>>)
    /\ item' = item + 1
    /\ UNCHANGED <<delivery, task, session, total, analysis, stored>>

CollectLast ==
    /\ task = "collecting"
    /\ item = total
    /\ \E event \in {Collecting(item), CollectError(item)} :
          Outcome(event) /\ Put(<<event, CollectEnd>>)
    /\ ready' # {}
    /\ task' = "analyzing"
    /\ UNCHANGED <<delivery, session, total, item, analysis, stored>>

\* Nothing to analyse: gather() of nothing does not suspend.
CollectNothing ==
    /\ task = "collecting"
    /\ item = total
    /\ \E event \in {Collecting(item), CollectError(item)} :
          /\ Outcome(event)
          /\ Publish(<<event, CollectEnd, Finish>>, {})
    /\ ready' = {}
    /\ UNCHANGED <<delivery, total, item, analysis>>

\* find_all raises, after the thread has returned.
CollectFails ==
    /\ task = "collecting"
    /\ Close(<<Failure>>)
    /\ UNCHANGED <<delivery, total, item, ready, analysis, stored>>

AnalyzePair(i) ==
    /\ task = "analyzing"
    /\ i \in ready \ asked
    /\ asked' = asked \cup {i}
    /\ Put(<<Analyzing(i)>>)
    /\ UNCHANGED <<delivery, task, session, total, item, ready, answered,
                   succeeded, stored>>

\* Both kinds have been analysed, with a result for one of them or for none.
PairAnalyzed(i) ==
    /\ task = "analyzing"
    /\ i \in asked \ answered
    /\ answered' = answered \cup {i}
    /\ succeeded' \in {succeeded, succeeded \cup {i}}
    /\ Put(<<Analyzing(i)>>)
    /\ UNCHANGED <<delivery, task, session, total, item, ready, asked, stored>>

\* Mutant: the aggregation does not wait for the last answer.
AggregateEarly ==
    /\ task = "analyzing"
    /\ asked = ready
    /\ Publish(<<Finish>>, succeeded)
    /\ UNCHANGED <<delivery, total, item, ready, analysis>>
Aggregate ==
    /\ task = "analyzing"
    /\ answered = ready
    /\ Publish(<<Finish>>, succeeded)
    /\ UNCHANGED <<delivery, total, item, ready, analysis>>

TaskStep ==
    \/ RunNothing \/ RunFails \/ Run
    \/ CollectNext \/ CollectLast \/ CollectNothing \/ CollectFails
    \/ \E i \in Indices : AnalyzePair(i) \/ PairAnalyzed(i)
    \/ Aggregate

\* The task is over and the stream is read to its end or given up.
Over ==
    /\ task \in {"none", "ended"}
    /\ stream \in {"closed", "cancelled"}
    /\ UNCHANGED vars

Next == Open \/ Deliver \/ Disconnect \/ TaskStep \/ Over

Spec == Init /\ [][Next]_vars

\* The event loop runs a task whose awaited answer is there, and every client
\* the pipeline asks has a time-out; nobody has to open a stream or close it.
Fairness == WF_vars(TaskStep) /\ WF_vars(Deliver)

FairSpec == Spec /\ Fairness

-----------------------------------------------------------------------------
(* Properties.                                                             *)

\* Every event of the run, in the order of its emission.
Emitted == taken \o queue

\* Exactly one event tells how the run ended; it is the last before the
\* sentinel, and the sentinel is put by a task that is over, with its session
\* closed: the generator's "await task" never waits (pipeline_router.py 141-156).
OneTerminalEvent ==
    LET ends == {n \in DOMAIN Emitted : Emitted[n] \in Terminal} IN
    IF task = "ended"
    THEN /\ ends = {Len(Emitted) - 1}
         /\ Last(Emitted) = None
         /\ session = "closed"
    ELSE ends = {} /\ ~Contains(Emitted, None)

\* What the client was told about the end is true of the database: "done" is
\* delivered only when the logs of every symbol with a result are stored,
\* "error" only when none is (pipeline_router.py 133-143).
EndIsTrue ==
    /\ Contains(taken, Done) => stored = IF succeeded = {} THEN "none" ELSE "yes"
    /\ Contains(taken, Failure) => stored = "no"

\* The events tell the phases in order, however the analyses interleave: no
\* collection is announced after an analysis, nothing but the end after DONE;
\* at DONE every analysis announced has been announced twice.
EventsInOrder ==
    LET rank == [START |-> 1, COLLECT |-> 2, ANALYZE |-> 3, DONE |-> 4]
        phased == {n \in DOMAIN Emitted : Emitted[n].phase # ""}
    IN  /\ \A m, n \in phased : m < n =>
              rank[Emitted[m].phase] <= rank[Emitted[n].phase]
        /\ Contains(Emitted, Finish) => \A n \in phased :
              Emitted[n].phase = "ANALYZE" =>
                  \E m \in phased \ {n} : Emitted[m] = Emitted[n]

\* "클라이언트 연결 해제 시에도 세션이 살아있도록 독립 세션 사용"
\* (pipeline_router.py 123): a run that was begun ends and closes its session,
\* and tells an end, even when nobody listens any more; and a client that stays
\* sees the stream closed.
BothEnd ==
    /\ task = "created" ~> task = "ended" /\ session = "closed"
    /\ stream = "reading" ~> stream \in {"closed", "cancelled"}

\* "OpenAI 실패 시 error 이벤트 후 연결 종료"
\* (BL-BE-12-pipeline-progress-streaming.md 115): when the model fails for
\* every symbol, the stream ends with an error.
FailedAnalysisIsError ==
    Contains(taken, Done) /\ ready # {} => succeeded # {}
=============================================================================
