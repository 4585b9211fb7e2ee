------------------------- MODULE InvestmentDecision -------------------------
(***************************************************************************)
(* The two routes of investment_router.py that answer an investment        *)
(* question, and the cache of answers they share: POST /decision, which    *)
(* waits for the agents, and POST /decision/stream, which starts a task    *)
(* for them and streams the events the task puts on a queue.               *)
(*                                                                         *)
(* Handlers, generators and tasks are coroutines of one event loop; the    *)
(* stream's look-ups and saves run in worker threads.  What the agents do  *)
(* is InvestmentWorkflow; here a run of theirs emits lines of its log and  *)
(* then answers or fails.                                                  *)
(***************************************************************************)
EXTENDS Integers, FiniteSets, Sequences, SequencesExt

CONSTANTS
    Requests, Symbols, NoSymbol,
    Direct,        \* the requests of POST /decision; the others are streams
    Forced,        \* those with force = true
    AskedSymbol,   \* the symbol each request names, or NoSymbol
    QueueSize,     \* maxsize of the queue of events
    MaxLogs,       \* bound on the lines one run of the agents logs
    TTL,           \* CACHE_TTL_HOURS
    MaxTime        \* bound on the clock

\* The agents log a few lines per iteration, source, article and video: some
\* hundreds, where the queue holds 2000.
ASSUME DecisionAssumption ==
    /\ Direct \subseteq Requests /\ Forced \subseteq Requests
    /\ NoSymbol \notin Symbols
    /\ AskedSymbol \in [Requests -> Symbols \cup {NoSymbol}]
    /\ {QueueSize, MaxLogs, TTL, MaxTime} \subseteq Nat
    /\ MaxLogs + 2 <= QueueSize

VARIABLES
    now,        \* the clock of the server
    rows,       \* the table analysis_cache
    stage,      \* how far each request's handler and stream are
    symbol,     \* resolved_symbol
    task,       \* the task of a stream, or the workflow a handler awaits
    logged,     \* how many lines the agents of a request have logged
    queue,      \* events put and not yet taken
    sent,       \* what the client was sent, the log lines left out
    answered,   \* requests whose agents have answered
    unsaved     \* requests whose answer could not be saved

shared == <<now, rows>>
vars == <<now, rows, stage, symbol, task, logged, queue, sent, answered, unsaved>>

Streams == Requests \ Direct
Log == "log"
Result == "result"
Error == "error"
End == "end"
TimedOut == "timeout"       \* the error event of the generator's own
Hit == "hit"                \* a result from the cache

Init ==
    /\ now = 0 /\ rows = {}
    /\ stage = [r \in Requests |-> "idle"]
    /\ symbol = AskedSymbol
    /\ task = [r \in Requests |-> "none"]
    /\ logged = [r \in Requests |-> 0]
    /\ queue = [r \in Requests |-> <<>>]
    /\ sent = [r \in Requests |-> <<>>]
    /\ answered = {} /\ unsaved = {}

-----------------------------------------------------------------------------
(* The cache.                                                              *)

\* find_valid: whether a row of the symbol has not expired.
Cached(x) == \E w \in rows : w.symbol = x /\ w.created + TTL > now

\* save: always a row of its own.
Row(r) == [symbol |-> symbol[r], by |-> r, created |-> now]

-----------------------------------------------------------------------------
(* The handlers.                                                           *)

Closed(r, events) ==
    /\ stage' = [stage EXCEPT ![r] = "closed"]
    /\ sent' = [sent EXCEPT ![r] = @ \o events]

\* Nothing valid was found, or nothing was looked up: the agents are started.
Start(r, next) ==
    /\ stage' = [stage EXCEPT ![r] = next]
    /\ task' = [task EXCEPT ![r] = "running"]
    /\ UNCHANGED <<shared, logged, queue, sent, answered, unsaved>>

Refused(r) ==
    /\ Closed(r, <<>>)
    /\ UNCHANGED <<shared, symbol, task, logged, queue, answered, unsaved>>

\* POST /decision up to its await: 422 without a symbol, or the look-up.
AskDirect(r) ==
    /\ r \in Direct /\ stage[r] = "idle"
    /\ \/ /\ symbol[r] = NoSymbol
          /\ Refused(r)
       \/ /\ symbol[r] # NoSymbol /\ r \notin Forced /\ Cached(symbol[r])
          /\ Closed(r, <<Hit>>)
          /\ UNCHANGED <<shared, symbol, task, logged, queue, answered, unsaved>>
       \/ /\ symbol[r] # NoSymbol
          /\ r \in Forced \/ ~Cached(symbol[r])
          /\ Start(r, "working")
          /\ UNCHANGED symbol

\* The agents have answered: the answer is saved and returned.  A save that
\* fails raises, and the answer is lost with the response.
DirectAnswered(r) ==
    /\ stage[r] = "working"
    /\ task' = [task EXCEPT ![r] = "ended"]
    /\ answered' = answered \cup {r}
    /\ \/ /\ rows' = rows \cup {Row(r)}
          /\ Closed(r, <<Result>>)
          /\ UNCHANGED unsaved
       \/ /\ unsaved' = unsaved \cup {r}
          /\ Closed(r, <<>>)
          /\ UNCHANGED rows
    /\ UNCHANGED <<now, symbol, logged, queue>>

DirectFails(r) ==
    /\ stage[r] = "working"
    /\ task' = [task EXCEPT ![r] = "ended"]
    /\ Closed(r, <<>>)
    /\ UNCHANGED <<shared, symbol, logged, queue, answered, unsaved>>

\* What a stream does once its symbol is settled.
Settled(r, x) ==
    IF x # NoSymbol /\ r \notin Forced
    THEN /\ stage' = [stage EXCEPT ![r] = "looking"]
         /\ UNCHANGED <<shared, task, logged, queue, sent, answered, unsaved>>
    ELSE Start(r, "reading")

\* POST /decision/stream up to its first await.
AskStream(r) ==
    /\ r \in Streams /\ stage[r] = "idle"
    /\ IF symbol[r] = NoSymbol
         THEN /\ stage' = [stage EXCEPT ![r] = "resolving"]
              /\ UNCHANGED <<shared, task, logged, queue, sent, answered, unsaved>>
         ELSE Settled(r, symbol[r])
    /\ UNCHANGED symbol

\* The query parser names a company and the stocks table its symbol, or either
\* fails: then there is none.
Resolve(r) ==
    /\ stage[r] = "resolving"
    /\ \E x \in Symbols \cup {NoSymbol} :
          /\ symbol' = [symbol EXCEPT ![r] = x]
          /\ Settled(r, x)

\* The thread has looked the symbol up: a cached answer is the whole stream.
LookUp(r) ==
    /\ stage[r] = "looking"
    /\ IF Cached(symbol[r])
         THEN /\ Closed(r, <<Hit, End>>)
              /\ UNCHANGED <<shared, task, logged, queue, answered, unsaved>>
         ELSE Start(r, "reading")
    /\ UNCHANGED symbol

LookUpFails(r) == stage[r] = "looking" /\ Refused(r)

-----------------------------------------------------------------------------
(* The task of a stream, _run_workflow.                                    *)

\* Mutant: a queue that takes one event.
PutIntoOne(r, event) ==
    Len(queue[r]) < 1 /\ queue' = [queue EXCEPT ![r] = Append(@, event)]
\* q.put waits while the queue is full, whoever reads it.
Put(r, event) ==
    Len(queue[r]) < QueueSize /\ queue' = [queue EXCEPT ![r] = Append(@, event)]

TaskGoesOn(r, next) ==
    /\ task' = [task EXCEPT ![r] = next]
    /\ UNCHANGED <<now, stage, symbol, sent>>

AgentsLog(r) ==
    /\ r \in Streams /\ task[r] = "running" /\ logged[r] < MaxLogs
    /\ Put(r, Log)
    /\ logged' = [logged EXCEPT ![r] = @ + 1]
    /\ UNCHANGED <<shared, stage, symbol, task, sent, answered, unsaved>>

\* Mutant: the answer is saved after the end of the stream.
AgentsAnswerAndEnd(r) ==
    /\ r \in Streams /\ task[r] = "running"
    /\ Len(queue[r]) < QueueSize - 1
    /\ queue' = [queue EXCEPT ![r] = @ \o <<Result, End>>]
    /\ answered' = answered \cup {r}
    /\ TaskGoesOn(r, IF symbol[r] = NoSymbol THEN "ended" ELSE "saving")
    /\ UNCHANGED <<rows, logged, unsaved>>
\* The result is put before the answer is saved.
AgentsAnswer(r) ==
    /\ r \in Streams /\ task[r] = "running"
    /\ Put(r, Result)
    /\ answered' = answered \cup {r}
    /\ TaskGoesOn(r, IF symbol[r] = NoSymbol THEN "closing" ELSE "saving")
    /\ UNCHANGED <<rows, logged, unsaved>>

AgentsFail(r) ==
    /\ r \in Streams /\ task[r] = "running"
    /\ Put(r, Error)
    /\ TaskGoesOn(r, "closing")
    /\ UNCHANGED <<rows, logged, answered, unsaved>>

\* A worker thread saves the answer.
Save(r) ==
    /\ r \in Streams /\ task[r] = "saving"
    /\ rows' = rows \cup {Row(r)}
    /\ TaskGoesOn(r, "closing")
    /\ UNCHANGED <<logged, queue, answered, unsaved>>

\* Mutant: the failure of the save reaches the handler of the workflow's own.
SaveFailsLoudly(r) ==
    /\ r \in Streams /\ task[r] = "saving"
    /\ unsaved' = unsaved \cup {r}
    /\ Put(r, Error)
    /\ TaskGoesOn(r, "closing")
    /\ UNCHANGED <<rows, logged, answered>>
\* The thread's exception is dropped.
SaveFails(r) ==
    /\ r \in Streams /\ task[r] = "saving"
    /\ unsaved' = unsaved \cup {r}
    /\ TaskGoesOn(r, "closing")
    /\ UNCHANGED <<rows, logged, queue, answered>>

\* "finally"
PutEnd(r) ==
    /\ task[r] = "closing"
    /\ Put(r, End)
    /\ TaskGoesOn(r, "ended")
    /\ UNCHANGED <<rows, logged, answered, unsaved>>

TaskStep(r) ==
    \/ AgentsLog(r) \/ AgentsAnswer(r) \/ AgentsFail(r)
    \/ Save(r) \/ SaveFails(r) \/ PutEnd(r)

-----------------------------------------------------------------------------
(* The generator of a stream and its client.                               *)

GeneratorGoesOn == UNCHANGED <<shared, symbol, task, logged, answered, unsaved>>

Deliver(r) ==
    /\ stage[r] = "reading" /\ queue[r] # <<>>
    /\ LET event == Head(queue[r]) IN
         /\ queue' = [queue EXCEPT ![r] = Tail(@)]
         /\ IF event \in {End, Error}
              THEN Closed(r, <<event>>)
              ELSE /\ sent' = [sent EXCEPT ![r] = IF event = Log THEN @ ELSE Append(@, event)]
                   /\ UNCHANGED stage
    /\ GeneratorGoesOn

\* 120 seconds without an event.  A task that is closing does not wait: its
\* put finds room.
TimeOut(r) ==
    /\ stage[r] = "reading" /\ queue[r] = <<>>
    /\ task[r] \in {"running", "saving"}
    /\ Closed(r, <<TimedOut>>)
    /\ UNCHANGED queue
    /\ GeneratorGoesOn

\* The client closes the connection; only the generator notices.
Leave(r) ==
    /\ stage[r] = "reading"
    /\ stage' = [stage EXCEPT ![r] = "left"]
    /\ UNCHANGED <<queue, sent>>
    /\ GeneratorGoesOn

Tick ==
    /\ now < MaxTime
    /\ now' = now + 1
    /\ UNCHANGED <<rows, stage, symbol, task, logged, queue, sent, answered, unsaved>>

\* A step of the server for the client of a request.
ServerStep(r) ==
    \/ DirectAnswered(r) \/ DirectFails(r)
    \/ Resolve(r) \/ LookUp(r) \/ LookUpFails(r)
    \/ Deliver(r)

Next ==
    \/ \E r \in Requests :
          \/ AskDirect(r) \/ AskStream(r) \/ ServerStep(r) \/ TaskStep(r)
          \/ TimeOut(r) \/ Leave(r)
    \/ Tick

\* The agents end (WorkflowEnds of InvestmentWorkflow), the threads return, and
\* the loop goes on as long as anything is ready.  No client has to ask, to stay
\* or to leave.
Spec ==
    /\ Init /\ [][Next]_vars
    /\ WF_vars(\E r \in Requests : ServerStep(r) \/ TaskStep(r))

-----------------------------------------------------------------------------
(* Properties.                                                             *)

SavedBy(r) == \E w \in rows : w.by = r

\* A client that was told the end, or whose task is over, can count on the
\* cache: the answer its agents gave is there, whatever happened to the stream
\* meanwhile, unless its saving failed.  In particular a late answer is kept
\* (BL-BE-76: "completed, then saved by symbol"; investment_router.py 195-214).
AnswerIsKept ==
    \A r \in answered :
        /\ task[r] = "ended" \/ (stage[r] = "closed" /\ Last(sent[r]) = End)
        /\ symbol[r] # NoSymbol
        => SavedBy(r) \/ r \in unsaved

\* One outcome per request: an error or time-out closes the stream and nothing
\* follows it, a failed save is no error, and a time-out after the result needs
\* an answer that is still being saved (investment_router.py 195-233).
OneOutcome ==
    \A r \in Requests :
        /\ sent[r] \in {<<>>, <<Result>>, <<Hit>>, <<Error>>, <<TimedOut>>,
                        <<Result, End>>, <<Hit, End>>, <<Result, TimedOut>>}
        /\ r \in Streams /\ stage[r] = "reading" => sent[r] \in {<<>>, <<Result>>}
        /\ sent[r] = <<Result, TimedOut>> => symbol[r] # NoSymbol

\* Neither a client that left nor one that was timed out stops the agents or
\* their task, and nobody waits for ever: the queue has room for all that a run
\* puts on it when nobody takes anything off (investment_router.py 188, 217).
TaskOutlivesClient ==
    <>[](\A r \in Requests :
            /\ task[r] \in {"none", "ended"}
            /\ stage[r] \in {"idle", "closed", "left"})
=============================================================================
