---------------------- MODULE InvestmentDecision_proofs ----------------------
(***************************************************************************)
(* What TLAPS proves about InvestmentDecision, for any requests, symbols,  *)
(* queue size and expiry: an answer the agents gave is kept, and a client  *)
(* gets one outcome.                                                       *)
(***************************************************************************)
EXTENDS InvestmentDecision, SequenceTheorems, TLAPS

Stages == {"idle", "resolving", "looking", "working", "reading", "closed", "left"}
Tasks == {"none", "running", "saving", "closing", "ended"}
Outcomes == {<<>>, <<Result>>, <<Hit>>, <<Error>>, <<TimedOut>>,
             <<Result, End>>, <<Hit, End>>, <<Result, TimedOut>>}

TypeOK ==
    /\ stage \in [Requests -> Stages]
    /\ symbol \in [Requests -> Symbols \cup {NoSymbol}]
    /\ task \in [Requests -> Tasks]
    /\ queue \in [Requests -> Seq({Log, Result, Error, End})]
    /\ sent \in [Requests -> Outcomes]
    /\ answered \subseteq Requests /\ unsaved \subseteq Requests

\* The queue holds lines of the log and after them the events outs.
Trails(q, outs) ==
    /\ Len(outs) <= Len(q)
    /\ \A n \in 1 .. Len(q) - Len(outs) : q[n] = Log
    /\ \A n \in 1 .. Len(outs) : q[Len(q) - Len(outs) + n] = outs[n]

\* What a task has told, by what the client has of it and what is still queued.
Telling(r, outs) ==
    CASE task[r] = "running" -> sent[r] = <<>> /\ outs = <<>>
      [] task[r] = "saving" ->
            \/ sent[r] = <<>> /\ outs = <<Result>>
            \/ sent[r] = <<Result>> /\ outs = <<>>
      [] task[r] = "closing" ->
            \/ sent[r] = <<>> /\ outs = <<Result>>
            \/ sent[r] = <<Result>> /\ outs = <<>>
            \/ sent[r] = <<>> /\ outs = <<Error>>
      [] task[r] = "ended" ->
            \/ sent[r] = <<>> /\ outs = <<Result, End>>
            \/ sent[r] = <<Result>> /\ outs = <<End>>
            \/ sent[r] = <<>> /\ outs = <<Error, End>>
      [] OTHER -> FALSE

Untouched(r) ==
    /\ stage[r] \in {"idle", "resolving", "looking"} =>
          task[r] = "none" /\ queue[r] = <<>> /\ sent[r] = <<>>
    /\ stage[r] \in {"resolving", "looking"} => r \in Streams
Working(r) ==
    stage[r] = "working" => r \in Direct /\ task[r] = "running" /\ sent[r] = <<>>
Reading(r) ==
    stage[r] = "reading" =>
        /\ r \in Streams
        /\ \E outs \in Seq({Result, Error, End}) :
              Trails(queue[r], outs) /\ Telling(r, outs)
Closing(r) ==
    stage[r] = "closed" =>
        /\ sent[r] = <<Result, End>> => task[r] = "ended"
        /\ sent[r] = <<>> => task[r] \in {"none", "ended"}
        /\ sent[r] \in {<<Hit>>, <<Hit, End>>} => task[r] = "none"
Answering(r) ==
    /\ task[r] \in {"none", "running"} => r \notin answered
    /\ task[r] = "saving" => symbol[r] # NoSymbol
    /\ r \in answered /\ task[r] \in {"closing", "ended"} /\ symbol[r] # NoSymbol
       => SavedBy(r) \/ r \in unsaved
    /\ sent[r] = <<Result, TimedOut>> => symbol[r] # NoSymbol

RequestInv(r) ==
    Untouched(r) /\ Working(r) /\ Reading(r) /\ Closing(r) /\ Answering(r)

IInv == TypeOK /\ \A r \in Requests : RequestInv(r)

\* What no step of another request changes of a request.
Frame(o) ==
    /\ stage'[o] = stage[o] /\ symbol'[o] = symbol[o] /\ task'[o] = task[o]
    /\ queue'[o] = queue[o] /\ sent'[o] = sent[o]
    /\ o \in answered' <=> o \in answered
    /\ unsaved \subseteq unsaved' /\ rows \subseteq rows'

-----------------------------------------------------------------------------
(* Sequences of events.                                                    *)

QueueEvents == {Log, Result, Error, End}

LEMMA Words ==
    ASSUME NEW e, NEW f
    PROVE  /\ <<>> \o <<e>> = <<e>> /\ <<e>> \o <<f>> = <<e, f>>
           /\ <<>> \o <<e, f>> = <<e, f>>
           /\ Append(<<>>, e) = <<e>> /\ Append(<<e>>, f) = <<e, f>>
<1>. DEFINE S == {e, f}
<1>1. /\ <<>> \in Seq(S) /\ <<e>> \in Seq(S) /\ <<f>> \in Seq(S) /\ <<e, f>> \in Seq(S)
  OBVIOUS
<1>2. /\ <<>> \o <<e>> = <<e>> /\ <<>> \o <<e, f>> = <<e, f>>
  BY <1>1, ConcatEmptySeq
<1>3. <<e>> \o <<f>> = <<e, f>>
  <2>. DEFINE s == <<e>> \o <<f>>
              t == <<e, f>>
  <2>1. s \in Seq(S) /\ Len(s) = 2 /\ s[1] = e /\ s[2] = f
    BY <1>1, ConcatProperties
  <2>2. t \in Seq(S) /\ Len(t) = 2 /\ t[1] = e /\ t[2] = f
    BY <1>1
  <2>. HIDE DEF s, t, S
  <2>3. \A n \in 1 .. Len(s) : s[n] = t[n]
    BY <2>1, <2>2
  <2>4. s = t
    BY <2>1, <2>2, <2>3, SeqEqual
  <2>. QED BY <2>4 DEF s, t
<1>4. Append(<<>>, e) = <<e>>
  OBVIOUS
<1>5. Append(<<e>>, f) = <<e>> \o <<f>>
  BY <1>1, AppendIsConcat
<1>. QED BY <1>2, <1>3, <1>4, <1>5

LEMMA Taken ==
    ASSUME NEW e, NEW f
    PROVE  /\ Head(<<e>>) = e /\ Head(<<e, f>>) = e
           /\ Tail(<<e>>) = <<>> /\ Tail(<<e, f>>) = <<f>>
  OBVIOUS

LEMMA TrailsPut ==
    ASSUME NEW q \in Seq(QueueEvents), NEW outs \in Seq(QueueEvents), Trails(q, outs),
           NEW e \in QueueEvents
    PROVE  Trails(Append(q, e), Append(outs, e))
<1>. DEFINE p == Append(q, e)
            u == Append(outs, e)
<1>1. /\ Len(q) \in Nat /\ Len(outs) \in Nat /\ Len(outs) <= Len(q)
      /\ Len(p) = Len(q) + 1 /\ Len(u) = Len(outs) + 1
      /\ \A n \in 1 .. Len(q) : p[n] = q[n]
      /\ \A n \in 1 .. Len(outs) : u[n] = outs[n]
      /\ p[Len(q) + 1] = e /\ u[Len(outs) + 1] = e
  BY AppendProperties, LenProperties DEF Trails
<1>. HIDE DEF p, u
<1>2. Len(p) - Len(u) = Len(q) - Len(outs) /\ Len(u) <= Len(p)
  BY <1>1
<1>3. ASSUME NEW n \in 1 .. Len(p) - Len(u) PROVE p[n] = Log
  <2>1. n \in 1 .. Len(q) - Len(outs) /\ n \in 1 .. Len(q)
    BY <1>1, <1>2
  <2>. QED BY <1>1, <2>1 DEF Trails
<1>4. ASSUME NEW n \in 1 .. Len(u) PROVE p[Len(p) - Len(u) + n] = u[n]
  <2>1. CASE n \in 1 .. Len(outs)
    <3>1. /\ Len(p) - Len(u) + n = Len(q) - Len(outs) + n
          /\ Len(q) - Len(outs) + n \in 1 .. Len(q)
      BY <1>1, <2>1
    <3>. QED BY <1>1, <2>1, <3>1 DEF Trails
  <2>2. CASE n = Len(outs) + 1
    <3>1. Len(p) - Len(u) + n = Len(q) + 1
      BY <1>1, <2>2
    <3>. QED BY <1>1, <2>2, <3>1
  <2>. QED BY <1>1, <2>1, <2>2
<1>. QED BY <1>2, <1>3, <1>4 DEF Trails, p, u

LEMMA TrailsLog ==
    ASSUME NEW q \in Seq(QueueEvents), Trails(q, <<>>)
    PROVE  Trails(Append(q, Log), <<>>)
<1>. DEFINE p == Append(q, Log)
<1>1. /\ Len(q) \in Nat /\ Len(p) = Len(q) + 1 /\ p[Len(q) + 1] = Log
      /\ \A n \in 1 .. Len(q) : p[n] = q[n]
  BY AppendProperties, LenProperties DEF QueueEvents
<1>2. \A n \in 1 .. Len(q) : q[n] = Log
  BY <1>1 DEF Trails
<1>. HIDE DEF p
<1>3. ASSUME NEW n \in 1 .. Len(p) PROVE p[n] = Log
  BY <1>1, <1>2
<1>4. Trails(p, <<>>)
  BY <1>1, <1>3 DEF Trails
<1>. QED BY <1>4 DEF p

LEMMA TrailsTake ==
    ASSUME NEW q \in Seq(QueueEvents), NEW outs \in Seq(QueueEvents \ {Log}),
           Trails(q, outs), q # <<>>
    PROVE  \/ Head(q) = Log /\ Trails(Tail(q), outs)
           \/ outs # <<>> /\ Head(q) = Head(outs) /\ Trails(Tail(q), Tail(outs))
<1>1. /\ Len(q) \in Nat \ {0} /\ Len(outs) \in Nat /\ Len(outs) <= Len(q)
      /\ Head(q) = q[1] /\ Len(Tail(q)) = Len(q) - 1
      /\ \A n \in 1 .. Len(q) - 1 : Tail(q)[n] = q[n + 1]
  BY HeadTailProperties, EmptySeq, LenProperties DEF Trails
<1>2. CASE Len(outs) < Len(q)
  <2>1. Head(q) = Log
    BY <1>1, <1>2 DEF Trails
  <2>2. ASSUME NEW n \in 1 .. Len(Tail(q)) - Len(outs) PROVE Tail(q)[n] = Log
    <3>1. n \in 1 .. Len(q) - 1 /\ n + 1 \in 1 .. Len(q) - Len(outs)
      BY <1>1, <1>2
    <3>. QED BY <1>1, <3>1 DEF Trails
  <2>3. ASSUME NEW n \in 1 .. Len(outs)
        PROVE  Tail(q)[Len(Tail(q)) - Len(outs) + n] = outs[n]
    <3>1. /\ Len(q) - 1 - Len(outs) + n \in 1 .. Len(q) - 1
          /\ (Len(q) - 1 - Len(outs) + n) + 1 = Len(q) - Len(outs) + n
      BY <1>1, <1>2
    <3>2. q[Len(q) - Len(outs) + n] = outs[n]
      BY DEF Trails
    <3>. QED BY <1>1, <3>1, <3>2
  <2>4. Len(outs) <= Len(Tail(q))
    BY <1>1, <1>2
  <2>. QED BY <2>1, <2>2, <2>3, <2>4 DEF Trails
<1>3. CASE Len(outs) = Len(q)
  <2>1. /\ outs # <<>> /\ Head(outs) = outs[1] /\ Len(Tail(outs)) = Len(outs) - 1
        /\ \A n \in 1 .. Len(outs) - 1 : Tail(outs)[n] = outs[n + 1]
    BY <1>1, <1>3, HeadTailProperties, EmptySeq
  <2>2. \A n \in 1 .. Len(outs) : q[n] = outs[n]
    BY <1>1, <1>3 DEF Trails
  <2>3. \A n \in 1 .. Len(q) - 1 : Tail(q)[n] = Tail(outs)[n]
    BY <1>1, <1>3, <2>1, <2>2
  <2>4. Head(q) = Head(outs)
    BY <1>1, <1>3, <2>1, <2>2
  <2>5. Trails(Tail(q), Tail(outs))
    BY <1>1, <1>3, <2>1, <2>3 DEF Trails
  <2>. QED BY <2>1, <2>4, <2>5
<1>. QED BY <1>1, <1>2, <1>3

-----------------------------------------------------------------------------
(* A step leaves every other request as it was.                            *)

LEMMA SavedStays ==
    ASSUME rows \subseteq rows', NEW r PROVE SavedBy(r) => SavedBy(r)'
  BY DEF SavedBy

LEMMA SaveSaves ==
    ASSUME NEW r, rows' = rows \cup {Row(r)} PROVE SavedBy(r)'
<1>1. Row(r) \in rows' /\ Row(r).by = r
  BY DEF Row
<1>. QED BY <1>1 DEF SavedBy

LEMMA OthersKeep ==
    ASSUME NEW o \in Requests, RequestInv(o), Frame(o)
    PROVE  RequestInv(o)'
<1>1. SavedBy(o) => SavedBy(o)'
  BY SavedStays DEF Frame
<1>2. Untouched(o)' /\ Working(o)' /\ Closing(o)'
  BY DEF Frame, RequestInv, Untouched, Working, Closing
<1>3. ASSUME NEW outs PROVE Telling(o, outs) => Telling(o, outs)'
  BY DEF Frame, Telling
<1>4. Reading(o)'
  BY <1>3 DEF Frame, RequestInv, Reading
<1>5. Answering(o)'
  BY <1>1 DEF Frame, RequestInv, Answering
<1>. QED BY <1>2, <1>4, <1>5 DEF RequestInv

LEMMA HandlerFrame ==
    ASSUME TypeOK, NEW r \in Requests,
           \/ AskDirect(r) \/ AskStream(r) \/ DirectAnswered(r) \/ DirectFails(r)
           \/ Resolve(r) \/ LookUp(r) \/ LookUpFails(r)
    PROVE  \A o \in Requests \ {r} : Frame(o)
<1>1. CASE AskDirect(r)
  BY <1>1 DEF AskDirect, Refused, Closed, Start, shared, TypeOK, Frame
<1>2. CASE AskStream(r)
  BY <1>2 DEF AskStream, Settled, Start, shared, TypeOK, Frame
<1>3. CASE DirectAnswered(r)
  BY <1>3 DEF DirectAnswered, Closed, TypeOK, Frame
<1>4. CASE DirectFails(r)
  BY <1>4 DEF DirectFails, Closed, shared, TypeOK, Frame
<1>5. CASE Resolve(r)
  BY <1>5 DEF Resolve, Settled, Start, shared, TypeOK, Frame
<1>6. CASE LookUp(r)
  BY <1>6 DEF LookUp, Closed, Start, shared, TypeOK, Frame
<1>7. CASE LookUpFails(r)
  BY <1>7 DEF LookUpFails, Refused, Closed, shared, TypeOK, Frame
<1>. QED BY <1>1, <1>2, <1>3, <1>4, <1>5, <1>6, <1>7

LEMMA StreamFrame ==
    ASSUME TypeOK, NEW r \in Requests,
           TaskStep(r) \/ Deliver(r) \/ TimeOut(r) \/ Leave(r)
    PROVE  \A o \in Requests \ {r} : Frame(o)
<1>1. CASE AgentsLog(r)
  BY <1>1 DEF AgentsLog, Put, shared, TypeOK, Frame
<1>2. CASE AgentsAnswer(r) \/ AgentsFail(r) \/ PutEnd(r)
  BY <1>2 DEF AgentsAnswer, AgentsFail, PutEnd, Put, TaskGoesOn, shared, TypeOK, Frame
<1>3. CASE Save(r) \/ SaveFails(r)
  BY <1>3 DEF Save, SaveFails, TaskGoesOn, shared, TypeOK, Frame
<1>4. CASE Deliver(r)
  BY <1>4 DEF Deliver, GeneratorGoesOn, Closed, shared, TypeOK, Frame
<1>5. CASE TimeOut(r) \/ Leave(r)
  BY <1>5 DEF TimeOut, Leave, GeneratorGoesOn, Closed, shared, TypeOK, Frame
<1>. QED BY <1>1, <1>2, <1>3, <1>4, <1>5 DEF TaskStep

-----------------------------------------------------------------------------
(* What the step of a request does to it: the handlers.                    *)

LEMMA Told ==
    /\ Result # Error /\ Result # End /\ Error # End /\ Log # Result /\ Log # Error
    /\ Log # End /\ Hit # Result /\ Hit # Error /\ Hit # TimedOut /\ TimedOut # Result
    /\ TimedOut # Error /\ TimedOut # End /\ Hit # End
    /\ \A s \in {<<Result>>, <<Error>>, <<TimedOut>>, <<Hit>>} : Len(s) = 1 /\ s[1] # End
    /\ \A s \in {<<Result, End>>, <<Hit, End>>, <<Result, TimedOut>>} : Len(s) = 2
    /\ <<Result, End>>[1] = Result /\ <<Hit, End>>[1] = Hit
    /\ <<Result, End>>[2] = End /\ <<Result, TimedOut>>[2] = TimedOut
    /\ Len(<<>>) = 0
    /\ <<Result>>[1] = Result /\ <<Error>>[1] = Error /\ <<Hit>>[1] = Hit
    /\ <<TimedOut>>[1] = TimedOut /\ <<Result, TimedOut>>[1] = Result
  BY DEF Log, Result, Error, End, TimedOut, Hit

\* A request whose agents are started.
LEMMA Starts ==
    ASSUME TypeOK, NEW r \in Requests, RequestInv(r),
           stage[r] \in {"idle", "resolving", "looking"},
           NEW next \in {"working", "reading"}, Start(r, next),
           next = "working" <=> r \in Direct,
           symbol' \in [Requests -> Symbols \cup {NoSymbol}]
    PROVE  TypeOK' /\ RequestInv(r)'
<1>1. /\ stage'[r] = next /\ task'[r] = "running" /\ queue'[r] = <<>> /\ sent'[r] = <<>>
      /\ r \notin answered'
  BY DEF Start, TypeOK, RequestInv, Untouched, Answering
<1>2. TypeOK'
  BY DEF Start, TypeOK, Stages, Tasks, shared
<1>3. <<>> \in Seq({Result, Error, End}) /\ Trails(<<>>, <<>>)
  BY DEF Trails
<1>4. Telling(r, <<>>)'
  BY <1>1 DEF Telling
<1>5. Reading(r)'
  BY <1>1, <1>3, <1>4 DEF Reading, Streams
<1>6. Untouched(r)' /\ Working(r)' /\ Closing(r)'
  BY <1>1 DEF Untouched, Working, Closing
<1>7. Answering(r)'
  BY <1>1, Told DEF Answering
<1>. QED BY <1>2, <1>5, <1>6, <1>7 DEF RequestInv

\* A request that ends where it stands, with no task or a finished one.
LEMMA Refuses ==
    ASSUME TypeOK, NEW r \in Requests,
           NEW s \in {<<>>, <<Hit>>, <<Hit, End>>, <<Result>>},
           stage' = [stage EXCEPT ![r] = "closed"], sent' = [sent EXCEPT ![r] = s],
           task' \in [Requests -> Tasks], task'[r] \in {"none", "ended"},
           s \in {<<Hit>>, <<Hit, End>>} => task'[r] = "none",
           symbol' \in [Requests -> Symbols \cup {NoSymbol}], queue' = queue,
           answered' \subseteq Requests, unsaved' \subseteq Requests,
           task'[r] = "none" => r \notin answered',
           r \in answered' => SavedBy(r)' \/ r \in unsaved'
    PROVE  TypeOK' /\ RequestInv(r)'
<1>1. stage'[r] = "closed" /\ sent'[r] = s /\ s \in Outcomes
  BY DEF TypeOK, Outcomes
<1>2. TypeOK'
  BY <1>1 DEF TypeOK, Stages
<1>3. s # <<Result, End>> /\ s # <<Result, TimedOut>>
  BY Told
<1>4. Untouched(r)' /\ Working(r)' /\ Reading(r)' /\ Closing(r)'
  BY <1>1, <1>3 DEF Untouched, Working, Reading, Closing
<1>5. Answering(r)'
  BY <1>1, <1>3 DEF Answering
<1>. QED BY <1>2, <1>4, <1>5 DEF RequestInv

LEMMA DirectKeeps ==
    ASSUME TypeOK, NEW r \in Requests, RequestInv(r),
           AskDirect(r) \/ DirectAnswered(r) \/ DirectFails(r)
    PROVE  TypeOK' /\ RequestInv(r)'
<1>1. CASE AskDirect(r)
  <2>1. /\ stage[r] = "idle" /\ r \in Direct /\ task[r] = "none" /\ sent[r] = <<>>
        /\ r \notin answered
    BY <1>1 DEF AskDirect, RequestInv, Untouched, Answering
  <2>2. CASE Start(r, "working") /\ symbol' = symbol
    BY <2>1, <2>2, Starts DEF TypeOK
  <2>3. ASSUME NEW s \in {<<>>, <<Hit>>}, Closed(r, s),
               UNCHANGED <<shared, symbol, task, logged, queue, answered, unsaved>>
        PROVE  TypeOK' /\ RequestInv(r)'
    <3>1. sent' = [sent EXCEPT ![r] = s]
      BY <2>1, <2>3, Words DEF Closed, TypeOK
    <3>. QED BY <2>1, <2>3, <3>1, Refuses DEF Closed, TypeOK
  <2>. QED BY <1>1, <2>2, <2>3 DEF AskDirect, Refused
<1>2. CASE DirectAnswered(r)
  <2>1. /\ sent[r] = <<>> /\ task'[r] = "ended" /\ task' \in [Requests -> Tasks]
        /\ answered' \subseteq Requests /\ unsaved' \subseteq Requests
        /\ queue' = queue /\ symbol' = symbol
    BY <1>2 DEF DirectAnswered, RequestInv, Working, TypeOK, Tasks
  <2>2. PICK s \in {<<>>, <<Result>>} :
           /\ Closed(r, s)
           /\ SavedBy(r)' \/ r \in unsaved'
    BY <1>2, SaveSaves DEF DirectAnswered
  <2>3. sent' = [sent EXCEPT ![r] = s]
    BY <2>1, <2>2, Words DEF Closed, TypeOK
  <2>4. s # <<Hit>> /\ s # <<Hit, End>>
    BY Told
  <2>. QED BY <2>1, <2>2, <2>3, <2>4, Refuses DEF Closed, TypeOK
<1>3. CASE DirectFails(r)
  <2>1. /\ sent[r] = <<>> /\ task'[r] = "ended" /\ task' \in [Requests -> Tasks]
        /\ answered' = answered /\ unsaved' = unsaved /\ r \notin answered
        /\ queue' = queue /\ symbol' = symbol /\ Closed(r, <<>>)
    BY <1>3 DEF DirectFails, RequestInv, Working, Answering, TypeOK, Tasks
  <2>2. sent' = [sent EXCEPT ![r] = <<>>]
    BY <2>1 DEF Closed, TypeOK
  <2>3. <<>> # <<Hit>> /\ <<>> # <<Hit, End>>
    BY Told
  <2>. QED BY <2>1, <2>2, <2>3, Refuses DEF Closed, TypeOK
<1>. QED BY <1>1, <1>2, <1>3

LEMMA StreamBegins ==
    ASSUME TypeOK, NEW r \in Requests, RequestInv(r),
           AskStream(r) \/ Resolve(r) \/ LookUp(r) \/ LookUpFails(r),
           r \in Streams
    PROVE  TypeOK' /\ RequestInv(r)'
<1>1. /\ stage[r] \in {"idle", "resolving", "looking"} /\ r \notin Direct
      /\ task[r] = "none" /\ sent[r] = <<>> /\ queue[r] = <<>> /\ r \notin answered
  BY DEF AskStream, Resolve, LookUp, LookUpFails, RequestInv, Untouched, Answering, Streams
<1>2. ASSUME NEW next \in {"resolving", "looking"},
             stage' = [stage EXCEPT ![r] = next],
             UNCHANGED <<shared, task, logged, queue, sent, answered, unsaved>>,
             symbol' \in [Requests -> Symbols \cup {NoSymbol}]
      PROVE  TypeOK' /\ RequestInv(r)'
  <2>1. TypeOK' /\ stage'[r] = next
    BY <1>2 DEF TypeOK, Stages
  <2>2. Untouched(r)' /\ Working(r)' /\ Reading(r)' /\ Closing(r)'
    BY <1>1, <1>2, <2>1 DEF Untouched, Working, Reading, Closing
  <2>3. Answering(r)'
    BY <1>1, <1>2, Told DEF Answering
  <2>. QED BY <2>1, <2>2, <2>3 DEF RequestInv
<1>3. ASSUME NEW x, Settled(r, x), symbol' \in [Requests -> Symbols \cup {NoSymbol}]
      PROVE  TypeOK' /\ RequestInv(r)'
  BY <1>1, <1>2, <1>3, Starts DEF Settled
<1>4. ASSUME NEW s \in {<<>>, <<Hit, End>>}, Closed(r, s),
             UNCHANGED <<shared, symbol, task, logged, queue, answered, unsaved>>
      PROVE  TypeOK' /\ RequestInv(r)'
  <2>1. sent' = [sent EXCEPT ![r] = s]
    BY <1>1, <1>4, Words DEF Closed, TypeOK
  <2>. QED BY <1>1, <1>4, <2>1, Refuses DEF Closed, TypeOK
<1>5. CASE AskStream(r)
  BY <1>2, <1>3, <1>5 DEF AskStream, TypeOK
<1>6. CASE Resolve(r)
  <2>1. PICK x \in Symbols \cup {NoSymbol} :
           symbol' = [symbol EXCEPT ![r] = x] /\ Settled(r, x)
    BY <1>6 DEF Resolve
  <2>2. symbol' \in [Requests -> Symbols \cup {NoSymbol}]
    BY <2>1 DEF TypeOK
  <2>. QED BY <1>3, <2>1, <2>2
<1>7. CASE LookUp(r)
  <2>1. symbol' \in [Requests -> Symbols \cup {NoSymbol}]
    BY <1>7 DEF LookUp, TypeOK
  <2>. QED BY <1>1, <1>4, <1>7, <2>1, Starts DEF LookUp
<1>8. CASE LookUpFails(r)
  BY <1>4, <1>8 DEF LookUpFails, Refused
<1>. QED BY <1>5, <1>6, <1>7, <1>8

-----------------------------------------------------------------------------
(* What the step of a request does to it: the task and the generator.      *)

\* Where a task that is not over finds its stream.
LEMMA TaskAlive ==
    ASSUME TypeOK, NEW r \in Requests, RequestInv(r), r \in Streams \/ task[r] = "closing",
           task[r] \in {"running", "saving", "closing"}
    PROVE  /\ stage[r] \in {"reading", "closed", "left"}
           /\ stage[r] = "closed" => sent[r] \notin {<<>>, <<Hit>>, <<Hit, End>>, <<Result, End>>}
<1>1. stage[r] \notin {"idle", "resolving", "looking", "working"}
  BY DEF RequestInv, Untouched, Working, Streams
<1>. QED BY <1>1 DEF RequestInv, Closing, TypeOK, Stages

\* The invariant of a request whose task goes on, from what it has told.
LEMMA TaskKeeps ==
    ASSUME TypeOK, NEW r \in Requests, RequestInv(r), TaskStep(r)
    PROVE  TypeOK' /\ RequestInv(r)'
<1>1. /\ task[r] \in {"running", "saving", "closing"}
      /\ r \in Streams \/ task[r] = "closing"
  BY DEF TaskStep, AgentsLog, AgentsAnswer, AgentsFail, Save, SaveFails, PutEnd
<1>2. /\ stage[r] \in {"reading", "closed", "left"}
      /\ stage[r] = "closed" => sent[r] \notin {<<>>, <<Hit>>, <<Hit, End>>, <<Result, End>>}
  BY <1>1, TaskAlive
<1>3. /\ stage' = stage /\ symbol' = symbol /\ sent' = sent
      /\ task'[r] \in {"running", "saving", "closing", "ended"}
      /\ task' \in [Requests -> Tasks]
  BY DEF TaskStep, AgentsLog, AgentsAnswer, AgentsFail, Save, SaveFails, PutEnd,
         TaskGoesOn, TypeOK, Tasks
<1>4. /\ answered' \subseteq Requests /\ unsaved' \subseteq Requests
      /\ queue' \in [Requests -> Seq(QueueEvents)]
  <2>1. CASE queue' = queue
    BY <2>1 DEF TaskStep, AgentsLog, AgentsAnswer, AgentsFail, Save, SaveFails, PutEnd,
                TypeOK, QueueEvents
  <2>2. ASSUME NEW e \in QueueEvents, queue' = [queue EXCEPT ![r] = Append(@, e)]
        PROVE  queue' \in [Requests -> Seq(QueueEvents)]
    BY <2>2 DEF TypeOK, QueueEvents
  <2>3. CASE \E e \in QueueEvents : queue' = [queue EXCEPT ![r] = Append(@, e)]
    BY <2>2, <2>3 DEF TaskStep, AgentsLog, AgentsAnswer, AgentsFail, Save, SaveFails, PutEnd,
                TypeOK
  <2>. QED BY <2>1, <2>3
           DEF TaskStep, AgentsLog, AgentsAnswer, AgentsFail, Save, SaveFails, PutEnd,
               Put, QueueEvents
<1>5. TypeOK'
  BY <1>3, <1>4 DEF TypeOK, QueueEvents
<1>6. Untouched(r)' /\ Working(r)' /\ Closing(r)'
  BY <1>2, <1>3 DEF Untouched, Working, Closing
<1>7. Answering(r)'
  <2>1. CASE AgentsLog(r)
    BY <2>1 DEF AgentsLog, shared, RequestInv, Answering, SavedBy
  <2>2. CASE AgentsAnswer(r)
    BY <1>3, <2>2 DEF AgentsAnswer, TaskGoesOn, TypeOK, RequestInv, Answering
  <2>3. CASE AgentsFail(r)
    BY <1>3, <2>3 DEF AgentsFail, TaskGoesOn, TypeOK, RequestInv, Answering
  <2>4. CASE Save(r)
    <3>1. SavedBy(r)'
      BY <2>4, SaveSaves DEF Save
    <3>. QED BY <1>3, <2>4, <3>1 DEF Save, TaskGoesOn, TypeOK, RequestInv, Answering
  <2>5. CASE SaveFails(r)
    BY <1>3, <2>5 DEF SaveFails, TaskGoesOn, TypeOK, RequestInv, Answering
  <2>6. CASE PutEnd(r)
    BY <1>3, <2>6 DEF PutEnd, TaskGoesOn, TypeOK, RequestInv, Answering, SavedBy
  <2>. QED BY <2>1, <2>2, <2>3, <2>4, <2>5, <2>6 DEF TaskStep
<1>8. Reading(r)'
  <2>. SUFFICES ASSUME stage[r] = "reading"
                PROVE  \E outs \in Seq({Result, Error, End}) :
                          Trails(queue'[r], outs) /\ Telling(r, outs)'
    BY <1>1, <1>3 DEF Reading, RequestInv
  <2>1. PICK outs \in Seq({Result, Error, End}) : Trails(queue[r], outs) /\ Telling(r, outs)
    BY DEF RequestInv, Reading
  <2>2. /\ queue[r] \in Seq(QueueEvents) /\ outs \in Seq(QueueEvents)
        /\ Result \in QueueEvents /\ Error \in QueueEvents /\ End \in QueueEvents
    BY DEF TypeOK, QueueEvents
  <2>3. /\ <<Result>> \in Seq({Result, Error, End}) /\ <<Error>> \in Seq({Result, Error, End})
        /\ <<>> \in Seq({Result, Error, End})
    OBVIOUS
  <2>4. CASE AgentsLog(r)
    <3>1. outs = <<>> /\ sent[r] = <<>>
      BY <2>1, <2>4 DEF AgentsLog, Telling
    <3>2. queue'[r] = Append(queue[r], Log)
      BY <2>4 DEF AgentsLog, Put, TypeOK
    <3>3. Trails(queue'[r], <<>>)
      BY <2>1, <2>2, <3>1, <3>2, TrailsLog
    <3>4. Telling(r, <<>>)'
      BY <2>4, <3>1 DEF AgentsLog, Telling
    <3>. QED BY <2>3, <3>3, <3>4
  <2>5. CASE AgentsAnswer(r) \/ AgentsFail(r)
    <3>1. outs = <<>> /\ sent[r] = <<>>
      BY <2>1, <2>5 DEF AgentsAnswer, AgentsFail, Telling
    <3>2. PICK e \in {Result, Error} :
             /\ queue'[r] = Append(queue[r], e)
             /\ \/ e = Result /\ task'[r] \in {"saving", "closing"}
                \/ e = Error /\ task'[r] = "closing"
      BY <2>5 DEF AgentsAnswer, AgentsFail, Put, TaskGoesOn, TypeOK
    <3>3. Trails(queue'[r], <<e>>)
      <4>1. Trails(Append(queue[r], e), Append(outs, e))
        BY <2>1, <2>2, TrailsPut
      <4>. QED BY <3>1, <3>2, <4>1, Words
    <3>4. Telling(r, <<e>>)'
      BY <1>3, <3>1, <3>2 DEF Telling
    <3>. QED BY <2>3, <3>3, <3>4
  <2>6. CASE Save(r) \/ SaveFails(r)
    <3>1. task[r] = "saving" /\ task'[r] = "closing" /\ queue'[r] = queue[r]
      BY <2>6 DEF Save, SaveFails, TaskGoesOn, TypeOK
    <3>2. Telling(r, outs)'
      BY <1>3, <2>1, <3>1 DEF Telling
    <3>. QED BY <2>1, <3>1, <3>2
  <2>7. CASE PutEnd(r)
    <3>1. /\ task[r] = "closing" /\ task'[r] = "ended"
          /\ queue'[r] = Append(queue[r], End)
      BY <2>7 DEF PutEnd, Put, TaskGoesOn, TypeOK
    <3>2. Trails(queue'[r], Append(outs, End))
      BY <2>1, <2>2, <3>1, TrailsPut
    <3>3. Append(outs, End) \in Seq({Result, Error, End})
      BY <2>1
    <3>4. Telling(r, Append(outs, End))'
      BY <1>3, <2>1, <3>1, Words DEF Telling
    <3>. QED BY <3>2, <3>3, <3>4
  <2>. QED BY <2>4, <2>5, <2>6, <2>7 DEF TaskStep
<1>. QED BY <1>5, <1>6, <1>7, <1>8 DEF RequestInv

\* A stream that is closed with its outcome, by the generator.
LEMMA Closes ==
    ASSUME TypeOK, NEW r \in Requests, RequestInv(r), stage[r] = "reading",
           NEW s \in {<<Result, End>>, <<Error>>, <<TimedOut>>, <<Result, TimedOut>>},
           stage' = [stage EXCEPT ![r] = "closed"], sent' = [sent EXCEPT ![r] = s],
           s = <<Result, End>> => task[r] = "ended",
           s = <<Result, TimedOut>> => task[r] = "saving",
           queue' \in [Requests -> Seq(QueueEvents)], GeneratorGoesOn
    PROVE  TypeOK' /\ RequestInv(r)'
<1>1. stage'[r] = "closed" /\ sent'[r] = s /\ s \in Outcomes
  BY DEF TypeOK, Outcomes
<1>2. TypeOK'
  BY <1>1 DEF TypeOK, Stages, GeneratorGoesOn, QueueEvents
<1>3. s \notin {<<>>, <<Hit>>, <<Hit, End>>}
  <2>1. Len(s) \in {1, 2} /\ s[1] \in {Result, Error, TimedOut}
    BY Told
  <2>2. Len(<<>>) = 0 /\ <<Hit>>[1] = Hit /\ <<Hit, End>>[1] = Hit
    OBVIOUS
  <2>. QED BY <2>1, <2>2, Told
<1>4. Untouched(r)' /\ Working(r)' /\ Reading(r)' /\ Closing(r)'
  BY <1>1, <1>3 DEF Untouched, Working, Reading, Closing, GeneratorGoesOn
<1>5. Answering(r)'
  BY <1>1 DEF RequestInv, Answering, GeneratorGoesOn, SavedBy, shared
<1>. QED BY <1>2, <1>4, <1>5 DEF RequestInv

LEMMA GeneratorKeeps ==
    ASSUME TypeOK, NEW r \in Requests, RequestInv(r),
           Deliver(r) \/ TimeOut(r) \/ Leave(r)
    PROVE  TypeOK' /\ RequestInv(r)'
<1>1. /\ stage[r] = "reading" /\ r \in Streams /\ GeneratorGoesOn
      /\ queue[r] \in Seq(QueueEvents)
  BY DEF Deliver, TimeOut, Leave, RequestInv, Reading, TypeOK, QueueEvents
<1>2. PICK outs \in Seq({Result, Error, End}) : Trails(queue[r], outs) /\ Telling(r, outs)
  BY <1>1 DEF RequestInv, Reading
<1>3. CASE Deliver(r)
  <2>. DEFINE event == Head(queue[r])
  <2>1. /\ queue[r] # <<>> /\ queue' = [queue EXCEPT ![r] = Tail(queue[r])]
        /\ Tail(queue[r]) \in Seq(QueueEvents)
    BY <1>1, <1>3, HeadTailProperties DEF Deliver
  <2>2. queue' \in [Requests -> Seq(QueueEvents)] /\ queue'[r] = Tail(queue[r])
    BY <2>1 DEF TypeOK, QueueEvents
  <2>3. outs \in Seq(QueueEvents \ {Log})
    BY <1>2, Told DEF QueueEvents
  <2>4. \/ event = Log /\ Trails(queue'[r], outs)
        \/ outs # <<>> /\ event = Head(outs) /\ Trails(queue'[r], Tail(outs))
    BY <1>1, <1>2, <2>1, <2>2, <2>3, TrailsTake
  \* What the generator sends on without closing.
  <2>5. ASSUME NEW s \in {<<>>, <<Result>>}, sent' = [sent EXCEPT ![r] = s],
               stage' = stage, NEW left \in Seq({Result, Error, End}),
               Trails(queue'[r], left), Telling(r, left)'
        PROVE  TypeOK' /\ RequestInv(r)'
    <3>1. TypeOK' /\ sent'[r] = s
      BY <1>1, <2>2, <2>5 DEF TypeOK, Outcomes, GeneratorGoesOn, QueueEvents
    <3>2. Untouched(r)' /\ Working(r)' /\ Reading(r)' /\ Closing(r)'
      BY <1>1, <2>5 DEF Untouched, Working, Reading, Closing
    <3>3. s # <<Result, TimedOut>>
      <4>1. PICK two : two = <<Result, TimedOut>>
        OBVIOUS
      <4>2. Len(two) = 2
        BY <4>1
      <4>3. Len(<<>>) # 2 /\ Len(<<Result>>) # 2
        OBVIOUS
      <4>4. s # two
        BY <2>5, <4>2, <4>3, Zenon
      <4>. QED BY <4>1, <4>4, Zenon
    <3>4. Answering(r)'
      BY <1>1, <3>1, <3>3 DEF RequestInv, Answering, GeneratorGoesOn, SavedBy, shared
    <3>. QED BY <3>1, <3>2, <3>4 DEF RequestInv
  <2>6. CASE event = Log /\ Trails(queue'[r], outs)
    <3>1. sent' = sent /\ stage' = stage
      BY <1>3, <2>6, Told DEF Deliver, TypeOK
    <3>2. sent[r] \in {<<>>, <<Result>>}
      BY <1>2 DEF Telling
    <3>3. sent' = [sent EXCEPT ![r] = sent[r]]
      BY <3>1 DEF TypeOK
    <3>4. Telling(r, outs)'
      BY <1>1, <1>2, <3>1 DEF Telling, GeneratorGoesOn
    <3>. QED BY <1>2, <2>5, <2>6, <3>1, <3>2, <3>3, <3>4
  <2>7. CASE outs # <<>> /\ event = Head(outs) /\ Trails(queue'[r], Tail(outs))
    <3>1. task' = task
      BY <1>1 DEF GeneratorGoesOn
    <3>2. CASE outs \in {<<Result>>, <<Result, End>>} /\ sent[r] = <<>>
      <4>1. event = Result /\ Tail(outs) \in {<<>>, <<End>>}
        BY <2>7, <3>2, Taken
      <4>2. sent' = [sent EXCEPT ![r] = <<Result>>] /\ stage' = stage
        BY <1>3, <3>2, <4>1, Told, Words DEF Deliver, TypeOK
      <4>3. sent'[r] = <<Result>>
        BY <4>2 DEF TypeOK
      <4>4. Tail(outs) \in Seq({Result, Error, End})
        <5>1. <<>> \in Seq({Result, Error, End}) /\ <<End>> \in Seq({Result, Error, End})
          OBVIOUS
        <5>. QED BY <4>1, <5>1, Zenon
      <4>5. \/ task[r] = "ended" /\ Tail(outs) = <<End>>
            \/ task[r] \in {"saving", "closing"} /\ Tail(outs) = <<>>
        <5>1. <<Result, End>> # <<Result>> /\ <<Result>> # <<>> /\ <<Result, End>> # <<>>
              /\ <<Result>> # <<Error>> /\ <<Result, End>> # <<Error>>
          BY Told
        <5>2. task[r] = "ended" => outs = <<Result, End>>
          BY <1>2, <3>2, <5>1, Told DEF Telling
        <5>3. task[r] \in {"saving", "closing"} => outs = <<Result>>
          BY <1>2, <3>2, <5>1, Told DEF Telling
        <5>4. task[r] \in {"saving", "closing", "ended"}
          BY <1>2, <3>2, <5>1 DEF Telling
        <5>5. Tail(<<Result, End>>) = <<End>> /\ Tail(<<Result>>) = <<>>
          BY Taken
        <5>6. CASE task[r] = "ended"
          <6>1. outs = <<Result, End>>
            BY <5>2, <5>6
          <6>2. Tail(outs) = <<End>>
            BY <5>5, <6>1
          <6>. QED BY <5>6, <6>2
        <5>7. CASE task[r] \in {"saving", "closing"}
          BY <5>3, <5>5, <5>7, Zenon
        <5>. QED BY <5>4, <5>6, <5>7
      <4>6. Telling(r, Tail(outs))'
        BY <3>1, <4>3, <4>5 DEF Telling
      <4>. QED BY <2>5, <2>7, <4>2, <4>4, <4>6
    <3>3. CASE outs = <<End>> /\ sent[r] = <<Result>> /\ task[r] = "ended"
      <4>1. event = End
        BY <2>7, <3>3, Taken
      <4>2. /\ sent' = [sent EXCEPT ![r] = <<Result, End>>]
            /\ stage' = [stage EXCEPT ![r] = "closed"]
        BY <1>3, <3>3, <4>1, Words DEF Deliver, Closed, TypeOK
      <4>3. <<Result, End>> # <<Result, TimedOut>>
        BY Told
      <4>. QED BY <1>1, <2>2, <3>3, <4>2, <4>3, Closes
    <3>4. CASE outs \in {<<Error>>, <<Error, End>>} /\ sent[r] = <<>>
      <4>1. event = Error
        BY <2>7, <3>4, Taken
      <4>2. /\ sent' = [sent EXCEPT ![r] = <<Error>>]
            /\ stage' = [stage EXCEPT ![r] = "closed"]
        BY <1>3, <3>4, <4>1, Words DEF Deliver, Closed, TypeOK
      <4>3. <<Error>> # <<Result, TimedOut>> /\ <<Error>> # <<Result, End>>
        BY Told
      <4>. QED BY <1>1, <2>2, <4>2, <4>3, Closes
    <3>. QED BY <1>2, <2>7, <3>2, <3>3, <3>4 DEF Telling
  <2>. QED BY <2>4, <2>6, <2>7
<1>4. CASE TimeOut(r)
  <2>1. /\ queue[r] = <<>> /\ task[r] \in {"running", "saving"} /\ queue' = queue
        /\ Closed(r, <<TimedOut>>)
    BY <1>4 DEF TimeOut
  <2>2. outs = <<>>
    BY <1>2, <2>1, EmptySeq, LenProperties DEF Trails
  <2>3. \/ task[r] = "running" /\ sent[r] = <<>>
        \/ task[r] = "saving" /\ sent[r] = <<Result>>
    BY <1>2, <2>1, <2>2, Told DEF Telling
  <2>4. PICK s \in {<<TimedOut>>, <<Result, TimedOut>>} :
           /\ sent' = [sent EXCEPT ![r] = s]
           /\ s = <<Result, TimedOut>> => task[r] = "saving"
    <3>1. <<TimedOut>> # <<Result, TimedOut>>
      BY Told
    <3>. QED BY <2>1, <2>3, <3>1, Words DEF Closed, TypeOK
  <2>5. s # <<Result, End>>
    BY Told
  <2>. QED BY <1>1, <2>1, <2>4, <2>5, Closes DEF Closed, TypeOK, QueueEvents
<1>5. CASE Leave(r)
  <2>1. TypeOK' /\ stage'[r] = "left"
    BY <1>5 DEF Leave, GeneratorGoesOn, TypeOK, Stages
  <2>2. Untouched(r)' /\ Working(r)' /\ Reading(r)' /\ Closing(r)'
    BY <2>1 DEF Untouched, Working, Reading, Closing
  <2>3. Answering(r)'
    BY <1>5 DEF Leave, GeneratorGoesOn, shared, RequestInv, Answering, SavedBy
  <2>. QED BY <2>1, <2>2, <2>3 DEF RequestInv
<1>. QED BY <1>3, <1>4, <1>5

-----------------------------------------------------------------------------
(* The theorems.                                                           *)

LEMMA InitIInv == Init => IInv
<1>. SUFFICES ASSUME Init PROVE IInv
  OBVIOUS
<1>1. TypeOK
  BY DecisionAssumption DEF Init, TypeOK, Stages, Tasks, Outcomes
<1>2. ASSUME NEW r \in Requests PROVE RequestInv(r)
  <2>1. /\ stage[r] = "idle" /\ task[r] = "none" /\ queue[r] = <<>> /\ sent[r] = <<>>
        /\ answered = {}
    BY DEF Init
  <2>2. <<>> # <<Result, TimedOut>>
    BY Told
  <2>. QED BY <2>1, <2>2
           DEF RequestInv, Untouched, Working, Reading, Closing, Answering
<1>. QED BY <1>1, <1>2 DEF IInv

LEMMA NextKeepsIInv == IInv /\ [Next]_vars => IInv'
<1>. SUFFICES ASSUME IInv, [Next]_vars PROVE IInv'
  OBVIOUS
<1>1. TypeOK /\ \A r \in Requests : RequestInv(r)
  BY DEF IInv
<1>2. ASSUME NEW r \in Requests, TypeOK', RequestInv(r)',
             \A o \in Requests \ {r} : Frame(o)
      PROVE  IInv'
  BY <1>1, <1>2, OthersKeep DEF IInv
<1>3. ASSUME NEW r \in Requests,
             AskDirect(r) \/ DirectAnswered(r) \/ DirectFails(r)
      PROVE  IInv'
  BY <1>1, <1>2, <1>3, HandlerFrame, DirectKeeps
<1>4. ASSUME NEW r \in Requests, AskStream(r) \/ Resolve(r) \/ LookUp(r) \/ LookUpFails(r)
      PROVE  IInv'
  <2>1. r \in Streams
    BY <1>1, <1>4 DEF AskStream, Resolve, LookUp, LookUpFails, RequestInv, Untouched
  <2>. QED BY <1>1, <1>2, <1>4, <2>1, HandlerFrame, StreamBegins
<1>5. ASSUME NEW r \in Requests, TaskStep(r) PROVE IInv'
  BY <1>1, <1>2, <1>5, StreamFrame, TaskKeeps
<1>6. ASSUME NEW r \in Requests, Deliver(r) \/ TimeOut(r) \/ Leave(r) PROVE IInv'
  BY <1>1, <1>2, <1>6, StreamFrame, GeneratorKeeps
<1>7. CASE Tick \/ UNCHANGED vars
  <2>1. TypeOK' /\ \A o \in Requests : Frame(o)
    BY <1>1, <1>7 DEF Tick, vars, TypeOK, Frame
  <2>. QED BY <1>1, <2>1, OthersKeep DEF IInv
<1>. QED BY <1>3, <1>4, <1>5, <1>6, <1>7 DEF Next, ServerStep

THEOREM Invariant == Spec => []IInv
BY InitIInv, NextKeepsIInv, PTL DEF Spec

\* The answer the agents of a request gave is in the cache once its task is
\* over or its client was told the end, or its saving failed
\* (investment_router.py 128-148 and 195-214).
THEOREM KeptAnswer == Spec => []AnswerIsKept
<1>1. IInv => AnswerIsKept
  <2>. SUFFICES ASSUME IInv, NEW r \in answered, symbol[r] # NoSymbol,
                       task[r] = "ended" \/ (stage[r] = "closed" /\ Last(sent[r]) = End)
                PROVE  SavedBy(r) \/ r \in unsaved
    BY DEF AnswerIsKept
  <2>1. r \in Requests /\ RequestInv(r) /\ sent[r] \in Outcomes
    BY DEF IInv, TypeOK
  <2>2. CASE task[r] = "ended"
    BY <2>1, <2>2 DEF RequestInv, Answering
  <2>3. CASE stage[r] = "closed" /\ Last(sent[r]) = End /\ task[r] # "ended"
    <3>1. sent[r] # <<>>
      BY <2>1, <2>3 DEF RequestInv, Answering, Closing
    <3>2. \A e, f : Last(<<e>>) = e /\ Last(<<e, f>>) = f
      BY DEF Last
    <3>3. sent[r] \in {<<Result, End>>, <<Hit, End>>}
      BY <2>1, <2>3, <3>1, <3>2, Told DEF Outcomes
    <3>. QED BY <2>1, <2>3, <3>3 DEF RequestInv, Answering, Closing
  <2>. QED BY <2>2, <2>3
<1>. QED BY Invariant, <1>1, PTL

\* A client gets one outcome: nothing follows an error or a time-out, and what
\* it was sent while the stream is open is the result or nothing
\* (investment_router.py 195-233).
THEOREM GetsOneOutcome == Spec => []OneOutcome
<1>1. IInv => OneOutcome
  <2>. SUFFICES ASSUME IInv, NEW r \in Requests
                PROVE  /\ sent[r] \in Outcomes
                       /\ stage[r] = "reading" => sent[r] \in {<<>>, <<Result>>}
                       /\ sent[r] = <<Result, TimedOut>> => symbol[r] # NoSymbol
    BY DEF OneOutcome, Outcomes
  <2>1. RequestInv(r) /\ sent[r] \in Outcomes
    BY DEF IInv, TypeOK
  <2>2. stage[r] = "reading" => sent[r] \in {<<>>, <<Result>>}
    BY <2>1 DEF RequestInv, Reading, Telling
  <2>. QED BY <2>1, <2>2 DEF RequestInv, Answering
<1>. QED BY Invariant, <1>1, PTL
=============================================================================
