------------------------ MODULE PipelineStream_proofs ------------------------
(***************************************************************************)
(* What TLAPS proves about PipelineStream, for any number of items: a run  *)
(* tells exactly one end, the end it tells is true of the database, and    *)
(* its events are in order, whenever the client leaves and however the     *)
(* analyses interleave.                                                    *)
(***************************************************************************)
EXTENDS PipelineStream, SequenceTheorems, TLAPS

\* The run tells no end, or it tells one, before the sentinel.
Silent(s) == \A n \in 1 .. Len(s) : s[n] \notin Terminal \cup {None}
Told(s) ==
    /\ Len(s) >= 2
    /\ s[Len(s)] = None
    /\ s[Len(s) - 1] \in Terminal
    /\ \A n \in 1 .. Len(s) - 2 : s[n] \notin Terminal \cup {None}

\* The end an event tells is true of the database.
Truthful(event) ==
    /\ event = Done => stored = IF succeeded = {} THEN "none" ELSE "yes"
    /\ event = Failure => stored = "no"

\* Where the run stands.
Progress ==
    /\ stream = "unread" => task = "none"
    /\ task \in {"none", "created", "collecting", "analyzing"} => stored = "no"
    /\ task \in {"none", "created"} => total = 0 /\ ready = {}
    /\ task = "collecting" => item \in 1 .. total
    /\ task \in {"none", "created", "collecting"} => asked = {}
    /\ task = "ended" <=> session = "closed"

Ending ==
    IF task = "ended" THEN Told(Emitted) /\ Truthful(Emitted[Len(Emitted) - 1])
    ELSE Silent(Emitted)

IInv == TypeOK /\ Progress /\ Ending

\* The phases in their order, and the last that a run has reached.
Rank(e) == CASE e.phase = "START" -> 1
             [] e.phase = "COLLECT" -> 2
             [] e.phase = "ANALYZE" -> 3
             [] e.phase = "DONE" -> 4
             [] OTHER -> 0
Level == CASE task \in {"none", "created"} -> 1
           [] task = "collecting" -> 2
           [] task = "analyzing" -> 3
           [] OTHER -> 4

Ordered(s) ==
    \A m, n \in 1 .. Len(s) :
        m < n /\ s[m].phase # "" /\ s[n].phase # "" => Rank(s[m]) <= Rank(s[n])
Between(s, low, high) ==
    \A n \in 1 .. Len(s) : s[n].phase # "" => Rank(s[n]) \in low .. high

\* An analysis is announced when it begins and when it ends; at DONE all have
\* ended.
Announced(s) ==
    /\ \A n \in 1 .. Len(s) :
          s[n].phase = "ANALYZE" => \E i \in asked : s[n] = Analyzing(i)
    /\ \A i \in asked : \E n \in 1 .. Len(s) : s[n] = Analyzing(i)
    /\ \A i \in answered : \E m, n \in 1 .. Len(s) :
          m # n /\ s[m] = Analyzing(i) /\ s[n] = Analyzing(i)
    /\ \A n \in 1 .. Len(s) :
          s[n] = Finish => task = "ended" /\ answered = asked

InPhases(s, low, high) == Ordered(s) /\ Between(s, low, high)

\* Events none of which announces an analysis.
Plain(s) == \A n \in 1 .. Len(s) : s[n].phase # "ANALYZE"

OrderInv == InPhases(Emitted, 0, Level) /\ Announced(Emitted)

-----------------------------------------------------------------------------
(* Events and sequences of them.                                           *)

LEMMA EventTypes ==
    /\ {Start, CollectEnd, Finish, Done, Failure, None} \subseteq Events
    /\ \A i \in Indices :
          {Collecting(i), CollectError(i), Analyzing(i)} \subseteq Events
<1>1. /\ Start \in Events /\ CollectEnd \in Events /\ Finish \in Events
      /\ Done \in Events /\ Failure \in Events /\ None \in Events
  BY DEF Events, Event, Start, CollectEnd, Finish, Done, Failure, None
<1>2. ASSUME NEW i \in Indices
      PROVE  /\ Collecting(i) \in Events /\ CollectError(i) \in Events
             /\ Analyzing(i) \in Events
  BY DEF Events, Event, Collecting, CollectError, Analyzing
<1>. QED BY <1>1, <1>2

LEMMA EventKinds ==
    /\ {Start, CollectEnd, Finish} \cap (Terminal \cup {None}) = {}
    /\ \A i \in Indices : {Collecting(i), CollectError(i), Analyzing(i)}
                             \cap (Terminal \cup {None}) = {}
    /\ None \notin Terminal /\ Done # Failure
<1>1. Start.phase # "" /\ CollectEnd.phase # "" /\ Finish.phase # ""
  BY DEF Event, Start, CollectEnd, Finish
<1>2. \A i : /\ Collecting(i).phase # "" /\ CollectError(i).phase # ""
             /\ Analyzing(i).phase # ""
  BY DEF Event, Collecting, CollectError, Analyzing
<1>3. Done.phase = "" /\ Failure.phase = "" /\ None.phase = ""
  BY DEF Event, Done, Failure, None
<1>4. Done.type = "done" /\ Failure.type = "error" /\ None.type = "none"
  BY DEF Event, Done, Failure, None
<1>. QED BY <1>1, <1>2, <1>3, <1>4 DEF Terminal

\* What a step of the task emits follows what was emitted.
LEMMA Emission ==
    ASSUME TypeOK, NEW events \in Seq(Events), Put(events), taken' = taken
    PROVE  /\ queue' \in Seq(Events) /\ taken' \in Seq(Events)
           /\ Emitted \in Seq(Events)
           /\ Emitted' = Emitted \o events
<1>1. queue \in Seq(Events) /\ taken \in Seq(Events)
  BY DEF TypeOK
<1>2. queue' = queue \o events
  BY DEF Put
<1>3. Emitted' = taken \o (queue \o events)
  BY <1>2 DEF Emitted
<1>4. taken \o (queue \o events) = (taken \o queue) \o events
  BY <1>1, ConcatAssociative
<1>. QED BY <1>1, <1>2, <1>3, <1>4, ConcatProperties DEF Emitted

\* Delivery moves an event and emits none.
LEMMA Delivery ==
    ASSUME TypeOK, Deliver
    PROVE  /\ queue' \in Seq(Events) /\ taken' \in Seq(Events)
           /\ Emitted' = Emitted /\ Emitted \in Seq(Events)
<1>1. /\ queue \in Seq(Events) /\ taken \in Seq(Events) /\ queue # <<>>
      /\ queue' = Tail(queue) /\ taken' = Append(taken, Head(queue))
  BY DEF TypeOK, Deliver
<1>2. /\ Head(queue) \in Events /\ Tail(queue) \in Seq(Events)
      /\ Len(queue) \in Nat \ {0} /\ Len(taken) \in Nat
      /\ Len(Tail(queue)) = Len(queue) - 1
      /\ \A n \in 1 .. Len(queue) - 1 : Tail(queue)[n] = queue[n + 1]
      /\ Head(queue) = queue[1]
  BY <1>1, HeadTailProperties, EmptySeq, LenProperties
<1>3. /\ taken' \in Seq(Events) /\ Len(taken') = Len(taken) + 1
      /\ \A n \in 1 .. Len(taken) : taken'[n] = taken[n]
      /\ taken'[Len(taken) + 1] = Head(queue)
  BY <1>1, <1>2, AppendProperties
<1>4. /\ Emitted \in Seq(Events) /\ Len(Emitted) = Len(taken) + Len(queue)
      /\ \A n \in 1 .. Len(taken) + Len(queue) :
            Emitted[n] = IF n <= Len(taken) THEN taken[n] ELSE queue[n - Len(taken)]
  BY <1>1, ConcatProperties DEF Emitted
<1>5. /\ taken' \o queue' \in Seq(Events)
      /\ Len(taken' \o queue') = Len(taken') + Len(queue')
      /\ \A n \in 1 .. Len(taken') + Len(queue') :
            (taken' \o queue')[n] =
               IF n <= Len(taken') THEN taken'[n] ELSE queue'[n - Len(taken')]
  BY <1>1, <1>2, <1>3, ConcatProperties
<1>6. Len(taken' \o queue') = Len(Emitted)
  BY <1>1, <1>2, <1>3, <1>4, <1>5
<1>7. ASSUME NEW n \in 1 .. Len(Emitted) PROVE (taken' \o queue')[n] = Emitted[n]
  <2>1. CASE n <= Len(taken)
    BY <1>2, <1>3, <1>4, <1>5, <1>6, <2>1
  <2>2. CASE n = Len(taken) + 1
    BY <1>2, <1>3, <1>4, <1>5, <1>6, <2>2
  <2>3. CASE n > Len(taken) + 1
    <3>1. n - Len(taken) - 1 \in 1 .. Len(queue) - 1
      BY <1>2, <1>4, <2>3
    <3>2. Tail(queue)[n - Len(taken) - 1] = queue[(n - Len(taken) - 1) + 1]
      BY <1>2, <3>1
    <3>3. (n - Len(taken) - 1) + 1 = n - Len(taken) /\ n - Len(taken') = n - Len(taken) - 1
      BY <1>2, <1>3, <1>4, <2>3
    <3>4. (taken' \o queue')[n] = Tail(queue)[n - Len(taken) - 1]
      BY <1>1, <1>2, <1>3, <1>4, <1>5, <1>6, <2>3, <3>3
    <3>5. Emitted[n] = queue[n - Len(taken)]
      BY <1>2, <1>4, <2>3
    <3>. QED BY <3>2, <3>3, <3>4, <3>5
  <2>4. n <= Len(taken) \/ n = Len(taken) + 1 \/ n > Len(taken) + 1
    BY <1>2, <1>4
  <2>. QED BY <2>1, <2>2, <2>3, <2>4, Zenon
<1>8. taken' \o queue' = Emitted
  BY <1>4, <1>5, <1>6, <1>7, SeqEqual
<1>. QED BY <1>1, <1>2, <1>3, <1>4, <1>8 DEF Emitted

\* Events before the end, and the end itself.
LEMMA StaysSilent ==
    ASSUME NEW s \in Seq(Events), NEW t \in Seq(Events), Silent(s), Silent(t)
    PROVE  Silent(s \o t)
<1>1. /\ Len(s) \in Nat /\ Len(t) \in Nat /\ Len(s \o t) = Len(s) + Len(t)
      /\ \A n \in 1 .. Len(s) + Len(t) :
            (s \o t)[n] = IF n <= Len(s) THEN s[n] ELSE t[n - Len(s)]
  BY ConcatProperties, LenProperties
<1>2. ASSUME NEW n \in 1 .. Len(s \o t)
      PROVE  (s \o t)[n] \notin Terminal \cup {None}
  <2>1. CASE n <= Len(s)
    BY <1>1, <2>1 DEF Silent
  <2>2. CASE n > Len(s)
    <3>1. n - Len(s) \in 1 .. Len(t)
      BY <1>1, <2>2
    <3>. QED BY <1>1, <2>2, <3>1 DEF Silent
  <2>. QED BY <1>1, <2>1, <2>2
<1>. QED BY <1>2 DEF Silent

LEMMA TellsAnEnd ==
    ASSUME NEW s \in Seq(Events), NEW e \in Terminal, Silent(s)
    PROVE  LET t == s \o <<e, None>> IN
           /\ t \in Seq(Events) /\ Told(t) /\ t[Len(t) - 1] = e
<1>. DEFINE t == s \o <<e, None>>
<1>1. <<e, None>> \in Seq(Events) /\ Len(<<e, None>>) = 2
  BY EventTypes DEF Terminal
<1>2. /\ t \in Seq(Events) /\ Len(s) \in Nat /\ Len(t) = Len(s) + 2
      /\ \A n \in 1 .. Len(s) + 2 :
            t[n] = IF n <= Len(s) THEN s[n] ELSE <<e, None>>[n - Len(s)]
  BY <1>1, ConcatProperties, LenProperties
<1>3. t[Len(s) + 1] = e /\ t[Len(s) + 2] = None
  BY <1>2
<1>4. \A n \in 1 .. Len(t) - 2 : t[n] \notin Terminal \cup {None}
  BY <1>2 DEF Silent
<1>. HIDE DEF t
<1>5. Len(t) - 1 = Len(s) + 1 /\ Len(t) >= 2
  BY <1>2
<1>6. Told(t)
  BY <1>2, <1>3, <1>4, <1>5 DEF Told
<1>. QED BY <1>2, <1>3, <1>5, <1>6 DEF t

\* One event, or two, that tell no end.
LEMMA Tells ==
    ASSUME NEW e \in Events, NEW f \in Events,
           e \notin Terminal \cup {None}, f \notin Terminal \cup {None}
    PROVE  /\ <<>> \in Seq(Events) /\ Silent(<<>>)
           /\ <<e>> \in Seq(Events) /\ Silent(<<e>>)
           /\ <<e, f>> \in Seq(Events) /\ Silent(<<e, f>>)
  BY DEF Silent

-----------------------------------------------------------------------------
(* The steps of the task, by what they put on the queue.                   *)

\* A step that does not end the task tells no end.
LEMMA Says ==
    ASSUME IInv, task # "ended", NEW events \in Seq(Events), Silent(events),
           Put(events), taken' = taken
    PROVE  /\ queue' \in Seq(Events) /\ taken' \in Seq(Events)
           /\ Silent(Emitted')
<1>1. Silent(Emitted)
  BY DEF IInv, Ending
<1>2. /\ queue' \in Seq(Events) /\ taken' \in Seq(Events)
      /\ Emitted \in Seq(Events) /\ Emitted' = Emitted \o events
  BY Emission DEF IInv
<1>. QED BY <1>1, <1>2, StaysSilent

\* The end of the task tells the end it was given.
LEMMA Ends ==
    ASSUME IInv, task # "ended", NEW events \in Seq(Events), Silent(events),
           NEW e \in Terminal, Close(events \o <<e>>), taken' = taken
    PROVE  /\ queue' \in Seq(Events) /\ taken' \in Seq(Events)
           /\ task' = "ended" /\ session' = "closed"
           /\ Told(Emitted') /\ Emitted'[Len(Emitted') - 1] = e
<1>1. Silent(Emitted) /\ Emitted \in Seq(Events)
  BY ConcatProperties DEF IInv, Ending, TypeOK, Emitted
<1>2. e \in Events /\ None \in Events
  BY EventTypes DEF Terminal
<1>3. (events \o <<e>>) \o <<None>> = events \o <<e, None>>
  <2>1. <<e>> \in Seq(Events) /\ <<None>> \in Seq(Events)
    BY <1>2
  <2>2. /\ <<e>> \o <<None>> \in Seq(Events) /\ <<e, None>> \in Seq(Events)
        /\ Len(<<e>> \o <<None>>) = 2 /\ Len(<<e, None>>) = 2
        /\ (<<e>> \o <<None>>)[1] = e /\ (<<e>> \o <<None>>)[2] = None
    BY <1>2, <2>1, ConcatProperties
  <2>3. <<e>> \o <<None>> = <<e, None>>
    <3>. DEFINE s == <<e>> \o <<None>>
                t == <<e, None>>
    <3>1. t[1] = e /\ t[2] = None
      OBVIOUS
    <3>2. s \in Seq(Events) /\ t \in Seq(Events) /\ Len(s) = 2 /\ Len(t) = 2
          /\ s[1] = e /\ s[2] = None
      BY <2>2
    <3>. HIDE DEF s, t
    <3>3. \A n \in 1 .. Len(s) : s[n] = t[n]
      BY <3>1, <3>2
    <3>4. s = t
      BY <3>2, <3>3, SeqEqual
    <3>. QED BY <3>4 DEF s, t
  <2>. QED BY <2>1, <2>3, ConcatAssociative
<1>4. /\ Put(events \o <<e, None>>)
      /\ events \o <<e, None>> \in Seq(Events)
  <2>1. <<e, None>> \in Seq(Events)
    BY <1>2
  <2>. QED BY <1>3, <2>1, ConcatProperties DEF Close
<1>5. /\ queue' \in Seq(Events) /\ taken' \in Seq(Events)
      /\ Emitted' = Emitted \o (events \o <<e, None>>)
  BY <1>4, Emission DEF IInv
<1>6. Emitted' = (Emitted \o events) \o <<e, None>>
  <2>1. <<e, None>> \in Seq(Events)
    BY <1>2
  <2>2. PICK tail : tail = <<e, None>>
    OBVIOUS
  <2>3. ASSUME NEW x \in Seq(Events), NEW y \in Seq(Events), NEW z \in Seq(Events)
        PROVE  (x \o y) \o z = x \o (y \o z)
    BY ConcatAssociative
  <2>4. Emitted \o (events \o tail) = (Emitted \o events) \o tail
    BY <1>1, <2>1, <2>2, <2>3, Zenon
  <2>. QED BY <1>5, <2>2, <2>4, Zenon
<1>7. Silent(Emitted \o events) /\ Emitted \o events \in Seq(Events)
  BY <1>1, StaysSilent, ConcatProperties
<1>8. Told(Emitted') /\ Emitted'[Len(Emitted') - 1] = e
  BY <1>6, <1>7, TellsAnEnd
<1>. QED BY <1>5, <1>8 DEF Close

\* A run that returned says how the saving of its logs went.
LEMMA Publishes ==
    ASSUME IInv, task \notin {"none", "ended"}, NEW events \in Seq(Events),
           Silent(events), Publish(events, succeeded), taken' = taken,
           succeeded' = succeeded
    PROVE  /\ queue' \in Seq(Events) /\ taken' \in Seq(Events)
           /\ stored' \in {"no", "yes", "none"}
           /\ task' = "ended" /\ session' = "closed"
           /\ Ending'
<1>1. stored = "no"
  BY DEF IInv, TypeOK, Progress
<1>2. Done \in Terminal /\ Failure \in Terminal /\ Done # Failure
  BY EventKinds DEF Terminal
<1>3. CASE Close(events \o <<Done>>) /\ stored' = IF succeeded = {} THEN "none" ELSE "yes"
  <2>1. /\ queue' \in Seq(Events) /\ taken' \in Seq(Events)
        /\ task' = "ended" /\ session' = "closed"
        /\ Told(Emitted') /\ Emitted'[Len(Emitted') - 1] = Done
    BY <1>2, <1>3, Ends
  <2>. QED BY <1>2, <1>3, <2>1 DEF Ending, Truthful
<1>4. CASE Close(events \o <<Failure>>) /\ stored' = stored
  <2>1. /\ queue' \in Seq(Events) /\ taken' \in Seq(Events)
        /\ task' = "ended" /\ session' = "closed"
        /\ Told(Emitted') /\ Emitted'[Len(Emitted') - 1] = Failure
    BY <1>2, <1>4, Ends
  <2>. QED BY <1>1, <1>2, <1>4, <2>1 DEF Ending, Truthful
<1>. QED BY <1>3, <1>4 DEF Publish

\* A run that raised has stored nothing, and says so.
LEMMA Fails ==
    ASSUME IInv, task \notin {"none", "ended"}, Close(<<Failure>>),
           taken' = taken, stored' = stored
    PROVE  /\ queue' \in Seq(Events) /\ taken' \in Seq(Events)
           /\ task' = "ended" /\ session' = "closed"
           /\ Ending'
<1>1. stored = "no"
  BY DEF IInv, TypeOK, Progress
<1>2. Failure \in Terminal /\ Done # Failure /\ <<>> \o <<Failure>> = <<Failure>>
  BY EventKinds DEF Terminal
<1>3. <<>> \in Seq(Events) /\ Silent(<<>>)
  BY DEF Silent
<1>4. /\ queue' \in Seq(Events) /\ taken' \in Seq(Events)
      /\ task' = "ended" /\ session' = "closed"
      /\ Told(Emitted') /\ Emitted'[Len(Emitted') - 1] = Failure
  BY <1>2, <1>3, Ends
<1>. QED BY <1>1, <1>2, <1>4 DEF Ending, Truthful

-----------------------------------------------------------------------------
(* The invariant.                                                          *)

LEMMA InitIInv == Init => IInv
<1>. SUFFICES ASSUME Init PROVE IInv
  OBVIOUS
<1>1. queue = <<>> /\ taken = <<>> /\ <<>> \in Seq(Events) /\ Len(<<>> \o <<>>) = 0
  BY ConcatProperties DEF Init
<1>2. Silent(Emitted)
  BY <1>1 DEF Silent, Emitted
<1>. QED BY <1>1, <1>2, StreamAssumption DEF Init, IInv, TypeOK, Progress, Ending, Indices

LEMMA OutsideTask ==
    ASSUME IInv, Open \/ Deliver \/ Disconnect \/ Over \/ UNCHANGED vars
    PROVE  IInv'
<1>1. CASE Open
  <2>1. TypeOK' /\ Progress'
    BY <1>1 DEF Open, IInv, TypeOK, Progress, analysis, Indices
  <2>2. /\ taken' = taken /\ queue' = queue /\ task' = "created"
        /\ task = "none"
    BY <1>1 DEF Open, IInv, Progress
  <2>. QED BY <1>1, <2>1, <2>2 DEF Open, IInv, Ending, Emitted, Silent
<1>2. CASE Deliver
  <2>1. queue' \in Seq(Events) /\ taken' \in Seq(Events) /\ Emitted' = Emitted
    BY <1>2, Delivery DEF IInv
  <2>2. TypeOK'
    BY <1>2, <2>1 DEF Deliver, IInv, TypeOK, analysis
  <2>. QED BY <1>2, <2>1, <2>2 DEF Deliver, IInv, Progress, Ending, Truthful, Told, Silent, analysis
<1>3. CASE Disconnect
  BY <1>3 DEF Disconnect, IInv, TypeOK, Progress, Ending, Emitted, Truthful, Told, Silent, analysis
<1>4. CASE Over \/ UNCHANGED vars
  BY <1>4 DEF Over, vars, delivery, analysis, IInv, TypeOK, Progress, Ending, Emitted, Truthful, Told, Silent
<1>. QED BY <1>1, <1>2, <1>3, <1>4

LEMMA TaskKeepsIInv == IInv /\ TaskStep => IInv'
<1>. SUFFICES ASSUME IInv, TaskStep PROVE IInv'
  OBVIOUS
<1>1. /\ TypeOK /\ Progress /\ Indices \subseteq Nat \ {0} /\ MaxItems \in Nat
      /\ task # "ended" => Silent(Emitted)
  BY StreamAssumption DEF IInv, Indices, Ending
<1>2. /\ \A i \in Indices : /\ Collecting(i) \in Events /\ CollectError(i) \in Events
                            /\ Analyzing(i) \in Events
                            /\ Collecting(i) \notin Terminal \cup {None}
                            /\ CollectError(i) \notin Terminal \cup {None}
                            /\ Analyzing(i) \notin Terminal \cup {None}
      /\ \A e \in {Start, CollectEnd, Finish} : e \in Events /\ e \notin Terminal \cup {None}
  BY EventTypes, EventKinds
<1>3. CASE RunNothing
  <2>1. taken' = taken /\ succeeded' = succeeded /\ succeeded = {} /\ task = "created"
    BY <1>1, <1>3 DEF RunNothing, TypeOK, Progress, delivery, analysis
  <2>2. <<>> \in Seq(Events) /\ Silent(<<>>) /\ Publish(<<>>, succeeded)
    BY <1>3, <2>1 DEF RunNothing, Silent
  <2>3. /\ queue' \in Seq(Events) /\ taken' \in Seq(Events)
        /\ stored' \in {"no", "yes", "none"}
        /\ task' = "ended" /\ session' = "closed" /\ Ending'
    BY <2>1, <2>2, Publishes
  <2>. QED BY <1>1, <1>3, <2>3 DEF RunNothing, IInv, TypeOK, Progress, delivery, analysis
<1>4. CASE RunFails
  <2>1. /\ queue' \in Seq(Events) /\ taken' \in Seq(Events)
        /\ task' = "ended" /\ session' = "closed" /\ Ending'
    BY <1>4, Fails DEF RunFails, delivery
  <2>. QED BY <1>1, <1>4, <2>1 DEF RunFails, IInv, TypeOK, Progress, delivery, analysis
<1>5. CASE Run
  <2>1. 1 \in Indices /\ Start \in Events /\ Collecting(1) \in Events
    BY <1>1, <1>2, StreamAssumption DEF Indices
  <2>2. <<Start, Collecting(1)>> \in Seq(Events) /\ Silent(<<Start, Collecting(1)>>)
    BY <1>2, <2>1, Tells
  <2>3. queue' \in Seq(Events) /\ taken' \in Seq(Events) /\ Silent(Emitted')
    BY <1>5, <2>2, Says DEF Run, delivery
  <2>4. task' = "collecting" /\ item' = 1 /\ total' \in Indices
    BY <1>5 DEF Run
  <2>5. total' \in 0 .. MaxItems /\ item' \in 1 .. total' /\ item' \in 0 .. total'
    BY <1>1, <2>4 DEF Indices
  <2>. QED BY <1>1, <1>5, <2>3, <2>4, <2>5
           DEF Run, IInv, TypeOK, Progress, Ending, delivery, analysis
<1>6. CASE CollectNext
  <2>1. /\ item \in Indices /\ item + 1 \in Indices /\ item + 1 \in 1 .. total
        /\ task = "collecting"
    BY <1>1, <1>6 DEF CollectNext, Progress, TypeOK, Indices
  <2>2. PICK event \in {Collecting(item), CollectError(item)} :
           Outcome(event) /\ Put(<<event, Collecting(item + 1)>>)
    BY <1>6 DEF CollectNext
  <2>3. /\ <<event, Collecting(item + 1)>> \in Seq(Events)
        /\ Silent(<<event, Collecting(item + 1)>>)
    BY <1>2, <2>1, <2>2, Tells
  <2>4. queue' \in Seq(Events) /\ taken' \in Seq(Events) /\ Silent(Emitted')
    BY <1>6, <2>2, <2>3, Says DEF CollectNext, delivery
  <2>5. ready \subseteq ready' /\ ready' \subseteq Indices
    BY <1>1, <2>1, <2>2 DEF Outcome, TypeOK
  <2>. QED BY <1>1, <1>6, <2>1, <2>4, <2>5
           DEF CollectNext, IInv, TypeOK, Progress, Ending, delivery, analysis
<1>7. CASE CollectLast
  <2>1. item \in Indices /\ task = "collecting"
    BY <1>1, <1>7 DEF CollectLast, Progress, TypeOK, Indices
  <2>2. PICK event \in {Collecting(item), CollectError(item)} :
           Outcome(event) /\ Put(<<event, CollectEnd>>)
    BY <1>7 DEF CollectLast
  <2>3. <<event, CollectEnd>> \in Seq(Events) /\ Silent(<<event, CollectEnd>>)
    BY <1>2, <2>1, <2>2, Tells
  <2>4. queue' \in Seq(Events) /\ taken' \in Seq(Events) /\ Silent(Emitted')
    BY <1>7, <2>2, <2>3, Says DEF CollectLast, delivery
  <2>5. ready \subseteq ready' /\ ready' \subseteq Indices
    BY <1>1, <2>1, <2>2 DEF Outcome, TypeOK
  <2>. QED BY <1>1, <1>7, <2>1, <2>4, <2>5
           DEF CollectLast, IInv, TypeOK, Progress, Ending, delivery, analysis
<1>8. CASE CollectNothing
  <2>1. /\ item \in Indices /\ task = "collecting" /\ succeeded = {}
        /\ taken' = taken /\ succeeded' = succeeded
    BY <1>1, <1>8 DEF CollectNothing, Progress, TypeOK, Indices, delivery, analysis
  <2>2. PICK event \in {Collecting(item), CollectError(item)} :
           Outcome(event) /\ Publish(<<event, CollectEnd, Finish>>, succeeded)
    BY <1>8, <2>1 DEF CollectNothing
  <2>3. /\ <<event, CollectEnd, Finish>> \in Seq(Events)
        /\ Silent(<<event, CollectEnd, Finish>>)
    BY <1>2, <2>1, <2>2 DEF Silent
  <2>4. /\ queue' \in Seq(Events) /\ taken' \in Seq(Events)
        /\ stored' \in {"no", "yes", "none"}
        /\ task' = "ended" /\ session' = "closed" /\ Ending'
    BY <2>1, <2>2, <2>3, Publishes
  <2>5. ready \subseteq ready' /\ ready' \subseteq Indices
    BY <1>1, <2>1, <2>2 DEF Outcome, TypeOK
  <2>. QED BY <1>1, <1>8, <2>1, <2>4, <2>5
           DEF CollectNothing, IInv, TypeOK, Progress, delivery, analysis
<1>9. CASE CollectFails
  <2>1. /\ queue' \in Seq(Events) /\ taken' \in Seq(Events)
        /\ task' = "ended" /\ session' = "closed" /\ Ending'
    BY <1>9, Fails DEF CollectFails, delivery
  <2>. QED BY <1>1, <1>9, <2>1 DEF CollectFails, IInv, TypeOK, Progress, delivery, analysis
<1>10. ASSUME NEW i \in Indices, AnalyzePair(i) \/ PairAnalyzed(i) PROVE IInv'
  <2>1. /\ task = "analyzing" /\ task' = task /\ taken' = taken
        /\ Put(<<Analyzing(i)>>)
    BY <1>10 DEF AnalyzePair, PairAnalyzed, delivery
  <2>2. <<Analyzing(i)>> \in Seq(Events) /\ Silent(<<Analyzing(i)>>)
    BY <1>2, Tells
  <2>3. queue' \in Seq(Events) /\ taken' \in Seq(Events) /\ Silent(Emitted')
    BY <2>1, <2>2, Says
  <2>4. CASE AnalyzePair(i)
    BY <1>1, <2>1, <2>3, <2>4
       DEF AnalyzePair, IInv, TypeOK, Progress, Ending, delivery
  <2>5. CASE PairAnalyzed(i)
    BY <1>1, <2>1, <2>3, <2>5
       DEF PairAnalyzed, IInv, TypeOK, Progress, Ending, delivery
  <2>. QED BY <1>10, <2>4, <2>5
<1>11. CASE Aggregate
  <2>1. /\ task = "analyzing" /\ taken' = taken /\ succeeded' = succeeded
        /\ Publish(<<Finish>>, succeeded)
    BY <1>11 DEF Aggregate, delivery, analysis
  <2>2. <<Finish>> \in Seq(Events) /\ Silent(<<Finish>>)
    BY <1>2, Tells
  <2>3. /\ queue' \in Seq(Events) /\ taken' \in Seq(Events)
        /\ stored' \in {"no", "yes", "none"}
        /\ task' = "ended" /\ session' = "closed" /\ Ending'
    BY <2>1, <2>2, Publishes
  <2>. QED BY <1>1, <1>11, <2>1, <2>3
           DEF Aggregate, IInv, TypeOK, Progress, delivery, analysis
<1>. QED BY <1>3, <1>4, <1>5, <1>6, <1>7, <1>8, <1>9, <1>10, <1>11 DEF TaskStep

\* TypeOK, the end that is told and its truth, in every state.
THEOREM Invariant == Spec => []IInv
<1>1. IInv /\ [Next]_vars => IInv'
  BY OutsideTask, TaskKeepsIInv DEF Next
<1>. QED BY InitIInv, <1>1, PTL DEF Spec

\* Exactly one event tells how the run ended, the last before the sentinel;
\* the sentinel is put by a task that is over and has closed its session
\* (pipeline_router.py 124-156).
THEOREM TellsOneEnd == Spec => []OneTerminalEvent
<1>1. IInv => OneTerminalEvent
  <2>. SUFFICES ASSUME IInv PROVE OneTerminalEvent
    OBVIOUS
  <2>. DEFINE ends == {n \in DOMAIN Emitted : Emitted[n] \in Terminal}
  <2>1. /\ Emitted \in Seq(Events) /\ Len(Emitted) \in Nat
        /\ DOMAIN Emitted = 1 .. Len(Emitted) /\ None \notin Terminal
    BY ConcatProperties, LenProperties, EventKinds DEF IInv, TypeOK, Emitted
  <2>2. CASE task = "ended"
    <3>1. Told(Emitted) /\ session = "closed"
      BY <2>2 DEF IInv, Ending, Progress
    <3>2. ASSUME NEW n \in 1 .. Len(Emitted), Emitted[n] \in Terminal
          PROVE  n = Len(Emitted) - 1
      <4>1. n # Len(Emitted)
        BY <2>1, <3>1, <3>2 DEF Told
      <4>2. ~(n \in 1 .. Len(Emitted) - 2)
        BY <3>1, <3>2 DEF Told
      <4>3. Len(Emitted) \in Nat /\ n \in Nat /\ 1 <= n /\ n <= Len(Emitted)
        BY <2>1
      <4>4. ~(n <= Len(Emitted) - 2)
        BY <4>2, <4>3
      <4>. QED BY <4>1, <4>3, <4>4
    <3>3. Len(Emitted) - 1 \in ends
      BY <2>1, <3>1 DEF Told
    <3>4. ends = {Len(Emitted) - 1}
      BY <2>1, <3>2, <3>3
    <3>. QED BY <2>2, <3>1, <3>4 DEF OneTerminalEvent, Told, Last
  <2>3. CASE task # "ended"
    <3>1. Silent(Emitted)
      BY <2>3 DEF IInv, Ending
    <3>. QED BY <2>1, <2>3, <3>1 DEF OneTerminalEvent, Silent, Contains
  <2>. QED BY <2>2, <2>3
<1>. QED BY Invariant, <1>1, PTL

\* "done" reaches a client only when the logs of the run are stored, "error"
\* only when none is (pipeline_router.py 133-143).
THEOREM TheEndIsTrue == Spec => []EndIsTrue
<1>1. IInv => EndIsTrue
  <2>. SUFFICES ASSUME IInv, NEW e \in Terminal, Contains(taken, e)
                PROVE  Truthful(e)
    BY DEF EndIsTrue, Truthful, Terminal
  <2>1. /\ Len(Emitted) \in Nat /\ Len(taken) \in Nat
        /\ \A n \in 1 .. Len(taken) : n \in 1 .. Len(Emitted) /\ Emitted[n] = taken[n]
    BY ConcatProperties, LenProperties DEF IInv, TypeOK, Emitted
  <2>2. PICK n \in 1 .. Len(Emitted) : Emitted[n] = e
    BY <2>1 DEF Contains
  <2>3. Told(Emitted) /\ Truthful(Emitted[Len(Emitted) - 1])
    BY <2>2 DEF IInv, Ending, Silent
  <2>4. n # Len(Emitted) /\ ~(n \in 1 .. Len(Emitted) - 2)
    BY <2>2, <2>3, EventKinds DEF Told
  <2>5. n = Len(Emitted) - 1
    BY <2>1, <2>2, <2>4
  <2>. QED BY <2>2, <2>3, <2>5
<1>. QED BY Invariant, <1>1, PTL

-----------------------------------------------------------------------------
(* The order of the events.                                                *)

LEMMA Ranks ==
    /\ \A e \in Events : Rank(e) \in 0 .. 4
    /\ Rank(Start) = 1 /\ Rank(CollectEnd) = 2 /\ Rank(Finish) = 4
    /\ \A i : /\ Rank(Collecting(i)) = 2 /\ Rank(CollectError(i)) = 2
             /\ Rank(Analyzing(i)) = 3
<1>1. \A e \in Events : Rank(e) \in 0 .. 4
  BY DEF Rank
<1>2. Rank(Start) = 1 /\ Rank(CollectEnd) = 2 /\ Rank(Finish) = 4
  BY DEF Rank, Event, Start, CollectEnd, Finish
<1>3. \A i : /\ Rank(Collecting(i)) = 2 /\ Rank(CollectError(i)) = 2
            /\ Rank(Analyzing(i)) = 3
  BY DEF Rank, Event, Collecting, CollectError, Analyzing
<1>. QED BY <1>1, <1>2, <1>3

LEMMA Phases ==
    /\ Start.phase = "START" /\ CollectEnd.phase = "COLLECT" /\ Finish.phase = "DONE"
    /\ \A i : /\ Collecting(i).phase = "COLLECT" /\ CollectError(i).phase = "COLLECT"
             /\ Analyzing(i).phase = "ANALYZE"
    /\ Done.phase = "" /\ Failure.phase = "" /\ None.phase = ""
  BY DEF Event, Start, Collecting, CollectError, CollectEnd, Analyzing, Finish,
         Done, Failure, None

\* The elements of a concatenation.
LEMMA Joined ==
    ASSUME NEW s \in Seq(Events), NEW t \in Seq(Events)
    PROVE  /\ s \o t \in Seq(Events) /\ Len(s) \in Nat /\ Len(t) \in Nat
           /\ Len(s \o t) = Len(s) + Len(t)
           /\ \A n \in 1 .. Len(s) : n \in 1 .. Len(s \o t) /\ (s \o t)[n] = s[n]
           /\ \A n \in 1 .. Len(t) :
                 Len(s) + n \in 1 .. Len(s \o t) /\ (s \o t)[Len(s) + n] = t[n]
           /\ \A n \in 1 .. Len(s \o t) : \/ n \in 1 .. Len(s)
                                        \/ \E m \in 1 .. Len(t) : n = Len(s) + m
<1>1. /\ s \o t \in Seq(Events) /\ Len(s) \in Nat /\ Len(t) \in Nat
      /\ Len(s \o t) = Len(s) + Len(t)
      /\ \A n \in 1 .. Len(s) + Len(t) :
            (s \o t)[n] = IF n <= Len(s) THEN s[n] ELSE t[n - Len(s)]
  BY ConcatProperties, LenProperties
<1>2. ASSUME NEW n \in 1 .. Len(s)
      PROVE  n \in 1 .. Len(s \o t) /\ (s \o t)[n] = s[n]
  BY <1>1
<1>3. ASSUME NEW n \in 1 .. Len(t)
      PROVE  Len(s) + n \in 1 .. Len(s \o t) /\ (s \o t)[Len(s) + n] = t[n]
  <2>1. /\ Len(s) + n \in 1 .. Len(s) + Len(t) /\ ~(Len(s) + n <= Len(s))
        /\ (Len(s) + n) - Len(s) = n
    BY <1>1
  <2>. QED BY <1>1, <2>1
<1>4. ASSUME NEW n \in 1 .. Len(s \o t)
      PROVE  \/ n \in 1 .. Len(s)
             \/ \E m \in 1 .. Len(t) : n = Len(s) + m
  <2>1. CASE n <= Len(s)
    BY <1>1, <2>1
  <2>2. CASE n > Len(s)
    <3>1. n - Len(s) \in 1 .. Len(t) /\ n = Len(s) + (n - Len(s))
      BY <1>1, <2>2
    <3>. QED BY <3>1
  <2>. QED BY <1>1, <2>1, <2>2
<1>. QED BY <1>1, <1>2, <1>3, <1>4

\* Later phases after earlier ones.
LEMMA InPhasesJoined ==
    ASSUME NEW s \in Seq(Events), NEW t \in Seq(Events),
           NEW low \in Nat, NEW mid \in Nat, NEW high \in Nat,
           low <= mid, mid <= high,
           InPhases(s, low, mid), InPhases(t, mid, high)
    PROVE  InPhases(s \o t, low, high)
<1>. DEFINE st == s \o t
<1>1. /\ Len(s) \in Nat /\ Len(t) \in Nat /\ Len(st) \in Nat
      /\ Len(st) = Len(s) + Len(t)
      /\ \A n \in 1 .. Len(s) : st[n] = s[n] /\ s[n] \in Events
      /\ \A n \in 1 .. Len(t) : st[Len(s) + n] = t[n] /\ t[n] \in Events
      /\ \A n \in 1 .. Len(st) : \/ n \in 1 .. Len(s)
                                \/ \E m \in 1 .. Len(t) : n = Len(s) + m
  BY Joined, ElementOfSeq
<1>2. \A e \in Events : Rank(e) \in Nat
  BY Ranks
<1>. HIDE DEF st
<1>3. ASSUME NEW m \in 1 .. Len(st), NEW n \in 1 .. Len(st), m < n,
             st[m].phase # "", st[n].phase # ""
      PROVE  Rank(st[m]) <= Rank(st[n])
  <2>1. CASE m \in 1 .. Len(s) /\ n \in 1 .. Len(s)
    BY <1>1, <1>3, <2>1 DEF InPhases, Ordered
  <2>2. CASE m \in 1 .. Len(s) /\ ~(n \in 1 .. Len(s))
    <3>1. PICK k \in 1 .. Len(t) : n = Len(s) + k
      BY <1>1, <2>2
    <3>2. Rank(s[m]) \in low .. mid /\ Rank(t[k]) \in mid .. high
      BY <1>1, <1>3, <2>2, <3>1 DEF InPhases, Between
    <3>3. st[m] = s[m] /\ st[n] = t[k]
      BY <1>1, <2>2, <3>1
    <3>. QED BY <3>2, <3>3
  <2>3. CASE ~(m \in 1 .. Len(s))
    <3>1. PICK j \in 1 .. Len(t) : m = Len(s) + j
      BY <1>1, <2>3
    <3>0. /\ m < n /\ m = Len(s) + j
          /\ Len(s) \in Nat /\ Len(st) \in Nat /\ Len(t) \in Nat
      BY <1>1, <1>3, <3>1, Zenon
    <3>2. n \in Nat /\ j \in Nat /\ j > 0 /\ ~(n \in 1 .. Len(s))
      BY <3>0
    <3>3. PICK k \in 1 .. Len(t) : n = Len(s) + k
      BY <1>1, <3>2
    <3>4. j < k
      BY <3>0, <3>2, <3>3
    <3>5. st[m] = t[j] /\ st[n] = t[k]
      BY <1>1, <3>1, <3>3
    <3>. QED BY <1>3, <3>4, <3>5 DEF InPhases, Ordered
  <2>. QED BY <2>1, <2>2, <2>3
<1>4. ASSUME NEW n \in 1 .. Len(st), st[n].phase # ""
      PROVE  Rank(st[n]) \in low .. high
  <2>1. CASE n \in 1 .. Len(s)
    <3>1. Rank(s[n]) \in low .. mid /\ st[n] = s[n]
      BY <1>1, <1>4, <2>1 DEF InPhases, Between
    <3>. QED BY <3>1
  <2>2. CASE ~(n \in 1 .. Len(s))
    <3>1. PICK k \in 1 .. Len(t) : n = Len(s) + k
      BY <1>1, <2>2
    <3>2. st[n] = t[k]
      BY <1>1, <3>1
    <3>3. Rank(t[k]) \in mid .. high
      BY <1>4, <3>2 DEF InPhases, Between
    <3>. QED BY <3>2, <3>3
  <2>. QED BY <2>1, <2>2
<1>. QED BY <1>3, <1>4 DEF InPhases, Ordered, Between, st

\* One event, two or three, none of them an analysis.
LEMMA InPhasesListed ==
    ASSUME NEW low \in Nat, NEW high \in Nat, low <= high,
           NEW e \in Events, NEW f \in Events, NEW g \in Events,
           Rank(e) \in low .. high, Rank(f) \in low .. high, Rank(g) \in low .. high,
           Rank(e) <= Rank(f), Rank(f) <= Rank(g)
    PROVE  /\ <<e>> \in Seq(Events) /\ <<e, f>> \in Seq(Events)
           /\ <<e, f, g>> \in Seq(Events)
           /\ InPhases(<<e>>, low, high) /\ InPhases(<<e, f>>, low, high)
           /\ InPhases(<<e, f, g>>, low, high)
<1>1. Rank(e) \in Nat /\ Rank(f) \in Nat /\ Rank(g) \in Nat
  BY Ranks
<1>2. InPhases(<<e>>, low, high)
  <2>. DEFINE t == <<e>>
  <2>1. Len(t) = 1 /\ t[1] = e
    OBVIOUS
  <2>. HIDE DEF t
  <2>2. \A n \in 1 .. Len(t) : n = 1
    BY <2>1
  <2>3. Between(t, low, high)
    BY <2>1, <2>2 DEF Between
  <2>4. \A m, n \in 1 .. Len(t) : ~(m < n)
    BY <2>1
  <2>5. InPhases(t, low, high)
    BY <2>3, <2>4 DEF InPhases, Ordered
  <2>. QED BY <2>5 DEF t
<1>3. InPhases(<<e, f>>, low, high)
  <2>. DEFINE t == <<e, f>>
  <2>1. Len(t) = 2 /\ t[1] = e /\ t[2] = f
    OBVIOUS
  <2>. HIDE DEF t
  <2>2. \A n \in 1 .. Len(t) : n = 1 \/ n = 2
    BY <2>1
  <2>3. Between(t, low, high)
    BY <2>1, <2>2 DEF Between
  <2>4. \A m, n \in 1 .. Len(t) : m < n => m = 1 /\ n = 2
    BY <2>1
  <2>5. InPhases(t, low, high)
    BY <2>1, <2>3, <2>4 DEF InPhases, Ordered
  <2>. QED BY <2>5 DEF t
<1>4. InPhases(<<e, f, g>>, low, high)
  <2>. DEFINE t == <<e, f, g>>
  <2>1. Len(t) = 3 /\ t[1] = e /\ t[2] = f /\ t[3] = g
    OBVIOUS
  <2>. HIDE DEF t
  <2>2. \A n \in 1 .. Len(t) : n = 1 \/ n = 2 \/ n = 3
    BY <2>1
  <2>3. Between(t, low, high)
    BY <2>1, <2>2 DEF Between
  <2>4. \A m, n \in 1 .. Len(t) :
           m < n => \/ m = 1 /\ n = 2
                    \/ m = 1 /\ n = 3
                    \/ m = 2 /\ n = 3
    BY <2>1
  <2>5. Rank(e) <= Rank(g)
    BY <1>1
  <2>6. InPhases(t, low, high)
    BY <2>1, <2>3, <2>4, <2>5, Zenon DEF InPhases, Ordered
  <2>. QED BY <2>6 DEF t
<1>. QED BY <1>2, <1>3, <1>4

LEMMA PlainListed ==
    ASSUME NEW e, NEW f, NEW g,
           e.phase # "ANALYZE", f.phase # "ANALYZE", g.phase # "ANALYZE"
    PROVE  /\ Plain(<<e>>) /\ Plain(<<e, f>>) /\ Plain(<<e, f, g>>)
           /\ e # Finish /\ f # Finish => \A n \in 1 .. Len(<<e, f>>) : <<e, f>>[n] # Finish
<1>1. Plain(<<e>>)
  BY DEF Plain
<1>2. \A n \in 1 .. Len(<<e, f>>) : <<e, f>>[n] \in {e, f}
  OBVIOUS
<1>3. \A n \in 1 .. Len(<<e, f, g>>) : <<e, f, g>>[n] \in {e, f, g}
  OBVIOUS
<1>. QED BY <1>1, <1>2, <1>3 DEF Plain

\* The end and the sentinel belong to no phase.
LEMMA InPhasesClosed ==
    ASSUME NEW low \in Nat, NEW high \in Nat, low <= high,
           NEW events \in Seq(Events), NEW e \in Terminal,
           InPhases(events, low, high), Plain(events)
    PROVE  LET t == (events \o <<e>>) \o <<None>> IN
           t \in Seq(Events) /\ InPhases(t, low, high) /\ Plain(t)
<1>1. e \in Events /\ None \in Events /\ e.phase = "" /\ None.phase = ""
  BY EventTypes, Phases DEF Terminal
<1>2. ASSUME NEW s \in Seq(Events), InPhases(s, low, high), Plain(s),
             NEW f \in Events, f.phase = ""
      PROVE  s \o <<f>> \in Seq(Events) /\ InPhases(s \o <<f>>, low, high) /\ Plain(s \o <<f>>)
  <2>1. /\ <<f>> \in Seq(Events) /\ Len(<<f>>) = 1 /\ <<f>>[1] = f
        /\ high <= high
    OBVIOUS
  <2>2. InPhases(<<f>>, high, high)
    <3>1. \A n \in 1 .. Len(<<f>>) : n = 1
      BY <2>1
    <3>2. \A n \in 1 .. Len(<<f>>) : <<f>>[n].phase = ""
      BY <1>2, <2>1, <3>1
    <3>. QED BY <3>2, Zenon DEF InPhases, Ordered, Between
  <2>3. InPhases(s \o <<f>>, low, high)
    BY <1>2, <2>1, <2>2, InPhasesJoined
  <2>4. ASSUME NEW n \in 1 .. Len(s \o <<f>>)
        PROVE  (s \o <<f>>)[n].phase # "ANALYZE"
    <3>1. \/ n \in 1 .. Len(s)
          \/ \E m \in 1 .. Len(<<f>>) : n = Len(s) + m
      BY <2>1, Joined
    <3>2. CASE n \in 1 .. Len(s)
      BY <1>2, <2>1, <3>2, Joined, Zenon DEF Plain
    <3>3. CASE \E m \in 1 .. Len(<<f>>) : n = Len(s) + m
      <4>1. PICK m \in 1 .. Len(<<f>>) : n = Len(s) + m
        BY <3>3
      <4>2. (s \o <<f>>)[n] = <<f>>[m] /\ m = 1
        BY <2>1, <4>1, Joined
      <4>. QED BY <1>2, <2>1, <4>2
    <3>. QED BY <3>1, <3>2, <3>3
  <2>. QED BY <2>1, <2>3, <2>4, Joined DEF Plain
<1>3. LET s == events \o <<e>> IN
      s \in Seq(Events) /\ InPhases(s, low, high) /\ Plain(s)
  BY <1>1, <1>2
<1>. QED BY <1>1, <1>2, <1>3

\* What no analysis announces keeps the announcements true.
LEMMA AnnouncedKept ==
    ASSUME Announced(Emitted), Emitted \in Seq(Events), NEW t \in Seq(Events), Emitted' = Emitted \o t,
           Plain(t), asked' = asked, answered' = answered, task # "ended",
           \/ \A n \in 1 .. Len(t) : t[n] # Finish
           \/ task' = "ended" /\ answered = asked
    PROVE  Announced(Emitted)'
<1>1. /\ ~(task = "ended")
      /\ \A n \in 1 .. Len(Emitted) :
            n \in 1 .. Len(Emitted') /\ Emitted'[n] = Emitted[n]
      /\ \A n \in 1 .. Len(Emitted') :
            \/ n \in 1 .. Len(Emitted)
            \/ \E m \in 1 .. Len(t) : Emitted'[n] = t[m]
  <2>. PICK s : s = Emitted /\ s \in Seq(Events) /\ Emitted' = s \o t
    OBVIOUS
  <2>1. \A n \in 1 .. Len(s) : n \in 1 .. Len(s \o t) /\ (s \o t)[n] = s[n]
    BY Joined, Zenon
  <2>2. \A n \in 1 .. Len(t) :
           Len(s) + n \in 1 .. Len(s \o t) /\ (s \o t)[Len(s) + n] = t[n]
    BY Joined, Zenon
  <2>3. \A n \in 1 .. Len(s \o t) : \/ n \in 1 .. Len(s)
                                   \/ \E m \in 1 .. Len(t) : n = Len(s) + m
    BY Joined, Zenon
  <2>4. \A n \in 1 .. Len(s \o t) : \/ n \in 1 .. Len(s)
                                   \/ \E m \in 1 .. Len(t) : (s \o t)[n] = t[m]
    <3>1. SUFFICES ASSUME NEW n \in 1 .. Len(s \o t), n \notin 1 .. Len(s)
                   PROVE  \E m \in 1 .. Len(t) : (s \o t)[n] = t[m]
      OBVIOUS
    <3>2. PICK m \in 1 .. Len(t) : n = Len(s) + m
      BY <2>3, <3>1, Zenon
    <3>3. (s \o t)[Len(s) + m] = t[m]
      BY <2>2, Zenon
    <3>. QED BY <3>2, <3>3, Zenon
  <2>5. task # "ended"
    OBVIOUS
  <2>6. \A n \in 1 .. Len(Emitted) : n \in 1 .. Len(Emitted') /\ Emitted'[n] = Emitted[n]
    BY <2>1, Zenon
  <2>7. \A n \in 1 .. Len(Emitted') : \/ n \in 1 .. Len(Emitted)
                                     \/ \E m \in 1 .. Len(t) : Emitted'[n] = t[m]
    BY <2>4, Zenon
  <2>. QED BY <2>5, <2>6, <2>7
<1>2. ASSUME NEW n \in 1 .. Len(Emitted'), Emitted'[n].phase = "ANALYZE"
      PROVE  \E i \in asked' : Emitted'[n] = Analyzing(i)
  <2>1. CASE n \in 1 .. Len(Emitted)
    <3>1. Emitted[n].phase = "ANALYZE" /\ Emitted'[n] = Emitted[n]
      BY <1>1, <1>2, <2>1, Zenon
    <3>2. \E i \in asked : Emitted[n] = Analyzing(i)
      BY <2>1, <3>1, Zenon DEF Announced
    <3>. QED BY <3>1, <3>2, Zenon
  <2>2. ASSUME NEW m \in 1 .. Len(t), Emitted'[n] = t[m] PROVE FALSE
    BY <1>2, <2>2, Zenon DEF Plain
  <2>. QED BY <1>1, <2>1, <2>2, Zenon
<1>3. ASSUME NEW i \in asked'
      PROVE  \E n \in 1 .. Len(Emitted') : Emitted'[n] = Analyzing(i)
  <2>1. i \in asked
    BY <1>3
  <2>2. PICK n \in 1 .. Len(Emitted) : Emitted[n] = Analyzing(i)
    BY <2>1 DEF Announced
  <2>. QED BY <1>1, <2>2
<1>4. ASSUME NEW i \in answered'
      PROVE  \E m, n \in 1 .. Len(Emitted') :
                m # n /\ Emitted'[m] = Analyzing(i) /\ Emitted'[n] = Analyzing(i)
  <2>1. i \in answered
    BY <1>4
  <2>2. PICK m, n \in 1 .. Len(Emitted) :
           m # n /\ Emitted[m] = Analyzing(i) /\ Emitted[n] = Analyzing(i)
    BY <2>1 DEF Announced
  <2>. QED BY <1>1, <2>2
<1>5. ASSUME NEW n \in 1 .. Len(Emitted'), Emitted'[n] = Finish
      PROVE  task' = "ended" /\ answered' = asked'
  BY <1>1, <1>5, Zenon DEF Announced
<1>. QED BY <1>2, <1>3, <1>4, <1>5 DEF Announced

LEMMA Levels ==
    ASSUME IInv
    PROVE  /\ Level \in 1 .. 4
           /\ task = "created" => Level = 1
           /\ task = "collecting" => Level = 2
           /\ task = "analyzing" => Level = 3
           /\ task = "ended" => Level = 4
  BY DEF Level, IInv, TypeOK

\* A step of the task that goes on, and one that ends it.
LEMMA OrderSays ==
    ASSUME IInv, OrderInv, task # "ended", NEW t \in Seq(Events), Put(t),
           taken' = taken, Level' \in Level .. 4, InPhases(t, Level, Level'), Plain(t),
           asked' = asked, answered' = answered,
           \/ \A n \in 1 .. Len(t) : t[n] # Finish
           \/ task' = "ended" /\ answered = asked
    PROVE  OrderInv'
<1>1. Emitted \in Seq(Events) /\ Emitted' = Emitted \o t
  BY Emission DEF IInv
<1>2. /\ Level \in Nat /\ Level' \in Nat /\ 0 \in Nat
      /\ 0 <= Level /\ Level <= Level'
  BY Levels
<1>3. InPhases(Emitted \o t, 0, Level')
  BY <1>1, <1>2, InPhasesJoined DEF OrderInv
<1>4. Announced(Emitted)'
  BY <1>1, AnnouncedKept DEF OrderInv
<1>. QED BY <1>1, <1>3, <1>4 DEF OrderInv

LEMMA OrderEnds ==
    ASSUME IInv, OrderInv, task # "ended", NEW events \in Seq(Events),
           InPhases(events, Level, 4), Plain(events), NEW e \in Terminal,
           Close(events \o <<e>>), taken' = taken,
           asked' = asked, answered' = answered, answered = asked
    PROVE  OrderInv'
<1>. DEFINE t == (events \o <<e>>) \o <<None>>
<1>1. task' = "ended" /\ Put(t)
  BY DEF Close
<1>2. Level' = 4 /\ Level \in Nat /\ 4 \in Nat /\ Level <= 4 /\ Level' \in Level .. 4
  <2>1. Level' = 4
    BY <1>1 DEF Level
  <2>. QED BY <2>1, Levels
<1>3. t \in Seq(Events) /\ InPhases(t, Level, 4) /\ Plain(t)
  BY <1>2, InPhasesClosed
<1>4. InPhases(t, Level, Level')
  BY <1>2, <1>3
<1>. HIDE DEF t
<1>. QED BY <1>1, <1>2, <1>3, <1>4, OrderSays

LEMMA InitOrder == Init => OrderInv
<1>. SUFFICES ASSUME Init PROVE OrderInv
  OBVIOUS
<1>1. /\ asked = {} /\ answered = {} /\ queue = <<>> /\ taken = <<>>
      /\ <<>> \in Seq(Events) /\ Len(<<>> \o <<>>) = 0
  BY ConcatProperties DEF Init
<1>2. \A n \in 1 .. Len(Emitted) : FALSE
  BY <1>1 DEF Emitted
<1>. QED BY <1>1, <1>2 DEF OrderInv, InPhases, Ordered, Between, Announced

LEMMA OutsideKeepsOrder ==
    ASSUME IInv, OrderInv, Open \/ Deliver \/ Disconnect \/ Over \/ UNCHANGED vars
    PROVE  OrderInv'
<1>1. Emitted' = Emitted /\ asked' = asked /\ answered' = answered
  <2>1. CASE Deliver
    BY <2>1, Delivery DEF Deliver, IInv, analysis
  <2>2. CASE Open \/ Disconnect \/ Over \/ UNCHANGED vars
    BY <2>2 DEF Open, Disconnect, Over, vars, delivery, analysis, Emitted
  <2>. QED BY <2>1, <2>2
<1>2. Level' = Level /\ (task = "ended" => task' = "ended")
  <2>1. CASE Open
    BY <2>1 DEF Open, IInv, Progress, Level
  <2>2. CASE ~Open
    <3>1. task' = task
      BY <2>2 DEF Deliver, Disconnect, Over, vars
    <3>. QED BY <3>1 DEF Level
  <2>. QED BY <2>1, <2>2
<1>. QED BY <1>1, <1>2 DEF OrderInv, Announced

\* An analysis is announced once more than it was.
LEMMA AnalysisKeepsOrder ==
    ASSUME IInv, OrderInv, NEW i \in Indices, AnalyzePair(i) \/ PairAnalyzed(i)
    PROVE  OrderInv'
<1>. DEFINE t == <<Analyzing(i)>>
<1>1. /\ task = "analyzing" /\ task' = task /\ taken' = taken /\ Put(t)
      /\ \/ asked' = asked \cup {i} /\ answered' = answered
         \/ i \in asked /\ asked' = asked /\ answered' = answered \cup {i}
  BY DEF AnalyzePair, PairAnalyzed, delivery
<1>2. Analyzing(i) \in Events /\ Rank(Analyzing(i)) = 3 /\ Analyzing(i) # Finish
  BY EventTypes, Ranks
<1>3. t \in Seq(Events) /\ Len(t) = 1 /\ t[1] = Analyzing(i)
  BY <1>2
<1>. HIDE DEF t
<1>4. /\ Emitted \in Seq(Events) /\ Emitted' = Emitted \o t
      /\ Level = 3 /\ Level' = 3
  BY <1>1, <1>3, Emission DEF IInv, Level
<1>5. InPhases(Emitted', 0, 3)
  <2>1. /\ 0 \in Nat /\ 3 \in Nat /\ 0 <= 3 /\ 3 <= 3
        /\ Rank(Analyzing(i)) \in 3 .. 3 /\ Rank(Analyzing(i)) <= Rank(Analyzing(i))
    BY <1>2
  <2>2. InPhases(<<Analyzing(i)>>, 3, 3)
    BY <1>2, <2>1, InPhasesListed
  <2>3. InPhases(t, 3, 3) /\ InPhases(Emitted, 0, 3)
    BY <1>4, <2>2 DEF OrderInv, t
  <2>. QED BY <1>3, <1>4, <2>1, <2>3, InPhasesJoined
<1>6. /\ \A n \in 1 .. Len(Emitted) : n \in 1 .. Len(Emitted') /\ Emitted'[n] = Emitted[n]
      /\ Len(Emitted) + 1 \in 1 .. Len(Emitted') /\ Emitted'[Len(Emitted) + 1] = Analyzing(i)
      /\ ~(Len(Emitted) + 1 \in 1 .. Len(Emitted))
      /\ \A n \in 1 .. Len(Emitted') :
            n \in 1 .. Len(Emitted) \/ Emitted'[n] = Analyzing(i)
  <2>1. 1 \in 1 .. Len(t) /\ \A m \in 1 .. Len(t) : m = 1
    BY <1>3
  <2>2. Len(Emitted) \in Nat
    BY <1>3, <1>4, Joined
  <2>3. ~(Len(Emitted) + 1 \in 1 .. Len(Emitted))
    BY <2>2
  <2>4. /\ \A n \in 1 .. Len(Emitted) : n \in 1 .. Len(Emitted') /\ Emitted'[n] = Emitted[n]
        /\ Len(Emitted) + 1 \in 1 .. Len(Emitted') /\ Emitted'[Len(Emitted) + 1] = t[1]
    BY <1>3, <1>4, <2>1, Joined
  <2>5. ASSUME NEW n \in 1 .. Len(Emitted'), n \notin 1 .. Len(Emitted)
        PROVE  Emitted'[n] = Analyzing(i)
    <3>1. PICK m \in 1 .. Len(t) : n = Len(Emitted) + m
      BY <1>3, <1>4, <2>5, Joined
    <3>. QED BY <1>3, <2>1, <2>4, <3>1
  <2>. QED BY <1>3, <2>3, <2>4, <2>5
<1>7. Announced(Emitted)'
  <2>1. ASSUME NEW n \in 1 .. Len(Emitted'), Emitted'[n].phase = "ANALYZE"
        PROVE  \E j \in asked' : Emitted'[n] = Analyzing(j)
    <3>1. CASE n \in 1 .. Len(Emitted)
      <4>1. Emitted'[n] = Emitted[n]
        BY <1>6, <3>1
      <4>2. PICK j \in asked : Emitted[n] = Analyzing(j)
        BY <2>1, <3>1, <4>1 DEF OrderInv, Announced
      <4>. QED BY <1>1, <4>1, <4>2
    <3>2. CASE n \notin 1 .. Len(Emitted)
      BY <1>1, <1>6, <3>2
    <3>. QED BY <3>1, <3>2
  <2>2. ASSUME NEW j \in asked'
        PROVE  \E n \in 1 .. Len(Emitted') : Emitted'[n] = Analyzing(j)
    <3>1. CASE j \in asked
      <4>1. PICK n \in 1 .. Len(Emitted) : Emitted[n] = Analyzing(j)
        BY <3>1 DEF OrderInv, Announced
      <4>. QED BY <1>6, <4>1
    <3>2. CASE j = i
      BY <1>6, <3>2
    <3>. QED BY <1>1, <2>2, <3>1, <3>2
  <2>3. ASSUME NEW j \in answered'
        PROVE  \E m, n \in 1 .. Len(Emitted') :
                  m # n /\ Emitted'[m] = Analyzing(j) /\ Emitted'[n] = Analyzing(j)
    <3>1. CASE j \in answered
      <4>1. PICK m, n \in 1 .. Len(Emitted) :
               m # n /\ Emitted[m] = Analyzing(j) /\ Emitted[n] = Analyzing(j)
        BY <3>1 DEF OrderInv, Announced
      <4>. QED BY <1>6, <4>1
    <3>2. CASE j = i /\ i \in asked
      <4>1. PICK n \in 1 .. Len(Emitted) : Emitted[n] = Analyzing(i)
        BY <3>2 DEF OrderInv, Announced
      <4>. QED BY <1>6, <3>2, <4>1
    <3>. QED BY <1>1, <2>3, <3>1, <3>2
  <2>4. ASSUME NEW n \in 1 .. Len(Emitted'), Emitted'[n] = Finish PROVE FALSE
    <3>1. n \in 1 .. Len(Emitted)
      BY <1>2, <1>6, <2>4
    <3>. QED BY <1>1, <1>6, <2>4, <3>1 DEF OrderInv, Announced
  <2>. QED BY <2>1, <2>2, <2>3, <2>4 DEF Announced
<1>. QED BY <1>4, <1>5, <1>7 DEF OrderInv

LEMMA TaskKeepsOrder == IInv /\ OrderInv /\ TaskStep => OrderInv'
<1>. SUFFICES ASSUME IInv, OrderInv, TaskStep PROVE OrderInv'
  OBVIOUS
<1>1. TypeOK /\ Progress /\ Indices \subseteq Nat \ {0} /\ MaxItems \in Nat
  BY StreamAssumption DEF IInv, Indices
<1>2. /\ \A i \in Indices : /\ Collecting(i) \in Events /\ CollectError(i) \in Events
                            /\ Analyzing(i) \in Events
      /\ Start \in Events /\ CollectEnd \in Events /\ Finish \in Events
  BY EventTypes
<1>3. \A events, results :
         Publish(events, results) => \E e \in Terminal : Close(events \o <<e>>)
  BY DEF Publish, Terminal
<1>4. CASE RunNothing \/ RunFails
  <2>1. /\ task = "created" /\ taken' = taken /\ asked' = asked
        /\ answered' = answered /\ asked = {} /\ answered = {}
    BY <1>1, <1>4 DEF RunNothing, RunFails, delivery, analysis, TypeOK, Progress
  <2>2. <<Failure>> = <<>> \o <<Failure>> /\ Failure \in Terminal
    BY DEF Terminal
  <2>3. PICK e \in Terminal : Close(<<>> \o <<e>>)
    BY <1>3, <1>4, <2>2 DEF RunNothing, RunFails
  <2>4. <<>> \in Seq(Events) /\ InPhases(<<>>, Level, 4) /\ Plain(<<>>)
    BY DEF InPhases, Ordered, Between, Plain
  <2>. QED BY <2>1, <2>3, <2>4, OrderEnds
<1>5. CASE Run
  <2>1. /\ 1 \in Indices /\ task = "created" /\ task' = "collecting" /\ taken' = taken
        /\ asked' = asked /\ answered' = answered /\ Put(<<Start, Collecting(1)>>)
    BY <1>5, StreamAssumption DEF Run, Indices, delivery, analysis
  <2>2. Level = 1 /\ Level' = 2
    BY <2>1 DEF Level
  <2>3. /\ <<Start, Collecting(1)>> \in Seq(Events)
        /\ InPhases(<<Start, Collecting(1)>>, 1, 2)
    <3>1. /\ 1 \in Nat /\ 2 \in Nat /\ 1 <= 2
          /\ Start \in Events /\ Collecting(1) \in Events
          /\ Rank(Start) \in 1 .. 2 /\ Rank(Collecting(1)) \in 1 .. 2
          /\ Rank(Start) <= Rank(Collecting(1)) /\ Rank(Collecting(1)) <= Rank(Collecting(1))
      BY <1>2, <2>1, Ranks
    <3>. QED BY <3>1, InPhasesListed
  <2>4. /\ Plain(<<Start, Collecting(1)>>)
        /\ \A n \in 1 .. Len(<<Start, Collecting(1)>>) : <<Start, Collecting(1)>>[n] # Finish
    <3>1. /\ Start.phase # "ANALYZE" /\ Collecting(1).phase # "ANALYZE"
          /\ Start # Finish /\ Collecting(1) # Finish
      BY Phases
    <3>. QED BY <3>1, PlainListed
  <2>5. Level' \in Level .. 4
    BY <2>2
  <2>. QED BY <2>1, <2>2, <2>3, <2>4, <2>5, OrderSays
<1>6. CASE CollectNext \/ CollectLast
  <2>1. /\ item \in Indices
        /\ item < total => item + 1 \in Indices
        /\ task = "collecting" /\ taken' = taken
        /\ asked' = asked /\ answered' = answered
    BY <1>1, <1>6
       DEF CollectNext, CollectLast, Progress, TypeOK, Indices, delivery, analysis
  <2>2. PICK e \in {Collecting(item), CollectError(item)},
             f \in {Collecting(item + 1), CollectEnd} :
           /\ Put(<<e, f>>)
           /\ f \in Events
    <3>1. CASE CollectNext
      BY <1>2, <2>1, <3>1 DEF CollectNext
    <3>2. CASE CollectLast
      BY <1>2, <3>2 DEF CollectLast
    <3>. QED BY <1>6, <3>1, <3>2
  <2>3. e \in Events /\ f \in Events /\ Rank(e) = 2 /\ Rank(f) = 2
    BY <1>2, <2>1, <2>2, Ranks
  <2>4. /\ Level = 2 /\ Level' \in 2 .. 3 /\ Level \in Nat /\ Level' \in Nat
        /\ Level <= Level' /\ Level' \in Level .. 4 /\ Rank(f) \in Level .. Level'
        /\ Rank(e) \in Level .. Level' /\ Rank(e) <= Rank(f) /\ Rank(f) <= Rank(f)
    <3>1. Level = 2 /\ Level' \in 2 .. 3
      BY <1>6 DEF CollectNext, CollectLast, Level
    <3>. QED BY <2>3, <3>1
  <2>5. <<e, f>> \in Seq(Events) /\ InPhases(<<e, f>>, Level, Level')
    BY <2>3, <2>4, InPhasesListed
  <2>6. Plain(<<e, f>>) /\ \A n \in 1 .. Len(<<e, f>>) : <<e, f>>[n] # Finish
    <3>1. /\ e.phase # "ANALYZE" /\ f.phase # "ANALYZE"
          /\ e # Finish /\ f # Finish
      BY <2>2, Phases
    <3>. QED BY <3>1, PlainListed
  <2>. QED BY <2>1, <2>2, <2>4, <2>5, <2>6, OrderSays
<1>7. CASE CollectNothing
  <2>1. /\ item \in Indices /\ task = "collecting" /\ asked = {} /\ answered = {}
        /\ taken' = taken /\ asked' = asked /\ answered' = answered
    BY <1>1, <1>7 DEF CollectNothing, Progress, TypeOK, Indices, delivery, analysis
  <2>2. PICK e \in {Collecting(item), CollectError(item)} :
           Publish(<<e, CollectEnd, Finish>>, {})
    BY <1>7 DEF CollectNothing
  <2>3. e \in Events /\ Rank(e) = 2
    BY <1>2, <2>1, <2>2, Ranks
  <2>4. /\ <<e, CollectEnd, Finish>> \in Seq(Events)
        /\ InPhases(<<e, CollectEnd, Finish>>, 2, 4)
    <3>1. /\ 2 \in Nat /\ 4 \in Nat /\ 2 <= 4
          /\ Rank(e) \in 2 .. 4 /\ Rank(CollectEnd) \in 2 .. 4 /\ Rank(Finish) \in 2 .. 4
          /\ Rank(e) <= Rank(CollectEnd) /\ Rank(CollectEnd) <= Rank(Finish)
      BY <2>3, Ranks
    <3>. QED BY <1>2, <2>3, <3>1, InPhasesListed
  <2>5. Plain(<<e, CollectEnd, Finish>>)
    <3>1. /\ e.phase # "ANALYZE" /\ CollectEnd.phase # "ANALYZE"
          /\ Finish.phase # "ANALYZE"
      BY <2>2, Phases
    <3>. QED BY <3>1, PlainListed
  <2>6. PICK g \in Terminal : Close(<<e, CollectEnd, Finish>> \o <<g>>)
    BY <1>3, <2>2
  <2>. QED BY <2>1, <2>4, <2>5, <2>6, Levels, OrderEnds
<1>8. CASE CollectFails
  <2>1. /\ task = "collecting" /\ taken' = taken /\ asked' = asked
        /\ answered' = answered /\ asked = {} /\ answered = {}
    BY <1>1, <1>8 DEF CollectFails, delivery, analysis, TypeOK, Progress
  <2>2. Close(<<>> \o <<Failure>>) /\ Failure \in Terminal
    BY <1>8 DEF Terminal, CollectFails
  <2>3. <<>> \in Seq(Events) /\ InPhases(<<>>, Level, 4) /\ Plain(<<>>)
    BY DEF InPhases, Ordered, Between, Plain
  <2>. QED BY <2>1, <2>2, <2>3, OrderEnds
<1>10. CASE Aggregate
  <2>1. /\ task = "analyzing" /\ taken' = taken /\ asked' = asked
        /\ answered' = answered /\ answered = asked
    BY <1>1, <1>10 DEF Aggregate, delivery, analysis, TypeOK
  <2>2. PICK e \in Terminal : Close(<<Finish>> \o <<e>>)
    BY <1>3, <1>10 DEF Aggregate
  <2>3. <<Finish>> \in Seq(Events) /\ InPhases(<<Finish>>, 3, 4)
    <3>1. /\ 3 \in Nat /\ 4 \in Nat /\ 3 <= 4
          /\ Rank(Finish) \in 3 .. 4 /\ Rank(Finish) <= Rank(Finish)
      BY Ranks
    <3>. QED BY <1>2, <3>1, InPhasesListed
  <2>4. Plain(<<Finish>>)
    BY Phases, PlainListed
  <2>. QED BY <2>1, <2>2, <2>3, <2>4, Levels, OrderEnds
<1>. QED BY <1>4, <1>5, <1>6, <1>7, <1>8, <1>10, AnalysisKeepsOrder DEF TaskStep

\* The events tell the phases in order, and at DONE every analysis announced
\* has been announced twice (run_analysis_pipeline_usecase.py 118-211,
\* pipeline_router.py 124-148).
THEOREM EventsAreInOrder == Spec => []EventsInOrder
<1>1. IInv /\ OrderInv /\ [Next]_vars => OrderInv'
  BY OutsideKeepsOrder, TaskKeepsOrder DEF Next
<1>2. IInv /\ OrderInv => EventsInOrder
  <2>. SUFFICES ASSUME IInv, OrderInv PROVE EventsInOrder
    OBVIOUS
  <2>. DEFINE rank == [START |-> 1, COLLECT |-> 2, ANALYZE |-> 3, DONE |-> 4]
              phased == {n \in DOMAIN Emitted : Emitted[n].phase # ""}
  <2>1. /\ Emitted \in Seq(Events) /\ DOMAIN Emitted = 1 .. Len(Emitted)
        /\ \A n \in 1 .. Len(Emitted) : Emitted[n] \in Events
    BY ConcatProperties, LenProperties, ElementOfSeq DEF IInv, TypeOK, Emitted
  <2>2. ASSUME NEW e \in Events, e.phase # "" PROVE rank[e.phase] = Rank(e)
    <3>1. /\ rank["START"] = 1 /\ rank["COLLECT"] = 2
          /\ rank["ANALYZE"] = 3 /\ rank["DONE"] = 4
      OBVIOUS
    <3>2. e.phase \in {"START", "COLLECT", "ANALYZE", "DONE"}
      BY <2>2 DEF Events
    <3>. HIDE DEF rank
    <3>. QED BY <3>1, <3>2 DEF Rank
  <2>3. ASSUME NEW m \in phased, NEW n \in phased, m < n
        PROVE  rank[Emitted[m].phase] <= rank[Emitted[n].phase]
    <3>1. Rank(Emitted[m]) <= Rank(Emitted[n])
      BY <2>1, <2>3 DEF OrderInv, InPhases, Ordered
    <3>2. /\ Emitted[m] \in Events /\ Emitted[m].phase # ""
          /\ Emitted[n] \in Events /\ Emitted[n].phase # ""
      BY <2>1
    <3>. HIDE DEF rank, phased
    <3>3. /\ rank[Emitted[m].phase] = Rank(Emitted[m])
          /\ rank[Emitted[n].phase] = Rank(Emitted[n])
      BY <2>2, <3>2
    <3>. QED BY <3>1, <3>3
  <2>4. ASSUME Contains(Emitted, Finish), NEW n \in phased, Emitted[n].phase = "ANALYZE"
        PROVE  \E m \in phased \ {n} : Emitted[m] = Emitted[n]
    <3>1. answered = asked
      BY <2>4 DEF OrderInv, Announced, Contains
    <3>2. PICK i \in asked : Emitted[n] = Analyzing(i)
      BY <2>1, <2>4 DEF OrderInv, Announced
    <3>3. PICK j, k \in 1 .. Len(Emitted) :
             j # k /\ Emitted[j] = Analyzing(i) /\ Emitted[k] = Analyzing(i)
      BY <3>1, <3>2 DEF OrderInv, Announced
    <3>4. j \in phased /\ k \in phased
      BY <2>1, <3>3, Phases
    <3>. QED BY <3>2, <3>3, <3>4
  <2>. QED BY <2>3, <2>4 DEF EventsInOrder
<1>. QED BY InitIInv, InitOrder, Invariant, <1>1, <1>2, PTL DEF Spec
=============================================================================
