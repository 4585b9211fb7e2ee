---------------------- MODULE InvestmentWorkflow_proofs ----------------------
(***************************************************************************)
(* What TLAPS proves about the rules of InvestmentVerdict, for every       *)
(* number of events and every price, and about the agents of               *)
(* InvestmentWorkflow, for every limit and every list of sources.          *)
(***************************************************************************)
EXTENDS InvestmentWorkflow, FiniteSetTheorems, WellFoundedInduction, TLAPS

-----------------------------------------------------------------------------
(* The rules.                                                              *)

LEMMA GivenValue ==
    ASSUME NEW o \in Optional, ~o.absent
    PROVE  o.value \in Int
<1>1. o # Absent
  BY DEF Absent
<1>2. o \in [absent : {FALSE}, value : Int]
  BY <1>1 DEF Optional
<1>. QED BY <1>2

\* The news score has no bound, the other two do.
LEMMA NewsScoreType ==
    ASSUME NEW n \in NewsSignals
    PROVE  NewsScore(n) \in Int
<1>1. \A e \in EventCounts : Weight(e) \in Int
  BY DEF Weight, EventCounts, Impacts
<1>. QED BY <1>1 DEF NewsScore, NewsSignals

LEMMA PriceScoreRange ==
    ASSUME NEW p \in Optional
    PROVE  PriceScore(p) \in -3 .. 3
<1>1. CASE p.absent
  BY <1>1 DEF PriceScore
<1>2. CASE ~p.absent
  <2>1. p.value \in Int
    BY <1>2, GivenValue
  <2>2. \A r \in Int : Climb(r) \in 0 .. 3 /\ (r <= 0 => Climb(r) = 0)
    BY DEF Climb, One
  <2>. QED BY <1>2, <2>1, <2>2 DEF PriceScore
<1>. QED BY <1>1, <1>2

LEMMA FinancialScoreRange ==
    ASSUME NEW f \in FinancialSignals
    PROVE  FinancialScore(f) \in -9 .. 5
<1>. DEFINE m == f.margin  d == f.debt
<1>1. m \in Optional /\ d \in Optional
  BY DEF FinancialSignals
<1>2. MarginScore(m) \in -6 .. 4
  <2>1. CASE m.absent
    BY <2>1 DEF MarginScore
  <2>2. CASE ~m.absent
    <3>1. m.value \in Int
      BY <1>1, <2>2, GivenValue
    <3>. QED BY <2>2, <3>1 DEF MarginScore
  <2>. QED BY <2>1, <2>2
<1>3. DebtScore(d) \in -3 .. 1
  <2>1. CASE d.absent
    BY <2>1 DEF DebtScore
  <2>2. CASE ~d.absent
    <3>1. d.value \in Int
      BY <1>1, <2>2, GivenValue
    <3>. QED BY <2>2, <3>1 DEF DebtScore
  <2>. QED BY <2>1, <2>2
<1>. QED BY <1>2, <1>3 DEF FinancialScore

LEMMA CombinedType ==
    ASSUME NEW s \in Signals
    PROVE  Combined(s) \in Int
<1>1. /\ NewsScore(s.news) \in Int
      /\ PriceScore(s.price) \in Int
      /\ FinancialScore(s.financial) \in Int
  BY NewsScoreType, PriceScoreRange, FinancialScoreRange DEF Signals
<1>. QED BY <1>1 DEF Combined

\* A sum beyond the threshold of the direction, 2.0 either way, always carries
\* enough evidence for the threshold of the confidence, 0.6, although the two
\* weigh the scores differently (investment_decision_analyzer.py 134-155): the
\* test of the confidence never turns a direction into "hold".
LEMMA DirectionConvinces ==
    ASSUME NEW s \in Signals, Combined(s) > 40 \/ Combined(s) < -40
    PROVE  Convincing(Evidence(s))
<1>. DEFINE n == NewsScore(s.news)
            p == PriceScore(s.price)
            f == FinancialScore(s.financial)
            y == s.youtube.sentiment
<1>1. n \in Int /\ p \in -3 .. 3 /\ f \in -9 .. 5 /\ y \in Int
  BY NewsScoreType, PriceScoreRange, FinancialScoreRange DEF Signals, YouTubeSignals
<1>2. 20 * n + 14 * p + 5 * f > 40 \/ 20 * n + 14 * p + 5 * f < -40
  BY DEF Combined
<1>3. Evidence(s) = 20 * Size(n) + Size(y) + 10 * Size(p) + 4 * Size(f)
  BY DEF Evidence
<1>4. \A i \in Int : Size(i) \in Nat /\ (i # 0 => Size(i) >= 1)
  BY DEF Size
<1>. HIDE DEF n, p, f, y
<1>5. CASE n # 0
  BY <1>1, <1>3, <1>4, <1>5 DEF Convincing
<1>6. CASE p # 0
  BY <1>1, <1>3, <1>4, <1>6 DEF Convincing
<1>7. CASE n = 0 /\ p = 0
  <2>1. f < -8
    BY <1>1, <1>2, <1>7
  <2>2. Size(f) >= 9
    BY <1>1, <2>1 DEF Size
  <2>. QED BY <1>1, <1>3, <1>4, <2>2 DEF Convincing
<1>. QED BY <1>5, <1>6, <1>7

\* The verdict is "hold" exactly where the direction is neutral, whatever the
\* signals: what BL-BE-74 promises of the rules.
THEOREM VerdictOfDirection ==
    ASSUME NEW s \in Signals
    PROVE  Decide(s).verdict = "hold" <=> Decide(s).direction = "neutral"
<1>1. CASE ~HasSignal(s)
  BY <1>1 DEF Decide, FallbackVerdict
<1>2. CASE HasSignal(s)
  <2>1. Decide(s).direction = Direction(s)
    BY <1>2 DEF Decide, Ruling
  <2>2. CASE Combined(s) > 40
    <3>1. Direction(s) = "bullish" /\ Convincing(Evidence(s))
      BY <2>2, DirectionConvinces, CombinedType DEF Direction
    <3>. QED BY <1>2, <2>1, <3>1 DEF Decide, Ruling
  <2>3. CASE Combined(s) < -40 /\ ~(Combined(s) > 40)
    <3>1. Direction(s) = "bearish" /\ Convincing(Evidence(s))
      BY <2>3, DirectionConvinces, CombinedType DEF Direction
    <3>. QED BY <1>2, <2>1, <3>1 DEF Decide, Ruling
  <2>4. CASE ~(Combined(s) > 40) /\ ~(Combined(s) < -40)
    <3>1. Direction(s) = "neutral"
      BY <2>4, CombinedType DEF Direction
    <3>. QED BY <1>2, <2>1, <3>1 DEF Decide, Ruling
  <2>. QED BY <2>2, <2>3, <2>4
<1>. QED BY <1>1, <1>2

-----------------------------------------------------------------------------
(* Types: whatever the sources leave, the verdict is of signals.           *)

LEMMA ResultTypes ==
    /\ \A h \in Results("news") \cup {GivenUp("news")} : h.done /\ h.signal \in NewsSignals
    /\ \A h \in Results("youtube") \cup {GivenUp("youtube")} :
          h.done /\ h.signal \in YouTubeSignals
    /\ \A h \in Results("price") \cup {GivenUp("price")} : h.done /\ h.signal \in Optional
    /\ \A h \in Results("stock") \cup {GivenUp("stock")} :
          h.done /\ h.signal \in FinancialSignals
<1>1. /\ NoNews \in NewsSignals /\ NoYouTube \in YouTubeSignals
      /\ Absent \in Optional /\ NoFinancials \in FinancialSignals
  BY DEF NoNews, NoEvents, NewsSignals, EventCounts, NoYouTube, YouTubeSignals,
         Optional, NoFinancials, FinancialSignals
<1>2. \A y \in YouTubeFound : [y EXCEPT !.sentiment = 0] \in YouTubeSignals
  BY WorkflowAssumption DEF YouTubeSignals
<1>3. \A p \in PricesFound : p \in Optional
  BY WorkflowAssumption
<1>4. NewsFound \subseteq NewsSignals /\ YouTubeFound \subseteq YouTubeSignals
         /\ FinancialsFound \subseteq FinancialSignals
  BY WorkflowAssumption
<1>5. \A h \in Results("news") \cup {GivenUp("news")} : h.done /\ h.signal \in NewsSignals
  BY <1>1, <1>4 DEF Results, GivenUp, NewsResults, Nothing, Result
<1>6. \A h \in Results("youtube") \cup {GivenUp("youtube")} :
         h.done /\ h.signal \in YouTubeSignals
  BY <1>1, <1>2, <1>4 DEF Results, GivenUp, YouTubeResults, Nothing, Result
<1>7. \A h \in Results("price") \cup {GivenUp("price")} : h.done /\ h.signal \in Optional
  BY <1>1, <1>3 DEF Results, GivenUp, PriceResults, Nothing, Result
<1>8. \A h \in Results("stock") \cup {GivenUp("stock")} :
         h.done /\ h.signal \in FinancialSignals
  BY <1>1, <1>4 DEF Results, GivenUp, StockResults, Nothing, Result
<1>. QED BY <1>5, <1>6, <1>7, <1>8

\* A set of places has a last one: the least distance to a bound has a place.
LEMMA LastPlace ==
    ASSUME NEW n \in Nat, NEW S, S \subseteq 1 .. n, S # {}
    PROVE  Max(S) \in S
<1>. DEFINE R == OpToRel(<, Nat)
            T == {d \in Nat : n - d \in S}
<1>1. IsWellFoundedOn(R, Nat)
  BY NatLessThanWellFounded, Zenon
<1>2. T \subseteq Nat /\ T # {}
  <2>1. PICK i \in S : TRUE
    OBVIOUS
  <2>2. n - i \in Nat /\ n - (n - i) = i
    OBVIOUS
  <2>. QED BY <2>2
<1>3. PICK d \in T : \A e \in T : <<e, d>> \notin R
  <2>. HIDE DEF R, T
  <2>. QED BY <1>1, <1>2, WFMin
<1>4. \A e, f \in Nat : e < f => <<e, f>> \in R
  BY Zenon DEF OpToRel
<1>. HIDE DEF R
<1>5. \A i \in S : n - d >= i
  <2>. SUFFICES ASSUME NEW i \in S, ~(n - d >= i) PROVE FALSE
    OBVIOUS
  <2>1. n - i \in Nat /\ n - (n - i) = i
    OBVIOUS
  <2>2. n - i \in T
    BY <2>1
  <2>3. n - i < d
    OBVIOUS
  <2>. QED BY <1>3, <1>4, <2>1, <2>2, <2>3
<1>6. n - d \in S /\ \A i \in S : n - d >= i
  BY <1>5
<1>. HIDE DEF T
<1>. QED BY <1>6 DEF Max

LEMMA FilteredType ==
    ASSUME NEW reply \in Replies
    PROVE  /\ \E n \in Nat : DOMAIN Filtered(reply) \subseteq 1 .. n
           /\ \A i \in DOMAIN Filtered(reply) : Filtered(reply)[i] \in Sources
<1>1. reply \in Seq(Sources \cup {"unknown"})
  BY WorkflowAssumption
<1>2. DOMAIN DefaultSources = 1 .. 5 /\ \A i \in 1 .. 5 : DefaultSources[i] \in Sources
  BY DEF DefaultSources, Sources
<1>3. DOMAIN reply = 1 .. Len(reply) /\ Len(reply) \in Nat
  BY <1>1
<1>. QED BY <1>2, <1>3 DEF Filtered

-----------------------------------------------------------------------------
(* The run.                                                                *)

\* An agent was sent for once for every superstep before it, and the
\* orchestrator takes every other superstep.
Alternating ==
    /\ iteration \in Nat /\ supersteps \in Nat
    /\ iteration <= MaxIterations + 1
    /\ node \in {"orchestrator"} \cup Agents \cup Over
    /\ node = "orchestrator" => supersteps = 2 * iteration /\ iteration <= MaxIterations
    /\ node \in Agents => supersteps = 2 * iteration - 1 /\ iteration <= MaxIterations
    /\ supersteps <= 2 * MaxIterations + 1

LEMMA AlternatingInit == Init => Alternating
  BY WorkflowAssumption DEF Init, Alternating, Agents, Over

LEMMA AlternatingNext == Alternating /\ [Next]_vars => Alternating'
<1>. SUFFICES ASSUME Alternating, [Next]_vars PROVE Alternating'
  OBVIOUS
<1>. USE WorkflowAssumption DEF Alternating, Agents, Over
<1>ParseQuery. CASE ParseQuery
  BY <1>ParseQuery DEF ParseQuery
<1>ParseRejected. CASE ParseRejected
  BY <1>ParseRejected DEF ParseRejected
<1>End. CASE End
  BY <1>End DEF End
<1>AgentRaises. CASE AgentRaises
  BY <1>AgentRaises DEF AgentRaises
<1>Route. ASSUME NEW agent \in Agents, Route(agent) PROVE Alternating'
  BY <1>Route DEF Route
<1>Retrieve. CASE Retrieve
  BY <1>Retrieve DEF Retrieve
<1>Gathered. CASE Gathered
  BY <1>Gathered DEF Gathered
<1>Analyze. CASE Analyze
  BY <1>Analyze DEF Analyze
<1>Synthesize. CASE Synthesize
  BY <1>Synthesize DEF Synthesize
<1>Finished. CASE Finished \/ UNCHANGED vars
  BY <1>Finished DEF Finished, vars
<1>. QED BY <1>ParseQuery, <1>ParseRejected, <1>End, <1>AgentRaises, <1>Route,
            <1>Retrieve, <1>Gathered, <1>Analyze, <1>Synthesize, <1>Finished
            DEF Next, Step

\* MAX_ITERATIONS (6) keeps every run below LangGraph's limit (25), because
\* 2 * 6 + 1 < 25: raising it beyond 11 would lose answers.
THEOREM RecursionLimitHolds ==
    ASSUME 2 * MaxIterations + 1 < RecursionLimit
    PROVE  Spec => []WithinRecursionLimit
<1>1. Alternating => WithinRecursionLimit
  BY WorkflowAssumption DEF Alternating, WithinRecursionLimit
<1>. QED BY AlternatingInit, AlternatingNext, <1>1, PTL DEF Spec

\* Only what was retrieved is analysed, and only an analysis leaves a text.
Grounded ==
    /\ verdict # NoVerdict => retrieved # NotRetrieved
    /\ analysis = "text" => verdict # NoVerdict
    /\ AnswerRestsOnData

LEMMA GroundedInit == Init => Grounded
  BY DEF Init, Grounded, AnswerRestsOnData

LEMMA GroundedNext == Grounded /\ [Next]_vars => Grounded'
<1>. SUFFICES ASSUME Grounded, [Next]_vars PROVE Grounded'
  OBVIOUS
<1>. USE DEF Grounded, AnswerRestsOnData
<1>End. CASE End
  BY <1>End DEF End, WithoutSynthesis
<1>Gathered. CASE Gathered
  BY <1>Gathered DEF Gathered, Merged, NotRetrieved
<1>Analyze. CASE Analyze
  <2>1. Decide(signals) # NoVerdict
    BY DEF Decide, FallbackVerdict, Ruling, NoVerdict
  <2>. QED BY <1>Analyze, <2>1 DEF Analyze, DataAtHand
<1>Synthesize. CASE Synthesize
  BY <1>Synthesize DEF Synthesize, Synthesized
<1>Others. CASE UNCHANGED <<verdict, retrieved, analysis, answer>>
  BY <1>Others
<1>. QED BY <1>End, <1>Gathered, <1>Analyze, <1>Synthesize, <1>Others
            DEF Next, Step, vars, Finished, ParseQuery, ParseRejected,
                AgentRaises, Route, Retrieve

\* No answer speaks of a verdict or an analysis before data were retrieved,
\* however the language model routes.
THEOREM AnswersRestOnData == Spec => []AnswerRestsOnData
<1>. QED BY GroundedInit, GroundedNext, PTL DEF Spec, Grounded

-----------------------------------------------------------------------------
(* Types of the run.                                                       *)

\* TypeOK, that there is a handler for every place while retrieval is at work,
\* and that the places have a last one.
TypeInv ==
    /\ TypeOK
    /\ node = "retrieval" => DOMAIN handlers = DOMAIN required
    /\ \E n \in Nat : DOMAIN required \subseteq 1 .. n

LEMMA EmptyDomain == DOMAIN <<>> = {}
  OBVIOUS

LEMMA BoundedIsFinite ==
    ASSUME NEW S, \E n \in Nat : S \subseteq 1 .. n
    PROVE  S \subseteq Nat /\ IsFiniteSet(S)
<1>1. PICK n \in Nat : S \subseteq 1 .. n
  OBVIOUS
<1>2. IsFiniteSet(1 .. n)
  BY FS_Interval
<1>3. S \subseteq Nat
  BY <1>1
<1>4. IsFiniteSet(S)
  BY <1>1, <1>2, FS_Subset, Zenon
<1>. QED BY <1>3, <1>4

LEMMA SizeType == \A i \in Int : Size(i) \in Nat
  BY DEF Size

LEMMA DecideType ==
    ASSUME NEW s \in Signals
    PROVE  Decide(s) \in Verdicts /\ Decide(s) # NoVerdict
<1>1. /\ NewsScore(s.news) \in Int /\ PriceScore(s.price) \in Int
      /\ FinancialScore(s.financial) \in Int /\ s.youtube.sentiment \in Int
  BY NewsScoreType, PriceScoreRange, FinancialScoreRange DEF Signals, YouTubeSignals
<1>2. Evidence(s) \in Nat
  BY <1>1, SizeType DEF Evidence
<1>3. Direction(s) \in {"bullish", "bearish", "neutral"}
  BY DEF Direction
<1>4. Ruling(s).verdict \in {"buy", "sell", "hold"}
  BY DEF Ruling
<1>5. Ruling(s) \in Verdicts
  BY <1>2, <1>3, <1>4 DEF Ruling, Verdicts
<1>. QED BY <1>5 DEF Decide, Verdicts, FallbackVerdict, Ruling, NoVerdict

\* The signal of a source is one of its type: of the last place that names it,
\* or the empty one.
LEMMA SignalTypes ==
    ASSUME TypeInv, node = "retrieval", \A i \in DOMAIN handlers : handlers[i].done
    PROVE  [news |-> SignalOf("news"), youtube |-> SignalOf("youtube"),
            price |-> SignalOf("price"), financial |-> SignalOf("stock")] \in Signals
<1>. DEFINE Places(source) == {i \in DOMAIN required : required[i] = source}
<1>1. PICK n \in Nat : DOMAIN required \subseteq 1 .. n
  BY DEF TypeInv
<1>2. ASSUME NEW source, Places(source) # {}
      PROVE  \E h \in Results(source) \cup {GivenUp(source)} : SignalOf(source) = h.signal
  <2>1. Max(Places(source)) \in Places(source)
    BY <1>1, <1>2, LastPlace
  <2>2. PICK i \in DOMAIN required : i = Max(Places(source)) /\ required[i] = source
    BY <2>1
  <2>3. i \in DOMAIN handlers /\ handlers[i] \in Results(source) \cup {GivenUp(source)}
    BY <2>2 DEF TypeInv, TypeOK
  <2>4. SignalOf(source) = handlers[i].signal
    BY <1>2, <2>2 DEF SignalOf
  <2>. QED BY <2>3, <2>4
<1>3. ASSUME NEW source, Places(source) = {}
      PROVE  SignalOf(source) = GivenUp(source).signal
  BY <1>3 DEF SignalOf, GivenUp, Result
<1>4. ASSUME NEW source
      PROVE  \E h \in Results(source) \cup {GivenUp(source)} : SignalOf(source) = h.signal
  BY <1>2, <1>3
<1>. HIDE DEF Places
<1>5. /\ SignalOf("news") \in NewsSignals /\ SignalOf("youtube") \in YouTubeSignals
      /\ SignalOf("price") \in Optional /\ SignalOf("stock") \in FinancialSignals
  BY <1>4, ResultTypes
<1>. QED BY <1>5 DEF Signals

LEMMA TypeInit == Init => TypeInv
<1>. SUFFICES ASSUME Init PROVE TypeInv
  OBVIOUS
<1>1. DOMAIN required = {} /\ DOMAIN handlers = {}
  BY EmptyDomain DEF Init
<1>2. DOMAIN required \subseteq 1 .. 0
  BY <1>1
<1>3. DOMAIN required \subseteq Nat /\ IsFiniteSet(DOMAIN required)
  BY <1>2, BoundedIsFinite
<1>4. NoSignals \in Signals
  BY DEF NoSignals, Signals, NoNews, NoEvents, NewsSignals, EventCounts, NoYouTube,
         YouTubeSignals, Optional, NoFinancials, FinancialSignals
<1>5. node \in {"orchestrator"} \cup Agents \cup Over
  BY DEF Init
<1>6. 1 \in 1 .. MaxRetries /\ 0 \in 0 .. MaxIterations + 1
  BY WorkflowAssumption
<1>. QED BY <1>1, <1>2, <1>3, <1>4, <1>5, <1>6 DEF Init, TypeInv, TypeOK

LEMMA AttemptBounded ==
    ASSUME attempt \in 1 .. MaxRetries, ParseRejected
    PROVE  attempt' \in 1 .. MaxRetries
<1>1. MaxRetries \in Nat
  BY WorkflowAssumption
<1>2. CASE attempt < MaxRetries
  BY <1>1, <1>2 DEF ParseRejected
<1>3. CASE ~(attempt < MaxRetries)
  BY <1>3 DEF ParseRejected
<1>. QED BY <1>2, <1>3

LEMMA TypeNext == TypeInv /\ Alternating /\ Alternating' /\ [Next]_vars => TypeInv'
<1>. SUFFICES ASSUME TypeInv, Alternating, Alternating', [Next]_vars PROVE TypeInv'
  OBVIOUS
<1>1. iteration' \in 0 .. MaxIterations + 1 /\ supersteps' \in Nat
  BY WorkflowAssumption DEF Alternating
<1>. USE DEF TypeInv, TypeOK, Agents, Over
<1>ParseQuery. CASE ParseQuery
  <2>1. PICK reply \in Replies : required' = Filtered(reply)
    BY <1>ParseQuery DEF ParseQuery
  <2>2. /\ \E n \in Nat : DOMAIN required' \subseteq 1 .. n
        /\ \A i \in DOMAIN required' : required'[i] \in Sources
    BY <2>1, FilteredType
  <2>3. DOMAIN required' \subseteq Nat /\ IsFiniteSet(DOMAIN required')
    BY <2>2, BoundedIsFinite
  <2>4. handlers = <<>>
    BY <1>ParseQuery DEF ParseQuery
  <2>. QED BY <1>ParseQuery, <1>1, <2>2, <2>3, <2>4, EmptyDomain DEF ParseQuery
<1>ParseRejected. CASE ParseRejected
  <2>4. attempt' \in 1 .. MaxRetries
    BY <1>ParseRejected, AttemptBounded
  <2>. QED BY <1>ParseRejected, <1>1, <2>4 DEF ParseRejected
<1>End. CASE End
  BY <1>End, <1>1 DEF End, WithoutSynthesis
<1>AgentRaises. CASE AgentRaises
  BY <1>AgentRaises, <1>1 DEF AgentRaises
<1>Route. ASSUME NEW agent \in Agents, Route(agent) PROVE TypeInv'
  <2>1. agent = "retrieval" =>
           /\ DOMAIN handlers' = DOMAIN required
           /\ \A i \in DOMAIN handlers' : ~handlers'[i].done
    BY <1>Route DEF Route
  <2>2. agent # "retrieval" => handlers' = <<>> /\ DOMAIN handlers' = {}
    BY <1>Route, EmptyDomain DEF Route
  <2>3. obedient' \in BOOLEAN
    BY <1>Route DEF Route
  <2>. QED BY <1>Route, <1>1, <2>1, <2>2, <2>3 DEF Route
<1>Retrieve. CASE Retrieve
  <2>1. PICK i \in DOMAIN handlers : HandlerAnswers(i)
    BY <1>Retrieve DEF Retrieve
  <2>2. PICK h \in Results(required[i]) \cup {GivenUp(required[i])} :
           handlers' = [handlers EXCEPT ![i] = h]
    BY <2>1 DEF HandlerAnswers
  <2>3. /\ DOMAIN handlers' = DOMAIN handlers /\ handlers'[i] = h
        /\ \A j \in DOMAIN handlers : j # i => handlers'[j] = handlers[j]
    BY <2>2
  <2>4. \A j \in DOMAIN handlers' : handlers'[j].done =>
           handlers'[j] \in Results(required[j]) \cup {GivenUp(required[j])}
    BY <2>2, <2>3
  <2>. QED BY <1>Retrieve, <1>1, <2>3, <2>4 DEF Retrieve
<1>Gathered. CASE Gathered
  <2>1. signals' \in Signals
    BY <1>Gathered, SignalTypes DEF Gathered
  <2>2. Merged \in {"sections", "no data"}
    BY DEF Merged
  <2>. QED BY <1>Gathered, <1>1, <2>1, <2>2, EmptyDomain DEF Gathered
<1>Analyze. CASE Analyze
  <2>1. Decide(signals) \in Verdicts
    BY DecideType
  <2>. QED BY <1>Analyze, <1>1, <2>1 DEF Analyze
<1>Synthesize. CASE Synthesize
  BY <1>Synthesize, <1>1 DEF Synthesize, Synthesized
<1>Finished. CASE Finished \/ UNCHANGED vars
  <2>1. /\ node' = node /\ attempt' = attempt /\ required' = required
        /\ handlers' = handlers /\ retrieved' = retrieved /\ signals' = signals
        /\ verdict' = verdict /\ analysis' = analysis /\ answer' = answer
        /\ obedient' = obedient
    BY <1>Finished DEF Finished, vars
  <2>2. /\ handlers' # <<>> => node' = "retrieval" /\ DOMAIN handlers' = DOMAIN required'
        /\ \A i \in DOMAIN handlers' : handlers'[i].done =>
              handlers'[i] \in Results(required'[i]) \cup {GivenUp(required'[i])}
    BY <2>1
  <2>3. /\ DOMAIN required' \subseteq Nat /\ IsFiniteSet(DOMAIN required')
        /\ \A i \in DOMAIN required' : required'[i] \in Sources
    BY <2>1
  <2>4. TypeOK'
    BY <1>1, <2>1, <2>2, <2>3, ZenonT(60)
  <2>5. /\ node' = "retrieval" => DOMAIN handlers' = DOMAIN required'
        /\ \E n \in Nat : DOMAIN required' \subseteq 1 .. n
    BY <2>1
  <2>. HIDE DEF TypeOK
  <2>. QED BY <2>4, <2>5
<1>. QED BY <1>ParseQuery, <1>ParseRejected, <1>End, <1>AgentRaises, <1>Route,
            <1>Retrieve, <1>Gathered, <1>Analyze, <1>Synthesize, <1>Finished
            DEF Next, Step

\* Whatever the sources answer and the language model names, every variable has
\* its type; in particular the verdict is always of four well-formed signals.
THEOREM TypeCorrect == Spec => []TypeInv
<1>. QED BY AlternatingInit, AlternatingNext, TypeInit, TypeNext, PTL DEF Spec

-----------------------------------------------------------------------------
(* What the signals and the verdict of a run have to do with each other.   *)

\* The verdict of a run follows its direction, however often retrieval and
\* analysis are repeated, whatever signals the sources leave.
THEOREM VerdictFollows == Spec => []VerdictFollowsDirection
<1>1. Init => VerdictFollowsDirection
  BY DEF Init, VerdictFollowsDirection
<1>2. TypeInv => signals \in Signals
  BY DEF TypeInv, TypeOK
<1>3. VerdictFollowsDirection /\ signals \in Signals /\ [Next]_vars
        => VerdictFollowsDirection'
  <2>. SUFFICES ASSUME VerdictFollowsDirection, signals \in Signals, [Next]_vars
                PROVE  VerdictFollowsDirection'
    OBVIOUS
  <2>1. CASE Analyze
    <3>1. verdict' = Decide(signals)
      BY <2>1 DEF Analyze
    <3>. QED BY <3>1, VerdictOfDirection DEF VerdictFollowsDirection
  <2>2. CASE UNCHANGED verdict
    BY <2>2 DEF VerdictFollowsDirection
  <2>. QED BY <2>1, <2>2 DEF Next, Step, vars, Finished, ParseQuery, ParseRejected,
              End, AgentRaises, Route, Retrieve, Gathered, Synthesize
<1>. QED BY <1>1, <1>2, <1>3, TypeCorrect, PTL DEF Spec

\* As long as the model routes as told: it retrieves once, before there is a
\* verdict, and has an answer written only when there is one; so that the
\* verdict stays that of the signals.
Obeys ==
    /\ obedient =>
          /\ node = "retrieval" => verdict = NoVerdict
          /\ node = "synthesis" => verdict # NoVerdict
          /\ verdict # NoVerdict => verdict = Decide(signals)
    /\ ObedientRunAnswers

LEMMA ObeysNext ==
    ASSUME Obeys, Grounded, Alternating, [Next]_vars
    PROVE  Obeys'
<1>. USE DEF Obeys, ObedientRunAnswers
<1>End. CASE End
  <2>1. obedient' => iteration >= MaxIterations
    BY <1>End DEF End
  <2>2. MaxIterations \in Nat /\ iteration \in Nat
    BY WorkflowAssumption DEF Alternating
  <2>3. obedient' => iteration' > MaxIterations
    BY <1>End, <2>1, <2>2 DEF End
  <2>. QED BY <1>End, <2>1, <2>3 DEF End
<1>Route. ASSUME NEW agent \in Agents, Route(agent) PROVE Obeys'
  <2>1. obedient' => obedient /\ agent = Advised /\ node' = agent
    BY <1>Route DEF Route
  <2>2. CASE Advised = "retrieval"
    <3>1. retrieved = NotRetrieved
      BY <2>2 DEF Advised
    <3>. QED BY <1>Route, <2>1, <2>2, <3>1 DEF Route, Grounded
  <2>3. CASE Advised # "retrieval"
    <3>1. Advised = "synthesis" => analysis = "text"
      BY <2>3 DEF Advised
    <3>. QED BY <1>Route, <2>1, <2>3, <3>1 DEF Route, Grounded, Agents
  <2>. QED BY <2>2, <2>3
<1>Gathered. CASE Gathered
  BY <1>Gathered DEF Gathered
<1>Analyze. CASE Analyze
  BY <1>Analyze DEF Analyze
<1>Synthesize. CASE Synthesize
  BY <1>Synthesize DEF Synthesize, Synthesized
<1>Parse. CASE ParseQuery \/ ParseRejected \/ AgentRaises \/ Retrieve
  BY <1>Parse DEF ParseQuery, ParseRejected, AgentRaises, Retrieve
<1>Finished. CASE Finished \/ UNCHANGED vars
  BY <1>Finished DEF Finished, vars
<1>. QED BY <1>End, <1>Route, <1>Gathered, <1>Analyze, <1>Synthesize, <1>Parse,
            <1>Finished DEF Next, Step

\* A model that routes as its prompt says answers from the verdict of the
\* signals in the state, or runs into MAX_ITERATIONS, for every number of
\* iterations, every list of sources and whatever they find.
THEOREM ObedientAnswers == Spec => []ObedientRunAnswers
<1>1. Init => Obeys
  BY DEF Init, Obeys, ObedientRunAnswers
<1>2. Obeys => ObedientRunAnswers
  BY DEF Obeys
<1>. QED BY <1>1, <1>2, ObeysNext, GroundedInit, GroundedNext, AlternatingInit,
            AlternatingNext, PTL DEF Spec
=============================================================================
