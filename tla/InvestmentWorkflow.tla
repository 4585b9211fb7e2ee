------------------------- MODULE InvestmentWorkflow -------------------------
(***************************************************************************)
(* One run of the investment agents (run_agent_workflow): the orchestrator *)
(* and its query parser, the retrieval with its sources side by side, the  *)
(* analysis and the synthesis, as the graph of investment_graph_builder.py *)
(* joins them.  Runs share nothing but the stores that retrieval writes    *)
(* (NewsStore, YouTubeStore), so one run is enough.                        *)
(*                                                                         *)
(* The language model is external: it may route to any agent, reply with   *)
(* something no agent is named, break the JSON it is asked for, or fail.   *)
(***************************************************************************)
EXTENDS InvestmentVerdict, Sequences, SequencesExt

CONSTANTS
    MaxIterations,     \* MAX_ITERATIONS of the orchestrator
    MaxRetries,        \* MAX_RETRIES of the query parser
    RecursionLimit,    \* LangGraph's limit of supersteps
    Replies,           \* the lists of sources the language model may name
    NewsFound, YouTubeFound, PricesFound, FinancialsFound
                       \* the signals the sources may yield

\* SOURCE_REGISTRY and DEFAULT_SOURCES.
Sources == {"news", "youtube", "stock", "price", "dashboard"}
DefaultSources == <<"news", "youtube", "stock", "price", "dashboard">>

ASSUME WorkflowAssumption ==
    /\ {MaxIterations, MaxRetries, RecursionLimit} \subseteq Nat
    /\ MaxRetries > 0
    /\ \A r \in Replies : r \in Seq(Sources \cup {"unknown"})
    /\ NewsFound \subseteq NewsSignals /\ YouTubeFound \subseteq YouTubeSignals
    /\ \A p \in PricesFound : p \in Optional /\ ~p.absent
    /\ FinancialsFound \subseteq FinancialSignals

VARIABLES
    node,        \* the agent at work, or how the run ended
    attempt,     \* of the query parser
    required,    \* required_data of the parsed query, by place; <<>> before
    iteration,   \* iteration_count
    supersteps,  \* nodes LangGraph has run
    handlers,    \* the sources being asked, by their place in required
    retrieved,   \* retrieved_data: what became of its sections
    signals,     \* the four signals of the state
    verdict,     \* investment_verdict
    analysis,    \* analysis: "none", "empty" or "text"
    answer,      \* what the caller gets, by its origin
    obedient     \* has the model routed as its prompt tells it to?

vars == <<node, attempt, required, iteration, supersteps, handlers, retrieved,
          signals, verdict, analysis, answer, obedient>>

NotRetrieved == "not retrieved"
NoVerdict == [verdict |-> "none"]
Agents == {"retrieval", "analysis", "synthesis"}
Over == {"ended", "failed"}

Init ==
    /\ node = "orchestrator" /\ attempt = 1 /\ iteration = 0 /\ supersteps = 0
    /\ required = <<>> /\ handlers = <<>> /\ retrieved = NotRetrieved
    /\ signals = NoSignals /\ verdict = NoVerdict /\ analysis = "none"
    /\ answer = "none" /\ obedient = TRUE

-----------------------------------------------------------------------------
(* The orchestrator.                                                       *)

\* _validate_and_filter: only known sources, each at its place in the reply, and
\* all of them if none is left.
Filtered(reply) ==
    LET valid == {i \in DOMAIN reply : reply[i] \in Sources}
    IN  IF valid = {} THEN DefaultSources ELSE [i \in valid |-> reply[i]]

\* parse_investment_query succeeds.
ParseQuery ==
    /\ node = "orchestrator" /\ required = <<>>
    /\ \E reply \in Replies : required' = Filtered(reply)
    /\ UNCHANGED <<node, attempt, iteration, supersteps, handlers, retrieved,
                   signals, verdict, analysis, answer, obedient>>

\* No JSON in the reply, or no intent in it: asked once more, then given up.
ParseRejected ==
    /\ node = "orchestrator" /\ required = <<>>
    /\ IF attempt < MaxRetries
         THEN attempt' = attempt + 1 /\ UNCHANGED node
         ELSE node' = "failed" /\ UNCHANGED attempt
    /\ UNCHANGED <<required, iteration, supersteps, handlers, retrieved, signals,
                   verdict, analysis, answer, obedient>>

\* Mutant: a verdict for want of data asks for another retrieval, and then goes
\* straight to the synthesis.
AdvisedForSignals ==
    CASE retrieved = NotRetrieved \/ (verdict = FallbackVerdict /\ signals = NoSignals)
           -> "retrieval"
      [] retrieved # NotRetrieved /\ verdict = NoVerdict -> "analysis"
      [] OTHER -> "synthesis"
\* What the prompt tells the model to choose.
Advised ==
    CASE retrieved = NotRetrieved -> "retrieval"
      [] retrieved # NotRetrieved /\ analysis # "text" -> "analysis"
      [] OTHER -> "synthesis"

\* final_answer or analysis or the sentence that there is no result.
WithoutSynthesis == IF analysis = "text" THEN "analysis" ELSE "no result"

\* The orchestrator ends the run: at the limit, as told by the model, or
\* because the model's reply names no agent.
End ==
    /\ node = "orchestrator" /\ required # <<>>
    /\ node' = "ended"
    /\ answer' = WithoutSynthesis
    /\ iteration' = iteration + 1
    /\ supersteps' = supersteps + 1
    /\ obedient' = (obedient /\ iteration >= MaxIterations)
    /\ UNCHANGED <<attempt, required, handlers, retrieved, signals, verdict,
                   analysis>>

\* Mutant: the limit of iterations is not looked at.
RouteUnlimited(agent) ==
    /\ node = "orchestrator" /\ required # <<>>
    /\ node' = agent
    /\ iteration' = iteration + 1
    /\ supersteps' = supersteps + 1
    /\ obedient' = (obedient /\ agent = Advised)
    /\ handlers' = IF agent = "retrieval"
                      THEN [i \in DOMAIN required |-> [done |-> FALSE]] ELSE <<>>
    /\ UNCHANGED <<attempt, required, retrieved, signals, verdict, analysis,
                   answer>>
\* The orchestrator sends the run to an agent.
Route(agent) ==
    /\ node = "orchestrator" /\ required # <<>>
    /\ iteration < MaxIterations
    /\ node' = agent
    /\ iteration' = iteration + 1
    /\ supersteps' = supersteps + 1
    /\ obedient' = (obedient /\ agent = Advised)
    /\ handlers' = IF agent = "retrieval"
                      THEN [i \in DOMAIN required |-> [done |-> FALSE]] ELSE <<>>
    /\ UNCHANGED <<attempt, required, retrieved, signals, verdict, analysis,
                   answer>>

\* The language model, or what it is asked for, raises: nobody catches it
\* before the caller of the workflow.
AgentRaises ==
    /\ node \in {"orchestrator", "analysis", "synthesis"}
    /\ node' = "failed"
    /\ UNCHANGED <<attempt, required, iteration, supersteps, handlers, retrieved,
                   signals, verdict, analysis, answer, obedient>>

-----------------------------------------------------------------------------
(* Retrieval.  The handlers run side by side and answer in any order; the   *)
(* result of one has a text, empty or not (data or a notice of failure),   *)
(* and a signal.  What a handler does between its awaits touches nothing   *)
(* of the run.                                                             *)

Result(text, signal) == [done |-> TRUE, text |-> text, signal |-> signal]

\* What a source without a result leaves in the state.
Nothing(source) ==
    CASE source = "news" -> NoNews
      [] source = "youtube" -> NoYouTube
      [] source = "stock" -> NoFinancials
      [] OTHER -> Absent

\* SERP, or Naver if that finds nothing; no article is a notice, a sentiment
\* the model could not tell is empty.
NewsResults == {Result("text", n) : n \in NewsFound \cup {NoNews}}

\* No video is an empty text.  Where the model fails the sentiment is neutral
\* but still counts the comments.
YouTubeResults ==
    {Result("empty", NoYouTube), Result("text", NoYouTube)}
    \cup {Result("text", y) : y \in YouTubeFound}
    \cup {Result("text", [y EXCEPT !.sentiment = 0]) : y \in YouTubeFound}

\* No row of that name is a notice; without a report there is no signal.
StockResults == {Result("text", f) : f \in FinancialsFound \cup {NoFinancials}}

\* No key, no row, no quote: an empty text.
PriceResults ==
    {Result("text", p) : p \in PricesFound} \cup {Result("empty", Absent)}

\* The logs of the last 48 hours: a text without a signal.
DashboardResults == {Result("text", Absent), Result("empty", Absent)}

Results(source) ==
    CASE source = "news" -> NewsResults
      [] source = "youtube" -> YouTubeResults
      [] source = "stock" -> StockResults
      [] source = "price" -> PriceResults
      [] OTHER -> DashboardResults

\* _run_with_timeout: after 30 seconds, or when the handler raises, a notice.
\* Only this source is lost.
GivenUp(source) == Result("text", Nothing(source))

\* Mutant: nobody answers for a source that fails.
HandlerAnswersIfItCan(i) ==
    /\ ~handlers[i].done
    /\ required[i] # "dashboard"
    /\ \E h \in Results(required[i]) : handlers' = [handlers EXCEPT ![i] = h]
HandlerAnswers(i) ==
    /\ ~handlers[i].done
    /\ \E h \in Results(required[i]) \cup {GivenUp(required[i])} :
          handlers' = [handlers EXCEPT ![i] = h]

Retrieve ==
    /\ node = "retrieval"
    /\ \E i \in DOMAIN handlers : HandlerAnswers(i)
    /\ UNCHANGED <<node, attempt, required, iteration, supersteps, retrieved,
                   signals, verdict, analysis, answer, obedient>>

\* The signal of a source: with a source named twice, that of the last one.
SignalOf(source) ==
    LET places == {i \in DOMAIN required : required[i] = source}
    IN  IF places = {} THEN Nothing(source) ELSE handlers[Max(places)].signal

\* _merge_results: the texts that are not empty, or the sentence that there
\* are none.
Merged ==
    IF \E i \in DOMAIN handlers : handlers[i].text # "empty" THEN "sections" ELSE "no data"

\* All sources answered: retrieval_node returns to the orchestrator, and every
\* signal of the state is replaced, those of sources not asked too.
Gathered ==
    /\ node = "retrieval"
    /\ \A i \in DOMAIN handlers : handlers[i].done
    /\ retrieved' = Merged
    /\ signals' = [news |-> SignalOf("news"), youtube |-> SignalOf("youtube"),
                   price |-> SignalOf("price"), financial |-> SignalOf("stock")]
    /\ handlers' = <<>>
    /\ node' = "orchestrator"
    /\ supersteps' = supersteps + 1
    /\ UNCHANGED <<attempt, required, iteration, verdict, analysis, answer, obedient>>

-----------------------------------------------------------------------------
(* Analysis and synthesis.                                                 *)

\* Mutant: the analysis does with an empty text where nothing was retrieved.
DataOrNone == TRUE
\* Without retrieved data analysis_node raises (len(None)): see AgentRaises.
DataAtHand == retrieved # NotRetrieved

\* The verdict by the rules, the reasons by the model (or by the events if it
\* fails), the text by the model.
Analyze ==
    /\ node = "analysis"
    /\ DataAtHand
    /\ verdict' = Decide(signals)
    /\ analysis' \in {"text", "empty"}
    /\ node' = "orchestrator"
    /\ supersteps' = supersteps + 1
    /\ UNCHANGED <<attempt, required, iteration, handlers, retrieved, signals,
                   answer, obedient>>

\* With a verdict the answer explains it, or is general knowledge if it was for
\* want of data; without one it sums up the analysis or says there is none.
Synthesized ==
    CASE verdict # NoVerdict /\ ~ForWantOfData(verdict) -> "verdict"
      [] verdict # NoVerdict /\ ForWantOfData(verdict) -> "general"
      [] verdict = NoVerdict /\ analysis = "text" -> "summary"
      [] OTHER -> "no analysis"

Synthesize ==
    /\ node = "synthesis"
    /\ answer' = Synthesized
    /\ node' = "ended"
    /\ supersteps' = supersteps + 1
    /\ UNCHANGED <<attempt, required, iteration, handlers, retrieved, signals,
                   verdict, analysis, obedient>>

Finished == node \in Over /\ UNCHANGED vars

Step ==
    \/ ParseQuery \/ ParseRejected \/ End \/ AgentRaises
    \/ \E agent \in Agents : Route(agent)
    \/ Retrieve \/ Gathered \/ Analyze \/ Synthesize

Next == Step \/ Finished

\* The model's client, the sources' clients and the 30 seconds end every wait.
Spec == Init /\ [][Next]_vars /\ WF_vars(Step)

-----------------------------------------------------------------------------
(* Properties.                                                             *)

TypeOK ==
    /\ node \in {"orchestrator"} \cup Agents \cup Over
    /\ attempt \in 1 .. MaxRetries
    /\ DOMAIN required \subseteq Nat /\ IsFiniteSet(DOMAIN required)
    /\ \A i \in DOMAIN required : required[i] \in Sources
    /\ iteration \in 0 .. MaxIterations + 1
    /\ supersteps \in Nat
    /\ handlers # <<>> => node = "retrieval" /\ DOMAIN handlers = DOMAIN required
    /\ \A i \in DOMAIN handlers :
          handlers[i].done =>
              handlers[i] \in Results(required[i]) \cup {GivenUp(required[i])}
    /\ retrieved \in {NotRetrieved, "sections", "no data"}
    /\ signals \in Signals
    /\ verdict \in Verdicts \cup {NoVerdict}
    /\ analysis \in {"none", "empty", "text"}
    /\ answer \in {"none", "verdict", "general", "summary", "no analysis",
                   "analysis", "no result"}
    /\ obedient \in BOOLEAN

\* "BL-BE-74": buy goes with bullish, sell with bearish, and hold with neither.
\* The test of the confidence could turn either into hold; that the sums of
\* direction and confidence are weighted apart must not let it
\* (investment_decision_analyzer.py 134-168).
VerdictFollowsDirection ==
    verdict # NoVerdict => (verdict.verdict = "hold" <=> verdict.direction = "neutral")

\* However the model routes, no answer speaks of a verdict or an analysis
\* before data were retrieved, and none sums up an analysis without verdict:
\* the fall back of synthesis_node.py 221-237 is dead code.
AnswerRestsOnData ==
    /\ answer \in {"verdict", "general", "analysis"} => retrieved # NotRetrieved
    /\ answer # "summary"

\* A model that routes as its prompt says gets an answer made from the
\* verdict, and from that of the signals in the state; unless the analyses it
\* asked for came back empty until the limit (orchestrator_node.py 69-71).
ObedientRunAnswers ==
    obedient /\ node = "ended" =>
        \/ answer \in {"verdict", "general"} /\ verdict = Decide(signals)
        \/ iteration > MaxIterations

\* MAX_ITERATIONS ends the run before LangGraph's own limit would raise
\* GraphRecursionError and lose the answer (langgraph_investment_adapter.py
\* 12-21 leaves that limit at its default).
WithinRecursionLimit == supersteps < RecursionLimit

\* Every run ends, whatever fails: no source can hold up the others.
WorkflowEnds == <>(node \in Over)
=============================================================================
