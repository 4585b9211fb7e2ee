--------------------------- MODULE ArticleAnalysis ---------------------------
(***************************************************************************)
(* Phase 2 of a pipeline run: the articles of every symbol are sorted and   *)
(* selected, then the news and the reports of each symbol (a batch) are     *)
(* analysed in parallel.  A batch of several articles is synthesised by one *)
(* call of the language model, with a fall back to its first article; any   *)
(* other batch has its articles analysed one by one, and the most confident *)
(* analysis wins.  The single analyses of a run share one semaphore.        *)
(*                                                                         *)
(* Runs are coroutines of one event loop and share the repositories of      *)
(* normalised articles and of analyses, both dictionaries of the process.   *)
(* Repository calls never suspend, so the only suspension points are the    *)
(* semaphore and the model's answers.  asyncio.Semaphore is modelled as the *)
(* library has it since Python 3.12: first come, first served, a released  *)
(* permit is handed to the first waiter.                                    *)
(***************************************************************************)
EXTENDS Naturals, FiniteSets, Sequences, SequencesExt, FiniteSetsExt

CONSTANTS
    Runs,         \* one RunPipelineUseCase each
    Ports,        \* whether use cases are given an analyzer_port
    Batches,      \* the pairs of a symbol and a kind of source
    Raw,          \* raw articles; each belongs to one batch
    NoArticle,
    Inputs,       \* what find_all may return: [Batches -> Seq(Raw)]
    Published,    \* Published[a]: its date, 0 when missing or unreadable
    Modes,        \* the ArticleModes of the requests
    Yesterday,    \* the date 24 hours ago
    Limit,        \* _SINGLE_BEST_CONCURRENCY
    Confidences   \* the confidences the model may report

AnalysisModes == {"LATEST_1", "LATEST_3", "LATEST_5", "LAST_24H"}

ASSUME AnalysisAssumption ==
    /\ Ports \subseteq BOOLEAN
    /\ NoArticle \notin Raw
    /\ Inputs \subseteq [Batches -> Seq(Raw)]
    /\ \A input \in Inputs, b \in Batches :
          /\ IsInjective(input[b])
          /\ \A c \in Batches \ {b} : ToSet(input[b]) \cap ToSet(input[c]) = {}
    /\ Published \in [Raw -> Nat]
    /\ Modes \subseteq AnalysisModes
    /\ Yesterday \in Nat \ {0}
    /\ Limit \in Nat \ {0}
    /\ Confidences \subseteq Nat

VARIABLES
    port,         \* port[r]: the run's use case has an analyzer_port
    found,        \* found[r][b]: the articles of the batch, as in the table
    stage,        \* stage[r][b]: where the batch stands
    articles,     \* articles[r][b]: the articles to analyse
    result,       \* result[r][b]: the article of the batch's analysis
    job,          \* job[r][a]: where the single analysis of a stands
    confidence,   \* confidence[r][a]: of the analysis, once there
    permits,      \* permits[r]: the counter of the run's semaphore
    waiters,      \* waiters[r]: its queue
    normalized,   \* the normalised articles, in the order of their ids
    analyses,     \* the ids with a stored analysis
    ticket        \* ticket[r][a]: the id of a's normalised article

semaphore == <<permits, waiters>>
repositories == <<normalized, analyses, ticket>>
vars == <<port, found, stage, articles, result, job, confidence, permits, waiters,
          normalized, analyses, ticket>>

Stages == {"idle", "new", "synthesizing", "singles", "done"}
JobStates == {"none", "queued", "waiting", "granted", "running", "ok", "failed"}

TypeOK ==
    /\ port \in [Runs -> BOOLEAN]
    /\ found \in [Runs -> [Batches -> Seq(Raw)]]
    /\ stage \in [Runs -> [Batches -> Stages]]
    /\ articles \in [Runs -> [Batches -> Seq(Raw)]]
    /\ result \in [Runs -> [Batches -> Raw \cup {NoArticle}]]
    /\ job \in [Runs -> [Raw -> JobStates]]
    /\ confidence \in [Runs -> [Raw -> Confidences \cup {0}]]
    /\ permits \in [Runs -> 0 .. Limit]
    /\ waiters \in [Runs -> Seq(Raw)]
    /\ normalized \in Seq(Raw)
    /\ analyses \subseteq DOMAIN normalized
    /\ ticket \in [Runs -> [Raw -> 0 .. Len(normalized)]]

Init ==
    /\ port \in [Runs -> Ports]
    /\ found = [r \in Runs |-> [b \in Batches |-> <<>>]]
    /\ stage = [r \in Runs |-> [b \in Batches |-> "idle"]]
    /\ articles = [r \in Runs |-> [b \in Batches |-> <<>>]]
    /\ result = [r \in Runs |-> [b \in Batches |-> NoArticle]]
    /\ job = [r \in Runs |-> [a \in Raw |-> "none"]]
    /\ confidence = [r \in Runs |-> [a \in Raw |-> 0]]
    /\ permits = [r \in Runs |-> Limit]
    /\ waiters = [r \in Runs |-> <<>>]
    /\ normalized = <<>>
    /\ analyses = {}
    /\ ticket = [r \in Runs |-> [a \in Raw |-> 0]]

-----------------------------------------------------------------------------
(* Selection.                                                              *)

\* sorted(articles, key=_get_published_dt, reverse=True): the latest first,
\* articles of one date in their old order.
Precedes(list, i, j) ==
    \/ Published[list[i]] > Published[list[j]]
    \/ Published[list[i]] = Published[list[j]] /\ i < j

Unsorted(list) == list                                          \* mutant
NewestFirst(list) ==
    [p \in DOMAIN list |->
        list[CHOOSE i \in DOMAIN list :
                Cardinality({j \in DOMAIN list : Precedes(list, j, i)}) = p - 1]]

\* How many of a sorted list are selected: so many of the latest, or those
\* published since yesterday, which come first; if none was, the latest.
Recent(list) == {i \in DOMAIN list : Published[list[i]] >= Yesterday}
CapOrNone(mode, list) ==                                        \* mutant
    CASE mode = "LATEST_1" -> 1
      [] mode = "LATEST_5" -> 5
      [] mode = "LAST_24H" -> Cardinality(Recent(list))
      [] OTHER -> 3
Cap(mode, list) ==
    CASE mode = "LATEST_1" -> 1
      [] mode = "LATEST_5" -> 5
      [] mode = "LAST_24H" ->
            IF Recent(list) = {} THEN 1 ELSE Cardinality(Recent(list))
      [] OTHER -> 3

\* _select_articles
Select(mode, list) ==
    SubSeq(NewestFirst(list), 1, Min({Cap(mode, list), Len(list)}))

-----------------------------------------------------------------------------
(* The semaphore.                                                          *)

\* The places in the queue of those not woken yet.
Sleepers(r) == {i \in DOMAIN waiters[r] : job[r][waiters[r][i]] = "waiting"}

\* With v permits at hand, up to n of them go to the first waiters.
Wake(r, v, n, jobs) ==
    LET k == Min({v, n, Cardinality(Sleepers(r))})
        first == {i \in Sleepers(r) : Cardinality({j \in Sleepers(r) : j < i}) < k}
        woken == {waiters[r][i] : i \in first}
    IN  /\ permits' = [permits EXCEPT ![r] = v - k]
        /\ job' = [jobs EXCEPT ![r] =
              [a \in Raw |-> IF a \in woken THEN "granted" ELSE @[a]]]

Locked(r) == permits[r] = 0 \/ waiters[r] # <<>>

-----------------------------------------------------------------------------
(* Batches.                                                                *)

\* The collection is over: every batch has its selection.
BeginAnalysis(r) ==
    /\ \A b \in Batches : stage[r][b] = "idle"
    /\ \E input \in Inputs, mode \in Modes :
          /\ found' = [found EXCEPT ![r] = input]
          /\ articles' = [articles EXCEPT ![r] =
                [b \in Batches |-> Select(mode, input[b])]]
    /\ stage' = [stage EXCEPT ![r] = [b \in Batches |-> "new"]]
    /\ UNCHANGED <<port, result, job, confidence, semaphore, repositories>>

\* Mutant: each call makes a semaphore of its own, with all the permits.
SpawnWithOwnSemaphore(r, b, list) ==
    /\ articles' = [articles EXCEPT ![r][b] = list]
    /\ job' = [job EXCEPT ![r] =
          [a \in Raw |-> IF a \in ToSet(list) THEN "queued" ELSE @[a]]]
    /\ stage' = [stage EXCEPT ![r][b] = "singles"]
    /\ permits' = [permits EXCEPT ![r] = Limit]
\* _analyze_single_best: tasks for the single analyses of a list are created.
\* They share the semaphore the run was made with.
Spawn(r, b, list) ==
    /\ articles' = [articles EXCEPT ![r][b] = list]
    /\ job' = [job EXCEPT ![r] =
          [a \in Raw |-> IF a \in ToSet(list) THEN "queued" ELSE @[a]]]
    /\ stage' = [stage EXCEPT ![r][b] = "singles"]
    /\ UNCHANGED permits

AnalyzeNothing(r, b) ==
    /\ stage[r][b] = "new"
    /\ articles[r][b] = <<>>
    /\ stage' = [stage EXCEPT ![r][b] = "done"]
    /\ UNCHANGED <<port, found, articles, result, job, confidence, semaphore,
                   repositories>>

AnalyzeSingles(r, b) ==
    /\ stage[r][b] = "new"
    /\ articles[r][b] # <<>>
    /\ Len(articles[r][b]) = 1 \/ ~port[r]
    /\ Spawn(r, b, articles[r][b])
    /\ UNCHANGED <<port, found, result, confidence, waiters, repositories>>

Synthesize(r, b) ==
    /\ stage[r][b] = "new"
    /\ Len(articles[r][b]) > 1 /\ port[r]
    /\ stage' = [stage EXCEPT ![r][b] = "synthesizing"]
    /\ UNCHANGED <<port, found, articles, result, job, confidence, semaphore,
                   repositories>>

Synthesized(r, b) ==
    /\ stage[r][b] = "synthesizing"
    /\ result' = [result EXCEPT ![r][b] = Head(articles[r][b])]
    /\ stage' = [stage EXCEPT ![r][b] = "done"]
    /\ UNCHANGED <<port, found, articles, job, confidence, semaphore, repositories>>

\* The model fails or its answer is no JSON: the first article is analysed.
SynthesisFails(r, b) ==
    /\ stage[r][b] = "synthesizing"
    /\ Spawn(r, b, <<Head(articles[r][b])>>)
    /\ UNCHANGED <<port, found, result, confidence, waiters, repositories>>

\* for item in results: the first of the most confident analyses.
LastBetter(r, a, best) ==                                       \* mutant
    /\ job[r][a] = "ok"
    /\ best = NoArticle \/ confidence[r][a] >= confidence[r][best]
Better(r, a, best) ==
    /\ job[r][a] = "ok"
    /\ best = NoArticle \/ confidence[r][a] > confidence[r][best]
Best(r, list) ==
    LET best[n \in 0 .. Len(list)] ==
            IF n = 0 THEN NoArticle
            ELSE IF Better(r, list[n], best[n - 1]) THEN list[n] ELSE best[n - 1]
    IN  best[Len(list)]

\* gather has every result.
Gathered(r, b) ==
    /\ stage[r][b] = "singles"
    /\ \A a \in ToSet(articles[r][b]) : job[r][a] \in {"ok", "failed"}
    /\ result' = [result EXCEPT ![r][b] = Best(r, articles[r][b])]
    /\ stage' = [stage EXCEPT ![r][b] = "done"]
    /\ UNCHANGED <<port, found, articles, job, confidence, semaphore, repositories>>

-----------------------------------------------------------------------------
(* Single analyses.                                                        *)

\* The article is normalised under a new id (uuid4), and the analysis looked
\* up under that id: there is none, so the model is called.
NewId == Len(normalized) + 1

Normalize(r, a) ==
    /\ normalized' = Append(normalized, a)
    /\ ticket' = [ticket EXCEPT ![r][a] = NewId]
    /\ NewId \notin analyses
    /\ UNCHANGED analyses

\* async with self._semaphore, the fast path
Acquire(r, a) ==
    /\ job[r][a] = "queued"
    /\ ~Locked(r)
    /\ permits' = [permits EXCEPT ![r] = @ - 1]
    /\ job' = [job EXCEPT ![r][a] = "running"]
    /\ Normalize(r, a)
    /\ UNCHANGED <<port, found, stage, articles, result, confidence, waiters>>

Enqueue(r, a) ==
    /\ job[r][a] = "queued"
    /\ Locked(r)
    /\ waiters' = [waiters EXCEPT ![r] = Append(@, a)]
    /\ job' = [job EXCEPT ![r][a] = "waiting"]
    /\ UNCHANGED <<port, found, stage, articles, result, confidence, permits,
                   repositories>>

\* A waiter that was given a permit runs again: it leaves the queue, and
\* permits released meanwhile go to those who arrived behind it.
Resume(r, a) ==
    /\ job[r][a] = "granted"
    /\ \E i \in DOMAIN waiters[r] :
          /\ waiters[r][i] = a
          /\ waiters' = [waiters EXCEPT ![r] = RemoveAt(@, i)]
    /\ Wake(r, permits[r], permits[r], [job EXCEPT ![r][a] = "running"])
    /\ Normalize(r, a)
    /\ UNCHANGED <<port, found, stage, articles, result, confidence>>

\* Mutant: only an analysis that succeeds gives its permit back.
ReleaseIfOk(r, a, outcome) ==
    Wake(r, IF outcome = "ok" THEN permits[r] + 1 ELSE permits[r], 1,
         [job EXCEPT ![r][a] = outcome])
\* Leaving the block of async with, whichever way.
Release(r, a, outcome) ==
    Wake(r, permits[r] + 1, 1, [job EXCEPT ![r][a] = outcome])

Analyzed(r, a) ==
    /\ job[r][a] = "running"
    /\ \E c \in Confidences : confidence' = [confidence EXCEPT ![r][a] = c]
    /\ analyses' = analyses \cup {ticket[r][a]}
    /\ Release(r, a, "ok")
    /\ UNCHANGED <<port, found, stage, articles, result, waiters, normalized, ticket>>

\* The model fails or its answer is no JSON: None, and a warning.
AnalysisFails(r, a) ==
    /\ job[r][a] = "running"
    /\ Release(r, a, "failed")
    /\ UNCHANGED <<port, found, stage, articles, result, confidence, waiters,
                   repositories>>

-----------------------------------------------------------------------------
BatchStep(r, b) ==
    \/ AnalyzeNothing(r, b)
    \/ AnalyzeSingles(r, b)
    \/ Synthesize(r, b)
    \/ Synthesized(r, b)
    \/ SynthesisFails(r, b)
    \/ Gathered(r, b)

JobStep(r, a) ==
    \/ Acquire(r, a)
    \/ Enqueue(r, a)
    \/ Resume(r, a)
    \/ Analyzed(r, a)
    \/ AnalysisFails(r, a)

Step(r) == (\E b \in Batches : BatchStep(r, b)) \/ (\E a \in Raw : JobStep(r, a))

Finished(r) == \A b \in Batches : stage[r][b] = "done"

AllFinished == (\A r \in Runs : Finished(r)) /\ UNCHANGED vars

Next ==
    \/ \E r \in Runs : BeginAnalysis(r) \/ Step(r)
    \/ AllFinished

Spec == Init /\ [][Next]_vars

\* The event loop runs every task that is ready, and the client of the model
\* answers or times out.
Fairness == \A r \in Runs : WF_vars(Step(r))

FairSpec == Spec /\ Fairness

-----------------------------------------------------------------------------
(* Properties.                                                             *)

Holders(r) == {a \in Raw : job[r][a] \in {"granted", "running"}}
UnderWay(r) == {a \in Raw : job[r][a] = "running"}

\* The permits of a run add up: none is lost or made.
PermitsAddUp ==
    \A r \in Runs : permits[r] + Cardinality(Holders(r)) = Limit

\* The model is spared: over all its symbols and both kinds of sources together,
\* falling back or not, a run has at most Limit single analyses under way
\* (run_pipeline_usecase.py 99-101: one semaphore for the run, as one made in
\* each call would void the limit).
CallsWithinLimit == \A r \in Runs : Cardinality(UnderWay(r)) <= Limit

\* The order in which the answers arrive does not matter: the analysis chosen
\* among single ones is the first, in the order of the articles, of the most
\* confident, and None only if every one failed (run_pipeline_usecase.py 362-371).
BestIsFirstMostConfident ==
    \A r \in Runs, b \in Batches :
        stage[r][b] = "done" /\ ~port[r] =>
            LET list == articles[r][b]
                good == {i \in DOMAIN list : job[r][list[i]] = "ok"}
            IN  IF good = {} THEN result[r][b] = NoArticle
                ELSE \E i \in good :
                        /\ result[r][b] = list[i]
                        /\ \A j \in good : LET c == confidence[r][list[j]] IN
                              /\ c <= confidence[r][list[i]]
                              /\ j < i => c < confidence[r][list[i]]

\* With the analyzer port, as in production, whichever way a batch goes
\* (synthesis, fall back, single) and whatever the mode cut off, its result
\* carries one of the latest articles the table has for it, or there is none.
\* PipelineRun relies on this (run_pipeline_usecase.py 64-77, 311-398).
ResultIsNewest ==
    \A r \in Runs, b \in Batches :
        port[r] /\ result[r][b] # NoArticle =>
            /\ result[r][b] \in ToSet(found[r][b])
            /\ \A a \in ToSet(found[r][b]) : Published[a] <= Published[result[r][b]]

\* A batch with articles is never left out: when it is done without a result,
\* some call of the model for it failed (run_pipeline_usecase.py 74-76: a day
\* without news falls back to the latest article).
NoResultMeansFailure ==
    \A r \in Runs, b \in Batches :
        stage[r][b] = "done" /\ result[r][b] = NoArticle /\ found[r][b] # <<>> =>
            \E a \in ToSet(found[r][b]) : job[r][a] = "failed"

\* Every run's analysis ends, with every batch done.
AnalysisEnds ==
    \A r \in Runs : (\E b \in Batches : stage[r][b] # "idle") ~> Finished(r)

\* "중복 분석 방지 — 기존 결과 있으면 반환" (get_or_create_analysis_usecase.py 19):
\* no article has two stored analyses.
AnalysedOnce ==
    \A i, j \in analyses : normalized[i] = normalized[j] => i = j
=============================================================================
