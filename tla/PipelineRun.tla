----------------------------- MODULE PipelineRun -----------------------------
(***************************************************************************)
(* The analysis pipeline: any number of runs (POST /pipeline/run, POST     *)
(* /pipeline/run-stream, the three scheduled jobs) and of requests to      *)
(* POST /stock-collector/collect, all in one process, each with a database *)
(* session of its own, sharing the table raw_articles.                     *)
(*                                                                         *)
(* Handlers are coroutines on one event loop: what runs between two awaits *)
(* is one step.  A run collects in a worker thread, so the steps of its    *)
(* collection interleave with everything else.  A collect request calls    *)
(* the same use case on the loop itself and holds the loop until it ends.  *)
(*                                                                         *)
(* A session reads from the snapshot its transaction took at its first     *)
(* read (MySQL REPEATABLE READ); a flush that fails leaves the session     *)
(* unusable until a rollback, which only run_pipeline_job calls, at the    *)
(* very end.                                                               *)
(***************************************************************************)
EXTENDS Naturals, FiniteSets

CONSTANTS
    Sessions,         \* the runs and the collect requests, one session each
    Task,             \* Task[s]: "run" or "collect"
    Accounts,         \* accounts with a watchlist
    Anonymous,        \* account_id None: the jobs, or a run without the cookie
    Account,          \* Account[s]: the account a run works for
    Selected,         \* Selected[s]: request.symbols, {} when none were sent
    Symbols, NoSymbol,
    Watchlists,       \* the contents the watchlist table may have
    Docs, NoDoc,      \* the dedup keys (source_type, source_doc_id)
    Offered,          \* Offered[x]: what the collectors can return for x
    Unstorable,       \* documents with a value their column rejects
    DocKind,          \* DocKind[d]: "NEWS", or "REPORT" for both report types
    Recency,          \* Recency[d]: rank of the publication date
    RegistrySurvives  \* TRUE: registry in Redis, FALSE: in process memory

Kinds == {"NEWS", "REPORT"}
Items == [account : Accounts \cup {Anonymous}, symbol : Symbols]
NoItem == [account |-> Anonymous, symbol |-> NoSymbol]
LogRecords == [run : Sessions, symbol : Symbols, kind : Kinds, doc : Docs]

ASSUME PipelineAssumption ==
    /\ Task \in [Sessions -> {"run", "collect"}]
    /\ Account \in [Sessions -> Accounts \cup {Anonymous}]
    /\ Anonymous \notin Accounts
    /\ Selected \in [Sessions -> SUBSET Symbols]
    /\ NoSymbol \notin Symbols
    /\ Watchlists \subseteq SUBSET Items
    /\ NoDoc \notin Docs
    /\ Offered \in [Symbols -> SUBSET Docs]
    /\ Unstorable \subseteq Docs
    /\ DocKind \in [Docs -> Kinds]
    /\ Recency \in [Docs -> Nat]
    /\ RegistrySurvives \in BOOLEAN

VARIABLES
    rawArticles,   \* rawArticles[d]: the symbol of d's row, NoSymbol if no row
    logs,          \* the rows of analysis_logs
    registry,      \* registry[a][x]: the run whose summary is registered
    phase,         \* phase[s]: where session s stands
    snapshot,      \* snapshot[s]: rawArticles as s's transaction sees it
    broken,        \* broken[s]: a flush of s failed and was not rolled back
    items,         \* items[s]: watchlist_items of the run
    todo,          \* todo[s]: the items not yet collected
    current,       \* current[s]: the item being collected
    fetched,       \* fetched[s]: what the collectors returned for it
    pending,       \* pending[s]: the part of it not yet looked up
    noArticle,     \* noArticle[s]: no_article_symbols
    errors,        \* errors[s]: the items with a COLLECT error event
    symbolData,    \* symbolData[s][x]: the articles found, {} if no entry
    best           \* best[s][x][k]: the article of the analysis, or NoDoc

store == <<rawArticles, logs, registry>>
collecting == <<current, fetched, pending>>
reported == <<noArticle, errors, symbolData>>
vars == <<rawArticles, logs, registry, phase, snapshot, broken, items, todo,
          current, fetched, pending, noArticle, errors, symbolData, best>>

Ended == {"done", "failed", "crashed"}
Phases == {"idle", "next", "collecting", "raised", "publishing",
           "persisting"} \cup Ended

NoRun == "none"
EmptyRegistry == [a \in Accounts \cup {Anonymous} |-> [x \in Symbols |-> NoRun]]

TypeOK ==
    /\ rawArticles \in [Docs -> Symbols \cup {NoSymbol}]
    /\ logs \subseteq LogRecords
    /\ registry \in [Accounts \cup {Anonymous} ->
                        [Symbols -> Sessions \cup {NoRun}]]
    /\ phase \in [Sessions -> Phases]
    /\ snapshot \in [Sessions -> [Docs -> Symbols \cup {NoSymbol}]]
    /\ broken \in [Sessions -> BOOLEAN]
    /\ items \in [Sessions -> SUBSET Items]
    /\ todo \in [Sessions -> SUBSET Items]
    /\ current \in [Sessions -> Items \cup {NoItem}]
    /\ fetched \in [Sessions -> SUBSET Docs]
    /\ pending \in [Sessions -> SUBSET Docs]
    /\ noArticle \in [Sessions -> SUBSET Items]
    /\ errors \in [Sessions -> SUBSET Items]
    /\ symbolData \in [Sessions -> [Symbols -> SUBSET Docs]]
    /\ best \in [Sessions -> [Symbols -> [Kinds -> Docs \cup {NoDoc}]]]

Init ==
    /\ rawArticles = [d \in Docs |-> NoSymbol]
    /\ logs = {}
    /\ registry = EmptyRegistry
    /\ phase = [s \in Sessions |-> "idle"]
    /\ snapshot = [s \in Sessions |-> rawArticles]
    /\ broken = [s \in Sessions |-> FALSE]
    /\ items = [s \in Sessions |-> {}]
    /\ todo = [s \in Sessions |-> {}]
    /\ current = [s \in Sessions |-> NoItem]
    /\ fetched = [s \in Sessions |-> {}]
    /\ pending = [s \in Sessions |-> {}]
    /\ noArticle = [s \in Sessions |-> {}]
    /\ errors = [s \in Sessions |-> {}]
    /\ symbolData = [s \in Sessions |-> [x \in Symbols |-> {}]]
    /\ best = [s \in Sessions |-> [x \in Symbols |-> [k \in Kinds |-> NoDoc]]]

-----------------------------------------------------------------------------
(* The event loop and the session.                                         *)

\* A collect request has no await between its first and its last statement,
\* and a run has none between the registry and the logs.
HoldsLoop(s) ==
    \/ Task[s] = "collect" /\ phase[s] \in {"collecting", "raised"}
    \/ phase[s] = "persisting"

LoopFree(s) == \A t \in Sessions \ {s} : ~HoldsLoop(t)

\* find_all(account_id): the rows of the account, or all rows for None;
\* then the filter on the selected symbols.
Chosen(s, table) ==
    {i \in table :
        /\ Account[s] # Anonymous => i.account = Account[s]
        /\ Selected[s] # {} => i.symbol \in Selected[s]}

\* A query or a commit of the session does not raise PendingRollbackError.
Usable(s) == ~broken[s]

\* uq_dedup_key accepts a row for d.
Accepted(d) == rawArticles[d] = NoSymbol

\* find_by_dedup_key: the session's snapshot has a row for d.
KnownIfAnyRow(s, d) == \E e \in Docs : snapshot[s][e] # NoSymbol   \* mutant
Known(s, d) == snapshot[s][d] # NoSymbol

\* The refresh after a commit opens the session's next transaction.
RefreshNothing(s) == UNCHANGED snapshot        \* mutant
Refresh(s) == snapshot' = [snapshot EXCEPT ![s] = rawArticles']

\* find_all(symbol): the rows of a symbol, as the session sees them.
FoundForAnySymbol(s, x) == {d \in Docs : snapshot[s][d] # NoSymbol}  \* mutant
Found(s, x) == {d \in Docs : snapshot[s][d] = x}

-----------------------------------------------------------------------------
(* Collection.                                                             *)

StartRun(s) ==
    /\ Task[s] = "run"
    /\ phase[s] = "idle"
    /\ LoopFree(s)
    /\ \E table \in Watchlists :
          /\ items' = [items EXCEPT ![s] = Chosen(s, table)]
          /\ todo' = [todo EXCEPT ![s] = Chosen(s, table)]
          /\ phase' = [phase EXCEPT ![s] =
                IF Chosen(s, table) = {} THEN "publishing" ELSE "next"]
    /\ snapshot' = [snapshot EXCEPT ![s] = rawArticles]
    /\ UNCHANGED <<store, broken, collecting, reported, best>>

\* The use case is called for an item: the stock is looked up, then the
\* collectors are asked.  A broken session fails at the lookup already.
Collect(s, i) ==
    /\ current' = [current EXCEPT ![s] = i]
    /\ \E batch \in SUBSET Offered[i.symbol] :
          /\ Usable(s) \/ batch = {}
          /\ fetched' = [fetched EXCEPT ![s] = batch]
          /\ pending' = [pending EXCEPT ![s] = batch]
    /\ phase' = [phase EXCEPT ![s] = "collecting"]

\* The loop goes on to an item.
Peek(s, i) == i \in todo[s] /\ UNCHANGED todo   \* mutant
Take(s, i) == i \in todo[s] /\ todo' = [todo EXCEPT ![s] = @ \ {i}]

BeginCollect(s) ==
    /\ phase[s] = "next"
    /\ LoopFree(s)
    /\ \E i \in Items : Take(s, i) /\ Collect(s, i)
    /\ UNCHANGED <<store, snapshot, broken, items, reported, best>>

\* POST /stock-collector/collect
StartCollectRequest(s) ==
    /\ Task[s] = "collect"
    /\ phase[s] = "idle"
    /\ LoopFree(s)
    /\ \E x \in Symbols : Collect(s, [account |-> Anonymous, symbol |-> x])
    /\ snapshot' = [snapshot EXCEPT ![s] = rawArticles]
    /\ UNCHANGED <<store, broken, items, todo, reported, best>>

\* find_by_dedup_key finds a row: the document is skipped.
SkipDuplicate(s) ==
    /\ phase[s] = "collecting"
    /\ Usable(s)
    /\ \E d \in pending[s] :
          /\ Known(s, d)
          /\ pending' = [pending EXCEPT ![s] = @ \ {d}]
    /\ UNCHANGED <<store, phase, snapshot, broken, items, todo, current,
                   fetched, reported, best>>

\* find_by_dedup_key finds none and save() commits; its refresh opens the next
\* transaction.  The lookup reads the session's own snapshot, so lookup and
\* insert are one step without loss: what another session commits between the
\* two is what it commits after the snapshot.
Save(s) ==
    /\ phase[s] = "collecting"
    /\ Usable(s)
    /\ \E d \in pending[s] \ Unstorable :
          /\ ~Known(s, d)
          /\ Accepted(d)
          /\ rawArticles' = [rawArticles EXCEPT ![d] = current[s].symbol]
          /\ Refresh(s)
          /\ pending' = [pending EXCEPT ![s] = @ \ {d}]
    /\ UNCHANGED <<logs, registry, phase, broken, items, todo, current, fetched,
                   reported, best>>

\* save() violates uq_dedup_key, or a column rejects the value: the commit
\* raises and nothing rolls the session back.
SaveFails(s) ==
    /\ phase[s] = "collecting"
    /\ Usable(s)
    /\ \E d \in pending[s] :
          /\ ~Known(s, d)
          /\ d \in Unstorable \/ ~Accepted(d)
    /\ broken' = [broken EXCEPT ![s] = TRUE]
    /\ phase' = [phase EXCEPT ![s] = "raised"]
    /\ UNCHANGED <<store, snapshot, items, todo, collecting, reported, best>>

\* A collector raises (an answer that is not JSON), or the session is broken.
CollectRaises(s) ==
    /\ phase[s] = "collecting"
    /\ phase' = [phase EXCEPT ![s] = "raised"]
    /\ UNCHANGED <<store, snapshot, broken, items, todo, collecting, reported,
                   best>>

\* The item joins no_article_symbols.
Drop(s) == noArticle' = [noArticle EXCEPT ![s] = @ \ {current[s]}]   \* mutant
Skip(s) == noArticle' = [noArticle EXCEPT ![s] = @ \cup {current[s]}]

\* The item in hand is dropped.
LetGo(s) ==
    /\ phase[s] = "raised"
    /\ LoopFree(s)
    /\ current' = [current EXCEPT ![s] = NoItem]
    /\ fetched' = [fetched EXCEPT ![s] = {}]
    /\ pending' = [pending EXCEPT ![s] = {}]
    /\ UNCHANGED <<store, snapshot, broken, items, todo, symbolData, best>>

\* The loop's except branch: an error event, and on to the next item.
SkipSymbol(s) ==
    /\ Task[s] = "run"
    /\ LetGo(s)
    /\ Skip(s)
    /\ errors' = [errors EXCEPT ![s] = @ \cup {current[s]}]
    /\ phase' = [phase EXCEPT ![s] = "next"]

\* A collect request has no such branch: it answers 500.
RefuseCollectRequest(s) ==
    /\ Task[s] = "collect"
    /\ LetGo(s)
    /\ phase' = [phase EXCEPT ![s] = "failed"]
    /\ UNCHANGED <<noArticle, errors>>

\* The use case has returned.
Collected(s) ==
    /\ phase[s] = "collecting"
    /\ Usable(s)
    /\ pending[s] = {}
    /\ LoopFree(s)
    /\ current' = [current EXCEPT ![s] = NoItem]
    /\ fetched' = [fetched EXCEPT ![s] = {}]
    /\ UNCHANGED <<store, snapshot, broken, items, todo, pending, errors,
                   best>>

NoArticleFound(s) ==
    /\ Task[s] = "run"
    /\ Collected(s)
    /\ Found(s, current[s].symbol) = {}
    /\ Skip(s)
    /\ phase' = [phase EXCEPT ![s] = "next"]
    /\ UNCHANGED symbolData

ArticlesFound(s) ==
    /\ Task[s] = "run"
    /\ Collected(s)
    /\ Found(s, current[s].symbol) # {}
    /\ symbolData' = [symbolData EXCEPT ![s][current[s].symbol] =
                         Found(s, current[s].symbol)]
    /\ phase' = [phase EXCEPT ![s] = "next"]
    /\ UNCHANGED noArticle

AnswerCollectRequest(s) ==
    /\ Task[s] = "collect"
    /\ Collected(s)
    /\ phase' = [phase EXCEPT ![s] = "done"]
    /\ UNCHANGED <<noArticle, symbolData>>

\* find_all runs outside the try: a database error there ends the run.
FindAllFails(s) ==
    /\ Task[s] = "run"
    /\ Collected(s)
    /\ phase' = [phase EXCEPT ![s] = "failed"]
    /\ UNCHANGED <<noArticle, symbolData>>

-----------------------------------------------------------------------------
(* Analysis, aggregation, persistence.                                     *)

\* The newest of a set of articles: equal dates leave the choice open.
Newest(S) == {d \in S : \A e \in S : Recency[e] <= Recency[d]}

\* What _analyze_articles may return for the articles of one kind: the
\* synthesis and its fallback both carry the newest article, and every
\* failure is turned into None.
Outcomes(S, k) == {NoDoc} \cup Newest({d \in S : DocKind[d] = k})

\* Phase 2 uses no database, so its parallel calls are one step here
\* (ArticleAnalysis has them one by one).
Analyze(s) ==
    /\ phase[s] = "next"
    /\ todo[s] = {}
    /\ LoopFree(s)
    /\ \E result \in [Symbols -> [Kinds -> Docs \cup {NoDoc}]] :
          /\ \A x \in Symbols, k \in Kinds :
                result[x][k] \in Outcomes(symbolData[s][x], k)
          /\ best' = [best EXCEPT ![s] = result]
    /\ phase' = [phase EXCEPT ![s] = "publishing"]
    /\ UNCHANGED <<store, snapshot, broken, items, todo, collecting, reported>>

\* The logs of the aggregation: one for each kind of each symbol with a
\* result.  The summaries are those of kind NEWS.
ProducedForReports(s) ==                       \* mutant
    {l \in LogRecords : l.run = s /\ l.kind = "REPORT"
                           /\ l.doc = best[s][l.symbol][l.kind]}

Produced(s) ==
    {l \in LogRecords : l.run = s /\ l.doc = best[s][l.symbol][l.kind]}

\* registry.put_all(account_id, summaries)
PutRegistry(s) ==
    /\ phase[s] = "publishing"
    /\ LoopFree(s)
    /\ registry' = [registry EXCEPT ![Account[s]] =
          [x \in Symbols |-> IF best[s][x]["NEWS"] # NoDoc THEN s ELSE @[x]]]
    /\ phase' = [phase EXCEPT ![s] = "persisting"]
    /\ UNCHANGED <<rawArticles, logs, snapshot, broken, items, todo,
                   collecting, reported, best>>

\* Redis does not answer: put_all swallows the error.
RegistryUnreachable(s) ==
    /\ RegistrySurvives
    /\ phase[s] = "publishing"
    /\ LoopFree(s)
    /\ phase' = [phase EXCEPT ![s] = "persisting"]
    /\ UNCHANGED <<store, snapshot, broken, items, todo, collecting, reported,
                   best>>

\* save_all: every log is added, one commit.
SaveLogs(s) ==
    /\ phase[s] = "persisting"
    /\ Usable(s)
    /\ logs' = logs \cup Produced(s)
    /\ phase' = [phase EXCEPT ![s] = "done"]
    /\ UNCHANGED <<rawArticles, registry, snapshot, broken, items, todo,
                   collecting, reported, best>>

\* A commit for each log, the last one raises (mutant).
SaveLogsOneByOne(s) ==
    /\ phase[s] = "persisting"
    /\ \E L \in SUBSET Produced(s) : logs' = logs \cup L
    /\ phase' = [phase EXCEPT ![s] = "failed"]
    /\ UNCHANGED <<rawArticles, registry, snapshot, broken, items, todo,
                   collecting, reported, best>>

\* The commit raises: the session is broken, or the database fails now.
SaveLogsFails(s) ==
    /\ phase[s] = "persisting"
    /\ phase' = [phase EXCEPT ![s] = "failed"]
    /\ UNCHANGED <<store, snapshot, broken, items, todo, collecting, reported,
                   best>>

-----------------------------------------------------------------------------
(* The environment.                                                        *)

\* The process dies; the tables stay, a registry in memory is lost.
Crash ==
    /\ \E s \in Sessions : phase[s] \notin Ended \cup {"idle"}
    /\ phase' = [s \in Sessions |->
          IF phase[s] \in Ended \cup {"idle"} THEN phase[s] ELSE "crashed"]
    /\ registry' = IF RegistrySurvives THEN registry ELSE EmptyRegistry
    /\ UNCHANGED <<rawArticles, logs, snapshot, broken, items, todo,
                   collecting, reported, best>>

\* The hash of an account outlives its time to live (24 hours).
RegistryExpires ==
    /\ RegistrySurvives
    /\ \E a \in Accounts \cup {Anonymous} :
          registry' = [registry EXCEPT ![a] = EmptyRegistry[a]]
    /\ UNCHANGED <<rawArticles, logs, phase, snapshot, broken, items, todo,
                   collecting, reported, best>>

Continue(s) ==
    \/ BeginCollect(s)
    \/ SkipDuplicate(s)
    \/ Save(s)
    \/ SaveFails(s)
    \/ CollectRaises(s)
    \/ SkipSymbol(s)
    \/ RefuseCollectRequest(s)
    \/ NoArticleFound(s)
    \/ ArticlesFound(s)
    \/ AnswerCollectRequest(s)
    \/ FindAllFails(s)
    \/ Analyze(s)
    \/ PutRegistry(s)
    \/ RegistryUnreachable(s)
    \/ SaveLogs(s)
    \/ SaveLogsFails(s)

\* Every session has ended: nothing is left to do.
AllEnded ==
    /\ \A s \in Sessions : phase[s] \in Ended
    /\ UNCHANGED vars

Next ==
    \/ \E s \in Sessions : StartRun(s) \/ StartCollectRequest(s) \/ Continue(s)
    \/ Crash
    \/ RegistryExpires
    \/ AllEnded

Spec == Init /\ [][Next]_vars

\* The event loop and the worker threads go on with whatever can go on, the
\* clients of the sources and of the model have time-outs; nobody has to
\* start a run.
Fairness == \A s \in Sessions : WF_vars(Continue(s))

FairSpec == Spec /\ Fairness

-----------------------------------------------------------------------------
(* Properties.                                                             *)

\* The items of a run with an entry in symbol_data.
Analysed(s) == {i \in items[s] : symbolData[s][i.symbol] # {}}

\* No item of the watchlist is lost or counted twice on its way through the
\* collection loop (run_pipeline_usecase.py 136-196): once the loop is over,
\* every item is reported, and a run for one account reports none as both
\* skipped and analysed.
EveryItemReportedOnce ==
    \A s \in Sessions : phase[s] \in {"publishing", "persisting", "done"} =>
        /\ items[s] = noArticle[s] \cup Analysed(s)
        /\ Account[s] # Anonymous => noArticle[s] \cap Analysed(s) = {}

\* The logs of a run are in the database all together or not at all: a run
\* that answered "done" has every log it produced, whatever else happened
\* meanwhile, and any other run has none (pipeline_router.py 94-100, 133-141).
LogsMatchOutcome ==
    \A s \in Sessions :
        {l \in logs : l.run = s} = IF phase[s] = "done" THEN Produced(s) ELSE {}

\* An analysis is about an article of its own symbol: no interleaving of
\* collections, and no stale snapshot, brings another symbol's article into a
\* run's results (run_pipeline_usecase.py 162-189).
NoForeignArticle ==
    \A s \in Sessions, x \in Symbols :
        /\ \A d \in symbolData[s][x] : rawArticles[d] = x
        /\ \A k \in Kinds :
              best[s][x][k] # NoDoc => best[s][x][k] \in symbolData[s][x]

\* A registered summary whose run is over and has not failed has its log in
\* the database: the two stores written one after the other (pipeline_router.py
\* 94-97) differ only while a run persists, or after it failed or crashed.
RegistryBacked ==
    \A a \in Accounts \cup {Anonymous}, x \in Symbols :
        LET s == registry[a][x] IN
        s # NoRun =>
            \/ phase[s] \in {"persisting", "failed", "crashed"}
            \/ \E l \in logs : l.run = s /\ l.symbol = x /\ l.kind = "NEWS"

\* A session whose flush failed stays unusable: the run publishes nothing
\* (raw_article_repository_impl.py 15-20 has no rollback).
BrokenRunFails ==
    \A s \in Sessions : broken[s] => phase[s] # "done"

\* From the failed flush on, every remaining item of the run is skipped: no
\* symbol gains articles.
BrokenRunSkipsTheRest ==
    [][\A s \in Sessions : broken[s] => symbolData'[s] = symbolData[s]]_vars

\* What a run tells of an item's collection is true.  An item is skipped without
\* an error only if nothing was collected for it that could be shown: every
\* document the collectors returned already has a row, under another symbol (the
\* dedup key knows no symbol).  And what was collected for an item that was not
\* skipped is in the table when the item is done (run_pipeline_usecase.py 148-189).
CollectionIsTold ==
    [][\A s \in Sessions :
          /\ noArticle'[s] # noArticle[s] /\ errors'[s] = errors[s] =>
                \A d \in fetched[s] :
                    rawArticles[d] \notin {NoSymbol, current[s].symbol}
          /\ symbolData'[s] # symbolData[s] =>
                \A d \in fetched[s] : rawArticles[d] # NoSymbol]_vars

\* Every run and every request ends, whoever else is running.
SessionsEnd ==
    \A s \in Sessions : phase[s] # "idle" ~> phase[s] \in Ended

\* The runs implement the abstract specification of their outcome.
Status(s) ==
    CASE phase[s] = "idle" -> "idle"
      [] phase[s] = "done" -> "published"
      [] phase[s] \in {"failed", "crashed"} -> "aborted"
      [] OTHER -> "running"

Outcome == INSTANCE RunOutcome WITH
    Run <- Sessions,
    Log <- LogRecords,
    status <- [s \in Sessions |-> Status(s)],
    durable <- logs

ImplementsOutcome == Outcome!Spec

\* A symbol whose collection fails is skipped, and only it is ("수집 오류 —
\* 건너뜁니다", run_pipeline_usecase.py 157): a failed insert does not
\* keep the run from publishing its other results.
FailedInsertOnlySkips ==
    \A s \in Sessions :
        phase[s] = "failed" /\ Produced(s) # {} => ~broken[s]
=============================================================================
