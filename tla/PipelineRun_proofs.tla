-------------------------- MODULE PipelineRun_proofs --------------------------
(***************************************************************************)
(* What TLAPS proves about PipelineRun, for any number of sessions,        *)
(* accounts, symbols and documents.  The steps of a proof that an          *)
(* invariant is kept are named after the actions of PipelineRun.           *)
(***************************************************************************)
EXTENDS PipelineRun, TLAPS

-----------------------------------------------------------------------------
(* Type correctness.                                                       *)

\* A session that collects holds an item: what it skips is one.
ItemInHand ==
    \A s \in Sessions : phase[s] \in {"collecting", "raised"} => current[s] \in Items

TypeInv == TypeOK /\ ItemInHand

LEMMA TypeInit == Init => TypeInv
  BY PipelineAssumption DEF Init, TypeInv, TypeOK, ItemInHand, EmptyRegistry,
       NoRun, Phases, Ended, LogRecords

LEMMA TypeNext == TypeInv /\ [Next]_vars => TypeInv'
<1>. SUFFICES ASSUME TypeInv, [Next]_vars PROVE TypeInv'
  OBVIOUS
<1>. USE PipelineAssumption DEF TypeInv, TypeOK, ItemInHand, Phases, Ended
<1>StartRun. ASSUME NEW s \in Sessions, StartRun(s) PROVE TypeInv'
  BY <1>StartRun DEF StartRun, Chosen, store, collecting, reported
<1>StartCollectRequest. ASSUME NEW s \in Sessions, StartCollectRequest(s) PROVE TypeInv'
  BY <1>StartCollectRequest DEF StartCollectRequest, Collect, Items, store, reported
<1>BeginCollect. ASSUME NEW s \in Sessions, BeginCollect(s) PROVE TypeInv'
  BY <1>BeginCollect DEF BeginCollect, Take, Collect, Items, store, reported
<1>SkipDuplicate. ASSUME NEW s \in Sessions, SkipDuplicate(s) PROVE TypeInv'
  BY <1>SkipDuplicate DEF SkipDuplicate, store, reported
<1>Save. ASSUME NEW s \in Sessions, Save(s) PROVE TypeInv'
  BY <1>Save DEF Save, Refresh, reported, Items, NoItem
<1>SaveFails. ASSUME NEW s \in Sessions, SaveFails(s) PROVE TypeInv'
  BY <1>SaveFails DEF SaveFails, store, collecting, reported
<1>CollectRaises. ASSUME NEW s \in Sessions, CollectRaises(s) PROVE TypeInv'
  BY <1>CollectRaises DEF CollectRaises, store, collecting, reported
<1>SkipSymbol. ASSUME NEW s \in Sessions, SkipSymbol(s) PROVE TypeInv'
  BY <1>SkipSymbol DEF SkipSymbol, LetGo, Skip, store
<1>RefuseCollectRequest. ASSUME NEW s \in Sessions, RefuseCollectRequest(s) PROVE TypeInv'
  BY <1>RefuseCollectRequest DEF RefuseCollectRequest, LetGo, store
<1>NoArticleFound. ASSUME NEW s \in Sessions, NoArticleFound(s) PROVE TypeInv'
  BY <1>NoArticleFound DEF NoArticleFound, Collected, Skip, store
<1>ArticlesFound. ASSUME NEW s \in Sessions, ArticlesFound(s) PROVE TypeInv'
  <2>1. /\ current' = [current EXCEPT ![s] = NoItem]
        /\ fetched' = [fetched EXCEPT ![s] = {}]
        /\ phase' = [phase EXCEPT ![s] = "next"]
        /\ UNCHANGED <<rawArticles, logs, registry, snapshot, broken, items, todo,
                       pending, noArticle, errors, best>>
    BY <1>ArticlesFound DEF ArticlesFound, Collected, store
  <2>2. symbolData' \in [Sessions -> [Symbols -> SUBSET Docs]]
    <3>1. symbolData' = [symbolData EXCEPT ![s][current[s].symbol] =
                            Found(s, current[s].symbol)]
      BY <1>ArticlesFound DEF ArticlesFound
    <3>2. Found(s, current[s].symbol) \in SUBSET Docs
      BY DEF Found
    <3>3. symbolData \in [Sessions -> [Symbols -> SUBSET Docs]]
      OBVIOUS
    <3>. HIDE DEF Found, TypeInv, TypeOK, ItemInHand
    <3>4. PICK found : found = [symbolData[s] EXCEPT ![current[s].symbol] =
                                  Found(s, current[s].symbol)]
      OBVIOUS
    <3>5. symbolData' = [symbolData EXCEPT ![s] = found]
      BY <3>1, <3>4
    <3>6. found \in [Symbols -> SUBSET Docs]
      BY <3>2, <3>3, <3>4
    <3>. QED BY <3>3, <3>5, <3>6
  <2>3. rawArticles' = rawArticles /\ logs' = logs /\ registry' = registry /\ best' = best
    BY <2>1
  <2>4. /\ snapshot' = snapshot /\ broken' = broken /\ items' = items /\ todo' = todo
        /\ pending' = pending /\ noArticle' = noArticle /\ errors' = errors
    BY <2>1
  <2>5. /\ phase' \in [Sessions -> Phases] /\ fetched' \in [Sessions -> SUBSET Docs]
        /\ current' \in [Sessions -> Items \cup {NoItem}]
    BY <2>1
  <2>6. TypeOK'
    BY <2>2, <2>3, <2>4, <2>5
  <2>7. ItemInHand'
    BY <2>1
  <2>. QED BY <2>6, <2>7
<1>AnswerCollectRequest. ASSUME NEW s \in Sessions, AnswerCollectRequest(s) PROVE TypeInv'
  BY <1>AnswerCollectRequest DEF AnswerCollectRequest, Collected, store
<1>FindAllFails. ASSUME NEW s \in Sessions, FindAllFails(s) PROVE TypeInv'
  BY <1>FindAllFails DEF FindAllFails, Collected, store
<1>Analyze. ASSUME NEW s \in Sessions, Analyze(s) PROVE TypeInv'
  BY <1>Analyze DEF Analyze, store, collecting, reported
<1>PutRegistry. ASSUME NEW s \in Sessions, PutRegistry(s) PROVE TypeInv'
  BY <1>PutRegistry DEF PutRegistry, collecting, reported
<1>RegistryUnreachable. ASSUME NEW s \in Sessions, RegistryUnreachable(s) PROVE TypeInv'
  BY <1>RegistryUnreachable DEF RegistryUnreachable, store, collecting, reported
<1>SaveLogs. ASSUME NEW s \in Sessions, SaveLogs(s) PROVE TypeInv'
  BY <1>SaveLogs DEF SaveLogs, Produced, collecting, reported
<1>SaveLogsFails. ASSUME NEW s \in Sessions, SaveLogsFails(s) PROVE TypeInv'
  BY <1>SaveLogsFails DEF SaveLogsFails, store, collecting, reported
<1>Crash. CASE Crash
  BY <1>Crash DEF Crash, EmptyRegistry, NoRun, collecting, reported
<1>RegistryExpires. CASE RegistryExpires
  BY <1>RegistryExpires DEF RegistryExpires, EmptyRegistry, NoRun, collecting, reported
<1>Stutter. CASE UNCHANGED vars
  BY <1>Stutter DEF vars
<1>. QED
  BY <1>StartRun, <1>StartCollectRequest, <1>BeginCollect,
     <1>SkipDuplicate, <1>Save, <1>SaveFails, <1>CollectRaises,
     <1>SkipSymbol, <1>RefuseCollectRequest, <1>NoArticleFound,
     <1>ArticlesFound, <1>AnswerCollectRequest, <1>FindAllFails,
     <1>Analyze, <1>PutRegistry, <1>RegistryUnreachable, <1>SaveLogs,
     <1>SaveLogsFails, <1>Crash, <1>RegistryExpires, <1>Stutter
     DEF Next, Continue, AllEnded

\* Every variable of the pipeline keeps its type (PipelineRun's TypeOK).
THEOREM TypeCorrect == Spec => []TypeOK
<1>1. TypeInv => TypeOK
  BY DEF TypeInv
<1>. QED
  BY <1>1, TypeInit, TypeNext, PTL DEF Spec

-----------------------------------------------------------------------------
(* The logs of a run.                                                      *)

\* A collect request never runs the pipeline's later phases, and before its
\* analysis a run has no result.
ResultInv ==
    \A s \in Sessions :
        /\ Task[s] = "collect" => phase[s] \notin {"next", "publishing", "persisting"}
        /\ Task[s] = "collect" \/ phase[s] \in {"idle", "next", "collecting", "raised"} =>
              \A x \in Symbols, k \in Kinds : best[s][x][k] = NoDoc

LEMMA ResultInit == Init => ResultInv
  BY PipelineAssumption DEF Init, ResultInv

LEMMA ResultNext == TypeInv /\ ResultInv /\ [Next]_vars => ResultInv'
<1>. SUFFICES ASSUME TypeInv /\ ResultInv, [Next]_vars PROVE ResultInv'
  OBVIOUS
<1>. USE PipelineAssumption DEF TypeInv, TypeOK, ResultInv, Ended
<1>StartRun. ASSUME NEW s \in Sessions, StartRun(s) PROVE ResultInv'
  BY <1>StartRun DEF StartRun, store, collecting, reported
<1>StartCollectRequest. ASSUME NEW s \in Sessions, StartCollectRequest(s) PROVE ResultInv'
  BY <1>StartCollectRequest DEF StartCollectRequest, Collect, store, reported
<1>Analyze. ASSUME NEW s \in Sessions, Analyze(s) PROVE ResultInv'
  BY <1>Analyze DEF Analyze, store, collecting, reported
<1>Others. ASSUME NEW s \in Sessions,
       BeginCollect(s) \/ SkipDuplicate(s) \/ Save(s) \/
       SaveFails(s) \/ CollectRaises(s) \/ SkipSymbol(s) \/
       RefuseCollectRequest(s) \/ NoArticleFound(s) \/
       ArticlesFound(s) \/ AnswerCollectRequest(s) \/
       FindAllFails(s) \/ PutRegistry(s) \/ RegistryUnreachable(s)
       \/ SaveLogs(s) \/ SaveLogsFails(s)
  PROVE ResultInv'
  BY <1>Others DEF BeginCollect, SkipDuplicate, Save, SaveFails, CollectRaises,
     SkipSymbol, RefuseCollectRequest, NoArticleFound,
     ArticlesFound, AnswerCollectRequest, FindAllFails,
     PutRegistry, RegistryUnreachable, SaveLogs, SaveLogsFails,
     Collect, LetGo, Collected, store, collecting, reported
<1>Crash. CASE Crash
  BY <1>Crash DEF Crash, collecting, reported
<1>RegistryExpires. CASE RegistryExpires
  BY <1>RegistryExpires DEF RegistryExpires, collecting, reported
<1>Stutter. CASE UNCHANGED vars
  BY <1>Stutter DEF vars
<1>. QED
  BY <1>StartRun, <1>StartCollectRequest, <1>Analyze, <1>Others, <1>Crash,
     <1>RegistryExpires, <1>Stutter
     DEF Next, Continue, AllEnded

LEMMA LogsInit == Init => LogsMatchOutcome
  BY PipelineAssumption DEF Init, LogsMatchOutcome

LEMMA LogsNext == TypeInv /\ ResultInv /\ LogsMatchOutcome /\ [Next]_vars => LogsMatchOutcome'
<1>. SUFFICES ASSUME TypeInv /\ ResultInv /\ LogsMatchOutcome, [Next]_vars PROVE LogsMatchOutcome'
  OBVIOUS
<1>. USE PipelineAssumption DEF TypeInv, TypeOK, ResultInv, LogsMatchOutcome, Produced, Ended
<1>StartRun. ASSUME NEW s \in Sessions, StartRun(s) PROVE LogsMatchOutcome'
  BY <1>StartRun DEF StartRun, store, collecting, reported
<1>AnswerCollectRequest. ASSUME NEW s \in Sessions, AnswerCollectRequest(s) PROVE LogsMatchOutcome'
  BY <1>AnswerCollectRequest DEF AnswerCollectRequest, Collected, store, LogRecords
<1>Analyze. ASSUME NEW s \in Sessions, Analyze(s) PROVE LogsMatchOutcome'
  BY <1>Analyze DEF Analyze, store, collecting, reported
<1>SaveLogs. ASSUME NEW s \in Sessions, SaveLogs(s) PROVE LogsMatchOutcome'
  BY <1>SaveLogs DEF SaveLogs, collecting, reported
<1>Others. ASSUME NEW s \in Sessions,
       StartCollectRequest(s) \/ BeginCollect(s) \/
       SkipDuplicate(s) \/ Save(s) \/ SaveFails(s) \/
       CollectRaises(s) \/ SkipSymbol(s) \/
       RefuseCollectRequest(s) \/ NoArticleFound(s) \/
       ArticlesFound(s) \/ FindAllFails(s) \/ PutRegistry(s) \/
       RegistryUnreachable(s) \/ SaveLogsFails(s)
  PROVE LogsMatchOutcome'
  <2>1. logs' = logs /\ best' = best
    BY <1>Others DEF StartCollectRequest, BeginCollect, SkipDuplicate, Save, SaveFails,
       CollectRaises, SkipSymbol, RefuseCollectRequest,
       NoArticleFound, ArticlesFound, FindAllFails, PutRegistry,
       RegistryUnreachable, SaveLogsFails, Collect, LetGo,
       Collected, store, collecting, reported
  <2>2. \A t \in Sessions : phase'[t] = "done" <=> phase[t] = "done"
    BY <1>Others, SMTT(30) DEF StartCollectRequest, BeginCollect, SkipDuplicate, Save,
       SaveFails, CollectRaises, SkipSymbol, RefuseCollectRequest,
       NoArticleFound, ArticlesFound, FindAllFails, PutRegistry,
       RegistryUnreachable, SaveLogsFails, Collect, LetGo,
       Collected, store, collecting, reported
  <2>. QED BY <2>1, <2>2
<1>Crash. CASE Crash
  BY <1>Crash DEF Crash, collecting, reported
<1>RegistryExpires. CASE RegistryExpires
  BY <1>RegistryExpires DEF RegistryExpires, collecting, reported
<1>Stutter. CASE UNCHANGED vars
  BY <1>Stutter DEF vars
<1>. QED
  BY <1>StartRun, <1>AnswerCollectRequest, <1>Analyze, <1>SaveLogs,
     <1>Others, <1>Crash, <1>RegistryExpires, <1>Stutter
     DEF Next, Continue, AllEnded

\* The logs of a run are in the database all together or not at all, however
\* many runs and requests interleave and wherever the process dies.
THEOREM LogsAllOrNothing == Spec => []LogsMatchOutcome
  BY TypeInit, TypeNext, ResultInit, ResultNext, LogsInit, LogsNext, PTL DEF Spec

-----------------------------------------------------------------------------
(* A session whose insert failed.                                          *)

LEMMA BrokenInit == Init => BrokenRunFails
  BY DEF Init, BrokenRunFails

LEMMA BrokenNext == TypeInv /\ BrokenRunFails /\ [Next]_vars => BrokenRunFails'
<1>. SUFFICES ASSUME TypeInv /\ BrokenRunFails, [Next]_vars PROVE BrokenRunFails'
  OBVIOUS
<1>. USE DEF TypeInv, TypeOK, BrokenRunFails, Ended
<1>SaveFails. ASSUME NEW s \in Sessions, SaveFails(s) PROVE BrokenRunFails'
  BY <1>SaveFails DEF SaveFails, store, collecting, reported
<1>AnswerCollectRequest. ASSUME NEW s \in Sessions, AnswerCollectRequest(s) PROVE BrokenRunFails'
  BY <1>AnswerCollectRequest DEF AnswerCollectRequest, Collected, Usable, store
<1>SaveLogs. ASSUME NEW s \in Sessions, SaveLogs(s) PROVE BrokenRunFails'
  BY <1>SaveLogs DEF SaveLogs, Usable, collecting, reported
<1>Others. ASSUME NEW s \in Sessions,
       StartRun(s) \/ StartCollectRequest(s) \/ BeginCollect(s) \/
       SkipDuplicate(s) \/ Save(s) \/ CollectRaises(s) \/
       SkipSymbol(s) \/ RefuseCollectRequest(s) \/
       NoArticleFound(s) \/ ArticlesFound(s) \/ FindAllFails(s) \/
       Analyze(s) \/ PutRegistry(s) \/ RegistryUnreachable(s) \/
       SaveLogsFails(s)
  PROVE BrokenRunFails'
  BY <1>Others DEF StartRun, StartCollectRequest, BeginCollect, SkipDuplicate, Save,
     CollectRaises, SkipSymbol, RefuseCollectRequest,
     NoArticleFound, ArticlesFound, FindAllFails, Analyze,
     PutRegistry, RegistryUnreachable, SaveLogsFails, Collect,
     LetGo, Collected, store, collecting, reported
<1>Crash. CASE Crash
  BY <1>Crash DEF Crash, collecting, reported
<1>RegistryExpires. CASE RegistryExpires
  BY <1>RegistryExpires DEF RegistryExpires, collecting, reported
<1>Stutter. CASE UNCHANGED vars
  BY <1>Stutter DEF vars
<1>. QED
  BY <1>SaveFails, <1>AnswerCollectRequest, <1>SaveLogs, <1>Others,
     <1>Crash, <1>RegistryExpires, <1>Stutter
     DEF Next, Continue, AllEnded

\* A run whose insert failed never publishes: nothing rolls its session back.
THEOREM BrokenNeverDone == Spec => []BrokenRunFails
  BY TypeInit, TypeNext, BrokenInit, BrokenNext, PTL DEF Spec

-----------------------------------------------------------------------------
(* Rows, snapshots, and the articles of a run.                             *)

\* A snapshot shows rows of the table, perhaps not all of them.
SnapshotInv ==
    \A s \in Sessions, d \in Docs :
        snapshot[s][d] # NoSymbol => rawArticles[d] = snapshot[s][d]

LEMMA SnapshotInit == Init => SnapshotInv
  BY DEF Init, SnapshotInv

LEMMA SnapshotNext == TypeInv /\ SnapshotInv /\ [Next]_vars => SnapshotInv'
<1>. SUFFICES ASSUME TypeInv /\ SnapshotInv, [Next]_vars PROVE SnapshotInv'
  OBVIOUS
<1>. USE DEF TypeInv, TypeOK, SnapshotInv
<1>StartRun. ASSUME NEW s \in Sessions, StartRun(s) PROVE SnapshotInv'
  BY <1>StartRun DEF StartRun, store
<1>StartCollectRequest. ASSUME NEW s \in Sessions, StartCollectRequest(s) PROVE SnapshotInv'
  BY <1>StartCollectRequest DEF StartCollectRequest, store
<1>Save. ASSUME NEW s \in Sessions, Save(s) PROVE SnapshotInv'
  BY <1>Save DEF Save, Accepted, Refresh
<1>Others. ASSUME NEW s \in Sessions,
       BeginCollect(s) \/ SkipDuplicate(s) \/ SaveFails(s) \/
       CollectRaises(s) \/ SkipSymbol(s) \/
       RefuseCollectRequest(s) \/ NoArticleFound(s) \/
       ArticlesFound(s) \/ AnswerCollectRequest(s) \/
       FindAllFails(s) \/ Analyze(s) \/ PutRegistry(s) \/
       RegistryUnreachable(s) \/ SaveLogs(s) \/ SaveLogsFails(s)
  PROVE SnapshotInv'
  BY <1>Others DEF BeginCollect, SkipDuplicate, SaveFails, CollectRaises, SkipSymbol,
     RefuseCollectRequest, NoArticleFound, ArticlesFound,
     AnswerCollectRequest, FindAllFails, Analyze, PutRegistry,
     RegistryUnreachable, SaveLogs, SaveLogsFails, LetGo,
     Collected, store
<1>Crash. CASE Crash
  BY <1>Crash DEF Crash
<1>RegistryExpires. CASE RegistryExpires
  BY <1>RegistryExpires DEF RegistryExpires
<1>Stutter. CASE UNCHANGED vars
  BY <1>Stutter DEF vars
<1>. QED
  BY <1>StartRun, <1>StartCollectRequest, <1>Save, <1>Others, <1>Crash,
     <1>RegistryExpires, <1>Stutter
     DEF Next, Continue, AllEnded

ArticleInv == SnapshotInv /\ ResultInv /\ NoForeignArticle

LEMMA ForeignInit == Init => NoForeignArticle
  BY DEF Init, NoForeignArticle

LEMMA ForeignNext == TypeInv /\ ArticleInv /\ [Next]_vars => NoForeignArticle'
<1>. SUFFICES ASSUME TypeInv /\ ArticleInv, [Next]_vars PROVE NoForeignArticle'
  OBVIOUS
<1>. USE PipelineAssumption DEF TypeInv, TypeOK, ItemInHand, ArticleInv, SnapshotInv, ResultInv, NoForeignArticle
<1>StartRun. ASSUME NEW s \in Sessions, StartRun(s) PROVE NoForeignArticle'
  BY <1>StartRun DEF StartRun, store, reported
<1>Save. ASSUME NEW s \in Sessions, Save(s) PROVE NoForeignArticle'
  BY <1>Save DEF Save, Accepted, reported
<1>ArticlesFound. ASSUME NEW s \in Sessions, ArticlesFound(s) PROVE NoForeignArticle'
  BY <1>ArticlesFound DEF ArticlesFound, Collected, Found, store, Items
<1>Analyze. ASSUME NEW s \in Sessions, Analyze(s) PROVE NoForeignArticle'
  BY <1>Analyze DEF Analyze, Outcomes, Newest, store, reported
<1>Others. ASSUME NEW s \in Sessions,
       StartCollectRequest(s) \/ BeginCollect(s) \/
       SkipDuplicate(s) \/ SaveFails(s) \/ CollectRaises(s) \/
       SkipSymbol(s) \/ RefuseCollectRequest(s) \/
       NoArticleFound(s) \/ AnswerCollectRequest(s) \/
       FindAllFails(s) \/ PutRegistry(s) \/ RegistryUnreachable(s)
       \/ SaveLogs(s) \/ SaveLogsFails(s)
  PROVE NoForeignArticle'
  BY <1>Others DEF StartCollectRequest, BeginCollect, SkipDuplicate, SaveFails,
     CollectRaises, SkipSymbol, RefuseCollectRequest,
     NoArticleFound, AnswerCollectRequest, FindAllFails,
     PutRegistry, RegistryUnreachable, SaveLogs, SaveLogsFails,
     LetGo, Collected, store, reported
<1>Crash. CASE Crash
  BY <1>Crash DEF Crash, reported
<1>RegistryExpires. CASE RegistryExpires
  BY <1>RegistryExpires DEF RegistryExpires, reported
<1>Stutter. CASE UNCHANGED vars
  BY <1>Stutter DEF vars
<1>. QED
  BY <1>StartRun, <1>Save, <1>ArticlesFound, <1>Analyze, <1>Others,
     <1>Crash, <1>RegistryExpires, <1>Stutter
     DEF Next, Continue, AllEnded

\* No interleaving of collections brings another symbol's article into the
\* results of a run.
THEOREM ArticlesOfTheSymbol == Spec => []NoForeignArticle
<1>1. Init => TypeInv /\ ArticleInv
  BY TypeInit, SnapshotInit, ResultInit, ForeignInit DEF ArticleInv
<1>2. TypeInv /\ ArticleInv /\ [Next]_vars => TypeInv' /\ ArticleInv'
  BY TypeNext, SnapshotNext, ResultNext, ForeignNext DEF ArticleInv
<1>3. ArticleInv => NoForeignArticle
  BY DEF ArticleInv
<1>. QED
  BY <1>1, <1>2, <1>3, PTL DEF Spec

-----------------------------------------------------------------------------
(* The registry.                                                           *)

\* A registered summary is the run's own result, and the run has come that far.
RegistryInv ==
    \A a \in Accounts \cup {Anonymous}, x \in Symbols :
        registry[a][x] # NoRun =>
            /\ phase[registry[a][x]] \in {"persisting", "done", "failed", "crashed"}
            /\ best[registry[a][x]][x]["NEWS"] # NoDoc

LEMMA RegistryInit == Init => RegistryInv
  BY DEF Init, RegistryInv, EmptyRegistry

LEMMA RegistryNext == TypeInv /\ RegistryInv /\ [Next]_vars => RegistryInv'
<1>. SUFFICES ASSUME TypeInv /\ RegistryInv, [Next]_vars PROVE RegistryInv'
  OBVIOUS
<1>. USE PipelineAssumption DEF TypeInv, TypeOK, RegistryInv, Kinds, Ended
<1>StartRun. ASSUME NEW s \in Sessions, StartRun(s) PROVE RegistryInv'
  BY <1>StartRun DEF StartRun, store, collecting, reported
<1>StartCollectRequest. ASSUME NEW s \in Sessions, StartCollectRequest(s) PROVE RegistryInv'
  BY <1>StartCollectRequest, SMTT(30) DEF StartCollectRequest, Collect, store, reported
<1>BeginCollect. ASSUME NEW s \in Sessions, BeginCollect(s) PROVE RegistryInv'
  BY <1>BeginCollect, SMTT(30) DEF BeginCollect, Collect, store, reported
<1>Analyze. ASSUME NEW s \in Sessions, Analyze(s) PROVE RegistryInv'
  BY <1>Analyze, SMTT(30) DEF Analyze, store, collecting, reported
<1>PutRegistry. ASSUME NEW s \in Sessions, PutRegistry(s) PROVE RegistryInv'
  BY <1>PutRegistry DEF PutRegistry, collecting, reported
<1>RegistryUnreachable. ASSUME NEW s \in Sessions, RegistryUnreachable(s) PROVE RegistryInv'
  BY <1>RegistryUnreachable, SMTT(30) DEF RegistryUnreachable, store, collecting, reported
<1>SaveLogs. ASSUME NEW s \in Sessions, SaveLogs(s) PROVE RegistryInv'
  BY <1>SaveLogs, SMTT(30) DEF SaveLogs, collecting, reported
<1>SaveLogsFails. ASSUME NEW s \in Sessions, SaveLogsFails(s) PROVE RegistryInv'
  BY <1>SaveLogsFails, SMTT(30) DEF SaveLogsFails, store, collecting, reported
<1>Others. ASSUME NEW s \in Sessions,
       SkipDuplicate(s) \/ Save(s) \/ SaveFails(s) \/
       CollectRaises(s) \/ SkipSymbol(s) \/
       RefuseCollectRequest(s) \/ NoArticleFound(s) \/
       ArticlesFound(s) \/ AnswerCollectRequest(s) \/
       FindAllFails(s)
  PROVE RegistryInv'
  BY <1>Others, SMTT(30) DEF SkipDuplicate, Save, SaveFails, CollectRaises, SkipSymbol,
     RefuseCollectRequest, NoArticleFound, ArticlesFound,
     AnswerCollectRequest, FindAllFails, LetGo, Collected, store,
     collecting, reported
<1>Crash. CASE Crash
  BY <1>Crash DEF Crash, EmptyRegistry, collecting, reported
<1>RegistryExpires. CASE RegistryExpires
  BY <1>RegistryExpires DEF RegistryExpires, EmptyRegistry, collecting, reported
<1>Stutter. CASE UNCHANGED vars
  BY <1>Stutter DEF vars
<1>. QED
  BY <1>StartRun, <1>StartCollectRequest, <1>BeginCollect, <1>Analyze,
     <1>PutRegistry, <1>RegistryUnreachable, <1>SaveLogs,
     <1>SaveLogsFails, <1>Others, <1>Crash, <1>RegistryExpires, <1>Stutter
     DEF Next, Continue, AllEnded

\* The two stores agree about every run that is over and has not failed.
LEMMA RegistryHasLogs ==
    TypeInv /\ RegistryInv /\ LogsMatchOutcome => RegistryBacked
<1>. SUFFICES ASSUME TypeInv, RegistryInv, LogsMatchOutcome,
                     NEW a \in Accounts \cup {Anonymous}, NEW x \in Symbols,
                     registry[a][x] # NoRun,
                     phase[registry[a][x]] \notin {"persisting", "failed", "crashed"}
              PROVE  \E l \in logs : l.run = registry[a][x] /\ l.symbol = x
                                        /\ l.kind = "NEWS"
  BY DEF RegistryBacked
<1>. DEFINE s == registry[a][x]
            l == [run |-> s, symbol |-> x, kind |-> "NEWS",
                  doc |-> best[s][x]["NEWS"]]
<1>1. s \in Sessions /\ phase[s] = "done" /\ best[s][x]["NEWS"] \in Docs
  BY DEF TypeInv, TypeOK, RegistryInv, Kinds
<1>2. l \in Produced(s)
  BY <1>1 DEF Produced, LogRecords, Kinds
<1>3. l \in logs
  BY <1>1, <1>2 DEF LogsMatchOutcome
<1>. QED
  BY <1>3

\* A summary in the registry has its log in the database, unless its run is
\* just persisting, or failed or crashed.
THEOREM RegistryConsistent == Spec => []RegistryBacked
  BY TypeInit, TypeNext, ResultInit, ResultNext, LogsInit, LogsNext,
     RegistryInit, RegistryNext, RegistryHasLogs, PTL DEF Spec

-----------------------------------------------------------------------------
(* Every item is reported.                                                 *)

\* The items a run has not dealt with yet.
Hand(s) == IF phase[s] \in {"collecting", "raised"} THEN {current[s]} ELSE {}

\* A session that has not started its loop, or never has one.
Untouched(s) ==
    /\ items[s] = {} /\ todo[s] = {} /\ noArticle[s] = {}
    /\ \A x \in Symbols : symbolData[s][x] = {}

\* The loop sorts the items of a run into three disjoint sets: those to come,
\* the one in hand, those skipped; the others have an entry in symbol_data.
Sorted(s) ==
    /\ items[s] = todo[s] \cup Hand(s) \cup noArticle[s] \cup Analysed(s)
    /\ Hand(s) \cap todo[s] = {}
    /\ Hand(s) \cap noArticle[s] = {}
    /\ todo[s] \cap noArticle[s] = {}
    /\ phase[s] \in {"publishing", "persisting", "done"} => todo[s] = {}

\* The items of one account have different symbols, so none of the three sets
\* shares a symbol with an entry of symbol_data.
Apart(s) ==
    \A i \in items[s] :
        /\ i.account = Account[s]
        /\ i \in todo[s] \cup Hand(s) \cup noArticle[s] => symbolData[s][i.symbol] = {}

LoopOf(s) ==
    /\ Task[s] = "collect" \/ phase[s] = "idle" => Untouched(s)
    /\ Task[s] = "run" /\ phase[s] \notin {"failed", "crashed"} =>
          /\ Sorted(s)
          /\ Account[s] # Anonymous => Apart(s)

LoopInv == \A s \in Sessions : LoopOf(s)

\* Items are equal when their accounts and their symbols are.
LEMMA ItemExtensional ==
    ASSUME NEW i \in Items, NEW j \in Items,
           i.account = j.account, i.symbol = j.symbol
    PROVE  i = j
  BY DEF Items

LEMMA LoopInit == Init => LoopInv
  BY PipelineAssumption DEF Init, LoopInv, LoopOf, Untouched, Sorted, Apart, Hand, Analysed

LEMMA LoopNext == TypeInv /\ ResultInv /\ LoopInv /\ [Next]_vars => LoopInv'
<1>. SUFFICES ASSUME TypeInv /\ ResultInv /\ LoopInv, [Next]_vars PROVE LoopInv'
  OBVIOUS
<1>. USE PipelineAssumption DEF TypeInv, TypeOK, ItemInHand, ResultInv, Ended
<1>StartRun. ASSUME NEW s \in Sessions, StartRun(s) PROVE LoopInv'
<2>. SUFFICES ASSUME NEW t \in Sessions PROVE LoopOf(t)'
  BY DEF LoopInv
<2>1. CASE t = s
  <3>1. PICK table \in Watchlists :
           /\ items' = [items EXCEPT ![s] = Chosen(s, table)]
           /\ todo' = [todo EXCEPT ![s] = Chosen(s, table)]
           /\ phase' = [phase EXCEPT ![s] =
                 IF Chosen(s, table) = {} THEN "publishing" ELSE "next"]
    BY <1>StartRun DEF StartRun
  <3>2. Untouched(s) /\ UNCHANGED <<noArticle, symbolData>> /\ Task[s] = "run"
    BY <1>StartRun DEF StartRun, reported, LoopInv, LoopOf
  <3>3. Chosen(s, table) \subseteq Items
    BY DEF Chosen
  <3>4. Hand(s)' = {} /\ Analysed(s)' = {}
    BY <3>1, <3>2, <3>3 DEF Hand, Analysed, Untouched, Items
  <3>5. Sorted(s)'
    BY <3>1, <3>2, <3>4 DEF Sorted, Untouched
  <3>6. ASSUME Account[s] # Anonymous PROVE Apart(s)'
    BY <3>1, <3>2, <3>3, <3>6 DEF Apart, Untouched, Chosen, Items
  <3>. QED
    BY <2>1, <3>1, <3>2, <3>5, <3>6 DEF LoopOf
<2>2. CASE t # s
  BY <2>2, <1>StartRun DEF LoopInv, LoopOf, Untouched, Sorted, Apart, Hand,
     Analysed, StartRun, collecting, reported
<2>. QED
  BY <2>1, <2>2
<1>StartCollectRequest. ASSUME NEW s \in Sessions, StartCollectRequest(s) PROVE LoopInv'
  BY <1>StartCollectRequest DEF StartCollectRequest, Collect, store, reported, LoopInv, LoopOf,
     Untouched, Sorted, Apart, Hand, Analysed
<1>BeginCollect. ASSUME NEW s \in Sessions, BeginCollect(s) PROVE LoopInv'
  BY <1>BeginCollect DEF BeginCollect, Take, Collect, store, reported, LoopInv, LoopOf,
     Untouched, Sorted, Apart, Hand, Analysed
<1>SkipDuplicate. ASSUME NEW s \in Sessions, SkipDuplicate(s) PROVE LoopInv'
  BY <1>SkipDuplicate DEF SkipDuplicate, store, reported, LoopInv, LoopOf, Untouched,
     Sorted, Apart, Hand, Analysed
<1>Save. ASSUME NEW s \in Sessions, Save(s) PROVE LoopInv'
  BY <1>Save DEF Save, reported, LoopInv, LoopOf, Untouched, Sorted, Apart, Hand,
     Analysed
<1>SaveFails. ASSUME NEW s \in Sessions, SaveFails(s) PROVE LoopInv'
  BY <1>SaveFails DEF SaveFails, store, collecting, reported, LoopInv, LoopOf,
     Untouched, Sorted, Apart, Hand, Analysed
<1>CollectRaises. ASSUME NEW s \in Sessions, CollectRaises(s) PROVE LoopInv'
  BY <1>CollectRaises DEF CollectRaises, store, collecting, reported, LoopInv, LoopOf,
     Untouched, Sorted, Apart, Hand, Analysed
<1>SkipSymbol. ASSUME NEW s \in Sessions, SkipSymbol(s) PROVE LoopInv'
  BY <1>SkipSymbol DEF SkipSymbol, LetGo, Skip, store, LoopInv, LoopOf, Untouched,
     Sorted, Apart, Hand, Analysed
<1>RefuseCollectRequest. ASSUME NEW s \in Sessions, RefuseCollectRequest(s) PROVE LoopInv'
  BY <1>RefuseCollectRequest DEF RefuseCollectRequest, LetGo, store, LoopInv, LoopOf, Untouched,
     Sorted, Apart, Hand, Analysed
<1>NoArticleFound. ASSUME NEW s \in Sessions, NoArticleFound(s) PROVE LoopInv'
  BY <1>NoArticleFound DEF NoArticleFound, Collected, Skip, Found, store, LoopInv, LoopOf,
     Untouched, Sorted, Apart, Hand, Analysed
<1>ArticlesFound. ASSUME NEW s \in Sessions, ArticlesFound(s) PROVE LoopInv'
<2>. SUFFICES ASSUME NEW t \in Sessions PROVE LoopOf(t)'
  BY DEF LoopInv
<2>1. /\ Task[s] = "run" /\ phase[s] = "collecting"
      /\ phase' = [phase EXCEPT ![s] = "next"]
      /\ current' = [current EXCEPT ![s] = NoItem]
      /\ UNCHANGED <<items, todo, noArticle>>
  BY <1>ArticlesFound DEF ArticlesFound, Collected
<2>2. PICK A \in SUBSET Docs :
         /\ A # {}
         /\ symbolData' = [symbolData EXCEPT ![s][current[s].symbol] = A]
  BY <1>ArticlesFound DEF ArticlesFound, Found
<2>3. CASE t = s
  <3>1. current[s] \in Items /\ Sorted(s) /\ (Account[s] # Anonymous => Apart(s))
    BY <2>1 DEF LoopInv, LoopOf
  <3>2. Hand(s) = {current[s]} /\ Hand(s)' = {}
    BY <2>1 DEF Hand
  <3>3. /\ symbolData'[s][current[s].symbol] = A
        /\ \A x \in Symbols \ {current[s].symbol} :
              symbolData'[s][x] = symbolData[s][x]
    BY <2>2, <3>1 DEF Items
  <3>4. \A i \in items[s] :
           i \in Analysed(s)' <=> i \in Analysed(s) \/ i.symbol = current[s].symbol
    BY <2>1, <2>2, <3>1, <3>3 DEF Analysed, Items
  <3>5. Sorted(s)'
    BY <2>1, <3>1, <3>2, <3>4 DEF Sorted, Analysed
  <3>6. ASSUME Account[s] # Anonymous PROVE Apart(s)'
    <4>1. ASSUME NEW i \in todo[s] \cup noArticle[s]
          PROVE  i \in Items /\ i.symbol # current[s].symbol
      <5>1. i \in items[s] /\ current[s] \in items[s] /\ i # current[s]
        BY <3>1, <3>2, <4>1 DEF Sorted
      <5>2. i \in Items /\ i.account = current[s].account
        BY <3>1, <3>6, <5>1 DEF Apart
      <5>. QED
        BY <3>1, <5>1, <5>2, ItemExtensional
    <4>. QED
      BY <2>1, <3>1, <3>2, <3>3, <3>6, <4>1 DEF Apart, Sorted, Items
  <3>. QED
    BY <2>1, <2>3, <3>5, <3>6 DEF LoopOf
<2>4. CASE t # s
  BY <2>1, <2>2, <2>4 DEF LoopInv, LoopOf, Untouched, Sorted, Apart, Hand, Analysed
<2>. QED
  BY <2>3, <2>4
<1>AnswerCollectRequest. ASSUME NEW s \in Sessions, AnswerCollectRequest(s) PROVE LoopInv'
<2>1. /\ Task[s] = "collect"
      /\ phase' = [phase EXCEPT ![s] = "done"]
      /\ current' = [current EXCEPT ![s] = NoItem]
      /\ UNCHANGED <<items, todo, noArticle, symbolData>>
  BY <1>AnswerCollectRequest DEF AnswerCollectRequest, Collected
<2>. QED
  BY <2>1 DEF LoopInv, LoopOf, Untouched, Sorted, Apart, Hand, Analysed
<1>FindAllFails. ASSUME NEW s \in Sessions, FindAllFails(s) PROVE LoopInv'
  BY <1>FindAllFails DEF FindAllFails, Collected, store, LoopInv, LoopOf, Untouched,
     Sorted, Apart, Hand, Analysed
<1>Analyze. ASSUME NEW s \in Sessions, Analyze(s) PROVE LoopInv'
  BY <1>Analyze DEF Analyze, store, collecting, reported, LoopInv, LoopOf, Untouched,
     Sorted, Apart, Hand, Analysed
<1>PutRegistry. ASSUME NEW s \in Sessions, PutRegistry(s) PROVE LoopInv'
<2>1. /\ phase[s] = "publishing"
      /\ phase' = [phase EXCEPT ![s] = "persisting"]
      /\ UNCHANGED <<items, todo, current, noArticle, symbolData>>
  BY <1>PutRegistry DEF PutRegistry, collecting, reported
<2>. QED
  BY <2>1 DEF LoopInv, LoopOf, Untouched, Sorted, Apart, Hand, Analysed
<1>RegistryUnreachable. ASSUME NEW s \in Sessions, RegistryUnreachable(s) PROVE LoopInv'
  BY <1>RegistryUnreachable DEF RegistryUnreachable, store, collecting, reported, LoopInv, LoopOf,
     Untouched, Sorted, Apart, Hand, Analysed
<1>SaveLogs. ASSUME NEW s \in Sessions, SaveLogs(s) PROVE LoopInv'
  BY <1>SaveLogs DEF SaveLogs, collecting, reported, LoopInv, LoopOf, Untouched,
     Sorted, Apart, Hand, Analysed
<1>SaveLogsFails. ASSUME NEW s \in Sessions, SaveLogsFails(s) PROVE LoopInv'
  BY <1>SaveLogsFails DEF SaveLogsFails, store, collecting, reported, LoopInv, LoopOf,
     Untouched, Sorted, Apart, Hand, Analysed
<1>Crash. CASE Crash
  BY <1>Crash DEF Crash, collecting, reported, LoopInv, LoopOf, Untouched, Sorted,
     Apart, Hand, Analysed
<1>RegistryExpires. CASE RegistryExpires
  BY <1>RegistryExpires DEF RegistryExpires, collecting, reported, LoopInv, LoopOf, Untouched,
     Sorted, Apart, Hand, Analysed
<1>Stutter. CASE UNCHANGED vars
  BY <1>Stutter DEF vars, LoopInv, LoopOf, Untouched, Sorted, Apart, Hand, Analysed
<1>. QED
  BY <1>StartRun, <1>StartCollectRequest, <1>BeginCollect,
     <1>SkipDuplicate, <1>Save, <1>SaveFails, <1>CollectRaises,
     <1>SkipSymbol, <1>RefuseCollectRequest, <1>NoArticleFound,
     <1>ArticlesFound, <1>AnswerCollectRequest, <1>FindAllFails,
     <1>Analyze, <1>PutRegistry, <1>RegistryUnreachable, <1>SaveLogs,
     <1>SaveLogsFails, <1>Crash, <1>RegistryExpires, <1>Stutter
     DEF Next, Continue, AllEnded

LEMMA LoopReports == TypeInv /\ LoopInv => EveryItemReportedOnce
<1>. SUFFICES ASSUME TypeInv, LoopInv, NEW s \in Sessions,
                     phase[s] \in {"publishing", "persisting", "done"}
              PROVE  /\ items[s] = noArticle[s] \cup Analysed(s)
                     /\ Account[s] # Anonymous => noArticle[s] \cap Analysed(s) = {}
  BY DEF EveryItemReportedOnce
<1>1. LoopOf(s) /\ Task[s] \in {"run", "collect"}
  BY PipelineAssumption DEF LoopInv
<1>2. CASE Task[s] = "collect"
  BY <1>1, <1>2 DEF LoopOf, Untouched, Analysed
<1>3. CASE Task[s] = "run"
  <2>1. Sorted(s) /\ (Account[s] # Anonymous => Apart(s)) /\ Hand(s) = {}
    BY <1>1, <1>3 DEF LoopOf, Hand
  <2>. QED
    BY <2>1 DEF Sorted, Apart, Analysed
<1>. QED
  BY <1>1, <1>2, <1>3

\* No item of the watchlist is lost in the collection loop, and none of an
\* account's is reported twice.
THEOREM ItemsReported == Spec => []EveryItemReportedOnce
  BY TypeInit, TypeNext, ResultInit, ResultNext, LoopInit, LoopNext,
     LoopReports, PTL DEF Spec

-----------------------------------------------------------------------------
(* A broken session finds nothing any more.                                *)

\* What is collected for a symbol is told by ArticlesFound alone.
LEMMA OnlyFindingTells ==
    [Next]_vars => (\E t \in Sessions : ArticlesFound(t)) \/ UNCHANGED symbolData
<1>1. ASSUME NEW s \in Sessions,
             \/ StartRun(s) \/ StartCollectRequest(s) \/ BeginCollect(s)
             \/ SkipDuplicate(s) \/ Save(s) \/ SaveFails(s) \/ CollectRaises(s)
      PROVE  UNCHANGED symbolData
  BY <1>1 DEF StartRun, StartCollectRequest, BeginCollect, SkipDuplicate, Save,
     SaveFails, CollectRaises, reported
<1>2. ASSUME NEW s \in Sessions,
             \/ SkipSymbol(s) \/ RefuseCollectRequest(s) \/ NoArticleFound(s)
             \/ AnswerCollectRequest(s) \/ FindAllFails(s)
      PROVE  UNCHANGED symbolData
  BY <1>2 DEF SkipSymbol, RefuseCollectRequest, NoArticleFound, AnswerCollectRequest,
     FindAllFails, LetGo, Collected, reported
<1>3. ASSUME NEW s \in Sessions,
             \/ Analyze(s) \/ PutRegistry(s) \/ RegistryUnreachable(s)
             \/ SaveLogs(s) \/ SaveLogsFails(s)
      PROVE  UNCHANGED symbolData
  BY <1>3 DEF Analyze, PutRegistry, RegistryUnreachable, SaveLogs, SaveLogsFails, reported
<1>4. Crash \/ RegistryExpires \/ AllEnded \/ UNCHANGED vars => UNCHANGED symbolData
  BY DEF Crash, RegistryExpires, AllEnded, vars, reported
<1>. QED BY <1>1, <1>2, <1>3, <1>4, Zenon DEF Next, Continue

LEMMA BrokenFindsNothing ==
    TypeInv /\ [Next]_vars =>
        \A s \in Sessions : broken[s] => symbolData'[s] = symbolData[s]
<1>. SUFFICES ASSUME TypeInv, [Next]_vars, NEW s \in Sessions, broken[s]
              PROVE  symbolData'[s] = symbolData[s]
  OBVIOUS
<1>1. ASSUME NEW t \in Sessions, ArticlesFound(t)
      PROVE  symbolData'[s] = symbolData[s]
  BY <1>1 DEF ArticlesFound, Collected, Usable, TypeInv, TypeOK
<1>2. (\E t \in Sessions : ArticlesFound(t)) \/ UNCHANGED symbolData
  BY OnlyFindingTells, Zenon
<1>. QED
  BY <1>1, <1>2

\* From its failed insert on, a run gains no articles.
THEOREM BrokenSkips == Spec => BrokenRunSkipsTheRest
<1>1. TypeInv /\ [Next]_vars =>
          [\A s \in Sessions : broken[s] => symbolData'[s] = symbolData[s]]_vars
  BY BrokenFindsNothing
<1>. QED
  BY <1>1, TypeInit, TypeNext, PTL DEF Spec, BrokenRunSkipsTheRest

-----------------------------------------------------------------------------
(* What becomes of the documents collected for an item.                    *)

\* While a session collects, it sees a row of every document it has dealt with;
\* and whoever has an error event is skipped.
LookedUp ==
    \A s \in Sessions :
        /\ phase[s] = "collecting" =>
              \A d \in fetched[s] \ pending[s] : snapshot[s][d] # NoSymbol
        /\ errors[s] \subseteq noArticle[s]

LEMMA LookedUpInit == Init => LookedUp
  BY DEF Init, LookedUp

LEMMA LookedUpNext == TypeInv /\ SnapshotInv /\ LookedUp /\ [Next]_vars => LookedUp'
<1>. SUFFICES ASSUME TypeInv, SnapshotInv, LookedUp, [Next]_vars PROVE LookedUp'
  OBVIOUS
<1>. USE PipelineAssumption DEF TypeInv, TypeOK, ItemInHand, LookedUp, Ended
<1>StartRun. ASSUME NEW s \in Sessions, StartRun(s) PROVE LookedUp'
  BY <1>StartRun DEF StartRun, store, collecting, reported
<1>StartCollectRequest. ASSUME NEW s \in Sessions, StartCollectRequest(s) PROVE LookedUp'
  BY <1>StartCollectRequest DEF StartCollectRequest, Collect, store, reported
<1>BeginCollect. ASSUME NEW s \in Sessions, BeginCollect(s) PROVE LookedUp'
  BY <1>BeginCollect DEF BeginCollect, Collect, store, reported
<1>SkipDuplicate. ASSUME NEW s \in Sessions, SkipDuplicate(s) PROVE LookedUp'
  BY <1>SkipDuplicate DEF SkipDuplicate, Known, store, reported
<1>Save. ASSUME NEW s \in Sessions, Save(s) PROVE LookedUp'
  BY <1>Save DEF Save, Refresh, SnapshotInv, Items, reported
<1>Skipping. ASSUME NEW s \in Sessions, SkipSymbol(s) \/ NoArticleFound(s) PROVE LookedUp'
  <2>1. /\ snapshot' = snapshot /\ phase' = [phase EXCEPT ![s] = "next"]
        /\ fetched' = [fetched EXCEPT ![s] = {}]
        /\ noArticle' = [noArticle EXCEPT ![s] = @ \cup {current[s]}]
    BY <1>Skipping DEF SkipSymbol, NoArticleFound, Skip, LetGo, Collected
  <2>2. pending' = [pending EXCEPT ![s] = {}] \/ pending' = pending
    BY <1>Skipping DEF SkipSymbol, NoArticleFound, LetGo, Collected
  <2>3. errors' = [errors EXCEPT ![s] = @ \cup {current[s]}] \/ errors' = errors
    BY <1>Skipping DEF SkipSymbol, NoArticleFound, Collected
  <2>4. \A t \in Sessions : errors'[t] \subseteq noArticle'[t]
    BY <2>1, <2>3
  <2>. QED BY <2>1, <2>2, <2>4
<1>ArticlesFound. ASSUME NEW s \in Sessions, ArticlesFound(s) PROVE LookedUp'
  BY <1>ArticlesFound DEF ArticlesFound, Collected, store
<1>LetGo. ASSUME NEW s \in Sessions, RefuseCollectRequest(s) PROVE LookedUp'
  BY <1>LetGo DEF RefuseCollectRequest, LetGo, store
<1>Collected. ASSUME NEW s \in Sessions, AnswerCollectRequest(s) \/ FindAllFails(s)
              PROVE  LookedUp'
  BY <1>Collected DEF AnswerCollectRequest, FindAllFails, Collected, store
<1>Failing. ASSUME NEW s \in Sessions, SaveFails(s) \/ CollectRaises(s) PROVE LookedUp'
  BY <1>Failing DEF SaveFails, CollectRaises, store, collecting, reported
<1>Analyze. ASSUME NEW s \in Sessions, Analyze(s) PROVE LookedUp'
  BY <1>Analyze DEF Analyze, store, collecting, reported
<1>Publishing. ASSUME NEW s \in Sessions, PutRegistry(s) \/ RegistryUnreachable(s) \/
                                           SaveLogs(s) \/ SaveLogsFails(s)
               PROVE  LookedUp'
  <2>1. /\ snapshot' = snapshot /\ fetched' = fetched /\ pending' = pending
        /\ noArticle' = noArticle /\ errors' = errors
    BY <1>Publishing DEF PutRegistry, RegistryUnreachable, SaveLogs, SaveLogsFails,
       collecting, reported
  <2>2. \E p \in Phases : p # "collecting" /\ phase' = [phase EXCEPT ![s] = p]
    BY <1>Publishing DEF PutRegistry, RegistryUnreachable, SaveLogs, SaveLogsFails,
       Phases, Ended
  <2>. QED BY <2>1, <2>2
<1>Crash. CASE Crash
  BY <1>Crash DEF Crash, collecting, reported
<1>RegistryExpires. CASE RegistryExpires
  BY <1>RegistryExpires DEF RegistryExpires, collecting, reported
<1>Stutter. CASE UNCHANGED vars
  BY <1>Stutter DEF vars
<1>. QED
  BY <1>StartRun, <1>StartCollectRequest, <1>BeginCollect, <1>SkipDuplicate,
     <1>Save, <1>Skipping, <1>ArticlesFound, <1>LetGo, <1>Collected, <1>Failing,
     <1>Analyze, <1>Publishing, <1>Crash, <1>RegistryExpires, <1>Stutter
     DEF Next, Continue, AllEnded

\* The use case has returned: the session sees the rows of all it collected.
LEMMA ReturnedSeen ==
    ASSUME TypeInv, SnapshotInv, LookedUp, NEW s \in Sessions, Collected(s)
    PROVE  \A d \in fetched[s] :
              snapshot[s][d] # NoSymbol /\ rawArticles[d] = snapshot[s][d]
<1>1. phase[s] = "collecting" /\ pending[s] = {} /\ fetched[s] \subseteq Docs
  BY DEF Collected, TypeInv, TypeOK
<1>. QED BY <1>1 DEF LookedUp, SnapshotInv

\* An item that is skipped without an error had only rows under other symbols.
LEMMA SkippedForAReason ==
    TypeInv /\ SnapshotInv /\ LookedUp /\ [Next]_vars =>
        \A s \in Sessions :
            noArticle'[s] # noArticle[s] /\ errors'[s] = errors[s] =>
                \A d \in fetched[s] :
                    rawArticles[d] \notin {NoSymbol, current[s].symbol}
<1>. SUFFICES ASSUME TypeInv, SnapshotInv, LookedUp, [Next]_vars, NEW s \in Sessions,
                     noArticle'[s] # noArticle[s], errors'[s] = errors[s],
                     NEW d \in fetched[s]
              PROVE  rawArticles[d] \notin {NoSymbol, current[s].symbol}
  OBVIOUS
<1>1. d \in Docs
  BY DEF TypeInv, TypeOK
<1>2. ASSUME NEW t \in Sessions, NoArticleFound(t)
      PROVE  rawArticles[d] \notin {NoSymbol, current[s].symbol}
  <2>1. t = s
    BY <1>2 DEF NoArticleFound, Skip, TypeInv, TypeOK
  <2>2. rawArticles[d] = snapshot[s][d] /\ snapshot[s][d] # NoSymbol
    BY <1>2, <2>1, ReturnedSeen DEF NoArticleFound
  <2>3. d \notin Found(s, current[s].symbol)
    BY <1>2, <2>1 DEF NoArticleFound
  <2>. QED BY <1>1, <2>2, <2>3 DEF Found
<1>3. ASSUME NEW t \in Sessions, SkipSymbol(t) PROVE FALSE
  <2>1. t = s
    BY <1>3 DEF SkipSymbol, Skip, TypeInv, TypeOK
  <2>2. current[s] \in errors[s]
    BY <1>3, <2>1 DEF SkipSymbol, TypeInv, TypeOK
  <2>. QED BY <1>3, <2>1, <2>2 DEF SkipSymbol, Skip, LookedUp, TypeInv, TypeOK
<1>4. \/ \E t \in Sessions : NoArticleFound(t) \/ SkipSymbol(t)
      \/ UNCHANGED noArticle
  BY DEF Next, Continue, AllEnded, vars, StartRun, StartCollectRequest,
     BeginCollect, SkipDuplicate, Save, SaveFails, CollectRaises, ArticlesFound,
     RefuseCollectRequest, AnswerCollectRequest, FindAllFails, Analyze, PutRegistry,
     RegistryUnreachable, SaveLogs, SaveLogsFails, Crash, RegistryExpires, reported
<1>. QED BY <1>2, <1>3, <1>4

\* An item that is done has rows for all that was collected for it.
LEMMA CollectedHasRows ==
    TypeInv /\ SnapshotInv /\ LookedUp /\ [Next]_vars =>
        \A s \in Sessions :
            symbolData'[s] # symbolData[s] =>
                \A d \in fetched[s] : rawArticles[d] # NoSymbol
<1>. SUFFICES ASSUME TypeInv, SnapshotInv, LookedUp, [Next]_vars, NEW s \in Sessions,
                     symbolData'[s] # symbolData[s], NEW d \in fetched[s]
              PROVE  rawArticles[d] # NoSymbol
  OBVIOUS
<1>1. ASSUME NEW t \in Sessions, ArticlesFound(t)
      PROVE  rawArticles[d] # NoSymbol
  <2>1. t = s
    BY <1>1 DEF ArticlesFound, TypeInv, TypeOK
  <2>. QED BY <1>1, <2>1, ReturnedSeen DEF ArticlesFound
<1>2. (\E t \in Sessions : ArticlesFound(t)) \/ UNCHANGED symbolData
  BY OnlyFindingTells, Zenon
<1>. QED BY <1>1, <1>2

\* A run skips an item without an error only if everything collected for it has
\* rows under other symbols, and goes on with it only if everything has a row,
\* whoever else writes them (run_pipeline_usecase.py 148-189).
THEOREM ToldTruly == Spec => CollectionIsTold
<1>1. TypeInv /\ SnapshotInv /\ LookedUp /\ [Next]_vars =>
        [\A s \in Sessions :
            /\ noArticle'[s] # noArticle[s] /\ errors'[s] = errors[s] =>
                  \A d \in fetched[s] :
                      rawArticles[d] \notin {NoSymbol, current[s].symbol}
            /\ symbolData'[s] # symbolData[s] =>
                  \A d \in fetched[s] : rawArticles[d] # NoSymbol]_vars
  BY SkippedForAReason, CollectedHasRows
<1>. QED BY <1>1, TypeInit, TypeNext, SnapshotInit, SnapshotNext, LookedUpInit,
            LookedUpNext, PTL DEF Spec, CollectionIsTold

-----------------------------------------------------------------------------
(* The runs implement RunOutcome.                                          *)

LEMMA StatusByPhase ==
    ASSUME NEW s \in Sessions, phase[s] \in Phases
    PROVE  /\ Status(s) = "idle" <=> phase[s] = "idle"
           /\ Status(s) = "published" <=> phase[s] = "done"
           /\ Status(s) = "aborted" <=> phase[s] \in {"failed", "crashed"}
           /\ Status(s) = "running" <=> phase[s] \notin Ended \cup {"idle"}
  BY DEF Status, Phases, Ended

LEMMA OutcomeInit == Init => Outcome!Init
  BY DEF Init, Outcome!Init, Status

\* A run's logs are one per symbol and kind.
LEMMA ProducedPublishable ==
    ASSUME NEW s \in Sessions
    PROVE  Produced(s) \in Outcome!Publishable(s) /\ {} \in Outcome!Publishable(s)
  BY DEF Produced, Outcome!Publishable, LogRecords

\* A step that leaves a session's status alone, or moves it.
Move(s, from, to) ==
    /\ Status(s) = from
    /\ [t \in Sessions |-> Status(t)]' =
          [[t \in Sessions |-> Status(t)] EXCEPT ![s] = to]

LEMMA PhaseMoves ==
    ASSUME TypeInv, TypeInv', NEW s \in Sessions, NEW p \in Phases,
           phase' = [phase EXCEPT ![s] = p]
    PROVE  /\ phase[s] = "idle" /\ p \notin Ended \cup {"idle"} =>
                 Move(s, "idle", "running")
           /\ phase[s] \notin Ended \cup {"idle"} =>
                 /\ p = "done" => Move(s, "running", "published")
                 /\ p = "failed" => Move(s, "running", "aborted")
                 /\ p \notin Ended \cup {"idle"} =>
                       UNCHANGED [t \in Sessions |-> Status(t)]
<1>1. phase[s] \in Phases /\ phase'[s] = p
  BY DEF TypeInv, TypeOK
<1>2. \A t \in Sessions \ {s} : Status(t)' = Status(t)
  BY DEF TypeInv, TypeOK, Status
<1>. QED
  BY <1>1, <1>2 DEF Move, Status, Phases, Ended

LEMMA OutcomeNext ==
    TypeInv /\ TypeInv' /\ ResultInv /\ [Next]_vars => [Outcome!Next]_(Outcome!vars)
<1>. SUFFICES ASSUME TypeInv, TypeInv', ResultInv, [Next]_vars
              PROVE  [Outcome!Next]_(Outcome!vars)
  OBVIOUS
<1>. USE DEF Outcome!vars
<1>Start. ASSUME NEW s \in Sessions, StartRun(s) \/ StartCollectRequest(s)
          PROVE  Outcome!Begin(s)
  <2>1. PICK p \in {"publishing", "next", "collecting"} :
          phase[s] = "idle" /\ phase' = [phase EXCEPT ![s] = p] /\ UNCHANGED logs
    BY <1>Start DEF StartRun, StartCollectRequest, Collect, store
  <2>2. Move(s, "idle", "running")
    BY <2>1, PhaseMoves DEF Phases, Ended
  <2>. QED
    BY <2>1, <2>2 DEF Move, Outcome!Begin
<1>Running. ASSUME NEW s \in Sessions,
              BeginCollect(s) \/ SkipDuplicate(s) \/ Save(s)
              \/ SaveFails(s) \/ CollectRaises(s) \/
              SkipSymbol(s) \/ NoArticleFound(s) \/
              ArticlesFound(s) \/ Analyze(s) \/ PutRegistry(s)
              \/ RegistryUnreachable(s)
            PROVE  UNCHANGED Outcome!vars
  <2>1. PICK p \in Phases \ (Ended \cup {"idle"}) :
          phase[s] \notin Ended \cup {"idle"} /\ phase' = [phase EXCEPT ![s] = p]
    <3>1. CASE SkipDuplicate(s) \/ Save(s)
      <4>1. phase[s] = "collecting" /\ phase' = phase
        BY <3>1 DEF SkipDuplicate, Save
      <4>2. phase' = [phase EXCEPT ![s] = "collecting"]
        <5>1. phase \in [Sessions -> Phases]
          BY DEF TypeInv, TypeOK
        <5>. QED
          BY <4>1, <5>1
      <4>. QED
        BY <4>1, <4>2 DEF Phases, Ended
    <3>2. CASE BeginCollect(s) \/ SaveFails(s) \/ CollectRaises(s) \/ SkipSymbol(s)
      BY <3>2 DEF BeginCollect, Collect, SaveFails, CollectRaises, SkipSymbol,
         LetGo, Phases, Ended
    <3>3. CASE NoArticleFound(s) \/ ArticlesFound(s) \/ Analyze(s)
      BY <3>3 DEF NoArticleFound, ArticlesFound, Analyze, Collected, Phases, Ended
    <3>4. CASE PutRegistry(s) \/ RegistryUnreachable(s)
      BY <3>4 DEF PutRegistry, RegistryUnreachable, Phases, Ended
    <3>. QED
      BY <1>Running, <3>1, <3>2, <3>3, <3>4
  <2>2. UNCHANGED logs
    BY <1>Running DEF BeginCollect, SkipDuplicate, Save, SaveFails,
       CollectRaises, SkipSymbol, NoArticleFound, ArticlesFound, Analyze,
       PutRegistry, RegistryUnreachable, LetGo, Collected, store
  <2>3. UNCHANGED [t \in Sessions |-> Status(t)]
    BY <2>1, PhaseMoves
  <2>. QED
    BY <2>2, <2>3
<1>Done. ASSUME NEW s \in Sessions, AnswerCollectRequest(s) \/ SaveLogs(s)
         PROVE  Outcome!Publish(s)
  <2>1. /\ phase[s] \notin Ended \cup {"idle"}
        /\ phase' = [phase EXCEPT ![s] = "done"]
    BY <1>Done DEF AnswerCollectRequest, Collected, SaveLogs, Ended
  <2>2. Move(s, "running", "published")
    BY <2>1, PhaseMoves DEF Phases, Ended
  <2>3. logs' = logs \cup {} \/ logs' = logs \cup Produced(s)
    BY <1>Done DEF AnswerCollectRequest, Collected, SaveLogs, store
  <2>. QED
    BY <2>2, <2>3, ProducedPublishable DEF Move, Outcome!Publish
<1>Failed. ASSUME NEW s \in Sessions,
              RefuseCollectRequest(s) \/ FindAllFails(s) \/ SaveLogsFails(s)
           PROVE  Outcome!Abort({s})
  <2>1. /\ phase[s] \notin Ended \cup {"idle"}
        /\ phase' = [phase EXCEPT ![s] = "failed"]
        /\ UNCHANGED logs
    BY <1>Failed DEF RefuseCollectRequest, LetGo, FindAllFails, Collected,
       SaveLogsFails, Ended, store
  <2>2. Move(s, "running", "aborted")
    BY <2>1, PhaseMoves DEF Phases, Ended
  <2>. QED
    BY <2>1, <2>2 DEF Move, Outcome!Abort
<1>Crash. ASSUME Crash
          PROVE  \E S \in SUBSET Sessions : Outcome!Abort(S)
  <2>. DEFINE S == {t \in Sessions : phase[t] \notin Ended \cup {"idle"}}
  <2>1. S # {} /\ UNCHANGED logs
    BY <1>Crash DEF Crash
  <2>2. \A t \in S : Status(t) = "running"
    BY StatusByPhase DEF TypeInv, TypeOK
  <2>3. \A t \in Sessions : Status(t)' = IF t \in S THEN "aborted" ELSE Status(t)
    BY <1>Crash DEF Crash, Status, TypeInv, TypeOK, Ended
  <2>4. Outcome!Abort(S)
    BY <2>1, <2>2, <2>3 DEF Outcome!Abort
  <2>. QED
    BY <2>4
<1>Rest. ASSUME RegistryExpires \/ UNCHANGED vars
         PROVE  UNCHANGED Outcome!vars
  BY <1>Rest DEF RegistryExpires, vars, Status
<1>. QED
  BY <1>Start, <1>Running, <1>Done, <1>Failed, <1>Crash, <1>Rest
     DEF Next, Continue, AllEnded, Outcome!Next

\* Whatever interleaves, fails or crashes, runs publish as RunOutcome says:
\* once, in one step, one log per symbol and kind, or not at all.
THEOREM Refinement == Spec => ImplementsOutcome
  BY TypeInit, TypeNext, ResultInit, ResultNext, OutcomeInit, OutcomeNext,
     PTL DEF Spec, ImplementsOutcome, Outcome!Spec
=============================================================================
