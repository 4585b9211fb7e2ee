---------------------------- MODULE Stores_proofs ----------------------------
(***************************************************************************)
(* What TLAPS proves about what is kept in the databases, for any number   *)
(* of jobs, workers, articles and videos: the stores of NewsStore agree,   *)
(* whatever fails in between; a saved article of SavedArticles has one     *)
(* content; what MarketVideos and YouTubeStore report is stored; requests  *)
(* that seed StockThemes do not defeat each other, and what it recommends  *)
(* is true of the comments and of the table.                               *)
(***************************************************************************)
EXTENDS NewsStore, SavedArticles, MarketVideos, YouTubeStore,
        StockThemes, FiniteSetTheorems, SequenceTheorems, TLAPS

(***************************************************************************)
(* NewsStore: the headline and the body.                                   *)
(***************************************************************************)

\* What agreement rests on: a job past its look-up has an article in hand whose
\* headline is in the table or in the job's own transaction, and past its first
\* commit in the table.
Progress(j) ==
    /\ phase[j] \in {"lookup", "flush", "commit", "commit body"} => news[j] # <<>>
    /\ phase[j] = "commit" =>
         Current(j).link \in headlines \cup {uncommitted[j]}
    /\ phase[j] = "commit body" => Current(j).link \in headlines

NewsStoreInv == NewsStoreTypeOK /\ StoresAgree /\ \A j \in Jobs : Progress(j)

LEMMA InHand ==
    ASSUME NewsStoreInv, NEW j \in Jobs, phase[j] \in {"lookup", "flush", "commit", "commit body"}
    PROVE  /\ news[j] \in Seq(Article) /\ news[j] # <<>>
           /\ Current(j) \in Article /\ Current(j).link \in NewsLinks
           /\ Tail(news[j]) \in Seq(Article)
<1>1. news[j] \in Seq(Article) /\ news[j] # <<>>
  BY DEF NewsStoreInv, NewsStoreTypeOK, Progress
<1>2. Current(j) \in Article /\ Tail(news[j]) \in Seq(Article)
  BY <1>1, HeadTailProperties DEF Current
<1>. QED BY <1>1, <1>2 DEF Article

LEMMA NewsStoreInvInit == NewsStoreInit => NewsStoreInv
<1>. SUFFICES ASSUME NewsStoreInit PROVE NewsStoreInv
  OBVIOUS
<1>1. NewsStoreTypeOK
  BY DEF NewsStoreInit, NewsStoreTypeOK, Phases
<1>2. StoresAgree
  BY DEF NewsStoreInit, StoresAgree, BodyHasHeadline, CountedIsStored
<1>3. \A j \in Jobs : Progress(j)
  BY DEF NewsStoreInit, Progress
<1>. QED BY <1>1, <1>2, <1>3 DEF NewsStoreInv

\* A job that gives its article up, or is done with it, leaves the tables to
\* the others.
LEMMA NextArticleKeeps ==
    ASSUME NewsStoreInv, NEW j \in Jobs, phase[j] \in {"lookup", "flush", "commit", "commit body"},
           NextArticle(j), headlines' = headlines
    PROVE  /\ news' \in [Jobs -> Seq(Article)] /\ phase' \in [Jobs -> Phases]
           /\ uncommitted' \in [Jobs -> NewsLinks \cup {NoLink}]
           /\ \A i \in Jobs : Progress(i)'
<1>1. /\ news[j] \in Seq(Article) /\ Tail(news[j]) \in Seq(Article)
  BY InHand
<1>2. /\ news' = [news EXCEPT ![j] = Tail(@)]
      /\ phase' = [phase EXCEPT ![j] = IF Tail(news[j]) = <<>> THEN "ended" ELSE "lookup"]
      /\ uncommitted' = [uncommitted EXCEPT ![j] = NoLink]
  BY DEF NextArticle, Rest, Goto
<1>3. NewsStoreTypeOK /\ \A i \in Jobs : Progress(i)
  BY DEF NewsStoreInv
<1>4. news' \in [Jobs -> Seq(Article)] /\ phase' \in [Jobs -> Phases]
      /\ uncommitted' \in [Jobs -> NewsLinks \cup {NoLink}]
  BY <1>1, <1>2, <1>3 DEF NewsStoreTypeOK, Phases
<1>5. ASSUME NEW i \in Jobs PROVE Progress(i)'
  <2>1. CASE i = j
    BY <1>1, <1>2, <1>3, <2>1 DEF NewsStoreTypeOK, Progress
  <2>2. CASE i # j
    BY <1>2, <1>3, <2>2 DEF NewsStoreTypeOK, Progress, Current
  <2>. QED BY <2>1, <2>2
<1>. QED BY <1>4, <1>5

LEMMA NewsStoreInvNext ==
    ASSUME NewsStoreInv, [NewsStoreNext]_newsVars
    PROVE  NewsStoreInv'
<1>. USE DEF NewsStoreInv
<1>Start. ASSUME NEW j \in Jobs, StartSave(j) PROVE NewsStoreInv'
  <2>1. PICK b \in Batches : news' = [news EXCEPT ![j] = b]
    BY <1>Start DEF StartSave
  <2>2. b \in Seq(Article) /\ b # <<>>
    BY NewsStoreAssumption DEF Batches
  <2>3. /\ phase' = [phase EXCEPT ![j] = "lookup"]
        /\ UNCHANGED <<headlines, bodies, uncommitted, counted>>
    BY <1>Start DEF StartSave, Goto
  <2>4. NewsStoreTypeOK'
    BY <2>1, <2>2, <2>3 DEF NewsStoreTypeOK, Phases
  <2>5. ASSUME NEW i \in Jobs PROVE Progress(i)'
    BY <2>1, <2>2, <2>3, Progress(i) DEF NewsStoreTypeOK, Progress, Current
  <2>6. StoresAgree'
    BY <2>3 DEF StoresAgree, BodyHasHeadline, CountedIsStored
  <2>. QED BY <2>4, <2>5, <2>6
<1>Lookup. ASSUME NEW j \in Jobs, Lookup(j) PROVE NewsStoreInv'
  <2>1. /\ phase[j] = "lookup"
        /\ phase' = [phase EXCEPT ![j] =
             IF Current(j).link \in headlines THEN "commit" ELSE "flush"]
        /\ UNCHANGED <<headlines, bodies, news, uncommitted, counted>>
    BY <1>Lookup DEF Lookup, Goto
  <2>2. NewsStoreTypeOK'
    BY <2>1 DEF NewsStoreTypeOK, Phases
  <2>3. ASSUME NEW i \in Jobs PROVE Progress(i)'
    BY <2>1, Progress(i) DEF NewsStoreTypeOK, Progress, Current
  <2>4. StoresAgree'
    BY <2>1 DEF StoresAgree, BodyHasHeadline, CountedIsStored
  <2>. QED BY <2>2, <2>3, <2>4
<1>Flush. ASSUME NEW j \in Jobs, Flush(j) PROVE NewsStoreInv'
  <2>1. /\ phase[j] = "flush"
        /\ uncommitted' = [uncommitted EXCEPT ![j] = Current(j).link]
        /\ phase' = [phase EXCEPT ![j] = "commit"]
        /\ UNCHANGED <<headlines, bodies, news, counted>>
    BY <1>Flush DEF Flush, Goto
  <2>2. Current(j).link \in NewsLinks
    BY <2>1, InHand
  <2>3. NewsStoreTypeOK'
    BY <2>1, <2>2 DEF NewsStoreTypeOK, Phases
  <2>4. ASSUME NEW i \in Jobs PROVE Progress(i)'
    BY <2>1, Progress(i) DEF NewsStoreTypeOK, Progress, Current
  <2>5. StoresAgree'
    BY <2>1 DEF StoresAgree, BodyHasHeadline, CountedIsStored
  <2>. QED BY <2>3, <2>4, <2>5
<1>GiveUp. ASSUME NEW j \in Jobs, FlushRefused(j) \/ MySQLFails(j) \/ CommitBodyFails(j)
           PROVE  NewsStoreInv'
  <2>1. /\ phase[j] \in {"lookup", "flush", "commit", "commit body"}
        /\ NextArticle(j) /\ UNCHANGED <<headlines, bodies, counted>>
    BY <1>GiveUp DEF FlushRefused, MySQLFails, CommitBodyFails
  <2>2. NewsStoreTypeOK' /\ \A i \in Jobs : Progress(i)'
    BY <2>1, NextArticleKeeps DEF NewsStoreTypeOK
  <2>3. StoresAgree'
    BY <2>1 DEF StoresAgree, BodyHasHeadline, CountedIsStored
  <2>. QED BY <2>2, <2>3
<1>CommitHeadline. ASSUME NEW j \in Jobs, CommitHeadline(j) PROVE NewsStoreInv'
  <2>1. /\ phase[j] = "commit"
        /\ headlines' = headlines \cup ({uncommitted[j]} \ {NoLink})
        /\ uncommitted' = [uncommitted EXCEPT ![j] = NoLink]
        /\ phase' = [phase EXCEPT ![j] = "commit body"]
        /\ UNCHANGED <<bodies, news, counted>>
    BY <1>CommitHeadline DEF CommitHeadline, Goto
  <2>2. Current(j).link \in NewsLinks /\ Current(j).link # NoLink
    BY <2>1, InHand, NewsStoreAssumption
  <2>3. NewsStoreTypeOK'
    BY <2>1 DEF NewsStoreTypeOK, Phases
  <2>4. Current(j).link \in headlines'
    BY <2>1, <2>2 DEF Progress
  <2>5. ASSUME NEW i \in Jobs PROVE Progress(i)'
    <3>1. CASE i = j
      BY <2>1, <2>4, <3>1 DEF NewsStoreTypeOK, Progress, Current
    <3>2. CASE i # j
      BY <2>1, <3>2, Progress(i) DEF NewsStoreTypeOK, Progress, Current
    <3>. QED BY <3>1, <3>2
  <2>6. StoresAgree'
    BY <2>1 DEF StoresAgree, BodyHasHeadline, CountedIsStored
  <2>. QED BY <2>3, <2>5, <2>6
<1>CommitBody. ASSUME NEW j \in Jobs, CommitBody(j) PROVE NewsStoreInv'
  <2>1. /\ phase[j] = "commit body"
        /\ bodies' = bodies \cup Bodies(j)
        /\ counted' = counted \cup {Current(j)}
        /\ NextArticle(j) /\ headlines' = headlines
    BY <1>CommitBody DEF CommitBody
  <2>2. Current(j) \in Article /\ Current(j).link \in headlines
    BY <2>1, InHand DEF Progress
  <2>3. /\ Bodies(j) \subseteq {Current(j).link}
        /\ Current(j).body => Current(j).link \in Bodies(j)
    BY DEF Bodies
  <2>4. StoresAgree'
    BY <2>1, <2>2, <2>3 DEF StoresAgree, BodyHasHeadline, CountedIsStored
  <2>5. /\ news' \in [Jobs -> Seq(Article)] /\ phase' \in [Jobs -> Phases]
        /\ uncommitted' \in [Jobs -> NewsLinks \cup {NoLink}]
        /\ \A i \in Jobs : Progress(i)'
    BY <2>1, NextArticleKeeps
  <2>6. NewsStoreTypeOK'
    BY <2>1, <2>2, <2>3, <2>5 DEF NewsStoreTypeOK
  <2>. QED BY <2>4, <2>5, <2>6
<1>Crash. ASSUME Crash PROVE NewsStoreInv'
  <2>1. NewsStoreTypeOK'
    <3>1. /\ news' = [j \in Jobs |-> <<>>]
          /\ uncommitted' = [j \in Jobs |-> NoLink]
          /\ UNCHANGED <<headlines, bodies, counted>>
      BY <1>Crash DEF Crash
    <3>2. phase' \in [Jobs -> Phases]
      BY <1>Crash DEF Crash, Phases
    <3>3. <<>> \in Seq(Article)
      OBVIOUS
    <3>4. news' \in [Jobs -> Seq(Article)]
      BY <3>1, <3>3
    <3>. QED BY <3>1, <3>2, <3>4 DEF NewsStoreTypeOK
  <2>2. \A i \in Jobs : Progress(i)'
    BY <1>Crash DEF Crash, NewsStoreTypeOK, Progress
  <2>3. StoresAgree'
    BY <1>Crash DEF Crash, StoresAgree, BodyHasHeadline, CountedIsStored
  <2>. QED BY <2>1, <2>2, <2>3
<1>Stutter. ASSUME UNCHANGED newsVars PROVE NewsStoreInv'
  BY <1>Stutter DEF newsVars, NewsStoreTypeOK, Progress, Current, StoresAgree, BodyHasHeadline,
     CountedIsStored
<1>. QED
  BY <1>Start, <1>Lookup, <1>Flush, <1>GiveUp, <1>CommitHeadline, <1>CommitBody,
     <1>Crash, <1>Stutter DEF NewsStoreNext, JobStep

\* No body without its headline and nothing counted that is not stored, for any
\* jobs and links (investment_news_source.py 72-120: the commit of MySQL comes
\* first).
THEOREM StoresAlwaysAgree == NewsStoreSpec => []StoresAgree
<1>1. NewsStoreInit => NewsStoreInv
  BY NewsStoreInvInit
<1>2. NewsStoreInv /\ [NewsStoreNext]_newsVars => NewsStoreInv'
  BY NewsStoreInvNext
<1>3. NewsStoreInv => StoresAgree
  BY DEF NewsStoreInv
<1>. QED BY <1>1, <1>2, <1>3, PTL DEF NewsStoreSpec

(***************************************************************************)
(* SavedArticles: one content for each saved article.                      *)
(***************************************************************************)

\* A content belongs to a saved article and there is at most one: whoever stores
\* one has just saved the row, which nobody else can then save again.
SavedInv == SavedArticlesTypeOK /\ OneContentEach

LEMMA SavedInvInit == SavedArticlesInit => SavedInv
  BY DEF SavedArticlesInit, SavedInv, SavedArticlesTypeOK, OneContentEach

LEMMA InBulk ==
    ASSUME SavedArticlesTypeOK, Saving
    PROVE  /\ bulk \in [account : Readers, todo : Seq(Links), pairs : SUBSET Row,
                        before : SUBSET Row, mysql : BOOLEAN, pg : BOOLEAN]
           /\ CurrentRow \in Row /\ Tail(bulk.todo) \in Seq(Links)
<1>1. bulk \in [account : Readers, todo : Seq(Links), pairs : SUBSET Row,
                before : SUBSET Row, mysql : BOOLEAN, pg : BOOLEAN]
  BY DEF SavedArticlesTypeOK, Saving
<1>2. Head(bulk.todo) \in Links /\ Tail(bulk.todo) \in Seq(Links)
  BY <1>1, HeadTailProperties DEF Saving
<1>. QED BY <1>1, <1>2 DEF CurrentRow, Row

\* The content of a row that is saved in the same step.
LEMMA StoreNew ==
    ASSUME SavedInv, NEW r \in Row, r \notin saved, saved' = saved \cup {r},
           StoreNothing \/ \E text \in BOOLEAN : Store(r, text)
    PROVE  /\ saved' \subseteq Row /\ contents' \in [Row -> Nat] /\ hasText' \subseteq Row
           /\ OneContentEach'
<1>1. contents[r] = 0 /\ r \notin hasText
  BY DEF SavedInv, SavedArticlesTypeOK, OneContentEach
<1>2. CASE StoreNothing
  BY <1>2 DEF StoreNothing, SavedInv, SavedArticlesTypeOK, OneContentEach
<1>3. ASSUME NEW text \in BOOLEAN, Store(r, text)
      PROVE  /\ saved' \subseteq Row /\ contents' \in [Row -> Nat] /\ hasText' \subseteq Row
             /\ OneContentEach'
  <2>1. /\ contents' = [contents EXCEPT ![r] = 1]
        /\ hasText' \subseteq hasText \cup {r} /\ hasText \subseteq hasText'
    BY <1>1, <1>3 DEF Store, SavedInv, SavedArticlesTypeOK
  <2>. QED BY <2>1 DEF SavedInv, SavedArticlesTypeOK, OneContentEach
<1>. QED BY <1>2, <1>3

LEMMA SavedInvNext == SavedInv /\ [SavedArticlesNext]_savedVars => SavedInv'
<1>. SUFFICES ASSUME SavedInv, [SavedArticlesNext]_savedVars PROVE SavedInv'
  OBVIOUS
<1>. DEFINE Tables == /\ saved' \subseteq Row /\ contents' \in [Row -> Nat]
                      /\ hasText' \subseteq Row /\ OneContentEach'
            BulkType == bulk' = NoBulk \/ bulk' \in
                          [account : Readers, todo : Seq(Links), pairs : SUBSET Row,
                           before : SUBSET Row, mysql : BOOLEAN, pg : BOOLEAN]
<1>1. SavedArticlesTypeOK /\ OneContentEach
  BY DEF SavedInv
<1>2. ASSUME UNCHANGED <<saved, contents, hasText>> PROVE Tables
  BY <1>1, <1>2 DEF SavedArticlesTypeOK, OneContentEach
<1>3. ASSUME NEW r \in Row, SaveArticle(r) PROVE SavedInv'
  <2>1. Tables
    BY <1>3, StoreNew DEF SaveArticle
  <2>. QED BY <1>1, <1>3, <2>1 DEF SaveArticle, SavedInv, SavedArticlesTypeOK
<1>4. ASSUME NEW a \in Readers, StartBulk(a) PROVE SavedInv'
  <2>1. PICK found \in Searches :
          bulk' = [account |-> a, todo |-> found, pairs |-> {},
                   before |-> saved, mysql |-> TRUE, pg |-> TRUE]
    BY <1>4 DEF StartBulk
  <2>2. found \in Seq(Links)
    BY SavedArticlesAssumption DEF Searches
  <2>3. BulkType
    BY <1>1, <2>1, <2>2 DEF SavedArticlesTypeOK
  <2>4. Tables /\ answer' = answer
    BY <1>2, <1>4 DEF StartBulk
  <2>. QED BY <1>1, <2>3, <2>4 DEF SavedInv, SavedArticlesTypeOK
<1>5. ASSUME FoundSaved \/ SaveFound \/ StoreFails \/ SaveFails PROVE SavedInv'
  <2>1. Saving /\ answer' = answer
    BY <1>5 DEF FoundSaved, SaveFound, StoreFails, SaveFails
  <2>2. /\ bulk \in [account : Readers, todo : Seq(Links), pairs : SUBSET Row,
                     before : SUBSET Row, mysql : BOOLEAN, pg : BOOLEAN]
        /\ CurrentRow \in Row /\ Tail(bulk.todo) \in Seq(Links)
    BY <1>1, <2>1, InBulk
  <2>3. BulkType
    <3>1. CASE FoundSaved \/ SaveFound
      <4>. DEFINE paired == [bulk EXCEPT !.pairs = @ \cup {CurrentRow}]
      <4>1. bulk' = [paired EXCEPT !.todo = Tail(@)]
        BY <3>1 DEF FoundSaved, SaveFound, Done
      <4>2. /\ paired \in [account : Readers, todo : Seq(Links), pairs : SUBSET Row,
                            before : SUBSET Row, mysql : BOOLEAN, pg : BOOLEAN]
            /\ paired.todo = bulk.todo
        BY <2>2
      <4>. HIDE DEF paired
      <4>. QED BY <2>2, <4>1, <4>2
    <3>2. CASE StoreFails
      BY <2>2, <3>2 DEF StoreFails, Done
    <3>3. CASE SaveFails
      BY <2>2, <3>3 DEF SaveFails, Done
    <3>. QED BY <1>5, <3>1, <3>2, <3>3
  <2>4. Tables
    <3>1. CASE FoundSaved \/ SaveFails
      BY <1>2, <3>1 DEF FoundSaved, SaveFails
    <3>2. CASE SaveFound \/ StoreFails
      BY <2>2, <3>2, StoreNew DEF SaveFound, StoreFails, StoreNothing
    <3>. QED BY <1>5, <3>1, <3>2
  <2>. QED BY <1>1, <2>1, <2>3, <2>4 DEF SavedInv, SavedArticlesTypeOK
<1>6. ASSUME AnalyzeFound PROVE SavedInv'
  <2>1. bulk \in [account : Readers, todo : Seq(Links), pairs : SUBSET Row,
                  before : SUBSET Row, mysql : BOOLEAN, pg : BOOLEAN]
    BY <1>1, <1>6 DEF AnalyzeFound, SavedArticlesTypeOK
  <2>2. answer' \in [fresh : SUBSET Row, results : SUBSET Row, worked : BOOLEAN]
    BY <2>1, <1>6 DEF AnalyzeFound, Analyzable
  <2>3. Tables /\ bulk' = NoBulk
    BY <1>2, <1>6 DEF AnalyzeFound
  <2>. QED BY <2>2, <2>3 DEF SavedInv, SavedArticlesTypeOK
<1>7. ASSUME BulkCrash \/ UNCHANGED savedVars PROVE SavedInv'
  BY <1>1, <1>2, <1>7 DEF BulkCrash, savedVars, SavedInv, SavedArticlesTypeOK
<1>. QED BY <1>3, <1>4, <1>5, <1>6, <1>7 DEF SavedArticlesNext, BulkStep

\* However requests repeat, fail half-way or find an article again, a saved
\* article has one content at most and every content its article
\* (save_article_usecase.py 25-63, bulk_analyze_usecase.py 34-65).
THEOREM OneContentForEach == SavedArticlesSpec => []OneContentEach
<1>1. SavedInv => OneContentEach
  BY DEF SavedInv
<1>. QED BY <1>1, SavedInvInit, SavedInvNext, PTL DEF SavedArticlesSpec

(***************************************************************************)
(* MarketVideos: what an upsert reports.                                   *)
(***************************************************************************)

TaskFields == {"kind", "phase", "source", "snapshot", "batch", "at", "inserted",
           "reported", "failed", "committed"}
IsBatch(b) == Len(b) \in Nat /\ DOMAIN b = 1 .. Len(b)

\* In the middle of a batch: what came after its last failure is stored or
\* waits for the commit.
UpsertInv(r) ==
    /\ IsBatch(r.batch)
    /\ r.at \in 1 .. Len(r.batch) + 1
    /\ r.failed \subseteq 1 .. r.at - 1
    /\ r.reported = {r.batch[i] : i \in (1 .. r.at - 1) \ r.failed}
    /\ \A i \in 1 .. r.at - 1 :
          (\A f \in r.failed : f < i) => r.batch[i] \in rows \cup r.inserted

BatchReported(r) ==
    /\ ~r.committed => r.reported = {}
    /\ r.committed =>
         /\ r.reported = {r.batch[i] : i \in DOMAIN r.batch \ r.failed}
         /\ {r.batch[i] : i \in AfterFailures(r)} \subseteq rows

RequestInv(r) ==
    \/ r = Free
    \/ /\ DOMAIN r = TaskFields
       /\ r.snapshot = NoSnapshot \/ r.snapshot \subseteq rows
       /\ \/ r.phase = "channels" /\ ~r.committed /\ r.reported = {}
          \/ r.phase = "upsert" /\ UpsertInv(r)
          \/ r.phase \in {"search", "page", "answered"} /\ BatchReported(r)

VideosInv ==
    /\ DOMAIN videoTask = VideoWorkers
    /\ \A p \in VideoWorkers : RequestInv(videoTask[p])

LEMMA VideosInvInit == MarketVideosInit => VideosInv
  BY DEF MarketVideosInit, VideosInv, RequestInv

\* Rows stay: what holds of a request goes on to hold.
LEMMA RowsGrow ==
    ASSUME NEW r, RequestInv(r), rows \subseteq rows'
    PROVE  RequestInv(r)'
  BY DEF RequestInv, UpsertInv, BatchReported, AfterFailures, IsBatch

\* A step of one worker.
LEMMA OneWorker ==
    ASSUME VideosInv, NEW p \in VideoWorkers, NEW r, Become(p, r), rows \subseteq rows',
           RequestInv(r)'
    PROVE  VideosInv'
<1>1. videoTask' = [videoTask EXCEPT ![p] = r]
  BY DEF Become
<1>2. DOMAIN videoTask' = VideoWorkers /\ videoTask'[p] = r
  BY <1>1 DEF VideosInv
<1>3. ASSUME NEW q \in VideoWorkers, q # p PROVE RequestInv(videoTask[q])'
  <2>1. videoTask'[q] = videoTask[q] /\ RequestInv(videoTask[q])
    BY <1>1, <1>3 DEF VideosInv
  <2>. QED BY <2>1, RowsGrow, SMTT(30)
           DEF RequestInv, UpsertInv, BatchReported, AfterFailures, IsBatch
<1>4. RequestInv(videoTask[p])'
  BY <1>2 DEF RequestInv, UpsertInv, BatchReported, AfterFailures, IsBatch
<1>5. \A q \in VideoWorkers : RequestInv(videoTask[q])'
  BY <1>3, <1>4
<1>. QED BY <1>2, <1>5 DEF VideosInv

\* The batches that YouTube's answers make are sequences.
LEMMA BatchesAreSequences ==
    /\ \A found \in SUBSET VideoNumbers : IsBatch(Newest(found))
    /\ \A q \in SearchAnswers : IsBatch(q)
<1>1. ASSUME NEW found \in SUBSET VideoNumbers PROVE IsBatch(Newest(found))
  <2>. DEFINE all == NewestFirst(found)
              n == Cardinality(found)
              S == {all[i] : i \in 1 .. n}
  <2>1. n \in Nat
    <3>1. IsFiniteSet(VideoNumbers)
      BY MarketVideosAssumption, FS_Interval DEF VideoNumbers
    <3>. QED BY <3>1, FS_Subset, FS_CardinalityType
  <2>2. all \in [1 .. n -> S]
    BY DEF NewestFirst
  <2>3. all \in Seq(S) /\ Len(all) = n
    <3>. HIDE DEF all, S, n
    <3>. QED BY <2>1, <2>2, SeqDef
  <2>4. Len(all) > TopN => SubSeq(all, 1, TopN) \in Seq(S)
    <3>. HIDE DEF all, S, n
    <3>1. SUFFICES ASSUME Len(all) > TopN PROVE SubSeq(all, 1, TopN) \in Seq(S)
      OBVIOUS
    <3>2. 1 \in 1 .. Len(all) + 1 /\ TopN \in 1 - 1 .. Len(all)
      BY <2>1, <2>3, <3>1, MarketVideosAssumption
    <3>. QED BY <2>3, <3>1, <3>2, SubSeqProperties, MarketVideosAssumption
  <2>5. Newest(found) \in Seq(S)
    <3>. HIDE DEF S, n
    <3>. QED BY <2>3, <2>4 DEF Newest
  <2>. QED
    <3>. HIDE DEF S, n, all
    <3>. QED BY <2>5, LenProperties DEF IsBatch
<1>2. ASSUME NEW q \in SearchAnswers PROVE IsBatch(q)
  <2>1. PICK n \in 1 .. LastVideo : q \in [1 .. n -> VideoNumbers]
    BY DEF SearchAnswers
  <2>. QED BY <2>1, MarketVideosAssumption DEF IsBatch
<1>. QED BY <1>1, <1>2

\* A request that begins, or begins a batch.
LEMMA RequestBegins ==
    ASSUME NEW kind, NEW ph \in {"page", "channels"}
    PROVE  RequestInv(NewTask(kind, ph))
  BY DEF NewTask, RequestInv, TaskFields, BatchReported

LEMMA BatchBegins ==
    ASSUME VideosInv, NEW p \in VideoWorkers, Phase(p) # "free",
           NEW source, NEW batch, IsBatch(batch)
    PROVE  RequestInv([videoTask[p] EXCEPT !.phase = "upsert", !.source = source,
                         !.batch = batch, !.at = 1, !.reported = {}, !.failed = {}])
<1>. DEFINE r == videoTask[p]
            s == [r EXCEPT !.phase = "upsert", !.source = source,
                           !.batch = batch, !.at = 1, !.reported = {}, !.failed = {}]
<1>1. /\ DOMAIN r = TaskFields
      /\ r.snapshot = NoSnapshot \/ r.snapshot \subseteq rows
  BY DEF VideosInv, RequestInv, Phase, Free
<1>2. /\ DOMAIN s = TaskFields /\ s.snapshot = r.snapshot
      /\ s.phase = "upsert" /\ s.batch = batch /\ s.at = 1
      /\ s.reported = {} /\ s.failed = {}
  BY <1>1 DEF TaskFields
<1>. HIDE DEF s, r
<1>3. UpsertInv(s)
  BY <1>2 DEF UpsertInv, IsBatch
<1>. QED BY <1>1, <1>2, <1>3 DEF RequestInv, s, r

\* A request that asked for nothing goes on.
LEMMA AsksNothing ==
    ASSUME VideosInv, NEW p \in VideoWorkers, Phase(p) \in {"channels", "search"},
           NEW ph \in {"search", "page", "answered"}
    PROVE  RequestInv([videoTask[p] EXCEPT !.phase = ph])
<1>. DEFINE r == videoTask[p]
            s == [r EXCEPT !.phase = ph]
<1>1. /\ DOMAIN r = TaskFields
      /\ r.snapshot = NoSnapshot \/ r.snapshot \subseteq rows
      /\ (~r.committed /\ r.reported = {}) \/ BatchReported(r)
  BY DEF VideosInv, RequestInv, Phase, Free
<1>2. /\ DOMAIN s = TaskFields /\ s.phase = ph
      /\ \A x \in TaskFields \ {"phase"} : s[x] = r[x]
  BY <1>1 DEF TaskFields
<1>. HIDE DEF s, r
<1>3. BatchReported(s)
  BY <1>1, <1>2 DEF BatchReported, AfterFailures, TaskFields
<1>. QED BY <1>1, <1>2, <1>3 DEF RequestInv, TaskFields, s, r

-----------------------------------------------------------------------------
(* One video of a batch, and the end of it.                                *)

LEMMA InUpsert ==
    ASSUME VideosInv, NEW p \in VideoWorkers, Phase(p) = "upsert"
    PROVE  /\ DOMAIN videoTask[p] = TaskFields /\ UpsertInv(videoTask[p])
           /\ View(p) \subseteq rows
  BY DEF VideosInv, RequestInv, Phase, Free, View

\* A video is reported: it is stored, or inserted to be committed.
LEMMA VideoReported ==
    ASSUME VideosInv, NEW p \in VideoWorkers, Upserting(p),
           NEW more, Video(p) \in rows \cup videoTask[p].inserted \cup more,
           NEW s, DOMAIN s = TaskFields, s.phase = "upsert", s.snapshot = View(p),
           s.batch = videoTask[p].batch, s.failed = videoTask[p].failed,
           s.at = videoTask[p].at + 1, s.inserted = videoTask[p].inserted \cup more,
           s.reported = videoTask[p].reported \cup {Video(p)}
    PROVE  RequestInv(s)
<1>. DEFINE r == videoTask[p]
<1>1. /\ UpsertInv(r) /\ View(p) \subseteq rows
      /\ r.at <= Len(r.batch) /\ Video(p) = r.batch[r.at]
  BY InUpsert DEF Upserting, Video
<1>. HIDE DEF r
<1>2. /\ Len(r.batch) \in Nat /\ r.at \in 1 .. Len(r.batch)
      /\ s.batch = r.batch /\ s.failed = r.failed /\ s.at = r.at + 1
      /\ s.inserted = r.inserted \cup more /\ s.reported = r.reported \cup {r.batch[r.at]}
      /\ r.batch[r.at] \in rows \cup s.inserted
  BY <1>1 DEF UpsertInv, IsBatch, r
<1>3. /\ 1 .. s.at - 1 = (1 .. r.at - 1) \cup {r.at}
      /\ r.at \notin s.failed /\ s.failed \subseteq 1 .. s.at - 1
      /\ s.at \in 1 .. Len(s.batch) + 1
  <2>1. r.failed \subseteq 1 .. r.at - 1
    BY <1>1 DEF UpsertInv
  <2>. QED BY <1>2, <2>1
<1>4. s.reported = {s.batch[i] : i \in (1 .. s.at - 1) \ s.failed}
  <2>1. r.reported = {r.batch[i] : i \in (1 .. r.at - 1) \ r.failed}
    BY <1>1 DEF UpsertInv
  <2>2. (1 .. s.at - 1) \ s.failed = ((1 .. r.at - 1) \ r.failed) \cup {r.at}
    <3>1. s.failed = r.failed
      BY <1>2
    <3>. QED BY <1>3, <3>1, Zenon
  <2>. DEFINE K == (1 .. r.at - 1) \ r.failed
  <2>. HIDE DEF K
  <2>3. {r.batch[i] : i \in K} \cup {r.batch[r.at]} = {r.batch[i] : i \in K \cup {r.at}}
    OBVIOUS
  <2>4. r.reported = {r.batch[i] : i \in K}
    BY <2>1 DEF K
  <2>5. (1 .. s.at - 1) \ s.failed = K \cup {r.at}
    BY <2>2 DEF K
  <2>6. s.batch = r.batch /\ s.reported = r.reported \cup {r.batch[r.at]}
    BY <1>2
  <2>7. s.reported = {r.batch[i] : i \in K \cup {r.at}}
    BY <2>3, <2>4, <2>6
  <2>. QED BY <2>5, <2>6, <2>7
<1>5. \A i \in 1 .. s.at - 1 :
        (\A f \in s.failed : f < i) => s.batch[i] \in rows \cup s.inserted
  BY <1>1, <1>2, <1>3 DEF UpsertInv
<1>6. UpsertInv(s)
  BY <1>1, <1>2, <1>3, <1>4, <1>5 DEF UpsertInv, IsBatch
<1>. QED BY <1>1, <1>6 DEF RequestInv

\* A video fails: nothing of the batch so far counts any more.
LEMMA VideoFailed ==
    ASSUME VideosInv, NEW p \in VideoWorkers, Upserting(p),
           NEW s, DOMAIN s = TaskFields, s.phase = "upsert", s.snapshot = NoSnapshot,
           s.batch = videoTask[p].batch, s.inserted = {},
           s.at = videoTask[p].at + 1, s.reported = videoTask[p].reported,
           s.failed = videoTask[p].failed \cup {videoTask[p].at}
    PROVE  RequestInv(s)
<1>. DEFINE r == videoTask[p]
<1>1. UpsertInv(r) /\ r.at <= Len(r.batch)
  BY InUpsert DEF Upserting
<1>. HIDE DEF r
<1>2. /\ Len(r.batch) \in Nat /\ r.at \in 1 .. Len(r.batch)
      /\ s.batch = r.batch /\ s.failed = r.failed \cup {r.at} /\ s.at = r.at + 1
      /\ s.reported = r.reported
  BY <1>1 DEF UpsertInv, IsBatch, r
<1>3. /\ (1 .. s.at - 1) \ s.failed = (1 .. r.at - 1) \ r.failed
      /\ s.failed \subseteq 1 .. s.at - 1
      /\ s.at \in 1 .. Len(s.batch) + 1
  <2>1. r.failed \subseteq 1 .. r.at - 1
    BY <1>1 DEF UpsertInv
  <2>2. s.at - 1 = r.at /\ r.at \in Nat /\ Len(s.batch) = Len(r.batch)
    BY <1>2
  <2>3. 1 .. s.at - 1 = (1 .. r.at - 1) \cup {r.at} /\ r.at \notin 1 .. r.at - 1
    BY <1>2, <2>2
  <2>4. s.failed \subseteq 1 .. s.at - 1
    BY <1>2, <2>1, <2>3
  <2>5. (1 .. s.at - 1) \ s.failed = (1 .. r.at - 1) \ r.failed
    <3>1. PICK A, B : A = 1 .. s.at - 1 /\ B = 1 .. r.at - 1
      OBVIOUS
    <3>2. A = B \cup {r.at} /\ r.at \notin B /\ s.failed = r.failed \cup {r.at}
      BY <1>2, <2>3, <3>1
    <3>3. A \ s.failed = B \ r.failed
      BY <3>2
    <3>. QED BY <3>1, <3>3, Zenon
  <2>6. s.at \in 1 .. Len(s.batch) + 1
    BY <1>2, <2>2
  <2>. QED BY <2>4, <2>5, <2>6, Zenon
<1>4. \A i \in 1 .. s.at - 1 : ~(\A f \in s.failed : f < i)
  <2>1. SUFFICES ASSUME NEW i \in 1 .. s.at - 1 PROVE ~(r.at < i)
    BY <1>2
  <2>. QED BY <1>2, <2>1
<1>5. UpsertInv(s)
  <2>1. IsBatch(s.batch)
    BY <1>1, <1>2, Zenon DEF UpsertInv
  <2>2. s.reported = {s.batch[i] : i \in (1 .. s.at - 1) \ s.failed}
    <3>1. r.reported = {r.batch[i] : i \in (1 .. r.at - 1) \ r.failed}
      BY <1>1, Zenon DEF UpsertInv
    <3>2. PICK K : K = (1 .. r.at - 1) \ r.failed
      OBVIOUS
    <3>3. s.reported = {s.batch[i] : i \in K}
      BY <1>2, <3>1, <3>2
    <3>4. (1 .. s.at - 1) \ s.failed = K
      BY <1>3, <3>2
    <3>. QED BY <3>3, <3>4
  <2>. QED BY <1>3, <1>4, <2>1, <2>2, Zenon DEF UpsertInv
<1>. QED BY <1>5 DEF RequestInv

\* The commit stores what was inserted; without it nothing is reported.
LEMMA BatchSettled ==
    ASSUME VideosInv, NEW p \in VideoWorkers, Upserted(p),
           NEW s, DOMAIN s = TaskFields, s.phase \in {"search", "page", "answered"},
           s.snapshot = NoSnapshot, s.batch = videoTask[p].batch,
           s.failed = videoTask[p].failed,
           \/ s.committed /\ s.reported = videoTask[p].reported
                          /\ rows' = rows \cup videoTask[p].inserted
           \/ ~s.committed /\ s.reported = {}
    PROVE  RequestInv(s)'
<1>. DEFINE r == videoTask[p]
<1>1. UpsertInv(r) /\ r.at > Len(r.batch)
  BY InUpsert DEF Upserted
<1>. HIDE DEF r
<1>2. /\ Len(r.batch) \in Nat /\ r.at - 1 = Len(r.batch)
      /\ DOMAIN r.batch = 1 .. r.at - 1
      /\ s.batch = r.batch /\ s.failed = r.failed
  BY <1>1 DEF UpsertInv, IsBatch, r
<1>3. CASE ~s.committed /\ s.reported = {}
  BY <1>3 DEF RequestInv, BatchReported
<1>4. CASE s.committed /\ s.reported = r.reported /\ rows' = rows \cup r.inserted
  <2>1. s.reported = {s.batch[i] : i \in DOMAIN s.batch \ s.failed}
    BY <1>1, <1>2, <1>4 DEF UpsertInv
  <2>2. {s.batch[i] : i \in AfterFailures(s)} \subseteq rows'
    BY <1>1, <1>2, <1>4 DEF UpsertInv, AfterFailures
  <2>. QED BY <1>4, <2>1, <2>2 DEF RequestInv, BatchReported, AfterFailures
<1>. QED BY <1>3, <1>4 DEF r

LEMMA AfterPhases == \A r : After(r) \in {"search", "page", "answered"}
  BY DEF After

LEMMA VideosInvNext == VideosInv /\ [MarketVideosNext]_marketVideoVars => VideosInv'
<1>. SUFFICES ASSUME VideosInv, [MarketVideosNext]_marketVideoVars PROVE VideosInv'
  OBVIOUS
<1>1. ASSUME NEW p \in VideoWorkers, TaskStep(p) PROVE VideosInv'
  <2>. DEFINE r == videoTask[p]
  <2>1. ASSUME NEW s, Become(p, s), rows' = rows, RequestInv(s) PROVE VideosInv'
    <3>1. RequestInv(s)'
      BY <2>1, RowsGrow
    <3>. QED BY <2>1, <3>1, OneWorker
  <2>2. CASE CollectMarketVideos(p) \/ ListVideos(p)
    BY <2>1, <2>2, RequestBegins DEF CollectMarketVideos, ListVideos
  <2>3. CASE AskChannels(p)
    <3>1. CASE \E found \in SUBSET VideoNumbers \ {{}} : Upsert(p, "channels", Newest(found))
      BY <2>1, <2>3, <3>1, BatchesAreSequences, BatchBegins DEF AskChannels, Upsert
    <3>2. CASE Become(p, [videoTask[p] EXCEPT !.phase = After(videoTask[p])])
      BY <2>1, <2>3, <3>2, AsksNothing, AfterPhases DEF AskChannels
    <3>. QED BY <2>3, <3>1, <3>2 DEF AskChannels
  <2>4. CASE AskSearch(p)
    <3>1. CASE \E batch \in SearchAnswers : Upsert(p, "search", batch)
      BY <2>1, <2>4, <3>1, BatchesAreSequences, BatchBegins DEF AskSearch, Upsert
    <3>2. CASE Become(p, [videoTask[p] EXCEPT !.phase = "page"])
      BY <2>1, <2>4, <3>2, AsksNothing DEF AskSearch
    <3>. QED BY <2>4, <3>1, <3>2 DEF AskSearch
  <2>5. CASE UpdateVideo(p)
    <3>. DEFINE s == [r EXCEPT !.at = @ + 1, !.snapshot = View(p),
                               !.reported = @ \cup {Video(p)}]
    <3>1. /\ Upserting(p) /\ Video(p) \in InView(p) /\ rows' = rows /\ Become(p, s)
      BY <2>5 DEF UpdateVideo
    <3>2. DOMAIN r = TaskFields /\ r.phase = "upsert" /\ View(p) \subseteq rows
      BY <3>1, InUpsert DEF Upserting, Phase
    <3>3. /\ DOMAIN s = TaskFields /\ s.phase = "upsert" /\ s.snapshot = View(p)
          /\ s.batch = r.batch /\ s.failed = r.failed /\ s.at = r.at + 1
          /\ s.inserted = r.inserted \cup {} /\ s.reported = r.reported \cup {Video(p)}
      BY <3>2 DEF TaskFields
    <3>4. Video(p) \in rows \cup r.inserted \cup {}
      BY <3>1, <3>2 DEF InView
    <3>. HIDE DEF s
    <3>5. RequestInv(s)
      BY <3>1, <3>3, <3>4, VideoReported
    <3>. QED BY <2>1, <3>1, <3>5
  <2>6. CASE InsertVideo(p)
    <3>. DEFINE s == [r EXCEPT !.at = @ + 1, !.snapshot = View(p),
                               !.inserted = @ \cup {Video(p)},
                               !.reported = @ \cup {Video(p)}]
    <3>1. Upserting(p) /\ rows' = rows /\ Become(p, s)
      BY <2>6 DEF InsertVideo
    <3>2. DOMAIN r = TaskFields /\ r.phase = "upsert"
      BY <3>1, InUpsert DEF Upserting, Phase
    <3>3. /\ DOMAIN s = TaskFields /\ s.phase = "upsert" /\ s.snapshot = View(p)
          /\ s.batch = r.batch /\ s.failed = r.failed /\ s.at = r.at + 1
          /\ s.inserted = r.inserted \cup {Video(p)}
          /\ s.reported = r.reported \cup {Video(p)}
      BY <3>2 DEF TaskFields
    <3>. HIDE DEF s
    <3>4. RequestInv(s)
      BY <3>1, <3>3, VideoReported
    <3>. QED BY <2>1, <3>1, <3>4
  <2>7. CASE VideoFails(p)
    <3>. DEFINE s == [r EXCEPT !.at = @ + 1, !.snapshot = NoSnapshot, !.inserted = {},
                               !.failed = @ \cup {videoTask[p].at}]
    <3>1. Upserting(p) /\ rows' = rows /\ Become(p, s)
      BY <2>7 DEF VideoFails
    <3>2. DOMAIN r = TaskFields /\ r.phase = "upsert"
      BY <3>1, InUpsert DEF Upserting, Phase
    <3>3. /\ DOMAIN s = TaskFields /\ s.phase = "upsert" /\ s.snapshot = NoSnapshot
          /\ s.batch = r.batch /\ s.inserted = {} /\ s.at = r.at + 1
          /\ s.reported = r.reported /\ s.failed = r.failed \cup {r.at}
      BY <3>2 DEF TaskFields
    <3>. HIDE DEF s
    <3>4. RequestInv(s)
      BY <3>1, <3>3, VideoFailed
    <3>. QED BY <2>1, <3>1, <3>4
  <2>8. CASE CommitVideos(p)
    <3>. DEFINE c == [r EXCEPT !.committed = TRUE]
                s == [c EXCEPT !.snapshot = NoSnapshot, !.inserted = {},
                               !.phase = After(c)]
    <3>1. Upserted(p) /\ rows' = rows \cup r.inserted /\ Become(p, s)
      BY <2>8 DEF CommitVideos, Settled
    <3>2. DOMAIN r = TaskFields
      BY <3>1, InUpsert DEF Upserted
    <3>3. /\ DOMAIN c = TaskFields /\ c.committed /\ c.batch = r.batch
          /\ c.failed = r.failed /\ c.reported = r.reported
      BY <3>2 DEF TaskFields
    <3>. HIDE DEF c
    <3>4. /\ DOMAIN s = TaskFields /\ s.phase = After(c) /\ s.snapshot = NoSnapshot
          /\ s.batch = r.batch /\ s.failed = r.failed /\ s.committed
          /\ s.reported = r.reported
      BY <3>3 DEF TaskFields
    <3>. HIDE DEF s
    <3>5. PICK t : t = s
      OBVIOUS
    <3>6. RequestInv(t)'
      BY <3>1, <3>4, <3>5, AfterPhases, BatchSettled
    <3>. QED BY <3>1, <3>5, <3>6, OneWorker
  <2>9. CASE RollBackVideos(p)
    <3>. DEFINE c == [r EXCEPT !.committed = FALSE, !.reported = {}]
                s == [c EXCEPT !.snapshot = NoSnapshot, !.inserted = {},
                               !.phase = After(c)]
    <3>1. Upserted(p) /\ rows' = rows /\ Become(p, s)
      BY <2>9 DEF RollBackVideos, Settled
    <3>2. DOMAIN r = TaskFields
      BY <3>1, InUpsert DEF Upserted
    <3>3. /\ DOMAIN c = TaskFields /\ ~c.committed /\ c.batch = r.batch
          /\ c.failed = r.failed /\ c.reported = {}
      BY <3>2 DEF TaskFields
    <3>. HIDE DEF c
    <3>4. /\ DOMAIN s = TaskFields /\ s.phase = After(c) /\ s.snapshot = NoSnapshot
          /\ s.batch = r.batch /\ s.failed = r.failed /\ ~s.committed
          /\ s.reported = {}
      BY <3>3 DEF TaskFields
    <3>. HIDE DEF s
    <3>5. PICK t : t = s
      OBVIOUS
    <3>6. RequestInv(t)'
      BY <3>1, <3>4, <3>5, AfterPhases, BatchSettled
    <3>. QED BY <3>1, <3>5, <3>6, OneWorker
  <2>10. CASE Answer(p) \/ VideoWorkerEnds(p)
    BY <2>1, <2>10 DEF Answer, VideoWorkerEnds, RequestInv
  <2>. QED BY <1>1, <2>2, <2>3, <2>4, <2>5, <2>6, <2>7, <2>8, <2>9, <2>10 DEF TaskStep
<1>2. CASE GrowStale \/ UNCHANGED marketVideoVars
  BY <1>2 DEF GrowStale, marketVideoVars, VideosInv, RequestInv, UpsertInv,
     BatchReported, AfterFailures, IsBatch
<1>. QED BY <1>1, <1>2 DEF MarketVideosNext

\* What an upsert reports is stored up to what a later failure of its batch
\* rolled back, and one whose commit failed reports nothing, for any workers,
\* videos and batches (market_video_repository_impl.py 17-52).
THEOREM ReportsAreStored == MarketVideosSpec => []ReportedIsStored
<1>1. VideosInv => ReportedIsStored
  BY DEF VideosInv, RequestInv, BatchReported, ReportedIsStored, Free
<1>. QED BY <1>1, VideosInvInit, VideosInvNext, PTL DEF MarketVideosSpec

(***************************************************************************)
(* YouTubeStore: what a collection says it stored.                         *)
(***************************************************************************)

MarketFields == {"kind", "phase", "todo", "broken", "reported"}
InvestmentFields ==
    {"kind", "phase", "videos", "comments", "new", "log", "asked", "seen"}

\* An investment collection has its log, once committed; of its comments the ones
\* it does not insert are stored, and those it stored are newer than what its
\* look-up saw.
InvestmentInv(t) ==
    /\ DOMAIN t = InvestmentFields
    /\ t.videos \subseteq Videos /\ t.comments \subseteq CommentsOf(t.videos)
    /\ t.log # NoLog => t.log \in DOMAIN logs /\ logs[t.log].videos = t.videos
    /\ \/ t.phase = "log" /\ t.log = NoLog
       \/ t.phase = "comments"
       \/ /\ t.phase = "commit" /\ t.new \subseteq Comments
          /\ t.comments \subseteq DOMAIN invComments \cup t.new
          /\ t.seen \subseteq DOMAIN invComments
       \/ /\ t.phase = "stored"
          /\ t.comments \cup t.new \cup t.seen \subseteq DOMAIN invComments
          /\ \A c \in t.new, o \in t.seen : invComments[o] < invComments[c]

CollectorInv(t) ==
    \/ t = NoTask
    \/ /\ DOMAIN t = MarketFields /\ t.phase = "store"
       /\ \/ t.kind = "videos" /\ t.reported \subseteq ytVideos
          \/ t.kind = "comments" /\ t.reported \subseteq ytComments
    \/ t.kind = "investment" /\ InvestmentInv(t)

Log == [videos : SUBSET Videos, moment : Nat]

YouTubeInv ==
    /\ DOMAIN collecting = Workers
    /\ logs \in Seq(Log)
    /\ DOMAIN invComments \subseteq Comments
    /\ \A c \in DOMAIN invComments : invComments[c] \in Nat
    /\ \A w \in Workers : CollectorInv(collecting[w])

LEMMA YouTubeInvInit == YouTubeStoreInit => YouTubeInv
<1>. SUFFICES ASSUME YouTubeStoreInit PROVE YouTubeInv
  OBVIOUS
<1>1. logs \in Seq(Log) /\ DOMAIN invComments = {}
  BY DEF YouTubeStoreInit
<1>. QED BY <1>1 DEF YouTubeStoreInit, YouTubeInv, CollectorInv

\* Nothing that is stored goes: what holds of a collection goes on to hold.
StoresGrow ==
    /\ ytVideos \subseteq ytVideos' /\ ytComments \subseteq ytComments'
    /\ DOMAIN invComments \subseteq DOMAIN invComments'
    /\ DOMAIN invComments' \subseteq Comments
    /\ \A c \in DOMAIN invComments : invComments'[c] = invComments[c]
    /\ \A c \in DOMAIN invComments' : invComments'[c] \in Nat
    /\ \/ logs' = logs
       \/ \E log \in Log : logs' = Append(logs, log)

LEMMA LogsStay ==
    ASSUME YouTubeInv, StoresGrow
    PROVE  /\ logs' \in Seq(Log)
           /\ \A i \in DOMAIN logs : i \in DOMAIN logs' /\ logs'[i] = logs[i]
<1>1. CASE logs' = logs
  BY <1>1 DEF YouTubeInv
<1>2. CASE \E log \in Log : logs' = Append(logs, log)
  <2>1. PICK log \in Log : logs' = Append(logs, log)
    BY <1>2
  <2>. QED BY <2>1, AppendProperties DEF YouTubeInv
<1>. QED BY <1>1, <1>2 DEF StoresGrow

LEMMA CollectorStays ==
    ASSUME YouTubeInv, StoresGrow, NEW t, CollectorInv(t)
    PROVE  CollectorInv(t)'
<1>1. CASE t = NoTask
  BY <1>1 DEF CollectorInv
<1>2. CASE DOMAIN t = MarketFields /\ t.phase = "store"
             /\ \/ t.kind = "videos" /\ t.reported \subseteq ytVideos
                \/ t.kind = "comments" /\ t.reported \subseteq ytComments
  BY <1>2 DEF CollectorInv, StoresGrow
<1>3. CASE t.kind = "investment" /\ InvestmentInv(t)
  <2>1. t.log # NoLog => t.log \in DOMAIN logs' /\ logs'[t.log].videos = t.videos
    BY <1>3, LogsStay DEF InvestmentInv
  <2>2. /\ DOMAIN invComments \subseteq DOMAIN invComments'
        /\ \A c \in DOMAIN invComments : invComments'[c] = invComments[c]
    BY DEF StoresGrow
  <2>. QED BY <1>3, <2>1, <2>2 DEF CollectorInv, InvestmentInv, CommentsOf
<1>. QED BY <1>1, <1>2, <1>3 DEF CollectorInv

\* A step of one worker.
LEMMA OneCollector ==
    ASSUME YouTubeInv, StoresGrow, NEW w \in Workers, NEW t, Set(w, t), CollectorInv(t)'
    PROVE  YouTubeInv'
<1>1. /\ DOMAIN collecting' = Workers /\ collecting'[w] = t
      /\ \A v \in Workers \ {w} : collecting'[v] = collecting[v]
  BY DEF Set, YouTubeInv
<1>2. ASSUME NEW v \in Workers \ {w} PROVE CollectorInv(collecting[v])'
  <2>1. PICK u : u = collecting[v]
    OBVIOUS
  <2>2. CollectorInv(u)'
    BY <2>1, CollectorStays DEF YouTubeInv
  <2>3. collecting'[v] = u
    BY <1>1, <2>1
  <2>. QED BY <2>2, <2>3 DEF CollectorInv, InvestmentInv, CommentsOf
<1>3. CollectorInv(collecting[w])'
  BY <1>1 DEF CollectorInv, InvestmentInv, CommentsOf
<1>4. logs' \in Seq(Log)
  BY LogsStay
<1>5. /\ DOMAIN invComments' \subseteq Comments
      /\ \A c \in DOMAIN invComments' : invComments'[c] \in Nat
  BY DEF StoresGrow
<1>. QED BY <1>1, <1>2, <1>3, <1>4, <1>5 DEF YouTubeInv

\* A worker lets its collection go.
LEMMA Freed ==
    ASSUME YouTubeInv, StoresGrow, NEW w \in Workers, Set(w, NoTask)
    PROVE  YouTubeInv'
<1>1. CollectorInv(NoTask)'
  BY DEF CollectorInv
<1>. QED BY <1>1, OneCollector, Zenon

\* One row of /market-video: it is reported only when it is stored.
LEMMA RowStored ==
    ASSUME YouTubeInv, StoresGrow, NEW w \in Workers, NEW kind \in {"videos", "comments"},
           At(w, kind, "store"), NEW row, NEW shown, NEW broken,
           Stored(w, row, shown, broken),
           kind = "videos" => shown \subseteq ytVideos',
           kind = "comments" => shown \subseteq ytComments'
    PROVE  YouTubeInv'
<1>. DEFINE r == collecting[w]
            s == [r EXCEPT !.todo = @ \ {row}, !.broken = broken,
                           !.reported = @ \cup shown]
<1>1. /\ DOMAIN r = MarketFields /\ r.phase = "store" /\ r.kind = kind
      /\ kind = "videos" => r.reported \subseteq ytVideos
      /\ kind = "comments" => r.reported \subseteq ytComments
  BY DEF YouTubeInv, CollectorInv, InvestmentInv, At, NoTask
<1>2. /\ DOMAIN s = MarketFields /\ s.phase = "store" /\ s.kind = kind
      /\ s.reported = r.reported \cup shown
  BY <1>1 DEF MarketFields
<1>3. Set(w, s)
  BY DEF Stored
<1>. HIDE DEF s, r
<1>4. PICK t : t = s
  OBVIOUS
<1>5. CollectorInv(t)'
  BY <1>1, <1>2, <1>4 DEF CollectorInv, StoresGrow
<1>. QED BY <1>3, <1>4, <1>5, OneCollector

LEMMA YouTubeInvNext == YouTubeInv /\ [YouTubeStoreNext]_youtubeVars => YouTubeInv'
<1>. SUFFICES ASSUME YouTubeInv, [YouTubeStoreNext]_youtubeVars PROVE YouTubeInv'
  OBVIOUS
<1>1. ASSUME NEW w \in Workers, MarketStep(w) PROVE YouTubeInv'
  <2>1. CASE AskVideos(w)
    <3>1. PICK found \in SUBSET Videos :
            Set(w, [kind |-> "videos", phase |-> "store", todo |-> found,
                    broken |-> FALSE, reported |-> {}])
      BY <2>1 DEF AskVideos
    <3>2. StoresGrow
      BY <2>1 DEF AskVideos, StoresGrow, YouTubeInv
    <3>. DEFINE t == [kind |-> "videos", phase |-> "store", todo |-> found,
                      broken |-> FALSE, reported |-> {}]
    <3>3. CollectorInv(t)'
      BY DEF CollectorInv, MarketFields
    <3>. QED BY <3>1, <3>2, <3>3, OneCollector
  <2>2. CASE AskComments(w)
    <3>1. PICK v \in Videos :
            \E found \in SUBSET CommentsOf({v}) :
               Set(w, [kind |-> "comments", phase |-> "store", todo |-> found,
                       broken |-> FALSE, reported |-> {}])
      BY <2>2 DEF AskComments
    <3>2. PICK found \in SUBSET CommentsOf({v}) :
            Set(w, [kind |-> "comments", phase |-> "store", todo |-> found,
                    broken |-> FALSE, reported |-> {}])
      BY <3>1
    <3>3. StoresGrow
      BY <2>2 DEF AskComments, StoresGrow, YouTubeInv
    <3>. DEFINE t == [kind |-> "comments", phase |-> "store", todo |-> found,
                      broken |-> FALSE, reported |-> {}]
    <3>4. CollectorInv(t)'
      BY DEF CollectorInv, MarketFields
    <3>. QED BY <3>2, <3>3, <3>4, OneCollector
  <2>3. ASSUME NEW v \in Videos, StoreVideo(w, v) PROVE YouTubeInv'
    <3>1. StoresGrow /\ {v} \subseteq ytVideos' /\ At(w, "videos", "store")
          /\ Stored(w, v, {v}, FALSE)
      BY <2>3 DEF StoreVideo, StoresGrow, YouTubeInv
    <3>. QED BY <3>1, RowStored
  <2>4. ASSUME NEW v \in Videos, StoreVideoFails(w, v) PROVE YouTubeInv'
    <3>1. PICK broken \in {collecting[w].broken, TRUE} : Stored(w, v, {}, broken)
      BY <2>4 DEF StoreVideoFails
    <3>2. StoresGrow /\ At(w, "videos", "store")
      BY <2>4 DEF StoreVideoFails, StoresGrow, YouTubeInv
    <3>. QED BY <3>1, <3>2, RowStored
  <2>5. ASSUME NEW v \in Videos, RefreshFails(w, v) PROVE YouTubeInv'
    <3>1. StoresGrow /\ At(w, "videos", "store") /\ Stored(w, v, {}, TRUE)
      BY <2>5 DEF RefreshFails, StoresGrow, YouTubeInv
    <3>. QED BY <3>1, RowStored
  <2>6. ASSUME NEW c \in Comments, StoreComment(w, c) PROVE YouTubeInv'
    <3>1. StoresGrow /\ {c} \subseteq ytComments' /\ At(w, "comments", "store")
          /\ Stored(w, c, {c}, FALSE)
      BY <2>6 DEF StoreComment, StoresGrow, YouTubeInv
    <3>. QED BY <3>1, RowStored
  <2>7. CASE StoreCommentFails(w) \/ AnswerCollect(w)
    <3>1. StoresGrow /\ Set(w, NoTask)
      BY <2>7 DEF StoreCommentFails, AnswerCollect, StoresGrow, YouTubeInv
    <3>. QED BY <3>1, Freed
  <2>. QED BY <1>1, <2>1, <2>2, <2>3, <2>4, <2>5, <2>6, <2>7 DEF MarketStep
<1>2. ASSUME NEW w \in Workers, InvestmentStep(w) PROVE YouTubeInv'
  <2>. DEFINE r == collecting[w]
  <2>1. CASE AskInvestment(w)
    <3>1. PICK found \in SUBSET Videos :
            \E said \in SUBSET CommentsOf(found) :
               Set(w, [kind |-> "investment", phase |-> "log", videos |-> found,
                       comments |-> said, new |-> {}, log |-> NoLog,
                       asked |-> Len(logs), seen |-> {}])
      BY <2>1 DEF AskInvestment
    <3>2. PICK said \in SUBSET CommentsOf(found) :
            Set(w, [kind |-> "investment", phase |-> "log", videos |-> found,
                    comments |-> said, new |-> {}, log |-> NoLog,
                    asked |-> Len(logs), seen |-> {}])
      BY <3>1
    <3>3. StoresGrow
      BY <2>1 DEF AskInvestment, StoresGrow, YouTubeInv
    <3>. DEFINE s == [kind |-> "investment", phase |-> "log", videos |-> found,
                      comments |-> said, new |-> {}, log |-> NoLog,
                      asked |-> Len(logs), seen |-> {}]
    <3>4. PICK t : t = s
      OBVIOUS
    <3>5. CollectorInv(t)'
      BY <3>4 DEF CollectorInv, InvestmentInv, InvestmentFields, CommentsOf
    <3>. QED BY <3>2, <3>3, <3>4, <3>5, OneCollector
  <2>2. ASSUME NEW ph, ph # "free", At(w, "investment", ph)
        PROVE  InvestmentInv(r) /\ r.kind = "investment" /\ r.phase = ph
    BY <2>2 DEF At, YouTubeInv, CollectorInv, NoTask, MarketFields
  <2>3. CASE CommitLog(w)
    <3>. DEFINE s == [r EXCEPT !.phase = "comments", !.log = Len(logs) + 1, !.asked = 0]
    <3>1. InvestmentInv(r) /\ r.kind = "investment" /\ Set(w, s)
      BY <2>2, <2>3 DEF CommitLog
    <3>2. PICK second \in 1 .. LogBound :
            logs' = Append(logs, [videos |-> r.videos, moment |-> second])
      BY <2>3 DEF CommitLog
    <3>3. PICK log \in Log : log.videos = r.videos /\ logs' = Append(logs, log)
      <4>1. [videos |-> r.videos, moment |-> second] \in Log
        BY <3>1, YouTubeAssumption DEF InvestmentInv, Log
      <4>. QED BY <3>2, <4>1
    <3>4. /\ DOMAIN s = InvestmentFields /\ s.kind = "investment" /\ s.phase = "comments"
          /\ s.log = Len(logs) + 1 /\ s.videos = r.videos /\ s.comments = r.comments
      BY <3>1 DEF InvestmentInv, InvestmentFields
    <3>. HIDE DEF s
    <3>5. PICK t : t = s
      OBVIOUS
    <3>6. t.log \in DOMAIN logs' /\ logs'[t.log].videos = t.videos
      BY <3>3, <3>4, <3>5, AppendProperties DEF YouTubeInv
    <3>7. StoresGrow
      BY <2>3, <3>3 DEF YouTubeInv, StoresGrow, CommitLog
    <3>8. CollectorInv(t)'
      BY <3>1, <3>4, <3>5, <3>6 DEF CollectorInv, InvestmentInv, CommentsOf
    <3>. QED BY <3>1, <3>5, <3>7, <3>8, OneCollector
  <2>4. CASE LogFails(w)
    <3>. DEFINE s == [r EXCEPT !.phase = "comments", !.asked = 0]
    <3>1. /\ InvestmentInv(r) /\ r.kind = "investment" /\ Set(w, s) /\ StoresGrow
      BY <2>2, <2>4 DEF LogFails, StoresGrow, YouTubeInv
    <3>2. /\ DOMAIN s = InvestmentFields /\ s.kind = "investment" /\ s.phase = "comments"
          /\ s.log = r.log /\ s.videos = r.videos /\ s.comments = r.comments
      BY <3>1 DEF InvestmentInv, InvestmentFields
    <3>. HIDE DEF s
    <3>3. PICK t : t = s
      OBVIOUS
    <3>4. CollectorInv(t)
      BY <3>1, <3>2, <3>3 DEF CollectorInv, InvestmentInv
    <3>. QED BY <3>1, <3>3, <3>4, CollectorStays, OneCollector
  <2>5. CASE LookUpComments(w)
    <3>. DEFINE s == [r EXCEPT !.phase = "commit", !.new = New(w),
                               !.seen = DOMAIN invComments]
    <3>1. /\ InvestmentInv(r) /\ r.kind = "investment" /\ Set(w, s) /\ StoresGrow
      BY <2>2, <2>5 DEF LookUpComments, StoresGrow, YouTubeInv
    <3>2. /\ DOMAIN s = InvestmentFields /\ s.kind = "investment" /\ s.phase = "commit"
          /\ s.log = r.log /\ s.videos = r.videos /\ s.comments = r.comments
          /\ s.new = r.comments \ DOMAIN invComments /\ s.seen = DOMAIN invComments
      BY <3>1 DEF InvestmentInv, InvestmentFields, New
    <3>. HIDE DEF s
    <3>3. PICK t : t = s
      OBVIOUS
    <3>4. CollectorInv(t)
      BY <3>1, <3>2, <3>3 DEF CollectorInv, InvestmentInv, CommentsOf
    <3>. QED BY <3>1, <3>3, <3>4, CollectorStays, OneCollector
  <2>6. CASE CommitComments(w)
    <3>. DEFINE s == [r EXCEPT !.phase = "stored"]
    <3>1. /\ InvestmentInv(r) /\ r.kind = "investment" /\ r.phase = "commit"
          /\ Set(w, s) /\ logs' = logs
      BY <2>2, <2>6 DEF CommitComments
    <3>2. PICK moment \in [r.new -> 1 .. Cardinality(Comments)] :
            /\ \A c \in r.new, o \in r.seen : invComments[o] < moment[c]
            /\ invComments' = [c \in DOMAIN invComments \cup r.new |->
                                 IF c \in r.new THEN moment[c] ELSE invComments[c]]
      BY <2>6 DEF CommitComments
    <3>3. /\ r.new \subseteq Comments /\ r.new \cap DOMAIN invComments = {}
          /\ r.seen \subseteq DOMAIN invComments
          /\ r.comments \subseteq DOMAIN invComments \cup r.new
      BY <2>6, <3>1 DEF CommitComments, InvestmentInv
    <3>4. \A c \in r.new : moment[c] \in Nat
      <4>1. Cardinality(Comments) \in Nat
        BY YouTubeAssumption, FS_CardinalityType
      <4>. QED BY <3>2, <4>1
    <3>5. StoresGrow
      BY <2>6, <3>1, <3>2, <3>3, <3>4 DEF YouTubeInv, StoresGrow, CommitComments
    <3>6. \A c \in r.new, o \in r.seen : invComments'[o] < invComments'[c]
      BY <3>2, <3>3
    <3>7. /\ DOMAIN s = InvestmentFields /\ s.kind = "investment" /\ s.phase = "stored"
          /\ s.log = r.log /\ s.videos = r.videos /\ s.comments = r.comments
          /\ s.new = r.new /\ s.seen = r.seen
      BY <3>1 DEF InvestmentInv, InvestmentFields
    <3>. HIDE DEF s
    <3>8. PICK t : t = s
      OBVIOUS
    <3>9. t.comments \cup t.new \cup t.seen \subseteq DOMAIN invComments'
      BY <3>2, <3>3, <3>7, <3>8
    <3>10. CollectorInv(t)'
      BY <3>1, <3>6, <3>7, <3>8, <3>9 DEF CollectorInv, InvestmentInv, CommentsOf
    <3>. QED BY <3>1, <3>5, <3>8, <3>10, OneCollector
  <2>7. CASE CommentsFail(w) \/ Collected(w)
    <3>1. StoresGrow /\ Set(w, NoTask)
      BY <2>7 DEF CommentsFail, Collected, StoresGrow, YouTubeInv
    <3>. QED BY <3>1, Freed
  <2>. QED BY <1>2, <2>1, <2>3, <2>4, <2>5, <2>6, <2>7 DEF InvestmentStep
<1>3. ASSUME NEW w \in Workers, CollectorEnds(w) PROVE YouTubeInv'
  <2>1. StoresGrow /\ Set(w, NoTask)
    BY <1>3 DEF CollectorEnds, StoresGrow, YouTubeInv
  <2>. QED BY <2>1, Freed
<1>4. CASE UNCHANGED youtubeVars
  BY <1>4 DEF youtubeVars, YouTubeInv, CollectorInv, InvestmentInv, CommentsOf
<1>. QED BY <1>1, <1>2, <1>3, <1>4 DEF YouTubeStoreNext, MarketNext, InvestmentNext

\* A row that a query with a limit leaves out: the limit is full of rows that are
\* not older.
LEMMA LeftOut ==
    ASSUME NEW all, IsFiniteSet(all), NEW moment, NEW limit \in Nat,
           NEW chosen \in LatestOf(all, moment, limit), NEW row \in all \ chosen
    PROVE  /\ Cardinality(chosen) = limit /\ chosen \subseteq all \ {row}
           /\ \A c \in chosen : moment[c] >= moment[row]
  BY DEF LatestOf

LEMMA YouTubeInvReadable == YouTubeInv => CollectedIsReadable
<1>. SUFFICES ASSUME YouTubeInv, NEW w \in Workers
     PROVE  LET t == collecting[w]
            IN  /\ At(w, "videos", "store") => t.reported \subseteq ytVideos
                /\ At(w, "comments", "store") => t.reported \subseteq ytComments
                /\ At(w, "investment", "stored") => t.comments \subseteq DOMAIN invComments
                /\ At(w, "investment", "stored") /\ t.log # NoLog
                     /\ Cardinality(NotOlder(t.log)) < MaxLogs
                     => \A latest \in LatestLogs : \A sources \in SentimentSources(latest) :
                           \A c \in t.comments \ sources :
                              Cardinality(Rivals(t, c, latest)) >= CommentLimit
  BY DEF CollectedIsReadable
<1>. DEFINE t == collecting[w]
<1>1. CollectorInv(t)
  BY DEF YouTubeInv
<1>2. At(w, "videos", "store") => t.reported \subseteq ytVideos
  BY <1>1 DEF CollectorInv, InvestmentInv, At, NoTask
<1>3. At(w, "comments", "store") => t.reported \subseteq ytComments
  BY <1>1 DEF CollectorInv, InvestmentInv, At, NoTask
<1>4. At(w, "investment", "stored") => t.comments \subseteq DOMAIN invComments
  BY <1>1 DEF CollectorInv, InvestmentInv, At, NoTask
<1>5. ASSUME At(w, "investment", "stored"), t.log # NoLog,
             Cardinality(NotOlder(t.log)) < MaxLogs,
             NEW latest \in LatestLogs, NEW sources \in SentimentSources(latest),
             NEW c \in t.comments \ sources
      PROVE  Cardinality(Rivals(t, c, latest)) >= CommentLimit
  <2>1. /\ t.log \in DOMAIN logs /\ logs[t.log].videos = t.videos
        /\ t.comments \subseteq CommentsOf(t.videos)
        /\ t.comments \cup t.new \cup t.seen \subseteq DOMAIN invComments
        /\ \A n \in t.new, o \in t.seen : invComments[o] < invComments[n]
    BY <1>1, <1>5 DEF CollectorInv, InvestmentInv, At, NoTask
  <2>2. IsFiniteSet(DOMAIN logs)
    <3>1. DOMAIN logs = 1 .. Len(logs) /\ Len(logs) \in Nat
      BY DEF YouTubeInv
    <3>2. PICK n \in Nat : n = Len(logs)
      BY <3>1
    <3>3. IsFiniteSet(1 .. n)
      BY FS_Interval
    <3>. QED BY <3>1, <3>2, <3>3
  <2>3. t.log \in latest
    <3>. SUFFICES ASSUME t.log \notin latest PROVE FALSE
      OBVIOUS
    <3>. DEFINE moments == [n \in DOMAIN logs |-> logs[n].moment]
    <3>1. latest \in LatestOf(DOMAIN logs, moments, MaxLogs)
      BY <1>5 DEF LatestLogs
    <3>2. /\ Cardinality(latest) = MaxLogs /\ latest \subseteq DOMAIN logs \ {t.log}
          /\ \A n \in latest : moments[n] >= moments[t.log]
      <4>. HIDE DEF moments, t
      <4>. QED BY <2>1, <2>2, <3>1, LeftOut, YouTubeAssumption
    <3>3. latest \subseteq NotOlder(t.log)
      BY <2>1, <3>2 DEF NotOlder
    <3>4. NotOlder(t.log) \subseteq DOMAIN logs
      BY DEF NotOlder
    <3>. HIDE DEF t
    <3>5. IsFiniteSet(NotOlder(t.log))
      BY <2>2, <3>4, FS_Subset
    <3>6. Cardinality(latest) <= Cardinality(NotOlder(t.log))
      BY <3>3, <3>5, FS_Subset
    <3>7. Cardinality(NotOlder(t.log)) \in Nat
      BY <3>5, FS_CardinalityType
    <3>. QED BY <1>5, <3>2, <3>6, <3>7, YouTubeAssumption
  <2>4. c \in OnVideosOf(latest) \ sources
    BY <1>5, <2>1, <2>3 DEF OnVideosOf, CommentsOf
  <2>5. OnVideosOf(latest) \subseteq Comments /\ IsFiniteSet(OnVideosOf(latest))
    <3>1. OnVideosOf(latest) \subseteq Comments
      BY DEF OnVideosOf, YouTubeInv
    <3>. QED BY <3>1, FS_Subset, YouTubeAssumption
  <2>6. /\ Cardinality(sources) = CommentLimit
        /\ sources \subseteq OnVideosOf(latest) \ {c}
        /\ \A o \in sources : invComments[o] >= invComments[c]
    BY <1>5, <2>4, <2>5, LeftOut, YouTubeAssumption DEF SentimentSources
  <2>7. sources \subseteq Rivals(t, c, latest)
    <3>1. ASSUME c \in t.new, NEW o \in sources, o \in t.seen PROVE FALSE
      <4>1. invComments[o] < invComments[c] /\ invComments[o] >= invComments[c]
        BY <2>1, <2>6, <3>1
      <4>2. invComments[o] \in Nat /\ invComments[c] \in Nat
        BY <2>1, <3>1 DEF YouTubeInv
      <4>. QED BY <4>1, <4>2
    <3>. QED BY <2>6, <3>1 DEF Rivals
  <2>8. Rivals(t, c, latest) \subseteq OnVideosOf(latest)
    BY DEF Rivals
  <2>. HIDE DEF t
  <2>9. IsFiniteSet(Rivals(t, c, latest))
    BY <2>5, <2>8, FS_Subset
  <2>10. Cardinality(sources) <= Cardinality(Rivals(t, c, latest))
    BY <2>7, <2>9, FS_Subset
  <2>11. Cardinality(Rivals(t, c, latest)) \in Nat
    BY <2>9, FS_CardinalityType
  <2>. QED BY <2>6, <2>10, <2>11, YouTubeAssumption
<1>. QED BY <1>2, <1>3, <1>4, <1>5

\* What a collection says it stored is stored, all comments of an investment
\* collection with its transaction, and a comment of one whose log and
\* comments were committed is the sentiment's unless MaxLogs logs push its log out
\* or CommentLimit comments come before it, which for one it stored itself were
\* not there before it, for any workers, videos, comments and limits
\* (collect_youtube_videos_usecase.py 38-54, collect_youtube_comments_usecase.py
\* 33-45, investment_youtube_repository.py 22-104 and 145-222).
THEOREM CollectionsAreReadable == YouTubeStoreSpec => []CollectedIsReadable
  BY YouTubeInvInit, YouTubeInvNext, YouTubeInvReadable, PTL DEF YouTubeStoreSpec

(***************************************************************************)
(* StockThemes: the requests that seed.                                    *)
(***************************************************************************)

\* How many entries of SEED_DATA a request has saved so far.
SavedBy(s) ==
    IF s.phase = "save" THEN s.at - 1
    ELSE IF s.phase = "refresh" THEN s.at
    ELSE IF s.phase = "done" THEN Len(SeedData) ELSE 0

SeedTypes ==
    /\ stored \in [StockCodes -> {NoThemes} \cup SUBSET Nouns]
    /\ DOMAIN seeding = Seeds
    /\ \A r \in Seeds :
          /\ seeding[r].phase \in {"idle", "save", "refresh", "done", "failed", "dead"}
          /\ seeding[r].phase \in {"save", "refresh"} =>
                seeding[r].at \in 1 .. Len(SeedData)
          /\ seeding[r].phase \in {"save", "refresh"} =>
                DOMAIN seeding[r] = {"phase", "at", "sees"}

\* What a request has saved is in the table.
WrittenInv ==
    \A r \in Seeds : \A i \in 1 .. SavedBy(seeding[r]) :
       stored[SeedData[i].code] = SeedData[i].themes

\* A request that no other can defeat any more: it is done, or about to look
\* anew at the table, or has seen every row there is.
Unbeaten(s) ==
    \/ s.phase \in {"refresh", "done"}
    \/ s.phase = "save" /\ StoredCodes \subseteq s.sees

\* As long as no worker ends, one of the requests that began is unbeaten.
ChampionInv ==
    (\E r \in Seeds : seeding[r].phase # "idle")
      => \E r \in Seeds : seeding[r].phase = "dead" \/ Unbeaten(seeding[r])

SeedInv == SeedTypes /\ WrittenInv /\ ChampionInv

LEMMA SeedFacts ==
    /\ Len(SeedData) \in Nat
    /\ \A i \in 1 .. Len(SeedData) :
          SeedData[i].code \in StockCodes /\ SeedData[i].themes \in SUBSET Nouns
          /\ SeedData[i].themes # NoThemes
    /\ \A i, j \in 1 .. Len(SeedData) : SeedData[i].code = SeedData[j].code => i = j
<1>1. SeedData \in Seq([code : StockCodes, themes : SUBSET Nouns])
  BY StockThemesAssumption
<1>2. Len(SeedData) \in Nat /\ DOMAIN SeedData = 1 .. Len(SeedData)
  BY <1>1
<1>3. \A i \in 1 .. Len(SeedData) : SeedData[i] \in [code : StockCodes, themes : SUBSET Nouns]
  BY <1>1, ElementOfSeq
<1>. QED BY <1>2, <1>3, StockThemesAssumption

LEMMA SeedInvInit == StockThemesInit => SeedInv
<1>. SUFFICES ASSUME StockThemesInit PROVE SeedInv
  OBVIOUS
<1>1. SeedTypes
  BY DEF StockThemesInit, SeedTypes
<1>2. WrittenInv
  BY DEF StockThemesInit, WrittenInv, SavedBy
<1>3. ChampionInv
  BY DEF StockThemesInit, ChampionInv
<1>. QED BY <1>1, <1>2, <1>3 DEF SeedInv

\* A request goes on to t, and the table stays as it is.
LEMMA RequestMoves ==
    ASSUME SeedInv, NEW r \in Seeds, NEW t,
           seeding' = [seeding EXCEPT ![r] = t], UNCHANGED stored,
           t.phase \in {"save", "refresh", "done", "failed", "dead"},
           t.phase \in {"save", "refresh"} =>
              t.at \in 1 .. Len(SeedData) /\ DOMAIN t = {"phase", "at", "sees"},
           \A i \in 1 .. SavedBy(t) : stored[SeedData[i].code] = SeedData[i].themes,
           \/ t.phase = "dead" \/ Unbeaten(t)
           \/ seeding[r].phase # "dead" /\ ~Unbeaten(seeding[r]) /\ seeding[r].phase # "idle"
    PROVE  SeedInv'
<1>1. /\ DOMAIN seeding' = Seeds /\ seeding'[r] = t
      /\ \A q \in Seeds \ {r} : seeding'[q] = seeding[q]
  BY DEF SeedInv, SeedTypes
<1>2. SeedTypes'
  BY <1>1 DEF SeedInv, SeedTypes
<1>3. WrittenInv'
  BY <1>1 DEF SeedInv, WrittenInv, SavedBy
<1>4. StoredCodes' = StoredCodes
  BY DEF StoredCodes
<1>5. ChampionInv'
  <2>1. CASE t.phase = "dead" \/ Unbeaten(t)
    BY <1>1, <1>4, <2>1 DEF ChampionInv, Unbeaten
  <2>2. CASE seeding[r].phase # "dead" /\ ~Unbeaten(seeding[r]) /\ seeding[r].phase # "idle"
    <3>1. PICK q \in Seeds : seeding[q].phase = "dead" \/ Unbeaten(seeding[q])
      BY <2>2 DEF SeedInv, ChampionInv
    <3>2. q # r
      BY <2>2, <3>1
    <3>3. seeding'[q] = seeding[q]
      BY <1>1, <3>2
    <3>. QED BY <1>4, <3>1, <3>3 DEF ChampionInv, Unbeaten
  <2>. QED BY <2>1, <2>2
<1>. QED BY <1>2, <1>3, <1>5 DEF SeedInv

LEMMA SeedInvNext == SeedInv /\ [StockThemesNext]_themeVars => SeedInv'
<1>. SUFFICES ASSUME SeedInv, [StockThemesNext]_themeVars PROVE SeedInv'
  OBVIOUS
<1>. USE SeedFacts
<1>1. ASSUME NEW r \in Seeds, SeedBegins(r) PROVE SeedInv'
  <2>1. CASE SeedData = <<>>
    <3>. DEFINE t == [phase |-> "done"]
    <3>1. seeding' = [seeding EXCEPT ![r] = t]
      BY <1>1, <2>1 DEF SeedBegins
    <3>2. t.phase = "done" /\ SavedBy(t) = 0 /\ Unbeaten(t)
      BY <2>1 DEF SavedBy, Unbeaten
    <3>. HIDE DEF t
    <3>3. \A i \in 1 .. SavedBy(t) : stored[SeedData[i].code] = SeedData[i].themes
      BY <3>2
    <3>. QED BY <1>1, <3>1, <3>2, <3>3, RequestMoves DEF SeedBegins
  <2>2. CASE SeedData # <<>>
    <3>. DEFINE t == [phase |-> "save", at |-> 1, sees |-> StoredCodes]
    <3>1. seeding' = [seeding EXCEPT ![r] = t]
      BY <1>1, <2>2 DEF SeedBegins
    <3>2. /\ t.phase = "save" /\ SavedBy(t) = 0 /\ Unbeaten(t)
          /\ t.at = 1 /\ DOMAIN t = {"phase", "at", "sees"}
      BY DEF SavedBy, Unbeaten
    <3>3. 1 \in 1 .. Len(SeedData)
      BY <2>2, StockThemesAssumption, EmptySeq
    <3>. HIDE DEF t
    <3>4. \A i \in 1 .. SavedBy(t) : stored[SeedData[i].code] = SeedData[i].themes
      BY <3>2
    <3>5. UNCHANGED stored
      BY <1>1 DEF SeedBegins
    <3>6. t.phase \in {"save", "refresh", "done", "failed", "dead"}
      BY <3>2
    <3>7. t.at \in 1 .. Len(SeedData) /\ DOMAIN t = {"phase", "at", "sees"}
      BY <3>2, <3>3
    <3>. QED BY <3>1, <3>2, <3>4, <3>5, <3>6, <3>7, RequestMoves, Zenon
  <2>. QED BY <2>1, <2>2
<1>2. ASSUME NEW r \in Seeds, Save(r) PROVE SeedInv'
  <2>. DEFINE s == seeding[r]
              t == [seeding[r] EXCEPT !.phase = "refresh"]
  <2>1. /\ s.phase = "save" /\ s.at \in 1 .. Len(SeedData)
        /\ DOMAIN s = {"phase", "at", "sees"}
    BY <1>2 DEF Save, SeedInv, SeedTypes
  <2>2. PICK i \in 1 .. Len(SeedData) : i = s.at
    BY <2>1
  <2>3. stored' = [stored EXCEPT ![SeedData[i].code] = SeedData[i].themes]
    BY <1>2, <2>2 DEF Save, Saved, Entry
  <2>4. seeding' = [seeding EXCEPT ![r] = t]
    BY <1>2, Zenon DEF Save
  <2>5. t.phase = "refresh" /\ t.at = i /\ DOMAIN t = {"phase", "at", "sees"}
    BY <2>1, <2>2
  <2>. HIDE DEF t
  <2>6. /\ DOMAIN seeding' = Seeds /\ seeding'[r] = t
        /\ \A q \in Seeds \ {r} : seeding'[q] = seeding[q]
    BY <2>4 DEF SeedInv, SeedTypes
  <2>7. /\ stored'[SeedData[i].code] = SeedData[i].themes
        /\ \A c \in StockCodes \ {SeedData[i].code} : stored'[c] = stored[c]
        /\ stored' \in [StockCodes -> {NoThemes} \cup SUBSET Nouns]
    BY <2>3 DEF SeedInv, SeedTypes
  <2>8. SeedTypes'
    BY <2>5, <2>6, <2>7 DEF SeedInv, SeedTypes
  <2>9. \A q \in Seeds : SavedBy(seeding[q]) \in Nat /\ SavedBy(seeding[q]) <= Len(SeedData)
    BY DEF SavedBy, SeedInv, SeedTypes
  <2>10. ASSUME NEW q \in Seeds, NEW j \in 1 .. SavedBy(seeding'[q])
         PROVE  stored'[SeedData[j].code] = SeedData[j].themes
    <3>1. CASE j = i
      BY <2>7, <3>1
    <3>2. CASE j # i
      <4>1. SavedBy(t) = i /\ SavedBy(s) = i - 1
        BY <2>1, <2>2, <2>5 DEF SavedBy
      <4>2. j \in 1 .. SavedBy(seeding[q])
        BY <2>2, <2>6, <2>9, <3>2, <4>1
      <4>3. j \in 1 .. Len(SeedData)
        BY <2>9, <4>2
      <4>4. stored[SeedData[j].code] = SeedData[j].themes
        BY <4>2 DEF SeedInv, WrittenInv
      <4>. QED BY <2>7, <3>2, <4>3, <4>4
    <3>. QED BY <3>1, <3>2
  <2>11. ChampionInv'
    BY <2>5, <2>6 DEF ChampionInv, Unbeaten
  <2>. QED BY <2>8, <2>10, <2>11 DEF SeedInv, WrittenInv
<1>3. ASSUME NEW r \in Seeds, SaveConflicts(r) PROVE SeedInv'
  <2>. DEFINE t == [phase |-> "failed"]
  <2>1. seeding' = [seeding EXCEPT ![r] = t] /\ UNCHANGED stored
    BY <1>3 DEF SaveConflicts
  <2>2. t.phase = "failed" /\ SavedBy(t) = 0
    BY DEF SavedBy
  <2>3. seeding[r].phase = "save" /\ Entry(r).code \in StockCodes
    BY <1>3 DEF SaveConflicts, Entry, SeedInv, SeedTypes
  <2>4. ~(StoredCodes \subseteq seeding[r].sees)
    BY <1>3, <2>3 DEF SaveConflicts, Finds, StoredCodes
  <2>5. ~Unbeaten(seeding[r])
    BY <2>3, <2>4 DEF Unbeaten
  <2>. HIDE DEF t
  <2>6. \A i \in 1 .. SavedBy(t) : stored[SeedData[i].code] = SeedData[i].themes
    BY <2>2
  <2>. QED BY <2>1, <2>2, <2>3, <2>5, <2>6, RequestMoves
<1>4. ASSUME NEW r \in Seeds, Refresh(r) PROVE SeedInv'
  <2>. DEFINE s == seeding[r]
  <2>1. s.phase = "refresh" /\ s.at \in 1 .. Len(SeedData) /\ UNCHANGED stored
    BY <1>4 DEF Refresh, SeedInv, SeedTypes
  <2>2. \A i \in 1 .. s.at : stored[SeedData[i].code] = SeedData[i].themes
    BY <2>1 DEF SeedInv, WrittenInv, SavedBy
  <2>3. CASE IsLast(r)
    <3>. DEFINE t == [phase |-> "done"]
    <3>1. seeding' = [seeding EXCEPT ![r] = t]
      BY <1>4, <2>3 DEF Refresh
    <3>2. t.phase = "done" /\ SavedBy(t) = s.at /\ Unbeaten(t)
      BY <2>3 DEF SavedBy, Unbeaten, IsLast
    <3>. HIDE DEF t
    <3>. QED BY <2>1, <2>2, <3>1, <3>2, RequestMoves
  <2>4. CASE ~IsLast(r)
    <3>. DEFINE t == [phase |-> "save", at |-> seeding[r].at + 1, sees |-> StoredCodes]
    <3>1. seeding' = [seeding EXCEPT ![r] = t]
      BY <1>4, <2>4 DEF Refresh
    <3>2. /\ t.phase = "save" /\ SavedBy(t) = s.at /\ Unbeaten(t)
          /\ t.at \in 1 .. Len(SeedData) /\ DOMAIN t = {"phase", "at", "sees"}
      BY <2>1, <2>4 DEF SavedBy, Unbeaten, IsLast
    <3>. HIDE DEF t
    <3>. QED BY <2>1, <2>2, <3>1, <3>2, RequestMoves
  <2>. QED BY <2>3, <2>4
<1>5. ASSUME NEW r \in Seeds, WorkerEnds(r) PROVE SeedInv'
  <2>. DEFINE t == [phase |-> "dead"]
  <2>1. seeding' = [seeding EXCEPT ![r] = t] /\ UNCHANGED stored
    BY <1>5 DEF WorkerEnds
  <2>2. t.phase = "dead" /\ SavedBy(t) = 0
    BY DEF SavedBy
  <2>. HIDE DEF t
  <2>3. \A i \in 1 .. SavedBy(t) : stored[SeedData[i].code] = SeedData[i].themes
    BY <2>2
  <2>. QED BY <2>1, <2>2, <2>3, RequestMoves
<1>6. ASSUME UNCHANGED <<stored, seeding>> PROVE SeedInv'
  BY <1>6 DEF SeedInv, SeedTypes, WrittenInv, ChampionInv, Unbeaten, StoredCodes
<1>7. CASE CommentNext
  BY <1>6, <1>7 DEF CommentNext, CommentSaved, CommentUpdated
<1>8. CASE UNCHANGED themeVars
  BY <1>6, <1>8 DEF themeVars
<1>. QED BY <1>1, <1>2, <1>3, <1>4, <1>5, <1>7, <1>8 DEF StockThemesNext, SeedNext

LEMMA SeedInvSucceeds == SeedInv => SeedsSucceed
<1>. SUFFICES ASSUME SeedInv PROVE SeedsSucceed
  OBVIOUS
<1>1. ASSUME NEW r \in Seeds, seeding[r].phase = "done", NEW i \in DOMAIN SeedData
      PROVE  stored[SeedData[i].code] = SeedData[i].themes
  BY <1>1, StockThemesAssumption DEF SeedInv, WrittenInv, SavedBy
<1>2. ASSUME NEW q \in Seeds, seeding[q].phase # "idle",
             \A r \in Seeds : seeding[r].phase # "idle"
                => seeding[r].phase \in {"done", "failed"}
      PROVE  \E r \in Seeds : seeding[r].phase = "done"
  <2>1. PICK r \in Seeds : seeding[r].phase = "dead" \/ Unbeaten(seeding[r])
    BY <1>2 DEF SeedInv, ChampionInv
  <2>. QED BY <1>2, <2>1 DEF Unbeaten
<1>. QED BY <1>1, <1>2 DEF SeedsSucceed

\* A request that told its count has left every stock of SEED_DATA with its
\* current themes, and of the requests that began and ended one got to the end,
\* however many there are and whatever SEED_DATA is, unless a worker died
\* (seed_stock_themes_usecase.py:10-20, stock_theme_repository_impl.py:15-27).
THEOREM SeedsGetThrough == StockThemesSpec => []SeedsSucceed
  BY SeedInvInit, SeedInvNext, SeedInvSucceeds, PTL DEF StockThemesSpec

(***************************************************************************)
(* StockThemes: what a recommendation shows.                               *)
(***************************************************************************)

(* Lists, and what is computed along them.                                 *)

LEMMA PlacesCounted ==
    ASSUME NEW n \in Nat
    PROVE  IsFiniteSet(1 .. n) /\ Cardinality(1 .. n) = n
<1>1. IsFiniteSet(1 .. n)
  BY FS_Interval
<1>2. Cardinality(1 .. n) = n
  BY FS_Interval
<1>. QED BY <1>1, <1>2

LEMMA LeastNatural ==
    ASSUME NEW T, T \subseteq Nat, T # {}
    PROVE  \E n \in T : \A m \in T : n <= m
<1>. DEFINE R == OpToRel(<, Nat)
<1>1. IsWellFoundedOn(R, Nat)
  BY NatLessThanWellFounded, Zenon
<1>2. \E n \in T : \A m \in T : <<m, n>> \notin R
  <2>. HIDE DEF R
  <2>. QED BY <1>1, WFMin
<1>3. \A m, n \in Nat : m < n => <<m, n>> \in R
  BY Zenon DEF OpToRel
<1>. HIDE DEF R
<1>4. \A m, n \in T : <<m, n>> \notin R => n <= m
  BY <1>3
<1>. QED BY <1>2, <1>4

\* The values of g are computed one from the other, from base on.
Computed(g, L, base, step) ==
    g[0] = base /\ \A n \in 1 .. L : g[n] = step[<<n, g[n - 1]>>]

\* Such a function exists.
LEMMA Recursion ==
    ASSUME NEW S, NEW L, NEW base, NEW step,
           L \in Nat, base \in S, step \in [(1 .. L) \X S -> S]
    PROVE  \E g \in [0 .. L -> S] : Computed(g, L, base, step)
<1>. USE DEF Computed
<1>. DEFINE Computes(g, m) ==
        /\ g \in [0 .. m -> S]
        /\ g[0] = base /\ \A n \in 1 .. m : g[n] = step[<<n, g[n - 1]>>]
<1>. DEFINE T == {m \in Nat : m <= L /\ ~ \E g : Computes(g, m)}
<1>1. SUFFICES ASSUME T # {} PROVE FALSE
  <2>1. L \notin T => \E g : Computes(g, L)
    OBVIOUS
  <2>. QED BY <2>1
<1>2. PICK m \in T : \A k \in T : m <= k
  <2>1. T \subseteq Nat
    OBVIOUS
  <2>. HIDE DEF T
  <2>. QED BY <1>1, <2>1, LeastNatural
<1>3. m # 0
  <2>1. Computes([n \in 0 .. 0 |-> base], 0)
    OBVIOUS
  <2>. QED BY <2>1
<1>4. m - 1 \in Nat /\ ~(m <= m - 1) /\ m \in Nat /\ m <= L /\ m - 1 <= L
  BY <1>3
<1>5. m - 1 \notin T
  <2>. HIDE DEF T
  <2>. QED BY <1>2, <1>4
<1>6. PICK g : Computes(g, m - 1)
  BY <1>4, <1>5
<1>. DEFINE h == [n \in 0 .. m |-> IF n = m THEN step[<<m, g[m - 1]>>] ELSE g[n]]
<1>7. /\ h[m] = step[<<m, g[m - 1]>>]
      /\ \A n \in 0 .. (m - 1) : h[n] = g[n]
  BY <1>4
<1>8. g[m - 1] \in S /\ step[<<m, g[m - 1]>>] \in S
  BY <1>4, <1>6
<1>9. h \in [0 .. m -> S]
  BY <1>4, <1>6, <1>8
<1>. HIDE DEF h
<1>10. h[0] = base
  BY <1>4, <1>6, <1>7
<1>11. ASSUME NEW n \in 1 .. m PROVE h[n] = step[<<n, h[n - 1]>>]
  <2>1. CASE n = m
    <3>1. h[m - 1] = g[m - 1]
      BY <1>4, <1>7
    <3>. QED BY <1>7, <2>1, <3>1
  <2>2. CASE n # m
    <3>1. n \in 1 .. (m - 1) /\ n - 1 \in 0 .. (m - 1) /\ n \in 0 .. (m - 1)
      BY <1>4, <2>2
    <3>. QED BY <1>6, <1>7, <3>1
  <2>. QED BY <2>1, <2>2
<1>12. Computes(h, m)
  BY <1>9, <1>10, <1>11
<1>. QED BY <1>12

\* What holds at 0 and goes on from each number to the next holds up to L.
LEMMA UpTo ==
    ASSUME NEW L \in Nat, NEW S, 0 \in S, \A n \in 1 .. L : n - 1 \in S => n \in S
    PROVE  \A n \in 0 .. L : n \in S
<1>. DEFINE T == {n \in 0 .. L : n \notin S}
<1>1. SUFFICES ASSUME T # {} PROVE FALSE
  OBVIOUS
<1>2. PICK m \in T : \A k \in T : m <= k
  <2>1. T \subseteq Nat
    OBVIOUS
  <2>. HIDE DEF T
  <2>. QED BY <1>1, <2>1, LeastNatural
<1>3. m \in 1 .. L
  OBVIOUS
<1>4. m - 1 \in 0 .. L /\ ~(m <= m - 1)
  BY <1>3
<1>5. m - 1 \in S
  BY <1>2, <1>4
<1>. QED BY <1>3, <1>5

\* A sequence of S that is known place by place.
LEMMA SequenceOf ==
    ASSUME NEW S, NEW n \in Nat, NEW s, s \in [1 .. n -> S]
    PROVE  s \in Seq(S) /\ Len(s) = n
BY SeqDef

\* t is s with the value e at place p, what was there and behind it one further.
HasAt(t, s, p, e) ==
    /\ Len(t) = Len(s) + 1 /\ t[p] = e
    /\ \A i \in 1 .. p - 1 : t[i] = s[i]
    /\ \A i \in p .. Len(s) : t[i + 1] = s[i]

LEMMA Inserted ==
    ASSUME NEW S, NEW s \in Seq(S), NEW e \in S, NEW p \in 1 .. Len(s) + 1
    PROVE  InsertAt(s, p, e) \in Seq(S) /\ HasAt(InsertAt(s, p, e), s, p, e)
<1>1. PICK L \in Nat : L = Len(s) /\ \A i \in 1 .. L : s[i] \in S
  BY ElementOfSeq
<1>2. PICK front : front = SubSeq(s, 1, p - 1)
  OBVIOUS
<1>3. PICK back : back = SubSeq(s, p, L)
  OBVIOUS
<1>4. /\ front \in Seq(S) /\ Len(front) = p - 1
      /\ \A i \in 1 .. p - 1 : front[i] = s[i]
  <2>1. \A i \in 1 .. p - 1 : s[i] \in S
    BY <1>1
  <2>2. p - 1 \in Int /\ 1 \in Int /\ (1 <= p - 1 \/ p - 1 = 0)
    BY <1>1
  <2>3. /\ SubSeq(s, 1, p - 1) \in Seq(S)
        /\ Len(SubSeq(s, 1, p - 1)) = IF 1 <= p - 1 THEN p - 1 - 1 + 1 ELSE 0
        /\ \A i \in 1 .. p - 1 - 1 + 1 : SubSeq(s, 1, p - 1)[i] = s[1 + i - 1]
    BY <2>1, <2>2, SubSeqProperties
  <2>. QED BY <1>1, <1>2, <2>2, <2>3
<1>5. /\ back \in Seq(S) /\ Len(back) = L - p + 1
      /\ \A i \in 1 .. L - p + 1 : back[i] = s[p + i - 1]
  <2>1. \A i \in p .. L : s[i] \in S
    BY <1>1
  <2>2. p \in Int /\ L \in Int /\ (p <= L \/ p = L + 1)
    BY <1>1
  <2>3. /\ SubSeq(s, p, L) \in Seq(S)
        /\ Len(SubSeq(s, p, L)) = IF p <= L THEN L - p + 1 ELSE 0
        /\ \A i \in 1 .. L - p + 1 : SubSeq(s, p, L)[i] = s[p + i - 1]
    BY <2>1, <2>2, SubSeqProperties
  <2>. QED BY <1>1, <1>3, <2>2, <2>3
<1>6. PICK one : one = <<e>>
  OBVIOUS
<1>7. one \in Seq(S) /\ Len(one) = 1 /\ one[1] = e
  BY <1>6
<1>8. PICK both : both = front \o one
  OBVIOUS
<1>9. /\ both \in Seq(S) /\ Len(both) = p
      /\ both[p] = e /\ \A i \in 1 .. p - 1 : both[i] = s[i]
  <2>1. /\ both \in Seq(S) /\ Len(both) = Len(front) + Len(one)
        /\ \A i \in 1 .. Len(front) + Len(one) :
              both[i] = IF i <= Len(front) THEN front[i] ELSE one[i - Len(front)]
    BY <1>4, <1>7, <1>8, ConcatProperties, Zenon
  <2>. QED BY <1>1, <1>4, <1>7, <2>1
<1>10. PICK t : t = both \o back
  OBVIOUS
<1>11. /\ t \in Seq(S) /\ Len(t) = L + 1
       /\ \A i \in 1 .. L + 1 : t[i] = IF i <= p THEN both[i] ELSE back[i - p]
  <2>1. /\ t \in Seq(S) /\ Len(t) = Len(both) + Len(back)
        /\ \A i \in 1 .. Len(both) + Len(back) :
              t[i] = IF i <= Len(both) THEN both[i] ELSE back[i - Len(both)]
    BY <1>5, <1>9, <1>10, ConcatProperties, Zenon
  <2>2. Len(both) = p /\ Len(both) + Len(back) = L + 1
    BY <1>1, <1>5, <1>9
  <2>. QED BY <2>1, <2>2
<1>12. InsertAt(s, p, e) = t
  BY <1>1, <1>2, <1>3, <1>6, <1>8, <1>10 DEF InsertAt
<1>13. t[p] = e /\ \A i \in 1 .. p - 1 : t[i] = s[i]
  BY <1>1, <1>9, <1>11
<1>14. ASSUME NEW i \in p .. L PROVE t[i + 1] = s[i]
  <2>1. i + 1 \in 1 .. L + 1 /\ ~(i + 1 <= p) /\ i + 1 - p \in 1 .. L - p + 1
    BY <1>1
  <2>2. t[i + 1] = back[i + 1 - p] /\ p + (i + 1 - p) - 1 = i
    BY <1>1, <1>11, <2>1
  <2>. QED BY <1>5, <2>1, <2>2
<1>15. Len(t) = Len(s) + 1 /\ \A i \in p .. Len(s) : t[i + 1] = s[i]
  BY <1>1, <1>11, <1>14
<1>16. HasAt(t, s, p, e)
  BY <1>13, <1>15, Zenon DEF HasAt
<1>. QED BY <1>11, <1>12, <1>16

\* A sequence without a value is one of the same values.
LEMMA Removed ==
    ASSUME NEW S, NEW s \in Seq(S), NEW i \in 1 .. Len(s)
    PROVE  RemoveAt(s, i) \in Seq(S) /\ Len(RemoveAt(s, i)) = Len(s) - 1
<1>1. PICK L \in Nat : L = Len(s) /\ \A k \in 1 .. L : s[k] \in S
  BY ElementOfSeq
<1>2. PICK front : front = SubSeq(s, 1, i - 1)
  OBVIOUS
<1>3. PICK back : back = SubSeq(s, i + 1, L)
  OBVIOUS
<1>4. front \in Seq(S) /\ Len(front) = i - 1
  <2>1. \A k \in 1 .. i - 1 : s[k] \in S
    BY <1>1
  <2>2. i - 1 \in Int /\ 1 \in Int /\ (1 <= i - 1 \/ i - 1 = 0)
    BY <1>1
  <2>3. /\ SubSeq(s, 1, i - 1) \in Seq(S)
        /\ Len(SubSeq(s, 1, i - 1)) = IF 1 <= i - 1 THEN i - 1 - 1 + 1 ELSE 0
    BY <2>1, <2>2, SubSeqProperties
  <2>. QED BY <1>1, <1>2, <2>2, <2>3
<1>5. back \in Seq(S) /\ Len(back) = L - i
  <2>1. \A k \in i + 1 .. L : s[k] \in S
    BY <1>1
  <2>2. i + 1 \in Int /\ L \in Int /\ (i + 1 <= L \/ i = L)
    BY <1>1
  <2>3. /\ SubSeq(s, i + 1, L) \in Seq(S)
        /\ Len(SubSeq(s, i + 1, L)) = IF i + 1 <= L THEN L - (i + 1) + 1 ELSE 0
    BY <2>1, <2>2, SubSeqProperties
  <2>. QED BY <1>1, <1>3, <2>2, <2>3
<1>6. front \o back \in Seq(S) /\ Len(front \o back) = Len(front) + Len(back)
  BY <1>4, <1>5, ConcatProperties, Zenon
<1>7. RemoveAt(s, i) = front \o back
  BY <1>1, <1>2, <1>3, Zenon DEF RemoveAt
<1>8. i - 1 + (L - i) = Len(s) - 1
  BY <1>1
<1>. QED BY <1>4, <1>5, <1>6, <1>7, <1>8

-----------------------------------------------------------------------------
(* Sorting: the beginning of a list, and of it what SortedBy has inserted. *)

\* s holds the first n of list, in falling order of their keys, and those of
\* equal key in their order.
Sorts(s, list, key, n) ==
    /\ Len(s) = n
    /\ \A a \in 1 .. n : \E i \in 1 .. n : s[i] = list[a]
    /\ \A i \in 1 .. n : \E a \in 1 .. n : s[i] = list[a]
    /\ \A i, j \in 1 .. n, a, b \in 1 .. n :
          i < j /\ s[i] = list[a] /\ s[j] = list[b] =>
             key[s[i]] > key[s[j]] \/ (key[s[i]] = key[s[j]] /\ a < b)

\* The place is behind those whose key is not smaller, and those are a beginning.
LEMMA PlaceFound ==
    ASSUME NEW K, NEW key, NEW s \in Seq(K), NEW x, key[x] \in Int,
           \A i \in 1 .. Len(s) : key[s[i]] \in Int,
           \A i, j \in 1 .. Len(s) : i < j => key[s[i]] >= key[s[j]]
    PROVE  /\ Place(s, x, key) \in 1 .. Len(s) + 1
           /\ \A i \in 1 .. Len(s) : i < Place(s, x, key) <=> key[s[i]] >= key[x]
<1>1. PICK L \in Nat : L = Len(s) /\ DOMAIN s = 1 .. L
  BY LenProperties
<1>2. PICK A : A = {i \in 1 .. L : key[s[i]] >= key[x]}
  OBVIOUS
<1>. DEFINE T == {i \in 1 .. L + 1 : i \notin A}
<1>3. L + 1 \in T /\ T \subseteq Nat
  BY <1>2
<1>4. PICK q \in T : \A k \in T : q <= k
  <2>. HIDE DEF T
  <2>. QED BY <1>3, LeastNatural
<1>5. q \in 1 .. L + 1 /\ q \notin A
  OBVIOUS
<1>6. ASSUME NEW i \in 1 .. L PROVE i \in A <=> i < q
  <2>1. CASE i < q
    <3>1. i \notin T
      BY <1>4, <1>5, <2>1
    <3>. QED BY <2>1, <3>1
  <2>2. CASE i = q
    BY <1>5, <2>2
  <2>3. CASE q < i
    <3>1. q \in 1 .. L /\ key[s[q]] \in Int /\ key[s[i]] \in Int /\ key[s[q]] >= key[s[i]]
      BY <1>1, <1>5, <2>3
    <3>2. ~(key[s[q]] >= key[x])
      BY <1>2, <1>5, <3>1
    <3>3. ~(key[s[i]] >= key[x])
      BY <3>1, <3>2
    <3>. QED BY <1>2, <1>5, <2>3, <3>3
  <2>. QED BY <1>5, <2>1, <2>2, <2>3
<1>7. A = 1 .. q - 1
  <2>1. A \subseteq 1 .. L
    BY <1>2
  <2>. HIDE DEF T
  <2>2. ASSUME NEW i \in A PROVE i \in 1 .. q - 1
    <3>1. i \in 1 .. L /\ i < q
      BY <1>6, <2>1
    <3>. QED BY <1>5, <3>1
  <2>3. ASSUME NEW i \in 1 .. q - 1 PROVE i \in A
    <3>1. i \in 1 .. L /\ i < q
      BY <1>5
    <3>. QED BY <1>6, <3>1
  <2>. QED BY <2>2, <2>3
<1>8. q - 1 \in Nat
  BY <1>5
<1>9. Cardinality(A) = q - 1
  BY <1>7, <1>8, PlacesCounted
<1>10. Place(s, x, key) = q
  <2>1. Place(s, x, key) = Cardinality(A) + 1
    BY <1>1, <1>2 DEF Place
  <2>. QED BY <1>5, <1>9, <2>1
<1>. HIDE DEF T
<1>. QED BY <1>1, <1>2, <1>5, <1>6, <1>10

\* What SortedBy's recursion makes of the sequence g before n.
SortAt(list, key, n, g) == InsertAt(g[n - 1], Place(g[n - 1], list[n], key), list[n])

LEMMA SortStep ==
    ASSUME NEW K, NEW list \in Seq(K), NEW key, \A k \in K : key[k] \in Int,
           \A a, b \in 1 .. Len(list) : list[a] = list[b] => a = b,
           NEW n \in 1 .. Len(list), NEW s \in Seq(K), Sorts(s, list, key, n - 1),
           NEW t, t = InsertAt(s, Place(s, list[n], key), list[n])
    PROVE  t \in Seq(K) /\ Sorts(t, list, key, n)
<1>1. PICK L \in Nat : L = Len(list) /\ \A a \in 1 .. L : list[a] \in K
  <2>1. Len(list) \in Nat /\ \A a \in 1 .. Len(list) : list[a] \in K
    BY ElementOfSeq
  <2>. QED BY <2>1
<1>2. PICK m \in Nat : m = n - 1 /\ m + 1 = n /\ m + 1 \in 1 .. L
  BY <1>1
<1>3. Len(s) = m /\ \A i \in 1 .. m : s[i] \in K
  BY <1>2, ElementOfSeq DEF Sorts
<1>4. PICK x \in K : x = list[n]
  BY <1>1
<1>5. \A i \in 1 .. m : key[s[i]] \in Int
  BY <1>3
<1>. Sorts(s, list, key, m)
  BY <1>2, Zenon
<1>6. \A i \in 1 .. m : \E a \in 1 .. m : s[i] = list[a]
  BY Zenon DEF Sorts
<1>7. \A a \in 1 .. m : \E i \in 1 .. m : s[i] = list[a]
  BY Zenon DEF Sorts
<1>8. \A i, j \in 1 .. m, a, b \in 1 .. m :
         i < j /\ s[i] = list[a] /\ s[j] = list[b] =>
            key[s[i]] > key[s[j]] \/ (key[s[i]] = key[s[j]] /\ a < b)
  BY Zenon DEF Sorts
<1>9. \A i, j \in 1 .. m : i < j => key[s[i]] >= key[s[j]]
  <2>1. ASSUME NEW i \in 1 .. m, NEW j \in 1 .. m, i < j PROVE key[s[i]] >= key[s[j]]
    <3>1. PICK a \in 1 .. m, b \in 1 .. m : s[i] = list[a] /\ s[j] = list[b]
      BY <1>6
    <3>2. key[s[i]] > key[s[j]] \/ (key[s[i]] = key[s[j]] /\ a < b)
      BY <1>8, <2>1, <3>1
    <3>. QED BY <1>5, <3>2
  <2>. QED BY <2>1
<1>10. PICK p : p = Place(s, x, key)
  OBVIOUS
<1>11. p \in 1 .. m + 1 /\ \A i \in 1 .. m : i < p <=> key[s[i]] >= key[x]
  <2>1. key[x] \in Int
    OBVIOUS
  <2>. QED BY <1>3, <1>5, <1>9, <1>10, <2>1, PlaceFound
<1>12. /\ t \in Seq(K) /\ Len(t) = m + 1 /\ t[p] = x
       /\ \A i \in 1 .. p - 1 : t[i] = s[i]
       /\ \A i \in p .. m : t[i + 1] = s[i]
  <2>1. t = InsertAt(s, p, x) /\ p \in 1 .. Len(s) + 1
    BY <1>3, <1>4, <1>10, <1>11
  <2>2. t \in Seq(K) /\ HasAt(t, s, p, x)
    BY <1>4, <2>1, Inserted
  <2>3. /\ Len(t) = Len(s) + 1 /\ t[p] = x
        /\ \A i \in 1 .. p - 1 : t[i] = s[i]
        /\ \A i \in p .. Len(s) : t[i + 1] = s[i]
    BY <2>2, Zenon DEF HasAt
  <2>. QED BY <1>3, <2>2, <2>3
\* Where what is at a place of t comes from.
<1>13. ASSUME NEW i \in 1 .. m + 1
       PROVE  \/ i = p /\ t[i] = x
              \/ i < p /\ i \in 1 .. m /\ t[i] = s[i]
              \/ i > p /\ i - 1 \in 1 .. m /\ i - 1 >= p /\ t[i] = s[i - 1]
  <2>1. CASE i < p
    <3>1. i \in 1 .. p - 1 /\ i \in 1 .. m
      BY <1>11, <2>1
    <3>. QED BY <1>12, <2>1, <3>1
  <2>2. CASE i > p
    <3>1. i - 1 \in p .. m /\ i - 1 + 1 = i /\ i - 1 \in 1 .. m
      BY <1>11, <2>2
    <3>. QED BY <1>12, <2>2, <3>1
  <2>3. CASE i = p
    BY <1>12, <2>3
  <2>. QED BY <1>11, <2>1, <2>2, <2>3
<1>14. ASSUME NEW a \in 1 .. m + 1 PROVE \E i \in 1 .. m + 1 : t[i] = list[a]
  <2>1. CASE a = m + 1
    BY <1>2, <1>4, <1>11, <1>12, <2>1
  <2>2. CASE a # m + 1
    <3>1. a \in 1 .. m
      BY <2>2
    <3>2. PICK i \in 1 .. m : s[i] = list[a]
      BY <1>7, <3>1
    <3>3. CASE i < p
      <4>1. i \in 1 .. p - 1 /\ i \in 1 .. m + 1
        BY <1>11, <3>3
      <4>. QED BY <1>12, <3>2, <4>1
    <3>4. CASE ~(i < p)
      <4>1. i \in p .. m /\ i + 1 \in 1 .. m + 1
        BY <1>11, <3>4
      <4>. QED BY <1>12, <3>2, <4>1
    <3>. QED BY <3>3, <3>4
  <2>. QED BY <2>1, <2>2
<1>15. ASSUME NEW i \in 1 .. m + 1 PROVE \E a \in 1 .. m + 1 : t[i] = list[a]
  <2>1. CASE t[i] = x
    BY <1>2, <1>4, <2>1
  <2>2. ASSUME NEW k \in 1 .. m, t[i] = s[k] PROVE \E a \in 1 .. m + 1 : t[i] = list[a]
    <3>1. PICK a \in 1 .. m : s[k] = list[a]
      BY <1>6
    <3>2. a \in 1 .. m + 1
      OBVIOUS
    <3>. QED BY <2>2, <3>1, <3>2
  <2>. QED BY <1>13, <2>1, <2>2
\* The list has each value once, so those of s are not x.
<1>16. ASSUME NEW k \in 1 .. m, NEW a \in 1 .. m + 1, s[k] = list[a] PROVE a \in 1 .. m
  <2>1. PICK b \in 1 .. m : s[k] = list[b]
    BY <1>6
  <2>2. a \in 1 .. L /\ b \in 1 .. L
    BY <1>2
  <2>3. a = b
    BY <1>1, <1>16, <2>1, <2>2
  <2>. QED BY <2>3
<1>17. ASSUME NEW a \in 1 .. m + 1, x = list[a] PROVE a = m + 1
  <2>1. a \in 1 .. L /\ m + 1 \in 1 .. L
    BY <1>2
  <2>2. list[m + 1] = list[a]
    BY <1>2, <1>4, <1>17
  <2>. QED BY <1>1, <2>1, <2>2
<1>18. ASSUME NEW i \in 1 .. m + 1, NEW j \in 1 .. m + 1, NEW a \in 1 .. m + 1, NEW b \in 1 .. m + 1,
              i < j, t[i] = list[a], t[j] = list[b]
       PROVE  key[t[i]] > key[t[j]] \/ (key[t[i]] = key[t[j]] /\ a < b)
  <2>1. ASSUME NEW k \in 1 .. m, NEW l \in 1 .. m, k < l, t[i] = s[k], t[j] = s[l]
        PROVE  key[t[i]] > key[t[j]] \/ (key[t[i]] = key[t[j]] /\ a < b)
    <3>1. a \in 1 .. m /\ b \in 1 .. m
      BY <1>16, <1>18, <2>1
    <3>2. s[k] = list[a] /\ s[l] = list[b]
      BY <1>18, <2>1
    <3>3. key[s[k]] > key[s[l]] \/ (key[s[k]] = key[s[l]] /\ a < b)
      <4>1. k < l
        BY <2>1
      <4>. QED BY <1>8, <3>1, <3>2, <4>1
    <3>. QED BY <2>1, <3>3, Zenon
  <2>2. CASE i = p
    <3>1. t[i] = x /\ j - 1 \in 1 .. m /\ j - 1 >= p /\ t[j] = s[j - 1]
      BY <1>11, <1>13, <1>18, <2>2
    <3>2. ~(key[s[j - 1]] >= key[x])
      BY <1>11, <3>1
    <3>3. key[s[j - 1]] \in Int /\ key[x] \in Int
      BY <1>5, <3>1
    <3>4. key[x] > key[s[j - 1]]
      BY <3>2, <3>3
    <3>. QED BY <3>1, <3>4, Zenon
  <2>3. CASE j = p
    <3>1. t[j] = x /\ i < p /\ i \in 1 .. m /\ t[i] = s[i]
      BY <1>11, <1>13, <1>18, <2>3
    <3>2. key[s[i]] >= key[x] /\ key[s[i]] \in Int /\ key[x] \in Int
      BY <1>5, <1>11, <3>1
    <3>3. a \in 1 .. m /\ b = m + 1
      BY <1>16, <1>17, <1>18, <3>1
    <3>4. key[s[i]] > key[x] \/ key[s[i]] = key[x]
      BY <3>2
    <3>5. a < b
      BY <3>3
    <3>. QED BY <3>1, <3>4, <3>5, Zenon
  <2>4. CASE i # p /\ j # p
    <3>1. PICK k \in 1 .. m : t[i] = s[k] /\ ((k = i /\ i < p) \/ (k = i - 1 /\ i > p))
      BY <1>13, <2>4, Zenon
    <3>2. PICK l \in 1 .. m : t[j] = s[l] /\ ((l = j /\ j < p) \/ (l = j - 1 /\ j > p))
      BY <1>13, <2>4, Zenon
    <3>3. k < l
      BY <1>11, <1>18, <3>1, <3>2
    <3>. QED BY <2>1, <3>1, <3>2, <3>3
  <2>. QED BY <2>2, <2>3, <2>4
<1>19. \A i, j \in 1 .. m + 1, a, b \in 1 .. m + 1 :
          i < j /\ t[i] = list[a] /\ t[j] = list[b] =>
             key[t[i]] > key[t[j]] \/ (key[t[i]] = key[t[j]] /\ a < b)
  BY <1>18, Zenon
<1>20. Sorts(t, list, key, m + 1)
  BY <1>12, <1>14, <1>15, <1>19, Zenon DEF Sorts
<1>. QED BY <1>2, <1>12, <1>20, Zenon

\* SortedBy sorts, whatever the list and its keys.
LEMMA SortedSorts ==
    ASSUME NEW K, NEW list \in Seq(K), NEW key, \A k \in K : key[k] \in Int,
           \A a, b \in 1 .. Len(list) : list[a] = list[b] => a = b
    PROVE  SortedBy(list, key) \in Seq(K) /\ Sorts(SortedBy(list, key), list, key, Len(list))
<1>1. PICK L \in Nat : L = Len(list) /\ \A a \in 1 .. L : list[a] \in K
  BY ElementOfSeq
<1>2. PICK S : S = Seq(K)
  OBVIOUS
<1>. DEFINE fits(n, s) == Sorts(s, list, key, n - 1)
<1>. DEFINE insert(n, s) == InsertAt(s, Place(s, list[n], key), list[n])
<1>3. PICK step \in [(1 .. L) \X S -> S] :
         \A n \in 1 .. L, s \in S : fits(n, s) => step[<<n, s>>] = insert(n, s)
  <2>. DEFINE step == [x \in (1 .. L) \X S |->
                         IF fits(x[1], x[2]) THEN insert(x[1], x[2]) ELSE x[2]]
  <2>1. ASSUME NEW x \in (1 .. L) \X S
        PROVE  (IF fits(x[1], x[2]) THEN insert(x[1], x[2]) ELSE x[2]) \in S
    <3>1. x[1] \in 1 .. L /\ x[2] \in S
      OBVIOUS
    <3>2. ASSUME fits(x[1], x[2]) PROVE insert(x[1], x[2]) \in S
      <4>1. PICK n \in 1 .. L, s \in Seq(K) : n = x[1] /\ s = x[2]
        BY <1>2, <3>1
      <4>2. Sorts(s, list, key, n - 1)
        BY <3>2, <4>1
      <4>3. PICK t : t = InsertAt(s, Place(s, list[n], key), list[n])
        OBVIOUS
      <4>4. t \in Seq(K)
        BY <1>1, <4>2, <4>3, SortStep
      <4>. QED BY <1>2, <4>1, <4>3, <4>4
    <3>. HIDE DEF fits, insert
    <3>. QED BY <3>1, <3>2
  <2>. HIDE DEF fits, insert
  <2>2. step \in [(1 .. L) \X S -> S]
    BY <2>1
  <2>3. \A n \in 1 .. L, s \in S : fits(n, s) => step[<<n, s>>] = insert(n, s)
    OBVIOUS
  <2>. HIDE DEF step
  <2>. QED BY <2>2, <2>3
<1>4. <<>> \in S
  BY <1>2
<1>5. PICK g \in [0 .. L -> S] : Computed(g, L, <<>>, step)
  BY <1>4, Recursion
<1>6. \A n \in 0 .. L : n \in {k \in 0 .. L : Sorts(g[k], list, key, k)}
  <2>. DEFINE G == {k \in 0 .. L : Sorts(g[k], list, key, k)}
  <2>1. 0 \in G
    BY <1>5 DEF Computed, Sorts
  <2>2. ASSUME NEW n \in 1 .. L, n - 1 \in G PROVE n \in G
    <3>1. n - 1 \in 0 .. L /\ Sorts(g[n - 1], list, key, n - 1) /\ g[n - 1] \in S
      BY <2>2
    <3>2. g[n] = step[<<n, g[n - 1]>>]
      BY <1>5 DEF Computed
    <3>3. g[n] = insert(n, g[n - 1])
      BY <1>3, <3>1, <3>2
    <3>4. Sorts(g[n], list, key, n)
      BY <1>1, <1>2, <3>1, <3>3, SortStep
    <3>. QED BY <3>4
  <2>. HIDE DEF G
  <2>3. \A n \in 0 .. L : n \in G
    BY <2>1, <2>2, UpTo
  <2>. QED BY <2>3 DEF G
<1>7. ASSUME NEW n \in 1 .. L PROVE g[n] = SortAt(list, key, n, g)
  <2>1. n - 1 \in 0 .. L
    OBVIOUS
  <2>2. Sorts(g[n - 1], list, key, n - 1) /\ g[n - 1] \in S
    BY <1>6, <2>1
  <2>3. g[n] = step[<<n, g[n - 1]>>]
    BY <1>5 DEF Computed
  <2>. QED BY <1>3, <2>2, <2>3 DEF SortAt
<1>8. g = [n \in 0 .. L |-> IF n = 0 THEN <<>> ELSE SortAt(list, key, n, g)]
  <2>1. \A n \in 0 .. L : g[n] = IF n = 0 THEN <<>> ELSE SortAt(list, key, n, g)
    BY <1>5, <1>7 DEF Computed
  <2>. QED BY <1>5, <2>1
<1>. DEFINE sorted[n \in 0 .. Len(list)] ==
                IF n = 0 THEN <<>>
                ELSE InsertAt(sorted[n - 1], Place(sorted[n - 1], list[n], key), list[n])
<1>9. SortedBy(list, key) = sorted[Len(list)]
  BY Zenon DEF SortedBy
<1>10. \E f : f = [n \in 0 .. Len(list) |-> IF n = 0 THEN <<>> ELSE SortAt(list, key, n, f)]
  BY <1>1, <1>8
<1>11. sorted = [n \in 0 .. Len(list) |-> IF n = 0 THEN <<>> ELSE SortAt(list, key, n, sorted)]
  BY <1>10, Zenon DEF SortAt
<1>. HIDE DEF sorted
<1>12. sorted[0] = <<>> /\ \A n \in 1 .. L : sorted[n] = SortAt(list, key, n, sorted)
  <2>1. 0 \in 0 .. Len(list)
    BY <1>1
  <2>2. \A n \in 1 .. L : n \in 0 .. Len(list) /\ n # 0
    BY <1>1
  <2>. QED BY <1>11, <2>1, <2>2, Zenon
<1>13. \A n \in 0 .. L : n \in {k \in 0 .. L : sorted[k] = g[k]}
  <2>. DEFINE G == {k \in 0 .. L : sorted[k] = g[k]}
  <2>1. 0 \in G
    BY <1>5, <1>12 DEF Computed
  <2>2. ASSUME NEW n \in 1 .. L, n - 1 \in G PROVE n \in G
    <3>1. PICK s : s = g[n - 1] /\ s = sorted[n - 1]
      BY <2>2
    <3>2. g[n] = InsertAt(s, Place(s, list[n], key), list[n])
      BY <1>7, <3>1, Zenon DEF SortAt
    <3>3. sorted[n] = InsertAt(s, Place(s, list[n], key), list[n])
      BY <1>12, <3>1, Zenon DEF SortAt
    <3>4. n \in 0 .. L
      OBVIOUS
    <3>. QED BY <3>2, <3>3, <3>4
  <2>. HIDE DEF G
  <2>3. \A n \in 0 .. L : n \in G
    BY <2>1, <2>2, UpTo
  <2>. QED BY <2>3 DEF G
<1>14. sorted[L] = g[L] /\ Sorts(g[L], list, key, L) /\ g[L] \in S
  BY <1>6, <1>13
<1>. QED BY <1>1, <1>2, <1>9, <1>14

\* s has each value once.
Once(s, n) == \A i, j \in 1 .. n : s[i] = s[j] => i = j

\* What is sorted has each value once, and falls.
LEMMA SortedOnce ==
    ASSUME NEW list, NEW key, NEW n \in Nat, NEW s, Sorts(s, list, key, n),
           \A i \in 1 .. n : key[s[i]] \in Int
    PROVE  /\ Once(s, n)
           /\ \A i, j \in 1 .. n : i < j => key[s[i]] >= key[s[j]]
<1>1. \A i \in 1 .. n : \E a \in 1 .. n : s[i] = list[a]
  BY DEF Sorts
<1>2. ASSUME NEW i \in 1 .. n, NEW j \in 1 .. n, i < j
      PROVE  s[i] # s[j] /\ key[s[i]] >= key[s[j]]
  <2>1. PICK a \in 1 .. n, b \in 1 .. n : s[i] = list[a] /\ s[j] = list[b]
    BY <1>1
  <2>2. key[s[i]] > key[s[j]] \/ (key[s[i]] = key[s[j]] /\ a < b)
    BY <1>2, <2>1 DEF Sorts
  <2>3. key[s[i]] \in Int /\ key[s[j]] \in Int
    OBVIOUS
  <2>4. ASSUME s[i] = s[j] PROVE FALSE
    <3>1. s[i] = list[a] /\ s[j] = list[a]
      BY <2>1, <2>4
    <3>2. key[s[i]] > key[s[j]] \/ (key[s[i]] = key[s[j]] /\ a < a)
      BY <1>2, <3>1 DEF Sorts
    <3>. QED BY <2>3, <2>4, <3>2
  <2>. QED BY <2>2, <2>3, <2>4
<1>3. \A i, j \in 1 .. n : s[i] = s[j] => i = j
  BY <1>2
<1>4. Once(s, n)
  BY <1>3, Zenon DEF Once
<1>. QED BY <1>2, <1>4

\* A sequence that has each value once has as many as it is long.
LEMMA OnceCounted ==
    ASSUME NEW s, NEW n \in Nat, \A i, j \in 1 .. n : s[i] = s[j] => i = j,
           NEW V, \A i \in 1 .. n : s[i] \in V, \A x \in V : \E i \in 1 .. n : s[i] = x
    PROVE  IsFiniteSet(V) /\ Cardinality(V) = n
<1>1. PICK I : I = 1 .. n
  OBVIOUS
<1>. DEFINE f == [i \in I |-> s[i]]
<1>3. f \in [I -> V] /\ \A i \in I : f[i] = s[i]
  BY <1>1
<1>. HIDE DEF f
<1>4. f \in Injection(I, V)
  BY <1>1, <1>3 DEF Injection, IsInjective
<1>5. f \in Surjection(I, V)
  <2>1. \A x \in V : \E i \in I : f[i] = x
    BY <1>1, <1>3
  <2>. QED BY <1>3, <2>1 DEF Surjection
<1>6. ExistsBijection(I, V)
  BY <1>4, <1>5 DEF ExistsBijection, Bijection
<1>7. IsFiniteSet(I) /\ Cardinality(I) = n
  BY <1>1, PlacesCounted
<1>8. IsFiniteSet(V) /\ Cardinality(V) = Cardinality(I)
  BY <1>6, <1>7, FS_Bijection
<1>. QED BY <1>7, <1>8

-----------------------------------------------------------------------------
(* Only: the codes that are in a set.                                      *)

\* s holds those of the first n codes that are in the set, in their order.
Keeps(s, codes, set, n) ==
    /\ \A i \in 1 .. Len(s) : \E a \in 1 .. n : s[i] = codes[a] /\ codes[a] \in set
    /\ \A a \in 1 .. n : codes[a] \in set => \E i \in 1 .. Len(s) : s[i] = codes[a]
    /\ \A i, j \in 1 .. Len(s), a, b \in 1 .. n :
          i < j /\ s[i] = codes[a] /\ s[j] = codes[b] => a < b

\* What Only's recursion makes of the sequence g before n.
OnlyAt(codes, set, n, g) == IF codes[n] \in set THEN Append(g[n - 1], codes[n]) ELSE g[n - 1]

LEMMA OnlyStep ==
    ASSUME NEW K, NEW codes \in Seq(K), NEW set,
           \A a, b \in 1 .. Len(codes) : codes[a] = codes[b] => a = b,
           NEW n \in 1 .. Len(codes), NEW s \in Seq(K), Keeps(s, codes, set, n - 1),
           NEW t, t = IF codes[n] \in set THEN Append(s, codes[n]) ELSE s
    PROVE  Keeps(t, codes, set, n)
<1>1. PICK L \in Nat : L = Len(codes) /\ \A a \in 1 .. L : codes[a] \in K
  BY ElementOfSeq
<1>2. PICK m \in Nat : m = n - 1 /\ m + 1 = n /\ m + 1 \in 1 .. L
  BY <1>1
<1>. Keeps(s, codes, set, m)
  BY <1>2, Zenon
<1>3. PICK l \in Nat : l = Len(s)
  OBVIOUS
<1>4. \A i \in 1 .. l : \E a \in 1 .. m : s[i] = codes[a] /\ codes[a] \in set
  BY <1>3 DEF Keeps
<1>5. \A a \in 1 .. m : codes[a] \in set => \E i \in 1 .. l : s[i] = codes[a]
  BY <1>3 DEF Keeps
<1>6. \A i, j \in 1 .. l, a, b \in 1 .. m : i < j /\ s[i] = codes[a] /\ s[j] = codes[b] => a < b
  BY <1>3 DEF Keeps
<1>7. PICK x \in K : x = codes[n]
  BY <1>1
<1>8. ASSUME NEW k \in 1 .. l, NEW a \in 1 .. m + 1, s[k] = codes[a] PROVE a \in 1 .. m
  <2>1. PICK b \in 1 .. m : s[k] = codes[b]
    BY <1>4
  <2>2. a \in 1 .. L /\ b \in 1 .. L
    BY <1>2
  <2>3. a = b
    BY <1>1, <1>8, <2>1, <2>2
  <2>. QED BY <2>3
<1>9. CASE x \in set
  <2>1. t = Append(s, x)
    BY <1>7, <1>9
  <2>2. /\ Len(t) = l + 1 /\ t[l + 1] = x
        /\ \A i \in 1 .. l : t[i] = s[i]
    BY <1>3, <2>1, AppendProperties
  <2>3. ASSUME NEW i \in 1 .. l + 1 PROVE \E a \in 1 .. m + 1 : t[i] = codes[a] /\ codes[a] \in set
    <3>1. CASE i = l + 1
      BY <1>2, <1>7, <1>9, <2>2, <3>1
    <3>2. CASE i # l + 1
      <4>1. i \in 1 .. l
        BY <3>2
      <4>2. PICK a \in 1 .. m : s[i] = codes[a] /\ codes[a] \in set
        BY <1>4, <4>1
      <4>3. a \in 1 .. m + 1
        OBVIOUS
      <4>. QED BY <2>2, <4>1, <4>2, <4>3
    <3>. QED BY <3>1, <3>2
  <2>4. ASSUME NEW a \in 1 .. m + 1, codes[a] \in set PROVE \E i \in 1 .. l + 1 : t[i] = codes[a]
    <3>1. CASE a = m + 1
      BY <1>2, <1>7, <2>2, <3>1
    <3>2. CASE a # m + 1
      <4>1. a \in 1 .. m
        BY <3>2
      <4>2. PICK i \in 1 .. l : s[i] = codes[a]
        BY <1>5, <2>4, <4>1
      <4>3. i \in 1 .. l + 1
        OBVIOUS
      <4>. QED BY <2>2, <4>2, <4>3
    <3>. QED BY <3>1, <3>2
  <2>5. ASSUME NEW i \in 1 .. l + 1, NEW j \in 1 .. l + 1, NEW a \in 1 .. m + 1, NEW b \in 1 .. m + 1,
               i < j, t[i] = codes[a], t[j] = codes[b]
        PROVE  a < b
    <3>1. i \in 1 .. l /\ t[i] = s[i]
      BY <2>2, <2>5
    <3>2. a \in 1 .. m
      BY <1>8, <2>5, <3>1
    <3>3. CASE j = l + 1
      <4>1. codes[b] = codes[m + 1] /\ b \in 1 .. L /\ m + 1 \in 1 .. L
        BY <1>2, <1>7, <2>2, <2>5, <3>3
      <4>2. b = m + 1
        BY <1>1, <4>1
      <4>. QED BY <3>2, <4>2
    <3>4. CASE j # l + 1
      <4>1. j \in 1 .. l /\ t[j] = s[j]
        BY <2>2, <3>4
      <4>2. b \in 1 .. m
        BY <1>8, <2>5, <4>1
      <4>3. s[i] = codes[a] /\ s[j] = codes[b] /\ i < j
        BY <2>5, <3>1, <4>1
      <4>. QED BY <1>6, <3>1, <3>2, <4>1, <4>2, <4>3
    <3>. QED BY <3>3, <3>4
  <2>6. /\ \A i \in 1 .. Len(t) : \E a \in 1 .. m + 1 : t[i] = codes[a] /\ codes[a] \in set
        /\ \A a \in 1 .. m + 1 : codes[a] \in set => \E i \in 1 .. Len(t) : t[i] = codes[a]
    <3>1. Len(t) = l + 1
      BY <2>2
    <3>2. \A i \in 1 .. l + 1 : \E a \in 1 .. m + 1 : t[i] = codes[a] /\ codes[a] \in set
      BY <2>3
    <3>3. \A a \in 1 .. m + 1 : codes[a] \in set => \E i \in 1 .. l + 1 : t[i] = codes[a]
      BY <2>4
    <3>. QED BY <3>1, <3>2, <3>3, Zenon
  <2>7. \A i, j \in 1 .. Len(t), a, b \in 1 .. m + 1 :
           i < j /\ t[i] = codes[a] /\ t[j] = codes[b] => a < b
    <3>1. Len(t) = l + 1
      BY <2>2
    <3>2. \A i, j \in 1 .. l + 1, a, b \in 1 .. m + 1 :
             i < j /\ t[i] = codes[a] /\ t[j] = codes[b] => a < b
      BY <2>5
    <3>. QED BY <3>1, <3>2, Zenon
  <2>8. Keeps(t, codes, set, m + 1)
    BY <2>6, <2>7, Zenon DEF Keeps
  <2>. QED BY <1>2, <2>8, Zenon
<1>10. CASE x \notin set
  <2>1. t = s
    BY <1>7, <1>10
  <2>2. ASSUME NEW i \in 1 .. l PROVE \E a \in 1 .. m + 1 : t[i] = codes[a] /\ codes[a] \in set
    <3>1. PICK a \in 1 .. m : s[i] = codes[a] /\ codes[a] \in set
      BY <1>4
    <3>2. a \in 1 .. m + 1
      OBVIOUS
    <3>. QED BY <2>1, <3>1, <3>2
  <2>3. ASSUME NEW a \in 1 .. m + 1, codes[a] \in set PROVE \E i \in 1 .. l : t[i] = codes[a]
    <3>1. a # m + 1
      BY <1>2, <1>7, <1>10, <2>3
    <3>2. a \in 1 .. m
      BY <3>1
    <3>. QED BY <1>5, <2>1, <2>3, <3>2
  <2>4. ASSUME NEW i \in 1 .. l, NEW j \in 1 .. l, NEW a \in 1 .. m + 1, NEW b \in 1 .. m + 1,
               i < j, t[i] = codes[a], t[j] = codes[b]
        PROVE  a < b
    <3>1. a \in 1 .. m /\ b \in 1 .. m
      BY <1>8, <2>1, <2>4
    <3>. QED BY <1>6, <2>1, <2>4, <3>1
  <2>5. /\ \A i \in 1 .. Len(t) : \E a \in 1 .. m + 1 : t[i] = codes[a] /\ codes[a] \in set
        /\ \A a \in 1 .. m + 1 : codes[a] \in set => \E i \in 1 .. Len(t) : t[i] = codes[a]
    BY <1>3, <2>1, <2>2, <2>3
  <2>6. \A i, j \in 1 .. Len(t), a, b \in 1 .. m + 1 :
           i < j /\ t[i] = codes[a] /\ t[j] = codes[b] => a < b
    BY <1>3, <2>1, <2>4
  <2>7. Keeps(t, codes, set, m + 1)
    BY <2>5, <2>6, Zenon DEF Keeps
  <2>. QED BY <1>2, <2>7, Zenon
<1>. QED BY <1>9, <1>10

LEMMA OnlyKeeps ==
    ASSUME NEW K, NEW codes \in Seq(K), NEW set,
           \A a, b \in 1 .. Len(codes) : codes[a] = codes[b] => a = b
    PROVE  Only(codes, set) \in Seq(K) /\ Keeps(Only(codes, set), codes, set, Len(codes))
<1>1. PICK L \in Nat : L = Len(codes) /\ \A a \in 1 .. L : codes[a] \in K
  BY ElementOfSeq
<1>2. PICK S : S = Seq(K)
  OBVIOUS
<1>3. PICK step \in [(1 .. L) \X S -> S] :
         \A n \in 1 .. L, s \in S :
            step[<<n, s>>] = IF codes[n] \in set THEN Append(s, codes[n]) ELSE s
  <2>. DEFINE step == [x \in (1 .. L) \X S |->
                         IF codes[x[1]] \in set THEN Append(x[2], codes[x[1]]) ELSE x[2]]
  <2>1. ASSUME NEW x \in (1 .. L) \X S
        PROVE  (IF codes[x[1]] \in set THEN Append(x[2], codes[x[1]]) ELSE x[2]) \in S
    <3>1. x[1] \in 1 .. L /\ x[2] \in S /\ codes[x[1]] \in K
      BY <1>1
    <3>. QED BY <1>2, <3>1, AppendProperties
  <2>2. step \in [(1 .. L) \X S -> S]
    BY <2>1
  <2>3. \A n \in 1 .. L, s \in S :
          step[<<n, s>>] = IF codes[n] \in set THEN Append(s, codes[n]) ELSE s
    OBVIOUS
  <2>. HIDE DEF step
  <2>. QED BY <2>2, <2>3
<1>4. <<>> \in S
  BY <1>2
<1>5. PICK g \in [0 .. L -> S] : Computed(g, L, <<>>, step)
  BY <1>4, Recursion
<1>6. ASSUME NEW n \in 1 .. L PROVE g[n] = OnlyAt(codes, set, n, g) /\ g[n - 1] \in S
  <2>1. n - 1 \in 0 .. L
    BY <1>1
  <2>2. g[n - 1] \in S
    BY <1>5, <2>1
  <2>3. g[n] = step[<<n, g[n - 1]>>]
    BY <1>5 DEF Computed
  <2>. QED BY <1>3, <2>2, <2>3 DEF OnlyAt
<1>7. g = [n \in 0 .. L |-> IF n = 0 THEN <<>> ELSE OnlyAt(codes, set, n, g)]
  <2>1. \A n \in 0 .. L : g[n] = IF n = 0 THEN <<>> ELSE OnlyAt(codes, set, n, g)
    BY <1>5, <1>6 DEF Computed
  <2>. QED BY <1>5, <2>1
<1>. DEFINE kept[n \in 0 .. Len(codes)] ==
                IF n = 0 THEN <<>>
                ELSE IF codes[n] \in set THEN Append(kept[n - 1], codes[n]) ELSE kept[n - 1]
<1>8. Only(codes, set) = kept[Len(codes)]
  BY Zenon DEF Only
<1>9. \E f : f = [n \in 0 .. Len(codes) |-> IF n = 0 THEN <<>> ELSE OnlyAt(codes, set, n, f)]
  BY <1>1, <1>7
<1>10. kept = [n \in 0 .. Len(codes) |-> IF n = 0 THEN <<>> ELSE OnlyAt(codes, set, n, kept)]
  BY <1>9, Zenon DEF OnlyAt
<1>. HIDE DEF kept
<1>11. kept[0] = <<>> /\ \A n \in 1 .. L : kept[n] = OnlyAt(codes, set, n, kept)
  <2>1. 0 \in 0 .. Len(codes)
    BY <1>1
  <2>2. \A n \in 1 .. L : n \in 0 .. Len(codes) /\ n # 0
    BY <1>1
  <2>. QED BY <1>10, <2>1, <2>2, Zenon
<1>. DEFINE G == {k \in 0 .. L : kept[k] \in Seq(K) /\ Keeps(kept[k], codes, set, k)}
<1>12. 0 \in G
  <2>1. Keeps(<<>>, codes, set, 0)
    BY DEF Keeps
  <2>2. <<>> \in Seq(K)
    OBVIOUS
  <2>3. kept[0] \in Seq(K) /\ Keeps(kept[0], codes, set, 0)
    BY <1>11, <2>1, <2>2, Zenon
  <2>. QED BY <2>3
<1>13. ASSUME NEW n \in 1 .. L, n - 1 \in G PROVE n \in G
  <2>1. PICK s \in Seq(K) : s = kept[n - 1]
    BY <1>13
  <2>2. Keeps(s, codes, set, n - 1)
    BY <1>13, <2>1
  <2>3. PICK t : t = IF codes[n] \in set THEN Append(s, codes[n]) ELSE s
    OBVIOUS
  <2>4. t \in Seq(K)
    BY <1>1, <2>3, AppendProperties
  <2>5. Keeps(t, codes, set, n)
    BY <1>1, <2>2, <2>3, OnlyStep
  <2>6. kept[n] = t
    BY <1>11, <2>1, <2>3 DEF OnlyAt
  <2>. QED BY <2>4, <2>5, <2>6
<1>. HIDE DEF G
<1>14. L \in G
  <2>1. \A n \in 0 .. L : n \in G
    BY <1>12, <1>13, UpTo
  <2>. QED BY <1>1, <2>1
<1>. QED BY <1>1, <1>8, <1>14 DEF G

-----------------------------------------------------------------------------
(* Dictionaries, and the counters that are kept in them.                   *)

Dictionaries(K, V) == UNION {[D -> V] : D \in SUBSET K}

\* h is f but for the value v of k.
Sets(h, f, k, v) ==
    /\ DOMAIN h = DOMAIN f \cup {k}
    /\ h[k] = v
    /\ \A x \in DOMAIN f \ {k} : h[x] = f[x]

LEMMA DictionaryWith ==
    ASSUME NEW K, NEW V, NEW f \in Dictionaries(K, V), NEW k \in K, NEW v \in V
    PROVE  Assigned(f, k, v) \in Dictionaries(K, V) /\ Sets(Assigned(f, k, v), f, k, v)
<1>1. PICK D \in SUBSET K : f \in [D -> V]
  BY DEF Dictionaries
<1>2. PICK E : E = D \cup {k}
  OBVIOUS
<1>3. DOMAIN f = D /\ \A x \in D : f[x] \in V
  BY <1>1
<1>4. PICK h : h = [x \in E |-> IF x = k THEN v ELSE f[x]]
  OBVIOUS
<1>5. Assigned(f, k, v) = h
  BY <1>2, <1>3, <1>4 DEF Assigned
<1>6. h \in [E -> V]
  BY <1>2, <1>3, <1>4
<1>7. DOMAIN h = E /\ h[k] = v /\ \A x \in D \ {k} : h[x] = f[x]
  BY <1>2, <1>4
<1>8. E \in SUBSET K
  BY <1>2
<1>9. h \in Dictionaries(K, V)
  BY <1>6, <1>8 DEF Dictionaries
<1>10. Sets(h, f, k, v)
  BY <1>2, <1>3, <1>7 DEF Sets
<1>. QED BY <1>5, <1>9, <1>10

CountersOf(K) == [keys : Seq(K), count : Dictionaries(K, Nat)]

\* said[n][k] is what the first n amounts make for k.
Adds(said, K, ks, ns, L) ==
    /\ said \in [0 .. L -> [K -> Nat]]
    /\ \A k \in K : said[0][k] = 0
    /\ \A n \in 1 .. L, k \in K :
          said[n][k] = said[n - 1][k] + IF ks[n] = k THEN ns[n] ELSE 0

\* The counter t has each key once, those of the first n, with what they make.
Tallied(t, K, ks, said, n) ==
    /\ \A i, j \in 1 .. Len(t.keys) : t.keys[i] = t.keys[j] => i = j
    /\ \A i \in 1 .. Len(t.keys) : t.keys[i] \in DOMAIN t.count
    /\ \A k \in DOMAIN t.count :
          /\ \E i \in 1 .. Len(t.keys) : t.keys[i] = k
          /\ \E a \in 1 .. n : ks[a] = k
    /\ \A a \in 1 .. n : ks[a] \in DOMAIN t.count
    /\ \A k \in K : IF k \in DOMAIN t.count THEN t.count[k] = said[n][k] ELSE said[n][k] = 0

LEMMA TallyStep ==
    ASSUME NEW K, NEW L \in Nat, NEW ks, \A a \in 1 .. L : ks[a] \in K,
           NEW ns, \A a \in 1 .. L : ns[a] \in Nat, NEW said, Adds(said, K, ks, ns, L),
           NEW n \in 1 .. L, NEW t \in CountersOf(K), Tallied(t, K, ks, said, n - 1)
    PROVE  /\ Plus(t, ks[n], ns[n]) \in CountersOf(K)
           /\ Tallied(Plus(t, ks[n], ns[n]), K, ks, said, n)
<1>1. PICK m \in Nat : m = n - 1 /\ m + 1 = n /\ m + 1 \in 1 .. L /\ m \in 0 .. L
  OBVIOUS
<1>2. PICK x \in K : x = ks[n]
  OBVIOUS
<1>3. PICK y \in Nat : y = ns[n]
  OBVIOUS
<1>4. PICK q \in Seq(K) : q = t.keys
  BY DEF CountersOf
<1>5. PICK f \in Dictionaries(K, Nat) : f = t.count
  BY DEF CountersOf
<1>6. PICK l \in Nat : l = Len(q)
  OBVIOUS
<1>. Tallied(t, K, ks, said, m)
  BY <1>1, Zenon
<1>7. /\ \A i, j \in 1 .. l : q[i] = q[j] => i = j
      /\ \A i \in 1 .. l : q[i] \in DOMAIN f
      /\ \A k \in DOMAIN f : \E i \in 1 .. l : q[i] = k
      /\ \A k \in DOMAIN f : \E a \in 1 .. m : ks[a] = k
  BY <1>4, <1>5, <1>6 DEF Tallied
<1>8. /\ \A a \in 1 .. m : ks[a] \in DOMAIN f
      /\ \A k \in K : IF k \in DOMAIN f THEN f[k] = said[m][k] ELSE said[m][k] = 0
  BY <1>5 DEF Tallied
<1>9. PICK v : v = IF x \in DOMAIN f THEN f[x] + y ELSE y
  OBVIOUS
<1>10. DOMAIN f \subseteq K /\ \A k \in DOMAIN f : f[k] \in Nat
  <2>1. PICK D \in SUBSET K : f \in [D -> Nat]
    BY DEF Dictionaries
  <2>. QED BY <2>1
<1>11. v \in Nat
  BY <1>9, <1>10
<1>12. PICK p : p = IF x \in DOMAIN f THEN q ELSE Append(q, x)
  OBVIOUS
<1>13. PICK h : h = Assigned(f, x, v)
  OBVIOUS
<1>14. Plus(t, ks[n], ns[n]) = [keys |-> p, count |-> h]
  BY <1>2, <1>3, <1>4, <1>5, <1>9, <1>12, <1>13 DEF Plus, IsNew
<1>15. /\ h \in Dictionaries(K, Nat) /\ DOMAIN h = DOMAIN f \cup {x}
       /\ h[x] = v /\ \A k \in DOMAIN f \ {x} : h[k] = f[k]
  <2>. PICK N : N = Nat
    OBVIOUS
  <2>. f \in Dictionaries(K, N) /\ v \in N
    BY <1>11
  <2>1. h \in Dictionaries(K, N) /\ Sets(h, f, x, v)
    BY <1>13, DictionaryWith
  <2>. QED BY <2>1 DEF Sets
<1>16. /\ p \in Seq(K) /\ Len(p) = IF x \in DOMAIN f THEN l ELSE l + 1
       /\ \A i \in 1 .. l : p[i] = q[i]
       /\ x \notin DOMAIN f => p[l + 1] = x
  BY <1>6, <1>12, AppendProperties
<1>17. PICK z \in Nat : z = Len(p)
  BY <1>16
<1>18. \A i \in 1 .. z : i \in 1 .. l \/ (i = l + 1 /\ x \notin DOMAIN f /\ p[i] = x)
  BY <1>16, <1>17
<1>19. 1 .. l \subseteq 1 .. z
  BY <1>16, <1>17
<1>20. ASSUME NEW i \in 1 .. z, NEW j \in 1 .. z, p[i] = p[j] PROVE i = j
  <2>1. CASE i \in 1 .. l /\ j \in 1 .. l
    BY <1>7, <1>16, <1>20, <2>1
  <2>2. CASE i \notin 1 .. l /\ j \notin 1 .. l
    BY <1>18, <2>2
  <2>3. ASSUME NEW a \in 1 .. l, p[a] = x, x \notin DOMAIN f PROVE FALSE
    BY <1>7, <1>16, <2>3
  <2>. QED BY <1>18, <1>20, <2>1, <2>2, <2>3
<1>21. ASSUME NEW i \in 1 .. z PROVE p[i] \in DOMAIN h
  BY <1>7, <1>15, <1>16, <1>18
<1>22. ASSUME NEW k \in DOMAIN h PROVE \E i \in 1 .. z : p[i] = k
  <2>1. CASE k \in DOMAIN f
    <3>1. PICK i \in 1 .. l : q[i] = k
      BY <1>7, <2>1
    <3>. QED BY <1>16, <1>19, <3>1
  <2>2. CASE k \notin DOMAIN f
    <3>1. k = x
      BY <1>15, <2>2
    <3>2. p[l + 1] = x /\ l + 1 \in 1 .. z
      BY <1>16, <1>17, <2>2, <3>1
    <3>. QED BY <3>1, <3>2
  <2>. QED BY <2>1, <2>2
<1>23. ASSUME NEW k \in DOMAIN h PROVE \E a \in 1 .. m + 1 : ks[a] = k
  <2>1. CASE k \in DOMAIN f
    <3>1. PICK a \in 1 .. m : ks[a] = k
      BY <1>7, <2>1
    <3>2. a \in 1 .. m + 1
      OBVIOUS
    <3>. QED BY <3>1, <3>2
  <2>2. CASE k \notin DOMAIN f
    <3>1. k = x
      BY <1>15, <2>2
    <3>. QED BY <1>1, <1>2, <3>1
  <2>. QED BY <2>1, <2>2
<1>24. ASSUME NEW a \in 1 .. m + 1 PROVE ks[a] \in DOMAIN h
  BY <1>1, <1>2, <1>8, <1>15
<1>25. ASSUME NEW k \in K
       PROVE  IF k \in DOMAIN h THEN h[k] = said[n][k] ELSE said[n][k] = 0
  <2>1. said[n][k] = said[m][k] + IF x = k THEN y ELSE 0
    BY <1>1, <1>2, <1>3 DEF Adds
  <2>2. said[m] \in [K -> Nat]
    BY <1>1 DEF Adds
  <2>3. said[m][k] \in Nat
    BY <2>2
  <2>4. CASE k = x
    <3>1. said[n][k] = said[m][k] + y /\ h[k] = v /\ k \in DOMAIN h
      BY <1>15, <2>1, <2>4
    <3>2. v = said[m][k] + y
      BY <1>8, <1>9, <2>3, <2>4
    <3>. QED BY <3>1, <3>2
  <2>5. CASE k # x
    <3>1. said[n][k] = said[m][k]
      BY <2>1, <2>3, <2>5
    <3>2. k \in DOMAIN h <=> k \in DOMAIN f
      BY <1>15, <2>5
    <3>3. k \in DOMAIN f => h[k] = f[k]
      BY <1>15, <2>5
    <3>. QED BY <1>8, <3>1, <3>2, <3>3
  <2>. QED BY <2>4, <2>5
<1>26. PICK u : u = [keys |-> p, count |-> h]
  OBVIOUS
<1>27. u.keys = p /\ u.count = h /\ u \in CountersOf(K)
  BY <1>15, <1>16, <1>26 DEF CountersOf
<1>28. Tallied(u, K, ks, said, n)
  <2>1. /\ \A i, j \in 1 .. Len(u.keys) : u.keys[i] = u.keys[j] => i = j
        /\ \A i \in 1 .. Len(u.keys) : u.keys[i] \in DOMAIN u.count
    BY <1>17, <1>20, <1>21, <1>27
  <2>2. \A k \in DOMAIN u.count :
           /\ \E i \in 1 .. Len(u.keys) : u.keys[i] = k
           /\ \E a \in 1 .. n : ks[a] = k
    BY <1>1, <1>17, <1>22, <1>23, <1>27
  <2>3. \A a \in 1 .. n : ks[a] \in DOMAIN u.count
    BY <1>1, <1>24, <1>27
  <2>4. \A k \in K : IF k \in DOMAIN u.count THEN u.count[k] = said[n][k] ELSE said[n][k] = 0
    BY <1>25, <1>27
  <2>. QED BY <2>1, <2>2, <2>3, <2>4, Zenon DEF Tallied
<1>. QED BY <1>14, <1>26, <1>27, <1>28

\* What Tally's recursion makes of the counter before n.
TallyAt(ks, ns, n, g) == Plus(g[n - 1], ks[n], ns[n])

LEMMA TallyTallies ==
    ASSUME NEW K, NEW ks \in Seq(K), NEW ns, \A a \in 1 .. Len(ks) : ns[a] \in Nat,
           NEW said, Adds(said, K, ks, ns, Len(ks))
    PROVE  Tally(ks, ns) \in CountersOf(K) /\ Tallied(Tally(ks, ns), K, ks, said, Len(ks))
<1>1. PICK L \in Nat : L = Len(ks) /\ \A a \in 1 .. L : ks[a] \in K
  BY ElementOfSeq
<1>2. PICK S : S = CountersOf(K)
  OBVIOUS
<1>. Adds(said, K, ks, ns, L)
  BY <1>1, Zenon
<1>. DEFINE fits(n, t) == Tallied(t, K, ks, said, n - 1)
<1>3. PICK step \in [(1 .. L) \X S -> S] :
         \A n \in 1 .. L, t \in S : fits(n, t) => step[<<n, t>>] = Plus(t, ks[n], ns[n])
  <2>. DEFINE step == [x \in (1 .. L) \X S |->
                         IF fits(x[1], x[2]) THEN Plus(x[2], ks[x[1]], ns[x[1]]) ELSE x[2]]
  <2>1. ASSUME NEW x \in (1 .. L) \X S
        PROVE  (IF fits(x[1], x[2]) THEN Plus(x[2], ks[x[1]], ns[x[1]]) ELSE x[2]) \in S
    <3>1. x[1] \in 1 .. L /\ x[2] \in S
      OBVIOUS
    <3>2. ASSUME fits(x[1], x[2]) PROVE Plus(x[2], ks[x[1]], ns[x[1]]) \in S
      <4>1. PICK n \in 1 .. L, t \in CountersOf(K) : n = x[1] /\ t = x[2]
        BY <1>2, <3>1
      <4>2. Tallied(t, K, ks, said, n - 1)
        BY <3>2, <4>1
      <4>3. Plus(t, ks[n], ns[n]) \in CountersOf(K)
        BY <1>1, <4>2, TallyStep
      <4>. QED BY <1>2, <4>1, <4>3
    <3>. HIDE DEF fits
    <3>. QED BY <3>1, <3>2
  <2>. HIDE DEF fits
  <2>2. step \in [(1 .. L) \X S -> S]
    BY <2>1
  <2>3. \A n \in 1 .. L, t \in S : fits(n, t) => step[<<n, t>>] = Plus(t, ks[n], ns[n])
    OBVIOUS
  <2>. HIDE DEF step
  <2>. QED BY <2>2, <2>3
<1>4. NoCounts \in S /\ Tallied(NoCounts, K, ks, said, 0)
  <2>1. NoCounts.keys = <<>> /\ NoCounts.count = <<>> /\ DOMAIN NoCounts.count = {}
    BY DEF NoCounts
  <2>2. <<>> \in Dictionaries(K, Nat)
    <3>1. <<>> \in [{} -> Nat] /\ {} \in SUBSET K
      OBVIOUS
    <3>. QED BY <3>1 DEF Dictionaries
  <2>3. NoCounts \in S
    BY <1>2, <2>2 DEF NoCounts, CountersOf
  <2>4. \A k \in K : said[0][k] = 0
    BY DEF Adds
  <2>5. Tallied(NoCounts, K, ks, said, 0)
    BY <2>1, <2>4 DEF Tallied
  <2>. QED BY <2>3, <2>5
<1>5. PICK g \in [0 .. L -> S] : Computed(g, L, NoCounts, step)
  BY <1>4, Recursion
<1>6. \A n \in 0 .. L : Tallied(g[n], K, ks, said, n)
  <2>. DEFINE G == {k \in 0 .. L : Tallied(g[k], K, ks, said, k)}
  <2>1. 0 \in G
    BY <1>4, <1>5 DEF Computed
  <2>2. ASSUME NEW n \in 1 .. L, n - 1 \in G PROVE n \in G
    <3>1. n - 1 \in 0 .. L /\ Tallied(g[n - 1], K, ks, said, n - 1) /\ g[n - 1] \in S
      BY <2>2
    <3>2. g[n] = step[<<n, g[n - 1]>>]
      BY <1>5 DEF Computed
    <3>3. g[n] = Plus(g[n - 1], ks[n], ns[n])
      BY <1>3, <3>1, <3>2
    <3>4. Tallied(g[n], K, ks, said, n)
      BY <1>1, <1>2, <3>1, <3>3, TallyStep
    <3>. QED BY <3>4
  <2>. HIDE DEF G
  <2>3. \A n \in 0 .. L : n \in G
    BY <2>1, <2>2, UpTo
  <2>. QED BY <2>3 DEF G
<1>7. ASSUME NEW n \in 1 .. L PROVE g[n] = TallyAt(ks, ns, n, g)
  <2>1. n - 1 \in 0 .. L
    OBVIOUS
  <2>2. Tallied(g[n - 1], K, ks, said, n - 1) /\ g[n - 1] \in S
    BY <1>6, <2>1
  <2>3. g[n] = step[<<n, g[n - 1]>>]
    BY <1>5 DEF Computed
  <2>. QED BY <1>3, <2>2, <2>3 DEF TallyAt
<1>8. g = [n \in 0 .. L |-> IF n = 0 THEN NoCounts ELSE TallyAt(ks, ns, n, g)]
  <2>1. \A n \in 0 .. L : g[n] = IF n = 0 THEN NoCounts ELSE TallyAt(ks, ns, n, g)
    BY <1>5, <1>7 DEF Computed
  <2>. QED BY <1>5, <2>1
<1>. DEFINE after[n \in 0 .. Len(ks)] ==
                IF n = 0 THEN NoCounts ELSE Plus(after[n - 1], ks[n], ns[n])
<1>9. Tally(ks, ns) = after[Len(ks)]
  BY Zenon DEF Tally
<1>10. \E f : f = [n \in 0 .. Len(ks) |-> IF n = 0 THEN NoCounts ELSE TallyAt(ks, ns, n, f)]
  BY <1>1, <1>8
<1>11. after = [n \in 0 .. Len(ks) |-> IF n = 0 THEN NoCounts ELSE TallyAt(ks, ns, n, after)]
  BY <1>10, Zenon DEF TallyAt
<1>. HIDE DEF after
<1>12. after[0] = NoCounts /\ \A n \in 1 .. L : after[n] = TallyAt(ks, ns, n, after)
  <2>1. 0 \in 0 .. Len(ks)
    BY <1>1
  <2>2. \A n \in 1 .. L : n \in 0 .. Len(ks) /\ n # 0
    BY <1>1
  <2>. QED BY <1>11, <2>1, <2>2, Zenon
<1>13. after[L] = g[L]
  <2>. DEFINE G == {k \in 0 .. L : after[k] = g[k]}
  <2>1. 0 \in G
    BY <1>5, <1>12 DEF Computed
  <2>2. ASSUME NEW n \in 1 .. L, n - 1 \in G PROVE n \in G
    BY <1>7, <1>12, <2>2 DEF TallyAt
  <2>. HIDE DEF G
  <2>3. \A n \in 0 .. L : n \in G
    BY <2>1, <2>2, UpTo
  <2>4. L \in G
    BY <2>3
  <2>. QED BY <2>4 DEF G
<1>14. g[L] \in S /\ Tallied(g[L], K, ks, said, L)
  BY <1>6
<1>. QED BY <1>1, <1>2, <1>9, <1>13, <1>14

-----------------------------------------------------------------------------
(* The counts of the words and of what they mean.                          *)

\* Where a word is among the first n, and how often.
Said(words, w, n) == {i \in 1 .. n : words[i] = w}
SaidBy(words, K) == [n \in 0 .. Len(words) |-> [w \in K |-> Cardinality(Said(words, w, n))]]

\* Where those words are that mean k and that are among the first n of q.
Meant(words, q, k, n) ==
    {i \in 1 .. Len(words) : Normalize(words[i]) = k /\ \E m \in 1 .. n : q[m] = words[i]}
MeantBy(words, q, K) ==
    [n \in 0 .. Len(q) |-> [k \in K |-> Cardinality(Meant(words, q, k, n))]]

LEMMA PlacesFinite ==
    ASSUME NEW n \in Nat, NEW A \in SUBSET (1 .. n)
    PROVE  IsFiniteSet(A) /\ Cardinality(A) \in Nat
<1>1. IsFiniteSet(1 .. n)
  BY PlacesCounted
<1>2. IsFiniteSet(A)
  BY <1>1, FS_Subset
<1>. QED BY <1>2, FS_CardinalityType

\* Sets without a common element add up.
LEMMA Disjoint ==
    ASSUME NEW A, NEW B, IsFiniteSet(A), IsFiniteSet(B), A \cap B = {}
    PROVE  Cardinality(A \cup B) = Cardinality(A) + Cardinality(B)
<1>1. Cardinality(A \cup B) = Cardinality(A) + Cardinality(B) - Cardinality(A \cap B)
  BY FS_Union
<1>2. Cardinality(A \cap B) = 0
  BY FS_EmptySet
<1>3. Cardinality(A) \in Nat /\ Cardinality(B) \in Nat
  BY FS_CardinalityType
<1>. QED BY <1>1, <1>2, <1>3

LEMMA WordsCounted ==
    ASSUME NEW K, NEW words \in Seq(K)
    PROVE  /\ CountWords(words) \in CountersOf(K)
           /\ Tallied(CountWords(words), K, words, SaidBy(words, K), Len(words))
<1>1. PICK L \in Nat : L = Len(words) /\ DOMAIN words = 1 .. L
  OBVIOUS
<1>2. PICK ns : ns = [i \in DOMAIN words |-> 1]
  OBVIOUS
<1>3. \A a \in 1 .. L : ns[a] = 1
  BY <1>1, <1>2
<1>4. PICK said : said = SaidBy(words, K)
  OBVIOUS
<1>5. \A n \in 0 .. L, k \in K : said[n][k] = Cardinality(Said(words, k, n))
  BY <1>1, <1>4 DEF SaidBy
<1>6. \A n \in 0 .. L, k \in K :
         IsFiniteSet(Said(words, k, n)) /\ Cardinality(Said(words, k, n)) \in Nat
  <2>1. ASSUME NEW n \in 0 .. L, NEW k \in K
        PROVE  IsFiniteSet(Said(words, k, n)) /\ Cardinality(Said(words, k, n)) \in Nat
    <3>1. n \in Nat /\ Said(words, k, n) \in SUBSET (1 .. n)
      BY DEF Said
    <3>. QED BY <3>1, PlacesFinite
  <2>. QED BY <2>1
<1>7. said \in [0 .. L -> [K -> Nat]]
  BY <1>1, <1>4, <1>6 DEF SaidBy
<1>8. \A k \in K : said[0][k] = 0
  <2>1. ASSUME NEW k \in K PROVE said[0][k] = 0
    <3>1. Said(words, k, 0) = {}
      BY DEF Said
    <3>2. 0 \in 0 .. L
      BY <1>1
    <3>. QED BY <1>5, <3>1, <3>2, FS_EmptySet
  <2>. QED BY <2>1
<1>9. ASSUME NEW n \in 1 .. L, NEW k \in K
      PROVE  said[n][k] = said[n - 1][k] + IF words[n] = k THEN ns[n] ELSE 0
  <2>1. n - 1 \in 0 .. L /\ n \in 0 .. L
    OBVIOUS
  <2>2. PICK A : A = Said(words, k, n - 1)
    OBVIOUS
  <2>3. IsFiniteSet(A) /\ Cardinality(A) \in Nat /\ said[n - 1][k] = Cardinality(A)
    BY <1>5, <1>6, <2>1, <2>2
  <2>4. said[n][k] = Cardinality(Said(words, k, n))
    BY <1>5, <2>1
  <2>5. CASE words[n] = k
    <3>1. Said(words, k, n) = A \cup {n} /\ n \notin A
      BY <2>2, <2>5 DEF Said
    <3>2. Cardinality(A \cup {n}) = Cardinality(A) + 1
      BY <2>3, <3>1, FS_AddElement
    <3>. QED BY <1>3, <2>3, <2>4, <2>5, <3>1, <3>2
  <2>6. CASE words[n] # k
    <3>1. Said(words, k, n) = A
      BY <2>2, <2>6 DEF Said
    <3>. QED BY <2>3, <2>4, <2>6, <3>1
  <2>. QED BY <2>5, <2>6
<1>10. Adds(said, K, words, ns, L)
  BY <1>7, <1>8, <1>9, Zenon DEF Adds
<1>11. \A a \in 1 .. Len(words) : ns[a] \in Nat
  BY <1>1, <1>3
<1>12. /\ Tally(words, ns) \in CountersOf(K)
       /\ Tallied(Tally(words, ns), K, words, said, Len(words))
  BY <1>1, <1>10, <1>11, TallyTallies
<1>13. CountWords(words) = Tally(words, ns)
  BY <1>2 DEF CountWords
<1>. QED BY <1>4, <1>12, <1>13

\* The counter t has each noun once that one of the words means, with the number
\* of words that mean it.
Merges(t, K, words) ==
    /\ t \in CountersOf(K)
    /\ \A i, j \in 1 .. Len(t.keys) : t.keys[i] = t.keys[j] => i = j
    /\ DOMAIN t.count = {t.keys[i] : i \in 1 .. Len(t.keys)}
    /\ DOMAIN t.count = {Normalize(words[i]) : i \in 1 .. Len(words)}
    /\ \A k \in DOMAIN t.count :
          t.count[k] = Cardinality({i \in 1 .. Len(words) : Normalize(words[i]) = k})

LEMMA SynonymsMerged ==
    ASSUME NEW K, NEW words \in Seq(K), \A w \in K : Normalize(w) \in K
    PROVE  Merges(MergeSynonyms(CountWords(words)), K, words)
<1>1. PICK W \in Nat : W = Len(words) /\ \A i \in 1 .. W : words[i] \in K
  BY ElementOfSeq
<1>2. PICK c \in CountersOf(K) : c = CountWords(words)
  BY WordsCounted
<1>3. Tallied(c, K, words, SaidBy(words, K), W)
  BY <1>1, <1>2, WordsCounted
<1>4. PICK q \in Seq(K) : q = c.keys
  BY DEF CountersOf
<1>5. PICK L \in Nat : L = Len(q) /\ DOMAIN q = 1 .. L /\ \A i \in 1 .. L : q[i] \in K
  BY ElementOfSeq
<1>6. PICK f : f = c.count
  OBVIOUS
<1>7. /\ \A i, j \in 1 .. L : q[i] = q[j] => i = j
      /\ \A i \in 1 .. L : q[i] \in DOMAIN f
      /\ \A k \in DOMAIN f : \E i \in 1 .. L : q[i] = k
      /\ \A k \in DOMAIN f : \E a \in 1 .. W : words[a] = k
      /\ \A a \in 1 .. W : words[a] \in DOMAIN f
  BY <1>3, <1>4, <1>5, <1>6 DEF Tallied
<1>8. \A i \in 1 .. L : f[q[i]] = Cardinality(Said(words, q[i], W))
  <2>1. \A k \in K : k \in DOMAIN f => f[k] = SaidBy(words, K)[W][k]
    BY <1>3, <1>6 DEF Tallied
  <2>2. \A k \in K : SaidBy(words, K)[W][k] = Cardinality(Said(words, k, W))
    BY <1>1 DEF SaidBy
  <2>. QED BY <1>5, <1>7, <2>1, <2>2
<1>9. PICK ks : ks = [i \in 1 .. L |-> Normalize(q[i])]
  OBVIOUS
<1>10. ks \in Seq(K) /\ Len(ks) = L /\ \A i \in 1 .. L : ks[i] = Normalize(q[i])
  <2>1. ks \in [1 .. L -> K]
    BY <1>5, <1>9
  <2>2. ks \in Seq(K) /\ Len(ks) = L
    BY <2>1, SequenceOf
  <2>. QED BY <1>9, <2>2
<1>11. PICK ns : ns = [i \in 1 .. L |-> f[q[i]]]
  OBVIOUS
<1>12. PICK t : t = Tally(ks, ns)
  OBVIOUS
<1>13. MergeSynonyms(CountWords(words)) = t
  BY <1>2, <1>4, <1>5, <1>6, <1>9, <1>11, <1>12 DEF MergeSynonyms
<1>14. \A i \in 1 .. L : ns[i] = Cardinality(Said(words, q[i], W))
  BY <1>8, <1>11
<1>15. PICK said : said = MeantBy(words, q, K)
  OBVIOUS
<1>16. \A n \in 0 .. L, k \in K : said[n][k] = Cardinality(Meant(words, q, k, n))
  BY <1>5, <1>15 DEF MeantBy
<1>17. \A n \in 0 .. L, k \in K :
          IsFiniteSet(Meant(words, q, k, n)) /\ Cardinality(Meant(words, q, k, n)) \in Nat
  <2>1. \A n \in 0 .. L, k \in K : Meant(words, q, k, n) \in SUBSET (1 .. W)
    BY <1>1 DEF Meant
  <2>. QED BY <2>1, PlacesFinite
<1>18. \A i \in 1 .. L : IsFiniteSet(Said(words, q[i], W)) /\ ns[i] \in Nat
  <2>1. \A i \in 1 .. L : Said(words, q[i], W) \in SUBSET (1 .. W)
    BY DEF Said
  <2>. QED BY <1>14, <2>1, PlacesFinite
<1>19. said \in [0 .. L -> [K -> Nat]]
  BY <1>5, <1>15, <1>17 DEF MeantBy
<1>20. \A k \in K : said[0][k] = 0
  <2>1. ASSUME NEW k \in K PROVE said[0][k] = 0
    <3>1. Meant(words, q, k, 0) = {}
      BY DEF Meant
    <3>2. 0 \in 0 .. L
      BY <1>5
    <3>. QED BY <1>16, <3>1, <3>2, FS_EmptySet
  <2>. QED BY <2>1
<1>21. ASSUME NEW n \in 1 .. L, NEW k \in K
       PROVE  said[n][k] = said[n - 1][k] + IF ks[n] = k THEN ns[n] ELSE 0
  <2>1. n - 1 \in 0 .. L /\ n \in 0 .. L
    OBVIOUS
  <2>2. PICK A : A = Meant(words, q, k, n - 1)
    OBVIOUS
  <2>3. PICK B : B = Said(words, q[n], W)
    OBVIOUS
  <2>4. IsFiniteSet(A) /\ Cardinality(A) \in Nat /\ said[n - 1][k] = Cardinality(A)
    BY <1>16, <1>17, <2>1, <2>2
  <2>5. said[n][k] = Cardinality(Meant(words, q, k, n))
    BY <1>16, <2>1
  <2>6. \A i \in 1 .. W : (\E m \in 1 .. n : q[m] = words[i])
                         <=> (q[n] = words[i] \/ \E m \in 1 .. n - 1 : q[m] = words[i])
    OBVIOUS
  <2>7. CASE ks[n] = k
    <3>1. Normalize(q[n]) = k
      BY <1>10, <2>7
    <3>2. Meant(words, q, k, n) = A \cup B
      BY <1>1, <2>2, <2>3, <2>6, <3>1 DEF Meant, Said
    <3>3. A \cap B = {}
      <4>1. ASSUME NEW i \in A, i \in B PROVE FALSE
        <5>1. PICK m \in 1 .. n - 1 : q[m] = words[i]
          BY <2>2, <4>1 DEF Meant
        <5>2. words[i] = q[n]
          BY <2>3, <4>1 DEF Said
        <5>3. m \in 1 .. L /\ m # n
          OBVIOUS
        <5>. QED BY <1>7, <5>1, <5>2, <5>3
      <4>. QED BY <4>1
    <3>4. IsFiniteSet(B) /\ ns[n] = Cardinality(B)
      BY <1>14, <1>18, <2>3
    <3>5. Cardinality(A \cup B) = Cardinality(A) + Cardinality(B)
      BY <2>4, <3>3, <3>4, Disjoint
    <3>. QED BY <2>4, <2>5, <2>7, <3>2, <3>4, <3>5
  <2>8. CASE ks[n] # k
    <3>1. Normalize(q[n]) # k
      BY <1>10, <2>8
    <3>2. Meant(words, q, k, n) = A
      BY <1>1, <2>2, <2>6, <3>1 DEF Meant
    <3>. QED BY <2>4, <2>5, <2>8, <3>2
  <2>. QED BY <2>7, <2>8
<1>22. Adds(said, K, ks, ns, L)
  BY <1>19, <1>20, <1>21, Zenon DEF Adds
<1>23. t \in CountersOf(K) /\ Tallied(t, K, ks, said, L)
  BY <1>10, <1>12, <1>18, <1>22, TallyTallies
<1>24. \A i, j \in 1 .. Len(t.keys) : t.keys[i] = t.keys[j] => i = j
  BY <1>23 DEF Tallied
<1>25. DOMAIN t.count = {t.keys[i] : i \in 1 .. Len(t.keys)}
  <2>1. \A i \in 1 .. Len(t.keys) : t.keys[i] \in DOMAIN t.count
    BY <1>23 DEF Tallied
  <2>2. \A k \in DOMAIN t.count : \E i \in 1 .. Len(t.keys) : t.keys[i] = k
    BY <1>23 DEF Tallied
  <2>. QED BY <2>1, <2>2
<1>26. DOMAIN t.count = {Normalize(words[i]) : i \in 1 .. W}
  <2>1. ASSUME NEW k \in DOMAIN t.count PROVE k \in {Normalize(words[i]) : i \in 1 .. W}
    <3>1. PICK a \in 1 .. L : ks[a] = k
      BY <1>23 DEF Tallied
    <3>2. PICK i \in 1 .. W : words[i] = q[a]
      BY <1>7
    <3>. QED BY <1>10, <3>1, <3>2
  <2>2. ASSUME NEW i \in 1 .. W PROVE Normalize(words[i]) \in DOMAIN t.count
    <3>1. PICK a \in 1 .. L : q[a] = words[i]
      BY <1>7
    <3>2. ks[a] \in DOMAIN t.count
      BY <1>23 DEF Tallied
    <3>. QED BY <1>10, <3>1, <3>2
  <2>. QED BY <2>1, <2>2
<1>27. ASSUME NEW k \in DOMAIN t.count
       PROVE  t.count[k] = Cardinality({i \in 1 .. W : Normalize(words[i]) = k})
  <2>1. k \in K
    BY <1>1, <1>26, <1>27
  <2>2. t.count[k] = said[L][k]
    BY <1>23, <1>27, <2>1 DEF Tallied
  <2>3. said[L][k] = Cardinality(Meant(words, q, k, L))
    BY <1>5, <1>16, <2>1
  <2>4. \A i \in 1 .. W : \E m \in 1 .. L : q[m] = words[i]
    BY <1>7
  <2>5. Meant(words, q, k, L) = {i \in 1 .. W : Normalize(words[i]) = k}
    BY <1>1, <2>4 DEF Meant
  <2>. QED BY <2>2, <2>3, <2>5
<1>28. \A k \in DOMAIN t.count :
          t.count[k] = Cardinality({i \in 1 .. Len(words) : Normalize(words[i]) = k})
  BY <1>1, <1>27
<1>29. DOMAIN t.count = {Normalize(words[i]) : i \in 1 .. Len(words)}
  BY <1>1, <1>26
<1>30. Merges(t, K, words)
  BY <1>23, <1>24, <1>25, <1>28, <1>29, Zenon DEF Merges
<1>. QED BY <1>13, <1>30

-----------------------------------------------------------------------------
(* Sums.                                                                   *)

Pick(s) == CHOOSE x \in s : TRUE

\* The sums of f over the subsets of S with at most n elements.
SumsUpTo(g, f, S, n) ==
    \A s \in SUBSET S : Cardinality(s) <= n =>
       g[s] = IF s = {} THEN 0 ELSE f[Pick(s)] + g[s \ {Pick(s)}]

LEMMA Picked ==
    ASSUME NEW s, s # {}, IsFiniteSet(s)
    PROVE  /\ Pick(s) \in s /\ Cardinality(s) \in Nat \ {0}
           /\ Cardinality(s \ {Pick(s)}) = Cardinality(s) - 1
<1>1. Pick(s) \in s
  BY DEF Pick
<1>2. Cardinality(s) \in Nat /\ Cardinality(s) # 0
  BY FS_CardinalityType, FS_EmptySet
<1>3. Cardinality(s \ {Pick(s)}) = Cardinality(s) - 1
  BY <1>1, FS_RemoveElement
<1>. QED BY <1>1, <1>2, <1>3

LEMMA SumsExist ==
    ASSUME NEW S, IsFiniteSet(S), NEW f, \A x \in S : f[x] \in Int
    PROVE  \E g \in [SUBSET S -> Int] : SumsUpTo(g, f, S, Cardinality(S))
<1>1. PICK L \in Nat : L = Cardinality(S)
  BY FS_CardinalityType
<1>2. \A s \in SUBSET S : IsFiniteSet(s) /\ Cardinality(s) \in Nat /\ Cardinality(s) <= L
  BY <1>1, FS_Subset, FS_CardinalityType
<1>. DEFINE G == {n \in 0 .. L : \E g \in [SUBSET S -> Int] : SumsUpTo(g, f, S, n)}
<1>3. 0 \in G
  <2>. DEFINE g == [s \in SUBSET S |-> 0]
  <2>1. g \in [SUBSET S -> Int] /\ g[{}] = 0
    OBVIOUS
  <2>. HIDE DEF g
  <2>2. \A s \in SUBSET S : Cardinality(s) <= 0 => s = {}
    BY <1>2, FS_EmptySet
  <2>3. SumsUpTo(g, f, S, 0)
    BY <2>1, <2>2 DEF SumsUpTo
  <2>. QED BY <1>1, <2>1, <2>3
<1>4. ASSUME NEW n \in 1 .. L, n - 1 \in G PROVE n \in G
  <2>1. PICK g \in [SUBSET S -> Int] : SumsUpTo(g, f, S, n - 1)
    BY <1>4
  <2>. DEFINE value(s) == IF s = {} THEN 0 ELSE f[Pick(s)] + g[s \ {Pick(s)}]
  <2>2. \A s \in SUBSET S : value(s) \in Int
    <3>1. ASSUME NEW s \in SUBSET S, s # {} PROVE value(s) \in Int
      <4>1. Pick(s) \in S /\ s \ {Pick(s)} \in SUBSET S
        BY <1>2, <3>1, Picked
      <4>2. f[Pick(s)] \in Int /\ g[s \ {Pick(s)}] \in Int
        BY <4>1
      <4>. QED BY <3>1, <4>2
    <3>. QED BY <3>1
  <2>. DEFINE h == [s \in SUBSET S |-> value(s)]
  <2>3. h \in [SUBSET S -> Int] /\ \A s \in SUBSET S : h[s] = value(s)
    BY <2>2
  <2>. HIDE DEF h
  <2>4. ASSUME NEW s \in SUBSET S, Cardinality(s) <= n - 1 PROVE h[s] = g[s]
    BY <2>1, <2>3, <2>4 DEF SumsUpTo
  <2>5. ASSUME NEW s \in SUBSET S, Cardinality(s) <= n
        PROVE  h[s] = IF s = {} THEN 0 ELSE f[Pick(s)] + h[s \ {Pick(s)}]
    <3>1. CASE s = {}
      BY <2>3, <3>1
    <3>2. CASE s # {}
      <4>1. /\ Cardinality(s) \in Nat /\ Cardinality(s \ {Pick(s)}) = Cardinality(s) - 1
            /\ s \ {Pick(s)} \in SUBSET S
        BY <1>2, <3>2, Picked
      <4>2. Cardinality(s \ {Pick(s)}) <= n - 1
        BY <2>5, <4>1
      <4>3. h[s \ {Pick(s)}] = g[s \ {Pick(s)}]
        BY <2>4, <4>1, <4>2
      <4>. QED BY <2>3, <3>2, <4>3
    <3>. QED BY <3>1, <3>2
  <2>6. SumsUpTo(h, f, S, n)
    BY <2>5 DEF SumsUpTo
  <2>. QED BY <2>3, <2>6
<1>. HIDE DEF G
<1>5. L \in G
  <2>1. \A n \in 0 .. L : n \in G
    BY <1>3, <1>4, UpTo
  <2>. QED BY <2>1
<1>. QED BY <1>1, <1>5 DEF G

\* A sum of whole numbers is one.
LEMMA SumIsWhole ==
    ASSUME NEW S, IsFiniteSet(S), NEW f, \A x \in S : f[x] \in Int
    PROVE  SumFunctionOnSet(f, S) \in Int
<1>1. PICK g \in [SUBSET S -> Int] : SumsUpTo(g, f, S, Cardinality(S))
  BY SumsExist
<1>2. g = [s \in SUBSET S |-> IF s = {} THEN 0 ELSE f[Pick(s)] + g[s \ {Pick(s)}]]
  <2>1. \A s \in SUBSET S : Cardinality(s) <= Cardinality(S)
    BY FS_Subset
  <2>2. \A s \in SUBSET S : g[s] = IF s = {} THEN 0 ELSE f[Pick(s)] + g[s \ {Pick(s)}]
    BY <1>1, <2>1 DEF SumsUpTo
  <2>. QED BY <2>2
<1>. DEFINE iter[s \in SUBSET S] ==
                IF s = {} THEN 0 ELSE f[Pick(s)] + iter[s \ {Pick(s)}]
<1>3. SumFunctionOnSet(f, S) = iter[S]
  BY Zenon DEF SumFunctionOnSet, FoldFunctionOnSet, MapThenFoldSet, Pick
<1>4. iter = [s \in SUBSET S |-> IF s = {} THEN 0 ELSE f[Pick(s)] + iter[s \ {Pick(s)}]]
  <2>1. \E h : h = [s \in SUBSET S |-> IF s = {} THEN 0 ELSE f[Pick(s)] + h[s \ {Pick(s)}]]
    BY <1>2
  <2>. QED BY <2>1, Zenon
<1>. HIDE DEF iter
<1>5. \A s \in SUBSET S : iter[s] = IF s = {} THEN 0 ELSE f[Pick(s)] + iter[s \ {Pick(s)}]
  BY <1>4
<1>6. PICK L \in Nat : L = Cardinality(S)
  BY FS_CardinalityType
<1>7. \A s \in SUBSET S : IsFiniteSet(s) /\ Cardinality(s) \in Nat /\ Cardinality(s) <= L
  BY <1>6, FS_Subset, FS_CardinalityType
<1>. DEFINE G == {n \in 0 .. L : \A s \in SUBSET S : Cardinality(s) <= n => iter[s] \in Int}
<1>8. 0 \in G
  <2>1. \A s \in SUBSET S : Cardinality(s) <= 0 => s = {}
    BY <1>7, FS_EmptySet
  <2>2. iter[{}] = 0
    BY <1>5
  <2>3. \A s \in SUBSET S : Cardinality(s) <= 0 => iter[s] = 0
    BY <2>1, <2>2
  <2>4. 0 \in 0 .. L /\ 0 \in Int
    BY <1>6
  <2>. QED BY <2>3, <2>4
<1>9. ASSUME NEW n \in 1 .. L, n - 1 \in G PROVE n \in G
  <2>1. ASSUME NEW s \in SUBSET S, Cardinality(s) <= n PROVE iter[s] \in Int
    <3>1. CASE s = {}
      <4>1. iter[s] = 0
        BY <1>5, <3>1
      <4>. QED BY <4>1
    <3>2. CASE s # {}
      <4>1. /\ Cardinality(s) \in Nat /\ Cardinality(s \ {Pick(s)}) = Cardinality(s) - 1
            /\ s \ {Pick(s)} \in SUBSET S /\ Pick(s) \in S
        BY <1>7, <3>2, Picked
      <4>2. Cardinality(s \ {Pick(s)}) <= n - 1
        BY <2>1, <4>1
      <4>3. iter[s \ {Pick(s)}] \in Int
        BY <1>9, <4>1, <4>2
      <4>4. iter[s] = f[Pick(s)] + iter[s \ {Pick(s)}] /\ f[Pick(s)] \in Int
        BY <1>5, <3>2, <4>1
      <4>. QED BY <4>3, <4>4
    <3>. QED BY <3>1, <3>2
  <2>. QED BY <2>1
<1>. HIDE DEF G
<1>10. L \in G
  <2>1. \A n \in 0 .. L : n \in G
    BY <1>8, <1>9, UpTo
  <2>. QED BY <2>1
<1>11. S \in SUBSET S /\ Cardinality(S) <= L
  BY <1>6
<1>. QED BY <1>3, <1>10, <1>11 DEF G

-----------------------------------------------------------------------------
(* Rounding, and the order of the matches.                                 *)

\* A score is off by half a ten-thousandth at the most.
LEMMA RoundedWell ==
    ASSUME NEW n \in Int, NEW d \in Nat \ {0}, NEW up
    PROVE  /\ Round(n, d, up) \in Int
           /\ 2 * (Round(n, d, up) * d) <= 2 * (n * Scale) + d
           /\ 2 * (n * Scale) <= 2 * (Round(n, d, up) * d) + d
           /\ ~InTheMiddle(n, d) => Round(n, d, up) = Round(n, d, FALSE)
<1>1. PICK N \in Int : N = n * Scale
  <2>1. Scale \in Nat
    BY StockThemesAssumption
  <2>. QED BY <2>1
<1>2. PICK q \in Int, r \in Nat : q = N \div d /\ r = N % d /\ r < d /\ N = d * q + r
  OBVIOUS
<1>3. PICK z : z = Round(n, d, up)
  OBVIOUS
<1>4. /\ z = IF 2 * r > d \/ (InTheMiddle(n, d) /\ up) THEN q + 1 ELSE q
      /\ Round(n, d, FALSE) = IF 2 * r > d THEN q + 1 ELSE q
      /\ InTheMiddle(n, d) <=> 2 * r = d
  BY <1>1, <1>2, <1>3, Zenon DEF Round, InTheMiddle
<1>5. \/ z = q + 1 /\ 2 * r >= d
      \/ z = q /\ 2 * r <= d
  BY <1>2, <1>4
<1>6. ~InTheMiddle(n, d) => z = Round(n, d, FALSE)
  BY <1>4, Zenon
<1>7. PICK p \in Int : p = d * q /\ p = q * d
  BY <1>2
<1>8. CASE z = q + 1 /\ 2 * r >= d
  <2>1. z * d = p + d /\ z \in Int
    BY <1>7, <1>8
  <2>2. 2 * (z * d) <= 2 * N + d /\ 2 * N <= 2 * (z * d) + d
    BY <1>2, <1>7, <1>8, <2>1
  <2>. QED BY <1>1, <1>3, <1>6, <2>1, <2>2
<1>9. CASE z = q /\ 2 * r <= d
  <2>1. z * d = p /\ z \in Int
    BY <1>7, <1>9
  <2>2. 2 * (z * d) <= 2 * N + d /\ 2 * N <= 2 * (z * d) + d
    BY <1>2, <1>7, <1>9, <2>1
  <2>. QED BY <1>1, <1>3, <1>6, <2>1, <2>2
<1>. QED BY <1>5, <1>8, <1>9

\* Where the score of a is not smaller than that of b, its share is not, but for
\* what rounding hides.
LEMMA RoundedOrder ==
    ASSUME NEW a \in Int, NEW b \in Int, NEW d \in Nat \ {0}, NEW up, NEW down,
           Round(a, d, up) >= Round(b, d, down)
    PROVE  (b - a) * Scale <= d
<1>1. PICK x \in Int, y \in Int : x = Round(a, d, up) /\ y = Round(b, d, down)
  BY RoundedWell
<1>2. PICK s \in Nat : s = Scale
  BY StockThemesAssumption
<1>3. PICK A \in Int, B \in Int : A = a * s /\ B = b * s
  OBVIOUS
<1>4. PICK X \in Int, Y \in Int : X = x * d /\ Y = y * d
  OBVIOUS
<1>5. 2 * X <= 2 * A + d /\ 2 * B <= 2 * Y + d
  BY <1>1, <1>2, <1>3, <1>4, RoundedWell
<1>6. X >= Y
  <2>1. PICK e \in Nat : x = y + e
    <3>1. x - y \in Nat /\ x = y + (x - y)
      BY <1>1
    <3>. QED BY <3>1
  <2>2. e * d \in Nat /\ X = Y + e * d
    BY <1>4, <2>1
  <2>. QED BY <2>2
<1>7. (b - a) * s = B - A
  BY <1>3
<1>8. 2 * (B - A) <= 2 * d
  BY <1>5, <1>6
<1>. QED BY <1>2, <1>7, <1>8

\* The codes by name: each stock once.
LEMMA NamesOnce ==
    /\ ByName \in Seq(StockCodes)
    /\ \A a, b \in 1 .. Len(ByName) : ByName[a] = ByName[b] => a = b
    /\ \A c \in StockCodes : \E a \in 1 .. Len(ByName) : ByName[a] = c
<1>1. PICK L \in Nat : L = Len(ByName) /\ ByName \in [1 .. L -> StockCodes]
  BY StockThemesAssumption
<1>2. \A c \in StockCodes : \E a \in 1 .. L : ByName[a] = c
  BY <1>1, StockThemesAssumption DEF ToSet
<1>3. PICK I : I = 1 .. L
  OBVIOUS
<1>4. ByName \in Surjection(I, StockCodes)
  BY <1>1, <1>2, <1>3 DEF Surjection
<1>5. IsFiniteSet(I) /\ Cardinality(I) = L
  BY <1>3, PlacesCounted
<1>6. Cardinality(StockCodes) = Cardinality(I)
  BY <1>1, <1>5, StockThemesAssumption
<1>7. ByName \in Injection(I, StockCodes)
  BY <1>4, <1>5, <1>6, FS_Surjection
<1>8. \A a, b \in I : ByName[a] = ByName[b] => a = b
  BY <1>7 DEF Injection, IsInjective
<1>. QED BY <1>1, <1>2, <1>3, <1>8, StockThemesAssumption

\* Counts of words, as they are matched: each a number, and finitely many.
Counts(keywords) ==
    /\ keywords \in [DOMAIN keywords -> Int]
    /\ IsFiniteSet(DOMAIN keywords)

LEMMA Weighed ==
    ASSUME NEW keywords, Counts(keywords)
    PROVE  /\ Total(keywords) \in Int /\ Whole(keywords) \in Nat
           /\ Whole(keywords) = 0 <=> Total(keywords) = 0
           /\ \A c : Portion(keywords, c) \in Int
<1>1. \A x \in DOMAIN keywords : keywords[x] \in Int
  BY DEF Counts
<1>2. Total(keywords) \in Int
  BY <1>1, SumIsWhole DEF Counts, Total, SumFunction
<1>3. ASSUME NEW c PROVE Weight(keywords, c) \in Int
  <2>1. PICK S : S = Matched(keywords, c)
    OBVIOUS
  <2>2. S \in SUBSET (DOMAIN keywords)
    BY <2>1 DEF Matched
  <2>3. IsFiniteSet(S)
    BY <2>2, FS_Subset DEF Counts
  <2>4. \A x \in S : keywords[x] \in Int
    BY <1>1, <2>2
  <2>5. SumFunctionOnSet(keywords, S) \in Int
    BY <2>3, <2>4, SumIsWhole
  <2>. QED BY <2>1, <2>5 DEF Weight
<1>. QED BY <1>2, <1>3 DEF Whole, Portion

\* What a sorted choice of the stocks is: each once, the best score first, those
\* of equal score by name.
Ranked(matches, key, set) ==
    /\ DOMAIN matches = 1 .. Len(matches) /\ Len(matches) \in Nat
    /\ \A i \in 1 .. Len(matches) : matches[i] \in set
    /\ \A c \in set : \E i \in 1 .. Len(matches) : matches[i] = c
    /\ \A i, j \in 1 .. Len(matches) : matches[i] = matches[j] => i = j
    /\ \A i, j \in 1 .. Len(matches) : i < j => key[matches[i]] >= key[matches[j]]
    /\ \A i, j \in 1 .. Len(matches), a, b \in 1 .. Len(ByName) :
          i < j /\ key[matches[i]] = key[matches[j]]
          /\ matches[i] = ByName[a] /\ matches[j] = ByName[b] => a < b

LEMMA ChoiceRanked ==
    ASSUME NEW set \in SUBSET StockCodes, NEW key, \A c \in set : key[c] \in Int
    PROVE  Ranked(SortedBy(Only(ByName, set), key), key, set)
<1>1. PICK N \in Nat : N = Len(ByName) /\ \A a \in 1 .. N : ByName[a] \in StockCodes
  BY NamesOnce, ElementOfSeq
<1>2. PICK o \in Seq(StockCodes) : o = Only(ByName, set) /\ Keeps(o, ByName, set, N)
  BY <1>1, NamesOnce, OnlyKeeps
<1>3. PICK L \in Nat : L = Len(o) /\ DOMAIN o = 1 .. L
  OBVIOUS
<1>4. /\ \A i \in 1 .. L : \E a \in 1 .. N : o[i] = ByName[a] /\ ByName[a] \in set
      /\ \A a \in 1 .. N : ByName[a] \in set => \E i \in 1 .. L : o[i] = ByName[a]
  BY <1>2, <1>3 DEF Keeps
<1>5. \A i, j \in 1 .. L, a, b \in 1 .. N : i < j /\ o[i] = ByName[a] /\ o[j] = ByName[b] => a < b
  BY <1>2, <1>3 DEF Keeps
<1>6. \A i \in 1 .. L : o[i] \in set
  BY <1>4
<1>7. o \in Seq(set)
  <2>1. o \in [1 .. L -> set]
    BY <1>3, <1>6
  <2>. QED BY <2>1, SequenceOf
<1>8. \A i, j \in 1 .. L : o[i] = o[j] => i = j
  <2>1. ASSUME NEW i \in 1 .. L, NEW j \in 1 .. L, i < j PROVE o[i] # o[j]
    <3>1. PICK a \in 1 .. N : o[i] = ByName[a]
      BY <1>4
    <3>. QED BY <1>5, <2>1, <3>1
  <2>. QED BY <2>1
<1>9. PICK m \in Seq(set) : m = SortedBy(o, key) /\ Sorts(m, o, key, L)
  BY <1>3, <1>7, <1>8, SortedSorts
<1>10. Len(m) = L /\ DOMAIN m = 1 .. L /\ \A i \in 1 .. L : m[i] \in set
  BY <1>9, ElementOfSeq DEF Sorts
<1>11. \A i \in 1 .. L : key[m[i]] \in Int
  BY <1>10
<1>12. /\ \A i, j \in 1 .. L : m[i] = m[j] => i = j
       /\ \A i, j \in 1 .. L : i < j => key[m[i]] >= key[m[j]]
  <2>1. Sorts(m, o, key, L) /\ m \in Seq(set) /\ L = Len(o) /\ o \in Seq(set)
    BY <1>3, <1>7, <1>9
  <2>2. \A i, j \in 1 .. L : m[i] = m[j] => i = j
    <3>1. Once(m, L)
      BY <1>11, <2>1, SortedOnce
    <3>. QED BY <3>1, Zenon DEF Once
  <2>3. \A i, j \in 1 .. L : i < j => key[m[i]] >= key[m[j]]
    BY <1>11, <2>1, SortedOnce
  <2>. QED BY <2>2, <2>3
<1>13. ASSUME NEW c \in set PROVE \E i \in 1 .. L : m[i] = c
  <2>1. PICK a \in 1 .. N : ByName[a] = c
    BY <1>1, NamesOnce
  <2>2. PICK k \in 1 .. L : o[k] = c
    BY <1>4, <2>1
  <2>. QED BY <1>9, <2>2 DEF Sorts
<1>14. ASSUME NEW i \in 1 .. L, NEW j \in 1 .. L, NEW a \in 1 .. N, NEW b \in 1 .. N,
              i < j, key[m[i]] = key[m[j]], m[i] = ByName[a], m[j] = ByName[b]
       PROVE  a < b
  <2>1. PICK k \in 1 .. L, l \in 1 .. L : m[i] = o[k] /\ m[j] = o[l]
    <3>1. \A x \in 1 .. L : \E e \in 1 .. L : m[x] = o[e]
      BY <1>9, Zenon DEF Sorts
    <3>. QED BY <3>1
  <2>2. key[m[i]] > key[m[j]] \/ (key[m[i]] = key[m[j]] /\ k < l)
    <3>1. \A x, y \in 1 .. L, e, f \in 1 .. L :
             x < y /\ m[x] = o[e] /\ m[y] = o[f] =>
                key[m[x]] > key[m[y]] \/ (key[m[x]] = key[m[y]] /\ e < f)
      BY <1>9, Zenon DEF Sorts
    <3>. QED BY <1>14, <2>1, <3>1
  <2>3. k < l
    BY <1>11, <1>14, <2>2
  <2>4. o[k] = ByName[a] /\ o[l] = ByName[b]
    BY <1>14, <2>1
  <2>. QED BY <1>5, <2>3, <2>4
<1>15. /\ DOMAIN m = 1 .. Len(m) /\ Len(m) \in Nat
       /\ \A i \in 1 .. Len(m) : m[i] \in set
       /\ \A c \in set : \E i \in 1 .. Len(m) : m[i] = c
       /\ \A i, j \in 1 .. Len(m) : m[i] = m[j] => i = j
  BY <1>10, <1>12, <1>13
<1>16. \A i, j \in 1 .. Len(m) : i < j => key[m[i]] >= key[m[j]]
  BY <1>10, <1>12
<1>17. \A i, j \in 1 .. Len(m), a, b \in 1 .. Len(ByName) :
          i < j /\ key[m[i]] = key[m[j]]
          /\ m[i] = ByName[a] /\ m[j] = ByName[b] => a < b
  <2>1. \A i, j \in 1 .. L, a, b \in 1 .. N :
           i < j /\ key[m[i]] = key[m[j]]
           /\ m[i] = ByName[a] /\ m[j] = ByName[b] => a < b
    BY <1>14
  <2>. QED BY <1>1, <1>10, <2>1, Zenon
<1>18. Ranked(m, key, set)
  BY <1>15, <1>16, <1>17, Zenon DEF Ranked
<1>. QED BY <1>2, <1>9, <1>18

-----------------------------------------------------------------------------
(* The stocks that match.                                                  *)

\* The stocks that are recommended.
Fitting(keywords) == {c \in StoredCodes : Total(keywords) # 0 /\ Matched(keywords, c) # {}}

\* Each of two matches is the better one, or as good and first by name.
Ahead(keywords, c, e) ==
    /\ (Portion(keywords, e) - Portion(keywords, c)) * Scale <= Whole(keywords)
    /\ Portion(keywords, c) = Portion(keywords, e) =>
          \/ \A a, b \in 1 .. Len(ByName) : ByName[a] = c /\ ByName[b] = e => a < b
          \/ c \in Halves(keywords)

LEMMA PlacedBest ==
    ASSUME NEW keywords, NEW m, NEW L \in Nat, L = Len(m), DOMAIN m = 1 .. L,
           \A i, j \in 1 .. L : m[i] = m[j] => i = j,
           \A i \in 1 .. L : m[i] \in Fitting(keywords),
           \A c \in Fitting(keywords) : \E i \in 1 .. L : m[i] = c,
           \A i, j \in 1 .. L : i < j => Ahead(keywords, m[i], m[j])
    PROVE  BestComeFirst(keywords, m)
<1>. DEFINE place(c) == CHOOSE i \in DOMAIN m : m[i] = c
<1>. DEFINE byName(c) == CHOOSE i \in DOMAIN ByName : ByName[i] = c
<1>1. ToSet(m) = {m[i] : i \in 1 .. L}
  BY Zenon DEF ToSet
<1>2. ToSet(m) = Fitting(keywords)
  <2>1. ASSUME NEW c \in ToSet(m) PROVE c \in Fitting(keywords)
    BY <1>1
  <2>2. ASSUME NEW c \in Fitting(keywords) PROVE c \in ToSet(m)
    BY <1>1
  <2>. QED BY <2>1, <2>2
<1>3. Len(m) = Cardinality(ToSet(m))
  <2>1. \A i \in 1 .. L : m[i] \in ToSet(m)
    BY <1>1
  <2>2. \A x \in ToSet(m) : \E i \in 1 .. L : m[i] = x
    BY <1>1
  <2>. QED BY <2>1, <2>2, OnceCounted
<1>4. \A c \in ToSet(m) : place(c) \in 1 .. L /\ m[place(c)] = c
  BY <1>1
<1>5. DOMAIN ByName = 1 .. Len(ByName)
  BY NamesOnce
<1>6. \A c \in ToSet(m) : byName(c) \in 1 .. Len(ByName) /\ ByName[byName(c)] = c
  <2>1. ASSUME NEW c \in ToSet(m) PROVE \E i \in DOMAIN ByName : ByName[i] = c
    <3>1. c \in StockCodes
      BY <1>2 DEF Fitting, StoredCodes
    <3>. QED BY <1>5, <3>1, NamesOnce
  <2>. QED BY <1>5, <2>1
<1>. HIDE DEF place, byName
<1>7. ASSUME NEW a \in ToSet(m), NEW b \in ToSet(m), place(a) < place(b)
      PROVE  /\ (Portion(keywords, b) - Portion(keywords, a)) * Scale <= Whole(keywords)
             /\ Portion(keywords, a) = Portion(keywords, b) =>
                   byName(a) < byName(b) \/ a \in Halves(keywords)
  <2>1. Ahead(keywords, a, b)
    <3>1. /\ place(a) \in 1 .. L /\ m[place(a)] = a
          /\ place(b) \in 1 .. L /\ m[place(b)] = b
      BY <1>4
    <3>2. Ahead(keywords, m[place(a)], m[place(b)])
      BY <1>7, <3>1
    <3>. QED BY <3>1, <3>2, Zenon
  <2>2. (Portion(keywords, b) - Portion(keywords, a)) * Scale <= Whole(keywords)
    BY <2>1, Zenon DEF Ahead
  <2>3. Portion(keywords, a) = Portion(keywords, b) =>
           \/ \A x, y \in 1 .. Len(ByName) : ByName[x] = a /\ ByName[y] = b => x < y
           \/ a \in Halves(keywords)
    BY <2>1, Zenon DEF Ahead
  <2>. QED BY <1>6, <2>2, <2>3, Zenon
<1>8. \A a, b \in ToSet(m) : place(a) < place(b) =>
         /\ (Portion(keywords, b) - Portion(keywords, a)) * Scale <= Whole(keywords)
         /\ Portion(keywords, a) = Portion(keywords, b) =>
               byName(a) < byName(b) \/ a \in Halves(keywords)
  BY <1>7, Zenon
<1>9. ToSet(m) = {c \in StoredCodes : Total(keywords) # 0 /\ Matched(keywords, c) # {}}
  BY <1>2, Zenon DEF Fitting
<1>. QED BY <1>3, <1>8, <1>9, Zenon DEF BestComeFirst, place, byName

LEMMA MatchesBest ==
    ASSUME NEW keywords, Counts(keywords), NEW up
    PROVE  BestComeFirst(keywords, Match(keywords, up))
<1>1. PICK d \in Nat : d = Whole(keywords) /\ (d = 0 <=> Total(keywords) = 0)
  BY Weighed
<1>2. StoredCodes \subseteq StockCodes
  BY DEF StoredCodes
<1>3. PICK key : key = [c \in StoredCodes |->
                           Round(Portion(keywords, c), Whole(keywords), c \in up)]
  OBVIOUS
<1>4. PICK set : set = {c \in StoredCodes : Matched(keywords, c) # {}}
  OBVIOUS
<1>5. Match(keywords, up) = IF StoredCodes = {} \/ Total(keywords) = 0 THEN <<>>
                            ELSE SortedBy(Only(ByName, set), key)
  BY <1>3, <1>4, Zenon DEF Match
<1>6. CASE StoredCodes = {} \/ Total(keywords) = 0
  <2>1. Match(keywords, up) = <<>>
    BY <1>5, <1>6, Zenon
  <2>2. Fitting(keywords) = {}
    BY <1>6 DEF Fitting
  <2>3. PICK m : m = Match(keywords, up)
    OBVIOUS
  <2>4. Len(m) = 0 /\ DOMAIN m = 1 .. 0
    BY <2>1, <2>3
  <2>5. BestComeFirst(keywords, m)
    BY <2>2, <2>4, PlacedBest
  <2>. QED BY <2>3, <2>5
<1>7. CASE ~(StoredCodes = {} \/ Total(keywords) = 0)
  <2>1. d \in Nat \ {0}
    BY <1>1, <1>7
  <2>2. \A c \in StoredCodes : key[c] = Round(Portion(keywords, c), d, c \in up)
    BY <1>1, <1>3
  <2>3. \A c \in StoredCodes : Portion(keywords, c) \in Int
    BY Weighed
  <2>4. \A c \in StoredCodes : key[c] \in Int
    BY <2>1, <2>2, <2>3, RoundedWell
  <2>5. set \in SUBSET StockCodes /\ set \subseteq StoredCodes
    BY <1>2, <1>4
  <2>6. PICK m : m = Match(keywords, up) /\ Ranked(m, key, set)
    <3>1. Ranked(SortedBy(Only(ByName, set), key), key, set)
      BY <2>4, <2>5, ChoiceRanked
    <3>. QED BY <1>5, <1>7, <3>1
  <2>7. PICK L \in Nat : L = Len(m) /\ DOMAIN m = 1 .. L
    BY <2>6 DEF Ranked
  <2>8. set = Fitting(keywords)
    BY <1>4, <1>7 DEF Fitting
  <2>9. /\ \A i, j \in 1 .. L : m[i] = m[j] => i = j
        /\ \A i \in 1 .. L : m[i] \in set
        /\ \A c \in set : \E i \in 1 .. L : m[i] = c
    BY <2>6, <2>7, Zenon DEF Ranked
  <2>10. /\ \A i, j \in 1 .. L : i < j => key[m[i]] >= key[m[j]]
         /\ \A i, j \in 1 .. L, a, b \in 1 .. Len(ByName) :
               i < j /\ key[m[i]] = key[m[j]]
               /\ m[i] = ByName[a] /\ m[j] = ByName[b] => a < b
    BY <2>6, <2>7, Zenon DEF Ranked
  <2>11. ASSUME NEW i \in 1 .. L, NEW j \in 1 .. L, i < j PROVE Ahead(keywords, m[i], m[j])
    <3>1. PICK c \in StoredCodes, e \in StoredCodes : c = m[i] /\ e = m[j]
      BY <2>5, <2>9
    <3>2. PICK x \in Int, y \in Int : x = Portion(keywords, c) /\ y = Portion(keywords, e)
      BY <2>3
    <3>3. /\ key[c] = Round(x, d, c \in up) /\ key[e] = Round(y, d, e \in up)
          /\ key[c] >= key[e]
      BY <2>2, <2>10, <2>11, <3>1, <3>2
    <3>4. (y - x) * Scale <= d
      BY <2>1, <3>3, RoundedOrder
    <3>5. x = y => \/ \A a, b \in 1 .. Len(ByName) : ByName[a] = c /\ ByName[b] = e => a < b
                   \/ c \in Halves(keywords)
      <4>1. SUFFICES ASSUME x = y, c \notin Halves(keywords)
                     PROVE  \A a, b \in 1 .. Len(ByName) :
                               ByName[a] = c /\ ByName[b] = e => a < b
        OBVIOUS
      <4>2. ~InTheMiddle(x, d)
        BY <1>1, <1>7, <3>1, <3>2, <4>1 DEF Halves
      <4>3. key[c] = key[e]
        BY <2>1, <3>3, <4>1, <4>2, RoundedWell
      <4>. QED BY <2>10, <2>11, <3>1, <4>3
    <3>6. Ahead(keywords, c, e)
      BY <1>1, <3>2, <3>4, <3>5, Zenon DEF Ahead
    <3>. QED BY <3>1, <3>6
  <2>12. BestComeFirst(keywords, m)
    BY <2>7, <2>8, <2>9, <2>11, PlacedBest
  <2>. QED BY <2>6, <2>12
<1>. QED BY <1>6, <1>7

-----------------------------------------------------------------------------
(* The keywords of the comments.                                           *)

LEMMA MinOfTwo ==
    ASSUME NEW a \in Nat, NEW b \in Nat
    PROVE  /\ Min({a, b}) \in Nat /\ Min({a, b}) <= a /\ Min({a, b}) <= b
           /\ Min({a, b}) = a \/ Min({a, b}) = b
<1>1. \E x \in {a, b} : \A y \in {a, b} : x <= y
  OBVIOUS
<1>2. Min({a, b}) \in {a, b} /\ \A y \in {a, b} : Min({a, b}) <= y
  BY <1>1 DEF Min
<1>. QED BY <1>2

LEMMA NormalizesToNoun ==
    ASSUME NEW w \in Nouns
    PROVE  Normalize(w) \in Nouns
<1>1. CASE \E k \in DOMAIN SynonymGroups : w \in SynonymGroups[k]
  <2>1. PICK k : k = Normalize(w)
    OBVIOUS
  <2>2. k \in DOMAIN SynonymGroups
    BY <1>1, <2>1 DEF Normalize
  <2>3. k \in SynonymGroups[k] /\ SynonymGroups[k] \in SUBSET Nouns
    BY <2>2, StockThemesAssumption
  <2>. QED BY <2>1, <2>3
<1>2. CASE ~ \E k \in DOMAIN SynonymGroups : w \in SynonymGroups[k]
  <2>1. Normalize(w) = w
    BY <1>2, Zenon DEF Normalize
  <2>. QED BY <2>1
<1>. QED BY <1>1, <1>2

LEMMA KeywordsFrequent ==
    ASSUME saidNouns \in Seq(Nouns), NEW topN \in Nat
    PROVE  MostFrequentKept(Keywords(topN), topN) /\ Counts(Keywords(topN))
<1>1. PICK L \in Nat : L = Len(saidNouns) /\ DOMAIN saidNouns = 1 .. L
  OBVIOUS
<1>2. PICK t : t = MergeSynonyms(CountWords(saidNouns)) /\ Merges(t, Nouns, saidNouns)
  BY NormalizesToNoun, SynonymsMerged
<1>3. PICK q \in Seq(Nouns), f \in Dictionaries(Nouns, Nat) : q = t.keys /\ f = t.count
  BY <1>2 DEF Merges, CountersOf
<1>4. PICK D \in SUBSET Nouns : f \in [D -> Nat] /\ DOMAIN f = D
  BY DEF Dictionaries
<1>5. PICK N \in Nat : N = Len(q) /\ DOMAIN q = 1 .. N
  OBVIOUS
<1>6. /\ \A i, j \in 1 .. N : q[i] = q[j] => i = j
      /\ D = {q[i] : i \in 1 .. N}
      /\ D = {Normalize(saidNouns[i]) : i \in 1 .. L}
      /\ \A k \in D : f[k] = Cardinality({i \in 1 .. L : Normalize(saidNouns[i]) = k})
  <2>1. /\ \A i, j \in 1 .. Len(t.keys) : t.keys[i] = t.keys[j] => i = j
        /\ DOMAIN t.count = {t.keys[i] : i \in 1 .. Len(t.keys)}
        /\ DOMAIN t.count = {Normalize(saidNouns[i]) : i \in 1 .. Len(saidNouns)}
        /\ \A k \in DOMAIN t.count :
              t.count[k] = Cardinality({i \in 1 .. Len(saidNouns) : Normalize(saidNouns[i]) = k})
    BY <1>2, Zenon DEF Merges
  <2>2. t.keys = q /\ t.count = f /\ Len(t.keys) = N /\ Len(saidNouns) = L /\ DOMAIN t.count = D
    BY <1>1, <1>3, <1>4, <1>5
  <2>. QED BY <2>1, <2>2
<1>7. q \in Seq(D)
  <2>1. \A i \in 1 .. N : q[i] \in D
    BY <1>6
  <2>2. q \in [1 .. N -> D]
    BY <1>5, <2>1
  <2>. QED BY <2>2, SequenceOf
<1>8. IsFiniteSet(D) /\ Cardinality(D) = N
  <2>1. \A i \in 1 .. N : q[i] \in D
    BY <1>6
  <2>2. \A x \in D : \E i \in 1 .. N : q[i] = x
    BY <1>6
  <2>3. \A i, j \in 1 .. N : q[i] = q[j] => i = j
    BY <1>6
  <2>. QED BY <2>1, <2>2, <2>3, OnceCounted
<1>9. PICK r : r = SortedBy(q, f) /\ r \in Seq(D) /\ Sorts(r, q, f, N)
  <2>1. \A k \in D : f[k] \in Int
    BY <1>4
  <2>. QED BY <1>5, <1>6, <1>7, <2>1, SortedSorts
<1>10. Len(r) = N /\ DOMAIN r = 1 .. N /\ \A i \in 1 .. N : r[i] \in D
  BY <1>9, ElementOfSeq DEF Sorts
<1>11. /\ \A i, j \in 1 .. N : r[i] = r[j] => i = j
       /\ \A i, j \in 1 .. N : i < j => f[r[i]] >= f[r[j]]
       /\ \A k \in D : \E i \in 1 .. N : r[i] = k
  <2>1. \A i \in 1 .. N : f[r[i]] \in Int
    BY <1>4, <1>10
  <2>2. \A a \in 1 .. N : \E i \in 1 .. N : r[i] = q[a]
    BY <1>9, Zenon DEF Sorts
  <2>3. \A k \in D : \E i \in 1 .. N : r[i] = k
    BY <1>6, <2>2
  <2>4. \A i, j \in 1 .. N : r[i] = r[j] => i = j
    <3>1. Once(r, N)
      BY <1>9, <2>1, SortedOnce
    <3>. QED BY <3>1, Zenon DEF Once
  <2>5. \A i, j \in 1 .. N : i < j => f[r[i]] >= f[r[j]]
    BY <1>9, <2>1, SortedOnce
  <2>. QED BY <2>3, <2>4, <2>5
<1>12. PICK M \in Nat : M = Min({topN, N}) /\ M <= N
  BY MinOfTwo
<1>13. PICK T : T = {r[i] : i \in 1 .. M}
  OBVIOUS
<1>14. \A i \in 1 .. M : i \in 1 .. N
  BY <1>12
<1>15. ToSet(SubSeq(r, 1, M)) = T
  <2>1. \A i \in 1 .. M : r[i] \in D
    BY <1>10, <1>14
  <2>2. M \in Int /\ 1 \in Int /\ (1 <= M \/ M = 0)
    OBVIOUS
  <2>3. /\ SubSeq(r, 1, M) \in Seq(D)
        /\ Len(SubSeq(r, 1, M)) = IF 1 <= M THEN M - 1 + 1 ELSE 0
        /\ \A i \in 1 .. M - 1 + 1 : SubSeq(r, 1, M)[i] = r[1 + i - 1]
    BY <2>1, <2>2, SubSeqProperties
  <2>4. PICK u \in Seq(D) : u = SubSeq(r, 1, M)
    BY <2>3
  <2>5. DOMAIN u = 1 .. M /\ \A i \in 1 .. M : u[i] = r[i]
    BY <2>3, <2>4
  <2>6. ToSet(u) = {u[i] : i \in 1 .. M}
    BY <2>5, Zenon DEF ToSet
  <2>. QED BY <1>13, <2>4, <2>5, <2>6
<1>16. T \subseteq D /\ IsFiniteSet(T) /\ Cardinality(T) = M
  <2>1. \A i, j \in 1 .. M : r[i] = r[j] => i = j
    BY <1>11, <1>14
  <2>2. \A i \in 1 .. M : r[i] \in T
    BY <1>13
  <2>3. \A x \in T : \E i \in 1 .. M : r[i] = x
    BY <1>13
  <2>4. IsFiniteSet(T) /\ Cardinality(T) = M
    BY <2>1, <2>2, <2>3, OnceCounted
  <2>5. \A i \in 1 .. M : r[i] \in D
    BY <1>10, <1>14
  <2>. QED BY <2>3, <2>4, <2>5
<1>17. PICK kept : kept = Keywords(topN)
  OBVIOUS
<1>18. kept = [x \in T |-> f[x]]
  <2>1. Keywords(topN) = Restrict(f, ToSet(SubSeq(r, 1, Min({topN, Len(r)}))))
    BY <1>2, <1>3, <1>9, Zenon DEF Keywords
  <2>2. Keywords(topN) = Restrict(f, T)
    BY <1>10, <1>12, <1>15, <2>1, Zenon
  <2>. QED BY <1>17, <2>2 DEF Restrict
<1>19. DOMAIN kept = T /\ \A k \in T : kept[k] = f[k] /\ kept[k] \in Nat
  BY <1>4, <1>16, <1>18
<1>20. Counts(kept)
  <2>1. kept \in [DOMAIN kept -> Nat]
    BY <1>18, <1>19
  <2>. QED BY <1>16, <1>19, <2>1 DEF Counts
<1>. DEFINE said(k) == Cardinality({i \in DOMAIN saidNouns : Normalize(saidNouns[i]) = k})
<1>21. \A k \in D : f[k] = said(k)
  BY <1>1, <1>6
<1>22. ASSUME NEW k \in Nouns \ D PROVE said(k) = 0
  <2>1. {i \in DOMAIN saidNouns : Normalize(saidNouns[i]) = k} = {}
    <3>1. \A i \in 1 .. L : Normalize(saidNouns[i]) # k
      BY <1>6
    <3>. QED BY <1>1, <3>1
  <2>. QED BY <2>1, FS_EmptySet
<1>23. {Normalize(w) : w \in ToSet(saidNouns)} = D
  <2>1. ToSet(saidNouns) = {saidNouns[i] : i \in 1 .. L}
    BY <1>1, Zenon DEF ToSet
  <2>2. ASSUME NEW x \in D PROVE \E w \in ToSet(saidNouns) : Normalize(w) = x
    <3>1. PICK i \in 1 .. L : x = Normalize(saidNouns[i])
      BY <1>6
    <3>2. saidNouns[i] \in ToSet(saidNouns)
      BY <2>1
    <3>. QED BY <3>1, <3>2
  <2>3. ASSUME NEW w \in ToSet(saidNouns) PROVE Normalize(w) \in D
    <3>1. PICK i \in 1 .. L : w = saidNouns[i]
      BY <2>1
    <3>2. Normalize(saidNouns[i]) \in D
      BY <1>6
    <3>. QED BY <3>1, <3>2
  <2>. QED BY <2>2, <2>3
<1>. HIDE DEF said
<1>24. ASSUME NEW k \in T, NEW other \in Nouns \ T PROVE said(other) <= kept[k]
  <2>1. CASE other \in D
    <3>1. PICK i \in 1 .. M : k = r[i]
      BY <1>13
    <3>2. PICK j \in 1 .. N : other = r[j]
      BY <1>11, <2>1
    <3>3. ~(j \in 1 .. M)
      BY <1>13, <1>24, <3>2
    <3>4. i < j /\ i \in 1 .. N
      BY <1>14, <3>3
    <3>5. f[k] >= f[other] /\ f[k] \in Nat /\ f[other] \in Nat
      BY <1>4, <1>11, <1>16, <2>1, <3>1, <3>2, <3>4
    <3>. QED BY <1>19, <1>21, <2>1, <3>5
  <2>2. CASE other \notin D
    BY <1>19, <1>22, <2>2
  <2>. QED BY <2>1, <2>2
<1>25. Cardinality(DOMAIN kept) = Min({topN, Cardinality({Normalize(w) : w \in ToSet(saidNouns)})})
  BY <1>8, <1>12, <1>16, <1>19, <1>23
<1>26. \A k \in DOMAIN kept :
          /\ kept[k] = said(k)
          /\ \A other \in Nouns \ DOMAIN kept : said(other) <= kept[k]
  BY <1>16, <1>19, <1>21, <1>24
<1>27. MostFrequentKept(kept, topN)
  BY <1>25, <1>26, Zenon DEF MostFrequentKept, said
<1>. QED BY <1>17, <1>20, <1>27

-----------------------------------------------------------------------------
(* The reasons.                                                            *)

\* h has for each code that the first n items give a text one of those texts.
Explains(h, reply, n) ==
    /\ \A j \in 1 .. n : Says(reply[j].text) => reply[j].code \in DOMAIN h
    /\ \A c \in DOMAIN h : \E j \in 1 .. n :
          reply[j].code = c /\ Says(reply[j].text) /\ h[c] = reply[j].text

\* What ReasonMap's recursion makes of the dictionary g before n.
ReasonAt(reply, n, g) ==
    IF Says(reply[n].text) THEN Assigned(g[n - 1], reply[n].code, reply[n].text) ELSE g[n - 1]

LEMMA ReasonStep ==
    ASSUME NEW K, NEW V, NEW reply, NEW L \in Nat,
           \A j \in 1 .. L : reply[j].code \in K /\ reply[j].text \in V,
           NEW n \in 1 .. L, NEW h \in Dictionaries(K, V), Explains(h, reply, n - 1),
           NEW t, t = IF Says(reply[n].text) THEN Assigned(h, reply[n].code, reply[n].text) ELSE h
    PROVE  t \in Dictionaries(K, V) /\ Explains(t, reply, n)
<1>1. PICK c \in K, v \in V : c = reply[n].code /\ v = reply[n].text
  OBVIOUS
<1>2. \A j \in 1 .. n : j = n \/ j \in 1 .. n - 1
  OBVIOUS
<1>3. \A j \in 1 .. n - 1 : j \in 1 .. n
  OBVIOUS
<1>4. /\ \A j \in 1 .. n - 1 : Says(reply[j].text) => reply[j].code \in DOMAIN h
      /\ \A x \in DOMAIN h : \E j \in 1 .. n - 1 :
            reply[j].code = x /\ Says(reply[j].text) /\ h[x] = reply[j].text
  BY Zenon DEF Explains
<1>5. CASE Says(v)
  <2>1. t = Assigned(h, c, v)
    BY <1>1, <1>5
  <2>2. t \in Dictionaries(K, V) /\ Sets(t, h, c, v)
    BY <2>1, DictionaryWith
  <2>3. DOMAIN t = DOMAIN h \cup {c} /\ t[c] = v /\ \A x \in DOMAIN h \ {c} : t[x] = h[x]
    BY <2>2 DEF Sets
  <2>4. \A j \in 1 .. n : Says(reply[j].text) => reply[j].code \in DOMAIN t
    BY <1>1, <1>2, <1>4, <2>3
  <2>5. ASSUME NEW x \in DOMAIN t
        PROVE  \E j \in 1 .. n : reply[j].code = x /\ Says(reply[j].text) /\ t[x] = reply[j].text
    <3>1. CASE x = c
      BY <1>1, <1>5, <2>3, <3>1
    <3>2. CASE x # c
      BY <1>3, <1>4, <2>3, <3>2
    <3>. QED BY <3>1, <3>2
  <2>6. Explains(t, reply, n)
    BY <2>4, <2>5, Zenon DEF Explains
  <2>. QED BY <2>2, <2>6
<1>6. CASE ~Says(v)
  <2>1. t = h
    BY <1>1, <1>6
  <2>2. \A j \in 1 .. n : Says(reply[j].text) => reply[j].code \in DOMAIN t
    BY <1>1, <1>2, <1>4, <1>6, <2>1
  <2>3. \A x \in DOMAIN t : \E j \in 1 .. n :
           reply[j].code = x /\ Says(reply[j].text) /\ t[x] = reply[j].text
    BY <1>3, <1>4, <2>1
  <2>4. Explains(t, reply, n)
    BY <2>2, <2>3, Zenon DEF Explains
  <2>. QED BY <2>1, <2>4
<1>. QED BY <1>5, <1>6

LEMMA ReasonsExplain ==
    ASSUME NEW reply, NEW L \in Nat, Len(reply) = L
    PROVE  Explains(ReasonMap(reply), reply, L)
<1>1. PICK K : K = {reply[j].code : j \in 1 .. L}
  OBVIOUS
<1>2. PICK V : V = {reply[j].text : j \in 1 .. L}
  OBVIOUS
<1>3. \A j \in 1 .. L : reply[j].code \in K /\ reply[j].text \in V
  BY <1>1, <1>2
<1>4. PICK S : S = Dictionaries(K, V)
  OBVIOUS
<1>5. PICK step \in [(1 .. L) \X S -> S] :
         \A n \in 1 .. L, h \in S :
            step[<<n, h>>] = IF Says(reply[n].text) THEN Assigned(h, reply[n].code, reply[n].text) ELSE h
  <2>. DEFINE step == [x \in (1 .. L) \X S |->
                         IF Says(reply[x[1]].text)
                         THEN Assigned(x[2], reply[x[1]].code, reply[x[1]].text) ELSE x[2]]
  <2>1. ASSUME NEW x \in (1 .. L) \X S
        PROVE  (IF Says(reply[x[1]].text)
                THEN Assigned(x[2], reply[x[1]].code, reply[x[1]].text) ELSE x[2]) \in S
    <3>1. x[1] \in 1 .. L /\ x[2] \in S /\ reply[x[1]].code \in K /\ reply[x[1]].text \in V
      BY <1>3
    <3>2. Assigned(x[2], reply[x[1]].code, reply[x[1]].text) \in S
      BY <1>4, <3>1, DictionaryWith
    <3>. QED BY <3>1, <3>2
  <2>2. step \in [(1 .. L) \X S -> S]
    BY <2>1
  <2>3. \A n \in 1 .. L, h \in S :
          step[<<n, h>>] = IF Says(reply[n].text) THEN Assigned(h, reply[n].code, reply[n].text) ELSE h
    OBVIOUS
  <2>. HIDE DEF step
  <2>. QED BY <2>2, <2>3
<1>6. <<>> \in S
  <2>1. <<>> \in [{} -> V] /\ {} \in SUBSET K
    OBVIOUS
  <2>. QED BY <1>4, <2>1 DEF Dictionaries
<1>7. PICK g \in [0 .. L -> S] : Computed(g, L, <<>>, step)
  BY <1>6, Recursion
<1>8. ASSUME NEW n \in 1 .. L PROVE g[n] = ReasonAt(reply, n, g) /\ g[n - 1] \in S
  <2>1. n - 1 \in 0 .. L
    OBVIOUS
  <2>2. g[n - 1] \in S
    BY <1>7, <2>1
  <2>3. g[n] = step[<<n, g[n - 1]>>]
    BY <1>7 DEF Computed
  <2>. QED BY <1>5, <2>2, <2>3 DEF ReasonAt
<1>9. g = [n \in 0 .. L |-> IF n = 0 THEN <<>> ELSE ReasonAt(reply, n, g)]
  <2>1. \A n \in 0 .. L : g[n] = IF n = 0 THEN <<>> ELSE ReasonAt(reply, n, g)
    BY <1>7, <1>8 DEF Computed
  <2>. QED BY <1>7, <2>1
<1>. DEFINE after[n \in 0 .. Len(reply)] ==
                IF n = 0 THEN <<>>
                ELSE IF Says(reply[n].text)
                     THEN Assigned(after[n - 1], reply[n].code, reply[n].text) ELSE after[n - 1]
<1>10. ReasonMap(reply) = after[Len(reply)]
  BY Zenon DEF ReasonMap
<1>11. \E f : f = [n \in 0 .. Len(reply) |-> IF n = 0 THEN <<>> ELSE ReasonAt(reply, n, f)]
  BY <1>9
<1>12. after = [n \in 0 .. Len(reply) |-> IF n = 0 THEN <<>> ELSE ReasonAt(reply, n, after)]
  BY <1>11, Zenon DEF ReasonAt
<1>. HIDE DEF after
<1>13. after[0] = <<>> /\ \A n \in 1 .. L : after[n] = ReasonAt(reply, n, after)
  <2>1. 0 \in 0 .. Len(reply)
    OBVIOUS
  <2>2. \A n \in 1 .. L : n \in 0 .. Len(reply) /\ n # 0
    OBVIOUS
  <2>. QED BY <1>12, <2>1, <2>2, Zenon
<1>. DEFINE G == {k \in 0 .. L : after[k] \in S /\ Explains(after[k], reply, k)}
<1>14. 0 \in G
  <2>1. Explains(<<>>, reply, 0)
    BY DEF Explains
  <2>2. after[0] \in S /\ Explains(after[0], reply, 0)
    BY <1>6, <1>13, <2>1, Zenon
  <2>. QED BY <2>2
<1>15. ASSUME NEW n \in 1 .. L, n - 1 \in G PROVE n \in G
  <2>1. PICK h \in S : h = after[n - 1]
    BY <1>15
  <2>2. Explains(h, reply, n - 1)
    BY <1>15, <2>1
  <2>3. PICK t : t = IF Says(reply[n].text) THEN Assigned(h, reply[n].code, reply[n].text) ELSE h
    OBVIOUS
  <2>4. t \in S /\ Explains(t, reply, n)
    BY <1>3, <1>4, <2>2, <2>3, ReasonStep
  <2>5. after[n] = t
    BY <1>13, <2>1, <2>3 DEF ReasonAt
  <2>. QED BY <2>4, <2>5
<1>. HIDE DEF G
<1>16. L \in G
  <2>1. \A n \in 0 .. L : n \in G
    BY <1>14, <1>15, UpTo
  <2>. QED BY <2>1
<1>. QED BY <1>10, <1>16 DEF G

\* What an answer of the LLM says of a code.
SaidOf(c, reply) ==
    IF reply = LLMFailed THEN {}
    ELSE {reply[j].text : j \in {n \in DOMAIN reply : reply[n].code = c}} \ {Blank}

LEMMA OwnReason ==
    ASSUME NEW matches, NEW i \in DOMAIN matches, NEW reply \in Replies
    PROVE  /\ Recommend(matches, reply)[i].code = matches[i]
           /\ Recommend(matches, reply)[i].reason \in
                 IF SaidOf(matches[i], reply) = {} THEN {Fallback(Recommend(matches, reply)[i].code)}
                 ELSE SaidOf(matches[i], reply)
<1>1. PICK c : c = matches[i]
  OBVIOUS
<1>2. PICK given : given = SaidOf(c, reply)
  OBVIOUS
<1>3. PICK m : m = ReasonMap(reply)
  OBVIOUS
<1>4. PICK reason : reason = IF reply # LLMFailed /\ c \in DOMAIN m THEN m[c] ELSE Fallback(c)
  OBVIOUS
<1>5. Recommend(matches, reply)[i] = [code |-> c, reason |-> reason]
  <2>1. Reasons(matches, reply)[i] = reason
    BY <1>1, <1>3, <1>4 DEF Reasons
  <2>. QED BY <1>1, <2>1 DEF Recommend
<1>6. reason \in IF given = {} THEN {Fallback(c)} ELSE given
  <2>1. CASE reply = LLMFailed
    BY <1>2, <1>4, <2>1 DEF SaidOf
  <2>2. CASE reply # LLMFailed
    <3>1. PICK L \in Nat : L = Len(reply) /\ DOMAIN reply = 1 .. L
      BY <2>2, StockThemesAssumption
    <3>2. Explains(m, reply, L)
      BY <1>3, <3>1, ReasonsExplain
    <3>3. \A x : x \in given <=> \E j \in 1 .. L : reply[j].code = c /\ x = reply[j].text /\ Says(x)
      BY <1>2, <2>2, <3>1 DEF SaidOf, Says
    <3>4. CASE c \in DOMAIN m
      <4>1. m[c] \in given
        BY <3>2, <3>3, <3>4 DEF Explains
      <4>. QED BY <1>4, <2>2, <3>4, <4>1
    <3>5. CASE c \notin DOMAIN m
      <4>1. given = {}
        BY <3>2, <3>3, <3>5 DEF Explains
      <4>. QED BY <1>4, <3>5, <4>1
    <3>. QED BY <3>4, <3>5
  <2>. QED BY <2>1, <2>2
<1>7. Recommend(matches, reply)[i].code = c /\ Recommend(matches, reply)[i].reason = reason
  BY <1>5
<1>. QED BY <1>1, <1>2, <1>6, <1>7

LEMMA ReasonsOwn ==
    ASSUME NEW matches
    PROVE  ReasonsAreTheirOwn(matches)
BY OwnReason, Zenon DEF ReasonsAreTheirOwn, SaidOf

-----------------------------------------------------------------------------
\* The comments hold nouns.
CommentsTyped == saidNouns \in Seq(Nouns)

LEMMA CommentsTypedNext == CommentsTyped /\ [StockThemesNext]_themeVars => CommentsTyped'
<1>. SUFFICES ASSUME CommentsTyped, [StockThemesNext]_themeVars PROVE CommentsTyped'
  OBVIOUS
<1>. USE DEF CommentsTyped
<1>1. ASSUME UNCHANGED saidNouns PROVE CommentsTyped'
  BY <1>1
<1>2. ASSUME NEW w \in Nouns, CommentSaved(w) PROVE CommentsTyped'
  <2>1. PICK p \in 1 .. Len(saidNouns) + 1 : saidNouns' = InsertAt(saidNouns, p, w)
    BY <1>2 DEF CommentSaved
  <2>. QED BY <2>1, Inserted
<1>3. ASSUME NEW w \in Nouns, NEW i \in DOMAIN saidNouns, CommentUpdated(i, w)
      PROVE  CommentsTyped'
  <2>1. PICK p \in 1 .. Len(saidNouns) : saidNouns' = InsertAt(RemoveAt(saidNouns, i), p, w)
    BY <1>3 DEF CommentUpdated
  <2>2. i \in 1 .. Len(saidNouns)
    OBVIOUS
  <2>3. PICK rest \in Seq(Nouns) : rest = RemoveAt(saidNouns, i) /\ Len(rest) = Len(saidNouns) - 1
    BY <2>2, Removed
  <2>4. p \in 1 .. Len(rest) + 1
    BY <2>3
  <2>. QED BY <2>1, <2>3, <2>4, Inserted
<1>4. CASE UNCHANGED themeVars
  BY <1>1, <1>4 DEF themeVars
<1>5. CASE SeedNext
  BY <1>1, <1>5 DEF SeedNext, SeedBegins, Save, SaveConflicts, Refresh, WorkerEnds
<1>6. CASE CommentNext
  BY <1>2, <1>3, <1>6 DEF CommentNext
<1>. QED BY <1>4, <1>5, <1>6 DEF StockThemesNext

LEMMA RecommendedWell == CommentsTyped => RecommendationsAreTrue
<1>. SUFFICES ASSUME CommentsTyped PROVE RecommendationsAreTrue
  OBVIOUS
<1>1. ASSUME NEW topN \in 1 .. CommentBound
      PROVE  /\ MostFrequentKept(Keywords(topN), topN)
             /\ \A up \in SUBSET Halves(Keywords(topN)) :
                   /\ BestComeFirst(Keywords(topN), Match(Keywords(topN), up))
                   /\ ReasonsAreTheirOwn(Match(Keywords(topN), up))
  <2>1. topN \in Nat
    OBVIOUS
  <2>2. MostFrequentKept(Keywords(topN), topN) /\ Counts(Keywords(topN))
    BY <2>1, KeywordsFrequent DEF CommentsTyped
  <2>. QED BY <2>2, MatchesBest, ReasonsOwn
<1>2. ASSUME NEW keywords \in Posted, NEW up
      PROVE  BestComeFirst(keywords, Match(keywords, up))
  <2>1. Counts(keywords)
    BY StockThemesAssumption DEF Counts
  <2>. QED BY <2>1, MatchesBest
<1>. QED BY <1>1, <1>2, Zenon DEF RecommendationsAreTrue

\* What a recommendation shows is true, of whatever comments were collected,
\* whatever counts are sent, whatever the table holds and whichever way the
\* floats fall: the keywords are those said most often, the stocks come by their
\* share of them and their name, and each has a reason of its own
\* (recommend_stocks_usecase.py:22-43).
THEOREM RecommendationsAlwaysTrue == StockThemesSpec => []RecommendationsAreTrue
<1>1. StockThemesInit => CommentsTyped
  BY DEF StockThemesInit, CommentsTyped
<1>. QED BY <1>1, CommentsTypedNext, RecommendedWell, PTL DEF StockThemesSpec

=============================================================================
