---------------------------- MODULE MarketVideos -----------------------------
(***************************************************************************)
(* The table market_videos: POST /youtube/collect stores the newest videos *)
(* of the news channels about a user's stocks, and the first page of       *)
(* GET /youtube/list collects from channels and search when what is stored *)
(* of its stock is old (market_video_collect_router.py, youtube_router.py, *)
(* collect_market_video_usecase.py, get_youtube_video_list_usecase.py,     *)
(* market_video_repository_impl.py).                                       *)
(*                                                                         *)
(* A handler has no await, so one worker of the server runs one at a time; *)
(* the handlers of several workers interleave wherever they touch MySQL.   *)
(* A transaction reads one snapshot, taken by its first query, and YouTube *)
(* is asked after that query; an INSERT waits for another one of the same  *)
(* video_id.  All videos are about the one stock the requests are about,   *)
(* and a later one has a larger number.                                    *)
(***************************************************************************)
EXTENDS Integers, FiniteSets, Sequences

CONSTANTS VideoWorkers,
          LastVideo,    \* the videos are 1 .. LastVideo
          TopN          \* CollectMarketVideoUseCase.TOP_N

ASSUME MarketVideosAssumption == LastVideo \in Nat /\ TopN \in Nat \ {0}

VARIABLES rows,       \* the videos with a committed row in market_videos
          oldest,     \* videos below this number are stale
          videoTask   \* worker -> the request it is at

marketVideoVars == <<rows, oldest, videoTask>>

VideoNumbers == 1 .. LastVideo
NoSnapshot == {0}
Free == [phase |-> "free"]

MarketVideosInit ==
    /\ rows = {}
    /\ oldest = 1
    /\ videoTask = [p \in VideoWorkers |-> Free]

Phase(p) == videoTask[p].phase
Become(p, r) == videoTask' = [videoTask EXCEPT ![p] = r]

\* A request before its first upsert.
NewTask(kind, phase) ==
    [kind |-> kind, phase |-> phase, source |-> "channels", snapshot |-> rows,
     batch |-> <<>>, at |-> 1,
     inserted |-> {}, reported |-> {}, failed |-> {},
     committed |-> FALSE]

\* Hours pass.
GrowStale ==
    /\ oldest <= LastVideo
    /\ oldest' = oldest + 1
    /\ UNCHANGED <<rows, videoTask>>

---------------------------------------------------------------------------
(* What YouTube is asked for.                                              *)

\* The order is that of published_at, latest first; the rest is cut off.
NewestFirst(found) ==
    [i \in 1 .. Cardinality(found) |->
       CHOOSE v \in found : Cardinality({w \in found : w >= v}) = i]

Newest(found) ==
    LET all == NewestFirst(found)
    IN  IF Len(all) > TopN THEN SubSeq(all, 1, TopN) ELSE all

\* The search answers by relevance, with videos of any age.
SearchAnswers ==
    {q \in UNION {[1 .. n -> VideoNumbers] : n \in 1 .. LastVideo} :
       \A i, j \in DOMAIN q : q[i] = q[j] => i = j}

\* POST /youtube/collect reads the watchlist first: that is its snapshot.
CollectMarketVideos(p) ==
    /\ Phase(p) = "free"
    /\ Become(p, NewTask("collect", "channels"))
    /\ UNCHANGED <<rows, oldest>>

\* GET /youtube/list with a stock, first page: find_latest_published_at.
ListVideos(p) ==
    /\ Phase(p) = "free"
    /\ Become(p, NewTask("list", IF \E v \in rows : v >= oldest
                                 THEN "page" ELSE "channels"))
    /\ UNCHANGED <<rows, oldest>>

Upsert(p, source, batch) ==
    Become(p, [videoTask[p] EXCEPT !.phase = "upsert", !.source = source,
                 !.batch = batch, !.at = 1, !.reported = {}, !.failed = {}])

\* After the channels a list asks the search, and then shows its page.
After(r) ==
    IF r.kind = "collect" THEN "answered"
    ELSE IF r.source = "channels" THEN "search" ELSE "page"

\* Channels that fail are left out, and so is a batch of details; there may be
\* nothing to store.
AskChannels(p) ==
    /\ Phase(p) = "channels"
    /\ \/ \E found \in SUBSET VideoNumbers \ {{}} : Upsert(p, "channels", Newest(found))
       \/ Become(p, [videoTask[p] EXCEPT !.phase = After(videoTask[p])])
    /\ UNCHANGED <<rows, oldest>>

\* A search that fails or finds nothing stores nothing.
AskSearch(p) ==
    /\ Phase(p) = "search"
    /\ \/ \E batch \in SearchAnswers : Upsert(p, "search", batch)
       \/ Become(p, [videoTask[p] EXCEPT !.phase = "page"])
    /\ UNCHANGED <<rows, oldest>>

---------------------------------------------------------------------------
(* upsert_all.                                                             *)

Upserting(p) == Phase(p) = "upsert" /\ videoTask[p].at <= Len(videoTask[p].batch)
Video(p) == videoTask[p].batch[videoTask[p].at]
View(p) == IF videoTask[p].snapshot = NoSnapshot THEN rows ELSE videoTask[p].snapshot
InView(p) == View(p) \cup videoTask[p].inserted

\* A row in view takes the fields of the video; they are written with the next
\* flush.
UpdateVideo(p) ==
    /\ Upserting(p)
    /\ Video(p) \in InView(p)
    /\ Become(p, [videoTask[p] EXCEPT !.at = @ + 1, !.snapshot = View(p),
                    !.reported = @ \cup {Video(p)}])
    /\ UNCHANGED <<rows, oldest>>

Held(p) == \E q \in VideoWorkers \ {p} :
              Phase(q) = "upsert" /\ Video(p) \in videoTask[q].inserted

InsertVideo(p) ==
    /\ Upserting(p)
    /\ Video(p) \notin InView(p) \cup rows
    /\ ~Held(p)
    /\ Become(p, [videoTask[p] EXCEPT !.at = @ + 1, !.snapshot = View(p),
                    !.inserted = @ \cup {Video(p)},
                    !.reported = @ \cup {Video(p)}])
    /\ UNCHANGED <<rows, oldest>>

\* The flush or the query fails, as it must if another worker has stored the
\* video since the snapshot.  The rollback takes with it whatever the batch has
\* updated or inserted so far; the loop goes on in a new transaction.
VideoFails(p) ==
    /\ Upserting(p)
    /\ Become(p, [videoTask[p] EXCEPT !.at = @ + 1, !.snapshot = NoSnapshot,
                    !.inserted = {},
                    !.failed = @ \cup {videoTask[p].at}])
    /\ UNCHANGED <<rows, oldest>>

Upserted(p) == Phase(p) = "upsert" /\ videoTask[p].at > Len(videoTask[p].batch)

\* Both upserts of a list run in the one session of its request.
Settled(p, r) ==
    Become(p, [r EXCEPT !.snapshot = NoSnapshot, !.inserted = {},
                        !.phase = After(r)])

CommitVideos(p) ==
    /\ Upserted(p)
    /\ rows' = rows \cup videoTask[p].inserted
    /\ Settled(p, [videoTask[p] EXCEPT !.committed = TRUE])
    /\ UNCHANGED oldest

\* Mutant: the videos are reported although their commit failed.
RollBackReported(p) ==
    /\ Upserted(p)
    /\ Settled(p, [videoTask[p] EXCEPT !.committed = FALSE])
    /\ UNCHANGED <<rows, oldest>>

RollBackVideos(p) ==
    /\ Upserted(p)
    /\ Settled(p, [videoTask[p] EXCEPT !.committed = FALSE, !.reported = {}])
    /\ UNCHANGED <<rows, oldest>>

---------------------------------------------------------------------------
\* The collection is answered with what upsert_all reported; the list with a
\* page of its snapshot, or with a search if that has nothing.
Answer(p) ==
    /\ Phase(p) \in {"answered", "page"}
    /\ Become(p, Free)
    /\ UNCHANGED <<rows, oldest>>

\* A worker ends: MySQL rolls back what it has not committed.
VideoWorkerEnds(p) ==
    /\ Phase(p) # "free"
    /\ Become(p, Free)
    /\ UNCHANGED <<rows, oldest>>

TaskStep(p) ==
    \/ CollectMarketVideos(p) \/ ListVideos(p)
    \/ AskChannels(p) \/ AskSearch(p)
    \/ UpdateVideo(p) \/ InsertVideo(p) \/ VideoFails(p)
    \/ CommitVideos(p) \/ RollBackVideos(p)
    \/ Answer(p) \/ VideoWorkerEnds(p)

MarketVideosNext ==
    \/ GrowStale
    \/ \E p \in VideoWorkers : TaskStep(p)

MarketVideosSpec == MarketVideosInit /\ [][MarketVideosNext]_marketVideoVars

---------------------------------------------------------------------------
\* The places of a batch after the last video that failed.
AfterFailures(r) == {i \in DOMAIN r.batch : \A f \in r.failed : f < i}

\* An upsert that is over has stored all it reported if none of its videos
\* failed, and all that came after the last one that did; what it reported and
\* has not stored was rolled back with a later video of its batch, and one
\* whose commit failed reports nothing.  Whatever other workers store
\* meanwhile, and however old the snapshot of the lookups is
\* (market_video_repository_impl.py:17-52).
ReportedIsStored ==
    \A p \in VideoWorkers :
       LET r == videoTask[p]
       IN  r.phase \in {"search", "page", "answered"} =>
             /\ ~r.committed => r.reported = {}
             /\ r.committed =>
                  /\ r.reported = {r.batch[i] : i \in DOMAIN r.batch \ r.failed}
                  /\ {r.batch[i] : i \in AfterFailures(r)} \subseteq rows
=============================================================================
