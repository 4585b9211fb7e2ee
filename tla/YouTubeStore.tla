---------------------------- MODULE YouTubeStore -----------------------------
(***************************************************************************)
(* What YouTube is asked for and where it is stored: the videos and        *)
(* comments of /market-video (youtube_router.py, collect_youtube_*_usecase *)
(* .py) in MySQL, and those an investment workflow collects                *)
(* (retrieval_node.py _handle_youtube, investment_youtube_repository.py),  *)
(* a log with its videos in MySQL and their comments in PostgreSQL.        *)
(*                                                                         *)
(* A handler stores without an await, so tasks of one worker do not        *)
(* interleave there; those of several workers do.  /market-video commits   *)
(* video by video and never rolls back: a flush that fails breaks its      *)
(* session for good.  All investment collections are about one company.    *)
(***************************************************************************)
EXTENDS Integers, FiniteSets, Sequences

CONSTANTS Workers,
          Videos,
          Comments,
          VideoOf,    \* the video a comment is about
          MaxLogs,      \* max_logs of fetch_video_ids_by_company
          CommentLimit, \* limit of fetch_comment_texts
          LogBound    \* bound: investment logs ever written

ASSUME YouTubeAssumption ==
    /\ VideoOf \in [Comments -> Videos] /\ IsFiniteSet(Comments)
    /\ MaxLogs \in Nat \ {0} /\ CommentLimit \in Nat \ {0}
    /\ LogBound \in Nat

VARIABLES ytVideos,      \* the videos in youtube_videos
          ytComments,    \* the comments in video_comments
          logs,          \* investment_youtube_logs, by id: videos and created_at
          invComments,   \* investment_youtube_video_comments: comment -> created_at
          collecting     \* worker -> the task it is at

youtubeVars == <<ytVideos, ytComments, logs, invComments, collecting>>

NoTask == [phase |-> "free"]
NoLog == 0

YouTubeStoreInit ==
    /\ ytVideos = {} /\ ytComments = {}
    /\ logs = <<>> /\ invComments = <<>>
    /\ collecting = [w \in Workers |-> NoTask]

At(w, kind, phase) ==
    collecting[w].phase = phase /\ collecting[w].kind = kind
Set(w, task) == collecting' = [collecting EXCEPT ![w] = task]
CommentsOf(vs) == {c \in Comments : VideoOf[c] \in vs}

---------------------------------------------------------------------------
(* POST /market-video/collect and GET /market-video/comments/{video_id}.   *)

\* What the channels have, or the pages of comments: YouTube may fail for a
\* channel or stop at a page, and what came so far counts.
AskVideos(w) ==
    /\ collecting[w].phase = "free"
    /\ \E found \in SUBSET Videos :
          Set(w, [kind |-> "videos", phase |-> "store", todo |-> found,
                  broken |-> FALSE, reported |-> {}])
    /\ UNCHANGED <<ytVideos, ytComments, logs, invComments>>

AskComments(w) ==
    /\ collecting[w].phase = "free"
    /\ \E v \in Videos : \E found \in SUBSET CommentsOf({v}) :
          Set(w, [kind |-> "comments", phase |-> "store", todo |-> found,
                  broken |-> FALSE, reported |-> {}])
    /\ UNCHANGED <<ytVideos, ytComments, logs, invComments>>

\* One row less to store; "reported" grows by what the answer will show.
Stored(w, row, shown, broken) ==
    Set(w, [collecting[w] EXCEPT !.todo = @ \ {row}, !.broken = broken,
                                 !.reported = @ \cup shown])

\* find_by_video_id, then update or save: a commit for each video.
StoreVideo(w, v) ==
    /\ At(w, "videos", "store") /\ v \in collecting[w].todo
    /\ ~collecting[w].broken
    /\ ytVideos' = ytVideos \cup {v}
    /\ Stored(w, v, {v}, FALSE)
    /\ UNCHANGED <<ytComments, logs, invComments>>

\* Logged, and the next video is next: but if the flush failed, because another
\* worker stored the video meanwhile or a value is too long, the session refuses
\* all that follow.
StoreVideoFails(w, v) ==
    /\ At(w, "videos", "store") /\ v \in collecting[w].todo
    /\ \E broken \in {collecting[w].broken, TRUE} : Stored(w, v, {}, broken)
    /\ UNCHANGED <<ytVideos, ytComments, logs, invComments>>

\* The row is committed; reading it again fails.
RefreshFails(w, v) ==
    /\ At(w, "videos", "store") /\ v \in collecting[w].todo
    /\ ~collecting[w].broken
    /\ ytVideos' = ytVideos \cup {v}
    /\ Stored(w, v, {}, TRUE)
    /\ UNCHANGED <<ytComments, logs, invComments>>

StoreComment(w, c) ==
    /\ At(w, "comments", "store") /\ c \in collecting[w].todo
    /\ ytComments' = ytComments \cup {c}
    /\ Stored(w, c, {c}, FALSE)
    /\ UNCHANGED <<ytVideos, logs, invComments>>

\* Nothing catches it: the request fails, the comments stored so far stay.
StoreCommentFails(w) ==
    /\ At(w, "comments", "store") /\ collecting[w].todo # {}
    /\ Set(w, NoTask)
    /\ UNCHANGED <<ytVideos, ytComments, logs, invComments>>

AnswerCollect(w) ==
    /\ At(w, "videos", "store") \/ At(w, "comments", "store")
    /\ collecting[w].todo = {}
    /\ Set(w, NoTask)
    /\ UNCHANGED <<ytVideos, ytComments, logs, invComments>>

---------------------------------------------------------------------------
(* The collection of an investment workflow.                               *)

\* Without videos there is a log all the same.  The comments of a video may be
\* closed, cut off or out of reach.  (A workflow whose minute is over is
\* cancelled while it asks, and stores nothing.)
AskInvestment(w) ==
    /\ collecting[w].phase = "free"
    /\ \E found \in SUBSET Videos : \E said \in SUBSET CommentsOf(found) :
          Set(w, [kind |-> "investment", phase |-> "log", videos |-> found,
                  comments |-> said, new |-> {}, log |-> NoLog,
                  asked |-> Len(logs), seen |-> {}])
    /\ UNCHANGED <<ytVideos, ytComments, logs, invComments>>

\* The log and its videos, in one transaction.  Its created_at is set by the flush,
\* in whole seconds: not before the logs that were there when it began, but
\* perhaps in the same second, and in any order with those of other workers.
CommitLog(w) ==
    /\ At(w, "investment", "log")
    /\ Len(logs) < LogBound
    /\ \E second \in 1 .. LogBound :
          /\ \A n \in 1 .. collecting[w].asked : logs[n].moment <= second
          /\ logs' = Append(logs, [videos |-> collecting[w].videos, moment |-> second])
    /\ Set(w, [collecting[w] EXCEPT !.phase = "comments", !.log = Len(logs) + 1,
                                    !.asked = 0])
    /\ UNCHANGED <<ytVideos, ytComments, invComments>>

\* Rolled back and printed: the comments are stored without their videos.
LogFails(w) ==
    /\ At(w, "investment", "log")
    /\ Set(w, [collecting[w] EXCEPT !.phase = "comments", !.asked = 0])
    /\ UNCHANGED <<ytVideos, ytComments, logs, invComments>>

\* Mutant: a comment that is there ends the loop over them.
NewUntilKnown(w) ==
    IF collecting[w].comments \cap DOMAIN invComments = {} THEN collecting[w].comments
    ELSE {}
\* A comment that is there already is skipped.
New(w) == collecting[w].comments \ DOMAIN invComments

LookUpComments(w) ==
    /\ At(w, "investment", "comments")
    /\ Set(w, [collecting[w] EXCEPT !.phase = "commit", !.new = New(w),
                                    !.seen = DOMAIN invComments])
    /\ UNCHANGED <<ytVideos, ytComments, logs, invComments>>

\* One transaction for all of them.  Without any there is nothing to lose.  The
\* flush sets created_at, in microseconds: after those that the look-up saw, in any
\* order with those that other workers stored since.
CommitComments(w) ==
    /\ At(w, "investment", "commit")
    /\ collecting[w].new \cap DOMAIN invComments = {}
    /\ \E moment \in [collecting[w].new -> 1 .. Cardinality(Comments)] :
          /\ \A c \in collecting[w].new, o \in collecting[w].seen :
                invComments[o] < moment[c]
          /\ invComments' = [c \in DOMAIN invComments \cup collecting[w].new |->
                IF c \in collecting[w].new THEN moment[c] ELSE invComments[c]]
    /\ Set(w, [collecting[w] EXCEPT !.phase = "stored"])
    /\ UNCHANGED <<ytVideos, ytComments, logs>>

\* Another worker stored one of them since the look-up, or PostgreSQL fails:
\* rolled back and printed, all of the comments are lost.
CommentsFail(w) ==
    /\ At(w, "investment", "commit")
    /\ Set(w, NoTask)
    /\ UNCHANGED <<ytVideos, ytComments, logs, invComments>>

Collected(w) ==
    /\ At(w, "investment", "stored")
    /\ Set(w, NoTask)
    /\ UNCHANGED <<ytVideos, ytComments, logs, invComments>>

CollectorEnds(w) ==
    /\ collecting[w].phase # "free"
    /\ Set(w, NoTask)
    /\ UNCHANGED <<ytVideos, ytComments, logs, invComments>>

MarketStep(w) ==
    \/ AskVideos(w) \/ AskComments(w)
    \/ \E v \in Videos : StoreVideo(w, v) \/ StoreVideoFails(w, v) \/ RefreshFails(w, v)
    \/ \E c \in Comments : StoreComment(w, c)
    \/ StoreCommentFails(w)
    \/ AnswerCollect(w)

InvestmentStep(w) ==
    \/ AskInvestment(w)
    \/ CommitLog(w) \/ LogFails(w)
    \/ LookUpComments(w)
    \/ CommitComments(w) \/ CommentsFail(w)
    \/ Collected(w)

MarketNext == \E w \in Workers : MarketStep(w) \/ CollectorEnds(w)
InvestmentNext == \E w \in Workers : InvestmentStep(w) \/ CollectorEnds(w)

YouTubeStoreNext == MarketNext \/ InvestmentNext

YouTubeStoreSpec == YouTubeStoreInit /\ [][YouTubeStoreNext]_youtubeVars

---------------------------------------------------------------------------
\* fetch_video_ids_by_company and fetch_comment_texts: the sentiment of the company
\* is computed from the latest comments on the videos of its latest logs.

\* Mutant: the oldest first.
EarliestOf(rows, moment, limit) ==
    {chosen \in SUBSET rows :
       /\ Cardinality(chosen) <= limit
       /\ chosen = rows \/ Cardinality(chosen) = limit
       /\ \A c \in chosen, o \in rows \ chosen : moment[c] <= moment[o]}
\* The answers of a query with order_by(created_at.desc()) and limit: rows of one
\* moment may come in any order.
LatestOf(rows, moment, limit) ==
    {chosen \in SUBSET rows :
       /\ Cardinality(chosen) <= limit
       /\ chosen = rows \/ Cardinality(chosen) = limit
       /\ \A c \in chosen, o \in rows \ chosen : moment[c] >= moment[o]}

LatestLogs ==
    LatestOf(DOMAIN logs, [n \in DOMAIN logs |-> logs[n].moment], MaxLogs)
OnVideosOf(latest) ==
    {c \in DOMAIN invComments : \E n \in latest : VideoOf[c] \in logs[n].videos}
SentimentSources(latest) == LatestOf(OnVideosOf(latest), invComments, CommentLimit)

\* Logs that may come before this one in the query.
NotOlder(log) == {n \in DOMAIN logs \ {log} : logs[n].moment >= logs[log].moment}

\* What can push c out of the answer: a comment that task t stored, only those that
\* were not there when it looked them up; one that was there already, any other.
Rivals(t, c, latest) ==
    OnVideosOf(latest) \ ({c} \cup IF c \in t.new THEN t.seen ELSE {})

\* What a collection says it stored is stored, however many of its videos fail,
\* break its session or are stored by another worker first, and all comments of an
\* investment collection are when its transaction was committed.  And when the log and
\* the comments of an investment collection were both committed, every comment
\* is the sentiment's, also one that another collection had stored before, perhaps
\* without any log, unless MaxLogs logs that are not older push its log out or
\* CommentLimit comments come before it, and none of those that were there before
\* a comment it stored itself (collect_youtube_videos_usecase.py:38-54,
\* collect_youtube_comments_usecase.py:33-45, investment_youtube_repository.py
\* :22-104, 145-222).
CollectedIsReadable ==
    \A w \in Workers :
       LET t == collecting[w]
       IN  /\ At(w, "videos", "store") => t.reported \subseteq ytVideos
           /\ At(w, "comments", "store") => t.reported \subseteq ytComments
           /\ At(w, "investment", "stored") => t.comments \subseteq DOMAIN invComments
           /\ At(w, "investment", "stored") /\ t.log # NoLog
                /\ Cardinality(NotOlder(t.log)) < MaxLogs
                => \A latest \in LatestLogs : \A sources \in SentimentSources(latest) :
                      \A c \in t.comments \ sources :
                         Cardinality(Rivals(t, c, latest)) >= CommentLimit
=============================================================================
