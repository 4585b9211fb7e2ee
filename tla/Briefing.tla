------------------------------ MODULE Briefing -------------------------------
(***************************************************************************)
(* The watchlists (watchlist_router.py), the notifications                 *)
(* (notification_router.py) and the job that at 07:00 sends every user a   *)
(* briefing on the watchlist (proactive_recommendation_scheduler.py,       *)
(* run_proactive_recommendation_usecase.py).                               *)
(*                                                                         *)
(* The job has no await: it holds the event loop from its first account to *)
(* its last, so no handler runs in between.  All its accounts share one    *)
(* database session.                                                       *)
(***************************************************************************)
EXTENDS Naturals, FiniteSets, Sequences

CONSTANTS Watchers,
          WatchSymbols,
          MaxNotes,   \* bound: notifications ever made
          MaxRuns     \* bound: runs of the job

ASSUME BriefingAssumption ==
    /\ MaxNotes \in Nat
    /\ MaxRuns \in Nat

VARIABLES watch,    \* account -> symbols of its watchlist_items
          notes,    \* the rows of notifications, in the order of their ids
          job,      \* "idle" or "running"
          todo,     \* the accounts the job has not come to
          broken,   \* the job's session lost its connection in a transaction
          sent,     \* execute()'s count of notifications
          uncounted, \* history: the accounts left out of it though they have theirs
          runs      \* the number of runs so far

briefingVars == <<watch, notes, job, todo, broken, sent, uncounted, runs>>
jobVars == <<job, todo, broken, sent, uncounted, runs>>

BriefingInit ==
    /\ watch = [a \in Watchers |-> {}]
    /\ notes = <<>>
    /\ job = "idle" /\ todo = {} /\ broken = FALSE
    /\ sent = 0 /\ uncounted = {} /\ runs = 0

NoJobRuns == job = "idle"

\* A row of the notifications: "run" is a history, 0 if a request made it.
NewNote(a, run) == notes' = Append(notes, [user |-> a, read |-> FALSE, run |-> run])

---------------------------------------------------------------------------
(* Requests.                                                               *)

\* POST /watchlist: a symbol that is there already is answered with 409.
AddWatchlist(a, s) ==
    /\ NoJobRuns
    /\ s \notin watch[a]
    /\ watch' = [watch EXCEPT ![a] = @ \cup {s}]
    /\ UNCHANGED <<notes, jobVars>>

\* DELETE /watchlist/{item_id}, by the owner.
RemoveWatchlist(a, s) ==
    /\ NoJobRuns
    /\ s \in watch[a]
    /\ watch' = [watch EXCEPT ![a] = @ \ {s}]
    /\ UNCHANGED <<notes, jobVars>>

\* POST /notifications: for the user the request names.  (If the row cannot be
\* read back after the commit, it stays and the request answers 500.)
CreateNotification(a) ==
    /\ NoJobRuns
    /\ Len(notes) < MaxNotes
    /\ NewNote(a, 0)
    /\ UNCHANGED <<watch, jobVars>>

\* PATCH /notifications/{id}/read.
MarkRead(n) ==
    /\ NoJobRuns
    /\ ~notes[n].read
    /\ notes' = [notes EXCEPT ![n].read = TRUE]
    /\ UNCHANGED <<watch, jobVars>>

\* PATCH /notifications/read-all.
MarkAllRead(a) ==
    /\ NoJobRuns
    /\ \E n \in DOMAIN notes : notes[n].user = a /\ ~notes[n].read
    /\ notes' = [n \in DOMAIN notes |->
                   IF notes[n].user = a THEN [notes[n] EXCEPT !.read = TRUE]
                   ELSE notes[n]]
    /\ UNCHANGED <<watch, jobVars>>

---------------------------------------------------------------------------
(* The job.                                                                *)

StartJob ==
    /\ NoJobRuns
    /\ runs < MaxRuns
    /\ job' = "running" /\ todo' = Watchers /\ broken' = FALSE
    /\ sent' = 0 /\ uncounted' = {}
    /\ runs' = runs + 1
    /\ UNCHANGED <<watch, notes>>

Come(a) ==
    /\ job = "running"
    /\ a \in todo
    /\ todo' = todo \ {a}
    /\ UNCHANGED <<watch, job, runs>>

\* An empty watchlist, an answer out of scope, a failing call of the model, a
\* failing query or a notification whose commit fails (save rolls back): the
\* next account is next.
NoBriefing(a) ==
    /\ Come(a)
    /\ UNCHANGED <<notes, broken, sent, uncounted>>

\* A query that loses the connection leaves the transaction invalid, and nobody
\* rolls it back: the queries of all accounts to come raise as well.
LoseConnection(a) ==
    /\ Come(a)
    /\ broken' = TRUE
    /\ UNCHANGED <<notes, sent, uncounted>>

\* Mutant: the notification is counted although its commit failed.
CountUnsaved(a) ==
    /\ Come(a)
    /\ ~broken
    /\ watch[a] # {}
    /\ sent' = sent + 1
    /\ UNCHANGED <<notes, broken, uncounted>>

\* The account's notification is committed.
Commit(a) ==
    /\ Come(a)
    /\ ~broken
    /\ watch[a] # {}
    /\ Len(notes) < MaxNotes
    /\ NewNote(a, runs)
    /\ UNCHANGED broken

SendBriefing(a) ==
    /\ Commit(a)
    /\ sent' = sent + 1
    /\ UNCHANGED uncounted

\* The row cannot be read back after the commit, or the answer to the commit is
\* lost: save() rolls back an empty transaction and raises, the row stays.
ReadBackFails(a) ==
    /\ Commit(a)
    /\ uncounted' = uncounted \cup {a}
    /\ UNCHANGED sent

EndJob ==
    /\ job = "running"
    /\ todo = {}
    /\ job' = "idle"
    /\ UNCHANGED <<watch, notes, todo, broken, sent, uncounted, runs>>

\* The server ends: the notifications saved so far stay.
JobCrash ==
    /\ job = "running"
    /\ job' = "idle" /\ todo' = {} /\ broken' = FALSE
    /\ sent' = 0 /\ uncounted' = {}
    /\ UNCHANGED <<watch, notes, runs>>

RequestStep ==
    \/ \E a \in Watchers, s \in WatchSymbols : AddWatchlist(a, s)
    \/ \E a \in Watchers, s \in WatchSymbols : RemoveWatchlist(a, s)
    \/ \E a \in Watchers : CreateNotification(a)
    \/ \E n \in DOMAIN notes : MarkRead(n)
    \/ \E a \in Watchers : MarkAllRead(a)

BriefingStep ==
    \/ StartJob
    \/ \E a \in Watchers :
          NoBriefing(a) \/ LoseConnection(a) \/ SendBriefing(a) \/ ReadBackFails(a)
    \/ EndJob
    \/ JobCrash

BriefingNext == RequestStep \/ BriefingStep

BriefingSpec == BriefingInit /\ [][BriefingNext]_briefingVars

---------------------------------------------------------------------------
BriefingTypeOK ==
    /\ watch \in [Watchers -> SUBSET WatchSymbols]
    /\ notes \in Seq([user : Watchers, read : BOOLEAN, run : 0..MaxRuns])
    /\ job \in {"idle", "running"}
    /\ todo \subseteq Watchers
    /\ broken \in BOOLEAN
    /\ sent \in Nat
    /\ uncounted \subseteq Watchers
    /\ runs \in 0..MaxRuns

---------------------------------------------------------------------------
(* What the routes show.                                                   *)

\* GET /watchlist.
GetWatchlist(a) == watch[a]

\* GET /notifications, the rows of the user; their order is the client's view of
\* created_at and not told apart here.
GetNotifications(a) == {n \in DOMAIN notes : notes[n].user = a}

\* GET /notifications/unread-count.
GetUnreadCount(a) == Cardinality({n \in GetNotifications(a) : ~notes[n].read})

---------------------------------------------------------------------------
OfThisRun == {n \in DOMAIN notes : notes[n].run = runs}

\* Whatever fails on the way, a run never reports more notifications than it
\* left; it reports fewer only by those that were committed although save()
\* raised; no user gets two of them in a run, nobody without a watchlist gets
\* one, and whoever got one has it among the unread ones until the run has ended
\* (run_proactive_recommendation_usecase.py:43-87,
\* notification_repository_impl.py:15-25).
SentIsTrue ==
    job = "running" =>
       /\ sent + Cardinality(uncounted) = Cardinality(OfThisRun)
       /\ uncounted \subseteq {notes[n].user : n \in OfThisRun}
       /\ \A n \in OfThisRun :
             /\ OfThisRun \cap GetNotifications(notes[n].user) = {n}
             /\ GetWatchlist(notes[n].user) # {}
             /\ GetUnreadCount(notes[n].user) > 0
=============================================================================
