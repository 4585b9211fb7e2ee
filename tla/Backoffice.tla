----------------------------- MODULE Backoffice -----------------------------
(***************************************************************************)
(* The administrators' side: roles, the paged list of all members, the     *)
(* events the application reports and the figures of the dashboard.        *)
(*                                                                         *)
(* Accounts are only ever added, so they are a sequence by id; the time of *)
(* an account is the second it was created in, the database does not tell  *)
(* two accounts of one second apart.                                       *)
(***************************************************************************)
EXTENDS Integers, FiniteSets, Sequences, Functions

CONSTANTS
    DayLength,     \* seconds of a day
    PageSize,      \* the size an administrator asks for
    RetentionDays, \* the D-N of the retention (14)
    MaxMembers, MaxEvents, MaxSeconds   \* bounds

EventTypes == {"visit", "app_open", "core_start", "core_complete"}

ASSUME BackofficeAssumption ==
    /\ DayLength \in Nat \ {0}
    /\ PageSize \in Nat \ {0}
    /\ {RetentionDays, MaxMembers, MaxEvents, MaxSeconds} \subseteq Nat

VARIABLES
    clock,
    members,       \* members[a]: when created, and the role
    admins,        \* members with a session of role ADMIN
    events,        \* the rows of events
    walk,          \* an administrator's way through the pages of members
    figures        \* what the dashboard last showed, and on which day

backofficeVars == <<clock, members, admins, events, walk, figures>>

NoWalk == [page |-> 0, known |-> {}, seen |-> {}]
NoFigures == [day |-> 0, retention |-> <<>>, activated |-> 0]

MemberIds == DOMAIN members
DateOf(t) == t \div DayLength

BackofficeInit ==
    /\ clock = 0
    /\ members = <<>>
    /\ admins = {}
    /\ events = {}
    /\ walk = NoWalk
    /\ figures = NoFigures

SecondPasses ==
    /\ clock < MaxSeconds
    /\ clock' = clock + 1
    /\ UNCHANGED <<members, admins, events, walk, figures>>

-----------------------------------------------------------------------------
(* Accounts, roles and sessions.                                           *)

\* AccountRepositoryImpl.save, of a normal user or of one of the operators.
NewMember ==
    /\ Len(members) < MaxMembers
    /\ \E role \in {"NORMAL", "ADMIN"} :
          members' = Append(members, [created |-> clock, role |-> role])
    /\ UNCHANGED <<clock, admins, events, walk, figures>>

\* A session gets the role its account has at that moment; require_admin looks
\* at the session alone.
LoginAdmin ==
    /\ \E a \in MemberIds :
          /\ members[a].role = "ADMIN"
          /\ admins' = admins \cup {a}
    /\ UNCHANGED <<clock, members, events, walk, figures>>

\* A logout, or the end of the session's life in Redis; nobody is left to go
\* through the pages.
AdminGone ==
    /\ \E a \in admins : admins' = admins \ {a}
    /\ walk' = NoWalk
    /\ UNCHANGED <<clock, members, events, figures>>

UpdateUserRole ==
    /\ admins # {}
    /\ \E a \in MemberIds, role \in {"NORMAL", "ADMIN"} :
          members' = [members EXCEPT ![a].role = role]
    /\ UNCHANGED <<clock, admins, events, walk, figures>>

-----------------------------------------------------------------------------
(* GET /admin/users: ORDER BY created_at DESC with OFFSET and LIMIT.       *)

\* The orders the database may return the members in.
MemberOrders ==
    {o \in [MemberIds -> MemberIds] :
        /\ IsInjective(o)
        /\ \A i, j \in MemberIds : i < j =>
              members[o[i]].created >= members[o[j]].created}

\* The rows of a page of an order.
Page(o, page) ==
    {o[i] : i \in {i \in DOMAIN o : (page - 1) * PageSize < i /\ i <= page * PageSize}}

\* The administrator opens the list, and asks for page after page.
OpenUsers ==
    /\ admins # {}
    /\ walk = NoWalk
    /\ walk' = [page |-> 1, known |-> MemberIds, seen |-> {}]
    /\ UNCHANGED <<clock, members, admins, events, figures>>

GetUsers ==
    /\ admins # {}
    /\ walk # NoWalk
    /\ (walk.page - 1) * PageSize <= Len(members)
    /\ \E o \in MemberOrders :
          walk' = [walk EXCEPT !.page = @ + 1, !.seen = @ \cup Page(o, walk.page)]
    /\ UNCHANGED <<clock, members, admins, events, figures>>

\* The last page asked for was not full: the list is over.
AllPagesRead == (walk.page - 1) * PageSize > Len(members)

CloseUsers ==
    /\ walk # NoWalk
    /\ AllPagesRead
    /\ walk' = NoWalk
    /\ UNCHANGED <<clock, members, admins, events, figures>>

-----------------------------------------------------------------------------
(* POST /analytics/event and the dashboard.                                *)

RecordEvent ==
    /\ Cardinality(events) < MaxEvents
    /\ \E a \in MemberIds, type \in EventTypes :
          events' = events \cup {[account |-> a, type |-> type, day |-> DateOf(clock)]}
    /\ UNCHANGED <<clock, members, admins, walk, figures>>

\* The members created on the day that is n days before this one.
CohortSince(n) == {a \in MemberIds : DateOf(members[a].created) + n >= DateOf(clock)} \* mutant
Cohort(n) == {a \in MemberIds : DateOf(members[a].created) + n = DateOf(clock)}

\* Those of the cohort who opened the application on the n-th day after, which
\* is always this one, and not over yet.
Returned(n) ==
    {a \in Cohort(n) : \E e \in events :
        e.account = a /\ e.type = "app_open"
        /\ e.day = DateOf(members[a].created) + n}

\* The rates as fractions; an empty cohort counts as 0 of 1.
Retention ==
    [n \in 1 .. RetentionDays |->
        IF Cohort(n) = {} THEN [of |-> 1, back |-> 0]
        ELSE [of |-> Cardinality(Cohort(n)), back |-> Cardinality(Returned(n))]]

Activated == Cardinality({e.account : e \in {e \in events : e.type = "core_start"}})

GetDashboardStats ==
    /\ admins # {}
    /\ figures' = [day |-> DateOf(clock), retention |-> Retention,
                   activated |-> Activated]
    /\ UNCHANGED <<clock, members, admins, events, walk>>

MembersNext ==
    \/ SecondPasses \/ NewMember \/ LoginAdmin \/ AdminGone \/ UpdateUserRole
    \/ OpenUsers \/ GetUsers \/ CloseUsers

DashboardNext ==
    \/ SecondPasses \/ NewMember \/ LoginAdmin \/ AdminGone \/ UpdateUserRole
    \/ RecordEvent \/ GetDashboardStats

BackofficeNext == MembersNext \/ DashboardNext

BackofficeSpec == BackofficeInit /\ [][BackofficeNext]_backofficeVars

-----------------------------------------------------------------------------
(* Properties.                                                             *)

BackofficeTypeOK ==
    /\ members \in Seq([created : 0 .. MaxSeconds, role : {"NORMAL", "ADMIN"}])
    /\ admins \subseteq MemberIds
    /\ events \subseteq [account : MemberIds, type : EventTypes, day : Nat]
    /\ walk.known \cup walk.seen \subseteq MemberIds

\* Whoever was a member when the list was opened has been on one of its pages
\* when it is over, although others register meanwhile and push him down; only
\* members created in one second may trade places between two pages
\* (get_admin_users_usecase.py 13-20).
PagesMissNobody ==
    walk # NoWalk /\ AllPagesRead =>
        \A a \in walk.known \ walk.seen :
            \E b \in MemberIds \ {a} : members[b].created = members[a].created

\* What the dashboard showed today stands: the cohorts of the past days are
\* complete, so a rate shown can only rise until midnight
\* (get_admin_dashboard_stats_usecase.py 50-80).
FiguresStand ==
    figures # NoFigures /\ figures.day = DateOf(clock) =>
        \A n \in 1 .. RetentionDays :
            figures.retention[n].back * Retention[n].of
                <= Retention[n].back * figures.retention[n].of

\* An administrator is not misled by what changes while he reads.
AdminIsNotMisled == PagesMissNobody /\ FiguresStand
=============================================================================
