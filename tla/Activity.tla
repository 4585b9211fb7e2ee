------------------------------ MODULE Activity -------------------------------
(***************************************************************************)
(* What the portal remembers of a user: the symbols last viewed and        *)
(* clicked (user_profile_router.py, save_recently_viewed_usecase.py,       *)
(* save_clicked_card_usecase.py), the investment profile, and the batch of *)
(* 00:00 that puts the day's symbols in front of the preferred stocks      *)
(* (profile_update_scheduler.py, update_all_user_profiles_usecase.py).     *)
(*                                                                         *)
(* The handlers and the batch run without an await in one process, so each *)
(* is one action.  A day has two instants here, the first moments after    *)
(* midnight and the rest; the server's clock is that of Seoul.             *)
(***************************************************************************)
EXTENDS Integers, FiniteSets, Sequences, Functions

CONSTANTS Viewers,
          Symbols,
          Styles,     \* the contents of an investment profile
          MaxViewed,  \* MAX_RECENTLY_VIEWED and MAX_CLICKED_CARDS
          MaxClicks,  \* bound: clicks counted on one row
          MaxTime     \* bound: instants

ASSUME ActivityAssumption ==
    /\ MaxViewed \in Nat \ {0}
    /\ MaxClicks \in Nat \ {0}
    /\ MaxTime \in Nat

VARIABLES now,        \* the instant
          history,    \* account -> symbols with a CLICK row in user_interactions
          count,      \* account -> symbol -> count of that row
          createdAt,  \* account -> symbol -> created_at of that row
          preferred,  \* account -> preferred_stocks of its user_profiles row
          style,      \* account -> the investment profile of that row
          batchAt,    \* history: the instant of the last batch, or -1
          updated,    \* history: the accounts the last batch came to
          lastSeen    \* history: account -> symbol -> last view or click, or -1

clickRows == <<history, count, createdAt>>
profiles == <<preferred, style>>
batch == <<batchAt, updated>>
activityVars == <<now, clickRows, profiles, batch, lastSeen>>

Never == -1
NoStyle == "none"
Day(t) == t \div 2
Midnight(t) == t % 2 = 0

ActivityInit ==
    /\ now = 1
    /\ history = [a \in Viewers |-> {}]
    /\ count = [a \in Viewers |-> [s \in Symbols |-> 0]]
    /\ createdAt = [a \in Viewers |-> [s \in Symbols |-> Never]]
    /\ preferred = [a \in Viewers |-> <<>>]
    /\ style = [a \in Viewers |-> NoStyle]
    /\ batchAt = Never /\ updated = {}
    /\ lastSeen = [a \in Viewers |-> [s \in Symbols |-> Never]]

Tick ==
    /\ now < MaxTime
    /\ now' = now + 1
    /\ UNCHANGED <<clickRows, profiles, batch, lastSeen>>

---------------------------------------------------------------------------
(* Views and clicks.                                                       *)

\* Mutant: the order of created_at is ascending.
KeptOldest(shown, at) ==
    {k \in SUBSET shown :
       /\ Cardinality(k) = IF Cardinality(shown) > MaxViewed
                           THEN MaxViewed ELSE Cardinality(shown)
       /\ \A s \in k, t \in shown \ k : at[s] <= at[t]}

\* enforce_max_recently_viewed: the rows after the first MaxViewed in the order
\* of created_at, latest first.  Rows of one second come in any order.
Kept(shown, at) ==
    {k \in SUBSET shown :
       /\ Cardinality(k) = IF Cardinality(shown) > MaxViewed
                           THEN MaxViewed ELSE Cardinality(shown)
       /\ \A s \in k, t \in shown \ k : at[s] >= at[t]}

\* The upsert is committed before the older rows are deleted: if that fails,
\* they stay until the next view or click of the account.
Remember(a, s, trimmed) ==
    LET shown == history[a] \cup {s}
        at == [createdAt[a] EXCEPT ![s] = now]
    IN  /\ \E kept \in IF trimmed THEN Kept(shown, at) ELSE {shown} :
              history' = [history EXCEPT ![a] = kept]
        /\ createdAt' = [createdAt EXCEPT ![a] = at]
        /\ lastSeen' = [lastSeen EXCEPT ![a][s] = now]
        /\ UNCHANGED <<now, profiles, batch>>

\* POST /users/{user_id}/recently-viewed: an existing row keeps its count.
SaveRecentlyViewed(a, s) ==
    /\ count' = [count EXCEPT ![a][s] = IF s \in history[a] THEN @ ELSE 1]
    /\ \E trimmed \in BOOLEAN : Remember(a, s, trimmed)

\* POST /users/{user_id}/clicked-cards: an existing row counts one more.
SaveClickedCard(a, s) ==
    /\ s \in history[a] => count[a][s] < MaxClicks
    /\ count' = [count EXCEPT ![a][s] = IF s \in history[a] THEN @ + 1 ELSE 1]
    /\ \E trimmed \in BOOLEAN : Remember(a, s, trimmed)

\* GET /users/{user_id}/profile, recently_viewed: the first rows in the order of
\* created_at, latest first, of however many there are.
RecentlyViewed(a) == Kept(history[a], createdAt[a])

---------------------------------------------------------------------------
(* Profiles.                                                               *)

\* GET /users/{user_id}/investment-profile.
GetInvestmentProfile(a) == style[a]

\* Mutant: the handler saves a new UserProfile instead of the one it read.
ReplaceProfile(a, st) ==
    /\ style' = [style EXCEPT ![a] = st]
    /\ preferred' = [preferred EXCEPT ![a] = <<>>]
    /\ UNCHANGED <<now, clickRows, batch, lastSeen>>

\* PATCH /users/{user_id}/investment-profile: the row read, or a new profile,
\* takes the fields of the request and is saved with all its fields.
UpdateInvestmentProfile(a, st) ==
    /\ style' = [style EXCEPT ![a] = st]
    /\ UNCHANGED <<now, clickRows, preferred, batch, lastSeen>>

\* find_today_interactions: the rows since the midnight of the current day.
TodayInteractions(a) == {s \in history[a] : Day(createdAt[a][s]) = Day(now)}

\* Sorted by interest_score, the count of a click weighing 1.  Equal scores come
\* in the order of the rows, which the query leaves open.
SortedSymbols(a) ==
    LET today == TodayInteractions(a)
    IN  {q \in [1 .. Cardinality(today) -> today] :
           /\ IsInjective(q)
           /\ \A i, j \in DOMAIN q : i < j => count[a][q[i]] >= count[a][q[j]]}

\* The symbols of the day, and after them the preferred ones that are not among
\* them.
Merged(a, q) ==
    LET old == preferred[a]
        merge[n \in 0 .. Len(old)] ==
            IF n = 0 THEN q
            ELSE IF old[n] \in Range(q) THEN merge[n - 1]
            ELSE Append(merge[n - 1], old[n])
    IN  merge[Len(old)]

\* The batch of 00:00.  An exception of a save ends it: the accounts it has not
\* come to keep their profiles.  APScheduler drops the run if the event loop is
\* late by more than a second, so there may be none at all.
UpdateAllUserProfiles ==
    /\ Midnight(now)
    /\ batchAt # now
    /\ batchAt' = now
    /\ \E reached \in SUBSET Viewers :
          /\ updated' = reached
          /\ preferred' \in
               {f \in [Viewers -> UNION {{Merged(a, q) : q \in SortedSymbols(a)}
                                            \cup {preferred[a]} : a \in Viewers}] :
                  \A a \in Viewers :
                     IF a \in reached
                     THEN \E q \in SortedSymbols(a) : f[a] = Merged(a, q)
                     ELSE f[a] = preferred[a]}
    /\ UNCHANGED <<now, clickRows, style, lastSeen>>

ActivityNext ==
    \/ Tick
    \/ \E a \in Viewers, s \in Symbols : SaveRecentlyViewed(a, s)
    \/ \E a \in Viewers, s \in Symbols : SaveClickedCard(a, s)
    \/ \E a \in Viewers, st \in Styles : UpdateInvestmentProfile(a, st)
    \/ UpdateAllUserProfiles

ActivitySpec == ActivityInit /\ [][ActivityNext]_activityVars

---------------------------------------------------------------------------
ActivityTypeOK ==
    /\ now \in 0..MaxTime
    /\ history \in [Viewers -> SUBSET Symbols]
    /\ count \in [Viewers -> [Symbols -> 0..MaxClicks]]
    /\ createdAt \in [Viewers -> [Symbols -> Never..MaxTime]]
    /\ preferred \in [Viewers -> Seq(Symbols)]
    /\ style \in [Viewers -> Styles \cup {NoStyle}]
    /\ batchAt \in Never..MaxTime
    /\ updated \subseteq Viewers
    /\ lastSeen \in [Viewers -> [Symbols -> Never..MaxTime]]

Seen(a) == {s \in Symbols : lastSeen[a][s] # Never}

\* However views, clicks and half-done requests follow each other, the profile
\* shows the symbols seen last: one it does not show, for its row was deleted or
\* is one too many, was never seen later than one it does, and none is left out
\* for want of room while there is some (user_profile_repository_impl.py:82-134,
\* get_user_profile_usecase.py:31-66).
NewestAreKept ==
    \A a \in Viewers : \A shown \in RecentlyViewed(a) :
       /\ \A s \in Seen(a) \ shown, t \in shown : lastSeen[a][s] <= lastSeen[a][t]
       /\ Cardinality(shown) = MaxViewed \/ shown = Seen(a)

\* Neither the batch nor a change of the investment profile ever forgets a
\* preferred stock, lists one twice, or lets the batch write over the
\* investment profile, though both save every field of the row they read
\* (user_profile_repository_impl.py:31-53, update_all_user_profiles_usecase.py:
\* 46-53).
NothingForgotten ==
    [][\A a \in Viewers :
          /\ Range(preferred[a]) \subseteq Range(preferred'[a])
          /\ IsInjective(preferred'[a])
          /\ batchAt' # batchAt => UNCHANGED GetInvestmentProfile(a)]_activityVars

\* The batch of a midnight counts what the account saw on the day that ended
\* with it.  (docs/backlog/BL-BE-63-profile-auto-update-scheduler.md:13 asks for
\* the clicks and views of the day.)
EveryDayCounts ==
    [][batchAt' # batchAt =>
         \A a \in updated' : \A s \in history[a] :
            Day(createdAt[a][s]) = Day(now) - 1
               => s \in Range(preferred'[a])]_activityVars
=============================================================================
