------------------------------ MODULE NewsStore ------------------------------
(***************************************************************************)
(* The news that investment decisions collect: the headline in MySQL       *)
(* (investment_news, unique link_hash), the body in PostgreSQL             *)
(* (investment_news_contents, by the id of the headline), saved article by *)
(* article by _save_to_db (investment_news_source.py), which several       *)
(* workflows run at once in threads of the executor.                       *)
(*                                                                         *)
(* Each article is a transaction of its own in either database; the two    *)
(* commits are apart, and either may fail.                                 *)
(***************************************************************************)
EXTENDS Naturals, FiniteSets, Sequences

CONSTANTS Jobs,      \* the calls of _save_to_db
          NewsLinks,
          MaxNews    \* bound: articles of a call

NoLink == "none"   \* the absence of a link

ASSUME NewsStoreAssumption == MaxNews \in Nat /\ NoLink \notin NewsLinks

VARIABLES headlines,    \* links with a committed row in investment_news
          bodies,       \* links whose headline has a committed body
          news,         \* job -> its articles still to save
          phase,        \* job -> where it is with the first of them
          uncommitted,  \* job -> its flushed headline, or NoLink
          counted       \* history: the articles counted as a success

newsVars == <<headlines, bodies, news, phase, uncommitted, counted>>

\* What fetch_and_store_investment_news collected: the body may be missing.
Article == [link : NewsLinks, body : BOOLEAN]
Batches == UNION {[1..n -> Article] : n \in 1..MaxNews}

NewsStoreInit ==
    /\ headlines = {} /\ bodies = {}
    /\ news = [j \in Jobs |-> <<>>]
    /\ phase = [j \in Jobs |-> "ready"]
    /\ uncommitted = [j \in Jobs |-> NoLink]
    /\ counted = {}

Current(j) == Head(news[j])
Goto(j, p) == phase' = [phase EXCEPT ![j] = p]
Rest(j) == news' = [news EXCEPT ![j] = Tail(@)]

\* Both sessions roll back, and the loop goes on with the next article.
NextArticle(j) ==
    /\ Rest(j)
    /\ Goto(j, IF Tail(news[j]) = <<>> THEN "ended" ELSE "lookup")
    /\ uncommitted' = [uncommitted EXCEPT ![j] = NoLink]

\* fetch_and_store_investment_news hands its articles to the executor.
StartSave(j) ==
    /\ phase[j] = "ready"
    /\ \E b \in Batches : news' = [news EXCEPT ![j] = b]
    /\ Goto(j, "lookup")
    /\ UNCHANGED <<headlines, bodies, uncommitted, counted>>

\* The query by link_hash, in the new transaction of this article.
Lookup(j) ==
    /\ phase[j] = "lookup"
    /\ Goto(j, IF Current(j).link \in headlines THEN "commit" ELSE "flush")
    /\ UNCHANGED <<headlines, bodies, news, uncommitted, counted>>

\* The INSERT waits for another transaction that holds the same hash.
HashHeld(j) ==
    \E i \in Jobs \ {j} : uncommitted[i] = Current(j).link

Flush(j) ==
    /\ phase[j] = "flush"
    /\ ~HashHeld(j)
    /\ Current(j).link \notin headlines
    /\ uncommitted' = [uncommitted EXCEPT ![j] = Current(j).link]
    /\ Goto(j, "commit")
    /\ UNCHANGED <<headlines, bodies, news, counted>>

\* Another job committed the headline after this one's query.
FlushRefused(j) ==
    /\ phase[j] = "flush"
    /\ Current(j).link \in headlines
    /\ NextArticle(j)
    /\ UNCHANGED <<headlines, bodies, counted>>

\* MySQL fails in the query, the INSERT or the commit: both sessions roll back.
MySQLFails(j) ==
    /\ phase[j] \in {"lookup", "flush", "commit"}
    /\ NextArticle(j)
    /\ UNCHANGED <<headlines, bodies, counted>>

\* Mutant: PostgreSQL is committed before MySQL.
CommitBodyFirst(j) ==
    /\ phase[j] = "commit"
    /\ bodies' = IF Current(j).body THEN bodies \cup {Current(j).link} ELSE bodies
    /\ Goto(j, "commit body")
    /\ UNCHANGED <<headlines, news, uncommitted, counted>>

\* mysql_db.commit(), of a headline or of nothing.
CommitHeadline(j) ==
    /\ phase[j] = "commit"
    /\ headlines' = headlines \cup ({uncommitted[j]} \ {NoLink})
    /\ uncommitted' = [uncommitted EXCEPT ![j] = NoLink]
    /\ Goto(j, "commit body")
    /\ UNCHANGED <<bodies, news, counted>>

\* pg_db.commit(): a body is added for an old headline as well.
Bodies(j) == IF Current(j).body THEN {Current(j).link} ELSE {}

CommitBody(j) ==
    /\ phase[j] = "commit body"
    /\ bodies' = bodies \cup Bodies(j)
    /\ counted' = counted \cup {Current(j)}
    /\ NextArticle(j)
    /\ UNCHANGED headlines

\* The headline is committed by then, and stays without a body.
CommitBodyFails(j) ==
    /\ phase[j] = "commit body"
    /\ NextArticle(j)
    /\ UNCHANGED <<headlines, bodies, counted>>

\* The server ends: what no commit has reached is gone.
Crash ==
    /\ \E j \in Jobs : phase[j] \notin {"ready", "ended"}
    /\ news' = [j \in Jobs |-> <<>>]
    /\ phase' = [j \in Jobs |-> IF phase[j] = "ready" THEN "ready" ELSE "ended"]
    /\ uncommitted' = [j \in Jobs |-> NoLink]
    /\ UNCHANGED <<headlines, bodies, counted>>

JobStep(j) ==
    \/ StartSave(j)
    \/ Lookup(j)
    \/ Flush(j) \/ FlushRefused(j) \/ MySQLFails(j)
    \/ CommitHeadline(j)
    \/ CommitBody(j) \/ CommitBodyFails(j)

NewsStoreNext == (\E j \in Jobs : JobStep(j)) \/ Crash

NewsStoreSpec == NewsStoreInit /\ [][NewsStoreNext]_newsVars

---------------------------------------------------------------------------
Phases == {"ready", "lookup", "flush", "commit", "commit body", "ended"}

NewsStoreTypeOK ==
    /\ headlines \subseteq NewsLinks
    /\ bodies \subseteq NewsLinks
    /\ news \in [Jobs -> Seq(Article)]
    /\ phase \in [Jobs -> Phases]
    /\ uncommitted \in [Jobs -> NewsLinks \cup {NoLink}]
    /\ counted \subseteq Article

\* Whatever fails, crashes or races for the same link: no body in PostgreSQL
\* hangs on a headline that MySQL does not have, which nothing but the order of
\* the commits ensures as the two databases only share the id; and an article
\* that the job counts as saved is in both of them, also with a body that came
\* when its headline was long known (investment_news_source.py:72-120).
BodyHasHeadline == bodies \subseteq headlines

CountedIsStored ==
    \A n \in counted : n.link \in headlines /\ (n.body => n.link \in bodies)

StoresAgree == BodyHasHeadline /\ CountedIsStored
=============================================================================
