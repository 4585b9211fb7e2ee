---------------------------- MODULE SavedArticles ----------------------------
(***************************************************************************)
(* The articles a user saves: the row in MySQL (saved_articles, unique per *)
(* account and link), its content in PostgreSQL (interest_article_contents *)
(* by the id of the row), and the bulk analysis of a search, which saves   *)
(* what it found and analyses what it saved (saved_article_router.py,      *)
(* save_article_usecase.py, bulk_analyze_usecase.py,                       *)
(* analyze_article_usecase.py).                                            *)
(*                                                                         *)
(* A bulk request saves article after article without an await, so it      *)
(* holds the event loop until its analyses call the model.  Neither of its *)
(* two sessions is ever rolled back: a commit that fails breaks it for the *)
(* rest of the request.                                                    *)
(***************************************************************************)
EXTENDS Naturals, FiniteSets, Sequences

CONSTANTS Readers,
          Links,
          MaxFound    \* bound: results of a search

ASSUME SavedArticlesAssumption == MaxFound \in Nat

VARIABLES saved,     \* the rows of saved_articles
          contents,  \* row -> number of its rows in interest_article_contents
          hasText,   \* the saved rows whose content has a text
          bulk,      \* what the bulk request is doing, or NoBulk
          answer     \* history: the articles first saved and the articles analysed
                     \* by the last bulk request, and whether all of it worked

savedVars == <<saved, contents, hasText, bulk, answer>>

Row == [account : Readers, link : Links]
NoBulk == [todo |-> <<>>]
Searches == UNION {[1..n -> Links] : n \in 1..MaxFound}

SavedArticlesInit ==
    /\ saved = {}
    /\ contents = [r \in Row |-> 0]
    /\ hasText = {}
    /\ bulk = NoBulk
    /\ answer = [fresh |-> {}, results |-> {}, worked |-> FALSE]

NoBulkRuns == bulk = NoBulk

\* ArticleContentStoreImpl.store.
Store(r, text) ==
    /\ contents' = [contents EXCEPT ![r] = @ + 1]
    /\ hasText' = IF text THEN hasText \cup {r} ELSE hasText

StoreNothing == UNCHANGED <<contents, hasText>>

---------------------------------------------------------------------------
(* POST /news/saved and /news/interest-articles.                           *)

\* A link the account has saved already is answered with 409.  The text is that
\* of the request or of the page, and may be missing; a failure of PostgreSQL is
\* logged, and the row stays in MySQL only.
SaveArticle(r) ==
    /\ NoBulkRuns
    /\ r \notin saved
    /\ saved' = saved \cup {r}
    /\ \/ \E text \in BOOLEAN : Store(r, text)
       \/ StoreNothing
    /\ UNCHANGED <<bulk, answer>>

---------------------------------------------------------------------------
(* POST /news/bulk-analysis.                                               *)

StartBulk(a) ==
    /\ NoBulkRuns
    /\ \E found \in Searches :
          bulk' = [account |-> a, todo |-> found, pairs |-> {},
                   before |-> saved, mysql |-> TRUE, pg |-> TRUE]
    /\ UNCHANGED <<saved, contents, hasText, answer>>

Saving == bulk # NoBulk /\ bulk.todo # <<>>
CurrentRow == [account |-> bulk.account, link |-> Head(bulk.todo)]
Done(b) == bulk' = [b EXCEPT !.todo = Tail(@)]

\* Mutant: the content is stored for an article saved before as well.
FoundSavedStored ==
    /\ Saving /\ bulk.mysql
    /\ CurrentRow \in saved
    /\ Store(CurrentRow, FALSE)
    /\ Done([bulk EXCEPT !.pairs = @ \cup {CurrentRow}])
    /\ UNCHANGED <<saved, answer>>

\* An article saved before counts with its old id.
FoundSaved ==
    /\ Saving /\ bulk.mysql
    /\ CurrentRow \in saved
    /\ Done([bulk EXCEPT !.pairs = @ \cup {CurrentRow}])
    /\ UNCHANGED <<saved, contents, hasText, answer>>

\* A new one is saved in both databases, with no text: "content" is None.
SaveFound ==
    /\ Saving /\ bulk.mysql /\ bulk.pg
    /\ CurrentRow \notin saved
    /\ saved' = saved \cup {CurrentRow}
    /\ Store(CurrentRow, FALSE)
    /\ Done([bulk EXCEPT !.pairs = @ \cup {CurrentRow}])
    /\ UNCHANGED answer

\* PostgreSQL fails, now or before: the row stays in MySQL only, and the article
\* is left out.
StoreFails ==
    /\ Saving /\ bulk.mysql
    /\ CurrentRow \notin saved
    /\ saved' = saved \cup {CurrentRow}
    /\ Done([bulk EXCEPT !.pg = FALSE])
    /\ UNCHANGED <<contents, hasText, answer>>

\* A query of MySQL fails, or a commit does, which breaks the session; a session
\* that is broken fails every time.
SaveFails ==
    /\ Saving
    /\ \E ok \in {FALSE, bulk.mysql} : Done([bulk EXCEPT !.mysql = ok])
    /\ UNCHANGED <<saved, contents, hasText, answer>>

\* AnalyzeArticleUseCase reads both sessions and refuses an article without a
\* text.
Analyzable ==
    IF bulk.mysql /\ bulk.pg THEN bulk.pairs \cap hasText ELSE {}

\* A call of the model that fails leaves its article out.
AnalyzeFound ==
    /\ bulk # NoBulk /\ bulk.todo = <<>>
    /\ \E results \in SUBSET Analyzable :
          answer' = [fresh |-> bulk.pairs \ bulk.before, results |-> results,
                     worked |-> bulk.mysql /\ bulk.pg /\ results = Analyzable]
    /\ bulk' = NoBulk
    /\ UNCHANGED <<saved, contents, hasText>>

\* The server ends in the middle of a request.
BulkCrash ==
    /\ bulk # NoBulk
    /\ bulk' = NoBulk
    /\ UNCHANGED <<saved, contents, hasText, answer>>

BulkStep ==
    \/ FoundSaved \/ SaveFound \/ StoreFails \/ SaveFails
    \/ AnalyzeFound
    \/ BulkCrash

SavedArticlesNext ==
    \/ \E r \in Row : SaveArticle(r)
    \/ \E a \in Readers : StartBulk(a)
    \/ BulkStep

SavedArticlesSpec == SavedArticlesInit /\ [][SavedArticlesNext]_savedVars
---------------------------------------------------------------------------
SavedArticlesTypeOK ==
    /\ saved \subseteq Row
    /\ contents \in [Row -> Nat]
    /\ hasText \subseteq Row
    /\ bulk = NoBulk \/ bulk \in [account : Readers, todo : Seq(Links),
                                  pairs : SUBSET Row, before : SUBSET Row,
                                  mysql : BOOLEAN, pg : BOOLEAN]
    /\ answer \in [fresh : SUBSET Row, results : SUBSET Row, worked : BOOLEAN]

\* However requests repeat, fail half-way or find an article again, no saved
\* article has two contents (get_content takes any of them) and no content
\* belongs to an article that MySQL does not have (save_article_usecase.py:
\* 25-63, bulk_analyze_usecase.py:34-65, article_content_store_impl.py:17-34).
OneContentEach ==
    \A r \in Row :
       /\ contents[r] <= 1
       /\ contents[r] = 1 => r \in saved
       /\ r \in hasText => contents[r] = 1

\* A bulk request in which nothing failed analyses something of what it has
\* found for the first time (docs/test_06_bulk_analysis.md:17-18: search, save
\* and analysis in one request, an analysis for each article).
FreshIsAnalysed ==
    answer.worked /\ answer.fresh # {} => answer.results \cap answer.fresh # {}
=============================================================================
