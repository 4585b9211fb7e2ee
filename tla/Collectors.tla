----------------------------- MODULE Collectors -----------------------------
(***************************************************************************)
(* What the collectors bring for a symbol, one use case at a time: the     *)
(* disclosures of DART, its financial statements, and the news of SerpAPI, *)
(* of Finnhub, of Naver's result page or of Google's RSS feed.  How the    *)
(* runs of several sessions interleave is in PipelineRun; here the subject *)
(* is what a collector asks, which answers it survives, and what the rows  *)
(* say: the figures of which period, the title of which link.              *)
(*                                                                         *)
(* Months are counted from a January; what a company files comes after the *)
(* period it is about, when the company likes.                             *)
(***************************************************************************)
EXTENDS Orders, Sequences, SequencesExt

CONSTANTS
    CollectorSymbols,
    Registered,    \* those with a row in the table stocks
    Digits,        \* the symbols of six digits
    Latin,         \* those of one to five capital letters
    English,       \* those of SYMBOL_TO_ENGLISH
    LegacyNames,   \* a Korean name and its code, rows under names: <<name, code>>
    Statements,    \* Statements[x]: the kinds x files, "CFS" or "OFS"
    Receipts,      \* the receipt numbers of DART
    Issuer,        \* Issuer[r]: the symbol of the company that filed r
    Articles, NoArticle,
    LinkOf,        \* LinkOf[a]: the link of a news article
    Starts,        \* the months the program may start in, 12 or later
    PageEntries,   \* bound: entries of a result page
    MaxMonths      \* bound: how many months pass

Codes == {"11013", "11012", "11014", "11011"}   \* reprt_code: Q1, half, Q3, year
ArticleLinks == {LinkOf[a] : a \in Articles}

ASSUME CollectorsAssumption ==
    /\ Registered \subseteq CollectorSymbols
    /\ Digits \subseteq CollectorSymbols /\ Latin \subseteq CollectorSymbols \ Digits
    /\ English \subseteq CollectorSymbols
    /\ \A p \in LegacyNames : p[1] # "" /\ p[2] \in CollectorSymbols
    /\ \A x \in CollectorSymbols : Statements[x] \subseteq {"CFS", "OFS"}
    /\ \A r \in Receipts : Issuer[r] \in CollectorSymbols
    /\ NoArticle \notin Articles
    /\ \A a, b \in Articles : LinkOf[a] = LinkOf[b] => a = b
    /\ Starts \subseteq 12 .. 23
    /\ PageEntries \in Nat /\ MaxMonths \in Nat

VARIABLES
    month,         \* the month it is
    until,         \* bound: the last month of the behaviour
    filed,         \* the periods with figures at DART
    reports,       \* the rows of source_type REPORT
    disclosures,   \* disclosures[r]: the symbol of the row, "" for no row
    newsRows,      \* newsRows[l]: the row of source_type NEWS for the link
    task,          \* the symbol in hand and the collectors still to ask
    met            \* what the last collector met: "lost" requests, "refused" ones, or
                   \* a "ragged" page

collectorVars == <<month, until, filed, reports, disclosures, newsRows, task, met>>

NoRow == [symbol |-> "", about |-> NoArticle]
NothingToCollect == [symbol |-> "", left |-> <<>>]

\* The collectors in the order the routers list them.
PipelineCollectors == <<"DART", "DART_FINANCIAL", "GOOGLE_NEWS", "FINNHUB", "NAVER_NEWS">>
RequestCollectors == <<"DART", "DART_FINANCIAL", "GOOGLE_NEWS", "GOOGLE_NEWS_RSS">>

-----------------------------------------------------------------------------
(* The calendar and what companies file.                                   *)

YearOf(m) == m \div 12
MonthOf(m) == (m % 12) + 1

\* The first month after the period.
Ends(year, code) ==
    12 * year + (CASE code = "11013" -> 3 [] code = "11012" -> 6
                   [] code = "11014" -> 9 [] code = "11011" -> 12)

Periods(years) == [symbol : CollectorSymbols, year : years, code : Codes]

\* Filed in time: within two months, or three for the year.
Due(p) == Ends(p.year, p.code) + (IF p.code = "11011" THEN 3 ELSE 2)

CollectorsInit ==
    /\ month \in Starts
    /\ until = month + MaxMonths
    /\ filed = {p \in Periods(0 .. YearOf(month)) : Due(p) <= month}
    /\ reports = {}
    /\ disclosures = [r \in Receipts |-> ""]
    /\ newsRows = [l \in ArticleLinks |-> NoRow]
              \/ \E p \in LegacyNames, a \in Articles :
                    newsRows = [l \in ArticleLinks |->
                              IF l = LinkOf[a] THEN [symbol |-> p[1], about |-> a]
                              ELSE NoRow]
    /\ task = NothingToCollect
    /\ met = ""

MonthPasses ==
    /\ month < until
    /\ month' = month + 1
    /\ UNCHANGED <<until, filed, reports, disclosures, newsRows, task, met>>

File ==
    /\ \E p \in Periods({YearOf(month), YearOf(month) - 1}) \ filed :
          /\ Ends(p.year, p.code) <= month
          /\ filed' = filed \cup {p}
    /\ UNCHANGED <<month, until, reports, disclosures, newsRows, task, met>>

-----------------------------------------------------------------------------
(* The use case.                                                           *)

\* A symbol without a row in stocks ends the use case before any collector; a
\* request names six digits.
StartCollect ==
    /\ task = NothingToCollect
    /\ \E x \in Registered, list \in {PipelineCollectors, RequestCollectors} :
          /\ list = RequestCollectors => x \in Digits
          /\ task' = [symbol |-> x, left |-> list]
    /\ met' = ""
    /\ UNCHANGED <<month, until, filed, reports, disclosures, newsRows>>

\* The turn of a collector that does not raise.
Turn(name) ==
    /\ task.left # <<>>
    /\ Head(task.left) = name
    /\ task' = IF Len(task.left) = 1 THEN NothingToCollect ELSE [task EXCEPT !.left = Tail(@)]
    /\ UNCHANGED <<month, until, filed>>

\* The collectors that read a JSON answer for the symbol.
ReadsJson(name, x) ==
    \/ name \in {"DART", "DART_FINANCIAL"}
    \/ name = "GOOGLE_NEWS" /\ x \in Digits \cup Latin
    \/ name = "FINNHUB" /\ x \notin Digits

\* An answer that is not JSON (response.json() raises no HTTPError): the use
\* case ends, the collectors after this one are not asked.
CollectorRaises ==
    /\ task.left # <<>>
    /\ ReadsJson(Head(task.left), task.symbol)
    /\ task' = NothingToCollect
    /\ met' = ""
    /\ UNCHANGED <<month, until, filed, reports, disclosures, newsRows>>

-----------------------------------------------------------------------------
(* DART.                                                                   *)

\* The ten newest disclosures of the company in the last thirty days, or none.
CollectDisclosures ==
    /\ Turn("DART")
    /\ \E batch \in SUBSET {r \in Receipts : Issuer[r] = task.symbol} :
          disclosures' = [r \in Receipts |->
              IF r \in batch /\ disclosures[r] = "" THEN task.symbol
              ELSE disclosures[r]]
    /\ met' = ""
    /\ UNCHANGED <<reports, newsRows>>

\* _get_recent_reprt_code: the code to ask for, and the year of the label.
RecentReport(m) ==
    CASE MonthOf(m) <= 4 -> [code |-> "11014", label |-> YearOf(m) - 1]
      [] MonthOf(m) \in 5 .. 6 -> [code |-> "11013", label |-> YearOf(m)]
      [] MonthOf(m) \in 7 .. 9 -> [code |-> "11012", label |-> YearOf(m)]
      [] MonthOf(m) \in 10 .. 11 -> [code |-> "11014", label |-> YearOf(m)]
      [] MonthOf(m) = 12 -> [code |-> "11011", label |-> YearOf(m)]

\* The years in the order they are asked for.
YearBeforeFirst(m) == <<YearOf(m) - 1, YearOf(m)>>                  \* mutant
YearsAsked(m) == <<YearOf(m), YearOf(m) - 1>>

\* _fetch_report_article: the consolidated statement, else the separate one.  A
\* request that fails gives the year up.  An answer with HTTP status 200 that has
\* another status than "000", because nothing was filed, the limit of requests is
\* reached or DART is maintained, or that has none of the key accounts, is read
\* as no statement: "refused" are those of what was filed.
FailedIsNone(x, year, code, failing, refused) ==                    \* mutant
    LET has(fs) == /\ fs \in Statements[x] /\ <<year, fs>> \notin failing \cup refused
                   /\ [symbol |-> x, year |-> year, code |-> code] \in filed
    IN  IF has("CFS") THEN "CFS" ELSE IF has("OFS") THEN "OFS" ELSE ""
Statement(x, year, code, failing, refused) ==
    LET has(fs) == /\ fs \in Statements[x] /\ <<year, fs>> \notin refused
                   /\ [symbol |-> x, year |-> year, code |-> code] \in filed
    IN  IF <<year, "CFS">> \in failing THEN ""
        ELSE IF has("CFS") THEN "CFS"
        ELSE IF <<year, "OFS">> \notin failing /\ has("OFS") THEN "OFS"
        ELSE ""

\* The article of the first year with a statement.  The label is that of the
\* calendar, whichever year the figures are of.
ReportArticles(x, failing, refused) ==
    LET asked == RecentReport(month)
        years == YearsAsked(month)
        found == {i \in 1 .. 2 : Statement(x, years[i], asked.code, failing, refused) # ""}
        first == CHOOSE i \in found : \A j \in found : i <= j
    IN  IF found = {} THEN {}
        ELSE {[symbol |-> x, year |-> years[first], code |-> asked.code,
               fs |-> Statement(x, years[first], asked.code, failing, refused),
               label |-> asked.label]}

\* source_doc_id of a report.
SameDocument(a, b) ==
    a.symbol = b.symbol /\ a.year = b.year /\ a.code = b.code /\ a.fs = b.fs

Requests == {YearOf(month), YearOf(month) - 1} \X {"CFS", "OFS"}

CollectReport ==
    /\ Turn("DART_FINANCIAL")
    /\ \E failing \in SUBSET Requests : \E refused \in SUBSET (Requests \ failing) :
          /\ reports' = reports \cup
                {a \in ReportArticles(task.symbol, failing, refused) :
                    \A b \in reports : ~SameDocument(a, b)}
          /\ met' = IF refused # {} THEN "refused" ELSE IF failing # {} THEN "lost" ELSE ""
    /\ UNCHANGED <<disclosures, newsRows>>

-----------------------------------------------------------------------------
(* News: the dedup key is the link alone.                                  *)

\* The articles of an answer whose links have no row.
StoreNews(articles) ==
    newsRows' = [l \in ArticleLinks |->
               IF newsRows[l] = NoRow /\ \E a \in articles : LinkOf[a] = l
               THEN [symbol |-> task.symbol, about |-> CHOOSE a \in articles : LinkOf[a] = l]
               ELSE newsRows[l]]

\* SerpAPI is asked for codes and tickers only, by the name of the stock and,
\* if that brings nothing, by the English name of the eleven that have one.
CollectSerpNews ==
    /\ Turn("GOOGLE_NEWS")
    /\ \E byName \in SUBSET Articles, byEnglish \in SUBSET Articles :
          StoreNews(IF task.symbol \notin Digits \cup Latin THEN {}
                    ELSE IF byName = {} /\ task.symbol \in English THEN byEnglish
                    ELSE byName)
    /\ met' = ""
    /\ UNCHANGED <<reports, disclosures>>

\* Finnhub is asked for whatever is not six digits.
CollectFinnhub ==
    /\ Turn("FINNHUB")
    /\ \E articles \in SUBSET Articles :
          StoreNews(IF task.symbol \in Digits THEN {} ELSE articles)
    /\ met' = ""
    /\ UNCHANGED <<reports, disclosures>>

\* The feed is asked for every symbol; items without title or link are left out.
CollectRss ==
    /\ Turn("GOOGLE_NEWS_RSS")
    /\ \E articles \in SUBSET Articles : StoreNews(articles)
    /\ met' = ""
    /\ UNCHANGED <<reports, disclosures>>

\* A result page of Naver: its entries have a title, which may be too short to
\* count, and may have a link to n.news.naver.com.
Entries == [about : Articles, short : BOOLEAN, linked : BOOLEAN]
Pages == BoundedSeq(Entries, PageEntries)

Url(page, i) == LinkOf[page[i].about]

Titles(page) ==
    LET kept == Rising({i \in DOMAIN page : ~page[i].short})
    IN  [n \in DOMAIN kept |-> page[kept[n]].about]

\* dict.fromkeys: every link once, in the order of the page.
Urls(page) ==
    LET linked == {i \in DOMAIN page : page[i].linked}
        kept == Rising({i \in linked : \A j \in linked : Url(page, j) = Url(page, i) => i <= j})
    IN  [n \in DOMAIN kept |-> Url(page, kept[n])]

\* zip(titles, urls)[:10]: by position, whatever either list has lost.
Zipped(page) ==
    LET both == {i \in 1 .. 10 : i <= Len(Titles(page)) /\ i <= Len(Urls(page))}
    IN  [i \in both |-> <<Urls(page)[i], Titles(page)[i]>>]

\* One pair after the other, for links without a row.
StorePairs(pairs) ==
    newsRows' = [l \in ArticleLinks |->
        LET mine == {i \in DOMAIN pairs : pairs[i][1] = l}
        IN  IF newsRows[l] # NoRow \/ mine = {} THEN newsRows[l]
            ELSE [symbol |-> task.symbol,
                  about |-> pairs[CHOOSE i \in mine : \A j \in mine : i <= j][2]]]

Ragged(page) ==
    \/ \E i \in DOMAIN page : page[i].short \/ ~page[i].linked
    \/ ~IsInjective(page)

CollectNaverPage ==
    /\ Turn("NAVER_NEWS")
    /\ \E page \in IF task.symbol \in Digits THEN Pages ELSE {<<>>} :
          /\ StorePairs(Zipped(page))
          /\ met' = IF Ragged(page) THEN "ragged" ELSE ""
    /\ UNCHANGED <<reports, disclosures>>

\* POST /stock-collector/admin/migrate-symbols, one name after the other.
MigrateSymbols ==
    /\ LegacyNames # {}
    /\ newsRows' = [l \in ArticleLinks |->
          IF \E p \in LegacyNames : newsRows[l].symbol = p[1]
          THEN [newsRows[l] EXCEPT !.symbol =
                  (CHOOSE p \in LegacyNames : p[1] = newsRows[l].symbol)[2]]
          ELSE newsRows[l]]
    /\ met' = ""
    /\ UNCHANGED <<month, until, filed, reports, disclosures, task>>

CollectorsNext ==
    \/ MonthPasses \/ File
    \/ StartCollect \/ CollectorRaises
    \/ CollectDisclosures \/ CollectReport
    \/ CollectSerpNews \/ CollectFinnhub \/ CollectRss \/ CollectNaverPage
    \/ MigrateSymbols

CollectorsSpec == CollectorsInit /\ [][CollectorsNext]_collectorVars

-----------------------------------------------------------------------------
(* Properties.                                                             *)

TypeOK ==
    /\ reports \subseteq
         [symbol : Registered, year : Nat, code : Codes, fs : {"CFS", "OFS"},
          label : Nat]
    /\ newsRows \in [ArticleLinks ->
          [symbol : CollectorSymbols \cup {p[1] : p \in LegacyNames} \cup {""},
           about : Articles \cup {NoArticle}]]

\* A report is stored with figures of an earlier year than its title says only
\* if the company had not filed those of the title's year, or a request failed
\* or was refused (dart_report_collector_adapter.py 60-68 asks for the year before
\* under the label of this one, 98-105 and 120 give a year up).
PeriodExplained(a) ==
    \/ a.year = a.label
    \/ [symbol |-> a.symbol, year |-> a.label, code |-> a.code] \notin filed
    \/ met' \in {"lost", "refused"}

\* The separate statement stands in only where there is no consolidated one or
\* DART refused it (dart_report_collector_adapter.py 84, 104-105): a failed
\* request is not taken for the lack of one.
ConsolidatedFirst(a) ==
    a.fs = "OFS" => "CFS" \notin Statements[a.symbol] \/ met' = "refused"

\* A new row's title is that of the article its link leads to, unless the page
\* was ragged (naver_news_collector_adapter.py 63-69 pairs two lists filtered
\* apart by position).
TitleFits(l) == LinkOf[newsRows'[l].about] = l \/ met' = "ragged"

\* What is collected says what it is about: in each new row the figures are
\* those of the period named, or the exception is explained, the statement is
\* the consolidated one where there is one, and the title fits the link; a
\* disclosure is one of the symbol's own company.
CollectedTruly ==
    /\ \A a \in reports' \ reports : PeriodExplained(a) /\ ConsolidatedFirst(a)
    /\ \A l \in ArticleLinks : newsRows[l] = NoRow /\ newsRows'[l] # NoRow => TitleFits(l)
    /\ \A r \in Receipts : disclosures'[r] \in {"", Issuer[r]}

CollectedIsTrue == [][CollectedTruly]_collectorVars
=============================================================================
