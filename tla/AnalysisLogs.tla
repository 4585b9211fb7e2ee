---------------------------- MODULE AnalysisLogs ----------------------------
(***************************************************************************)
(* The readers of the table analysis_logs: the summaries of an account     *)
(* (GET /pipeline/summaries, /report-summaries, /logs), of one stock, of   *)
(* the public pages (GET /public/summaries, /home-stats) and of the admin. *)
(* Runs append their logs; a run may commit logs older than those another  *)
(* run committed before it.                                                *)
(*                                                                         *)
(* All readers ORDER BY analyzed_at DESC and nothing else: the order of    *)
(* rows of one second is the database's choice, so a reader is an operator *)
(* on the list of rows in one of the possible orders.                      *)
(***************************************************************************)
EXTENDS Integers, FiniteSets, Sequences, Functions

CONSTANTS
    Owners, Anonymous,   \* account_id of a log; None for the jobs
    LogSymbols,
    Top,                 \* TOP_MARKET_CAP_SYMBOLS
    RecentSize,          \* the limit of find_recent in home-stats (5)
    HomeSize,            \* the entries home-stats returns at most (10)
    ListLimit,           \* the limits of /logs, /stocks/{symbol}, /admin/logs
    LogRowBound, LogSeconds   \* bounds: the rows, and the seconds that pass

Kinds == {"NEWS", "DISCLOSURE", "REPORT"}
NoKind == ""             \* the rows from before the column source_type

ASSUME AnalysisLogsAssumption ==
    /\ Anonymous \notin Owners
    /\ Top \subseteq LogSymbols /\ IsFiniteSet(Top)
    /\ {RecentSize, HomeSize, ListLimit, LogRowBound, LogSeconds} \subseteq Nat
    /\ Cardinality(Top) + RecentSize <= HomeSize

VARIABLES analysisLogs,   \* the rows, by id
          second          \* the time

logVars == <<analysisLogs, second>>

LogRows == [at : 0 .. LogSeconds, symbol : LogSymbols, kind : Kinds \cup {NoKind},
            owner : Owners \cup {Anonymous}]

AnalysisLogsInit ==
    /\ second = 0
    /\ \/ analysisLogs = <<>>
       \/ \E r \in LogRows : r.kind = NoKind /\ r.at = 0 /\ analysisLogs = <<r>>

NextSecond == second < LogSeconds /\ second' = second + 1 /\ UNCHANGED analysisLogs

\* save_all: the logs of a run, analysed now or a moment ago, for one owner;
\* here one log of a symbol, or one of its news and one of its reports.
SaveAll ==
    /\ \E owner \in Owners \cup {Anonymous}, x \in LogSymbols,
          kinds \in {<<"NEWS">>, <<"REPORT">>, <<"NEWS", "DISCLOSURE">>},
          at \in {t \in 0 .. second : second <= t + 1} :
          /\ Len(analysisLogs) + Len(kinds) <= LogRowBound
          /\ analysisLogs' = analysisLogs \o [i \in DOMAIN kinds |->
                [at |-> at, symbol |-> x, kind |-> kinds[i], owner |-> owner]]
    /\ UNCHANGED second

AnalysisLogsNext == NextSecond \/ SaveAll

AnalysisLogsSpec == AnalysisLogsInit /\ [][AnalysisLogsNext]_logVars

-----------------------------------------------------------------------------
(* The readers, on a list of the rows, newest first.                       *)

\* The orders the database may return the rows in, as lists of ids.
Orders ==
    {o \in [DOMAIN analysisLogs -> DOMAIN analysisLogs] :
        /\ IsInjective(o)
        /\ \A i, j \in DOMAIN o :
              i < j => analysisLogs[o[i]].at >= analysisLogs[o[j]].at}

ByTime(o) == [i \in DOMAIN o |-> analysisLogs[o[i]]]

\* LIMIT n
FirstRows(list, n) == SubSeq(list, 1, IF Len(list) < n THEN Len(list) ELSE n)

\* WHERE the row is one of those wanted.
Where(list, wanted) ==
    LET found[n \in 0 .. Len(list)] ==
            IF n = 0 THEN <<>>
            ELSE IF list[n] \in wanted THEN Append(found[n - 1], list[n])
            ELSE found[n - 1]
    IN  found[Len(list)]

\* A log of a symbol that is there already is left out, and a dict would keep its
\* place.
Overwriting(seen, log) ==                                           \* mutant
    IF \E r \in Range(seen) : r.symbol = log.symbol
    THEN [i \in DOMAIN seen |-> IF seen[i].symbol = log.symbol THEN log ELSE seen[i]]
    ELSE Append(seen, log)
Unseen(seen, log) ==
    IF \E r \in Range(seen) : r.symbol = log.symbol THEN seen ELSE Append(seen, log)

\* "if symbol not in seen", for one log of the list after the other.
AddUnseen(start, list) ==
    LET seen[n \in 0 .. Len(list)] ==
            IF n = 0 THEN start ELSE Unseen(seen[n - 1], list[n])
    IN  seen[Len(list)]

FirstPerSymbol(list) == AddUnseen(<<>>, list)

\* WHERE account_id = owner; None asks for every row.
OwnedBy(owner) == {r \in LogRows : owner \in {Anonymous, r.owner}}

\* WHERE source_type IN types, and no type counts as NEWS.
OfTypes(types) ==
    {r \in LogRows : r.kind \in types \/ ("NEWS" \in types /\ r.kind = NoKind)}

OfSymbols(symbols) == {r \in LogRows : r.symbol \in symbols}

FindLatestPerSymbol(list, types, owner) ==
    FirstPerSymbol(Where(list, OwnedBy(owner) \cap OfTypes(types)))

FindLatestBySymbols(list, symbols) == FirstPerSymbol(Where(list, OfSymbols(symbols)))

FindRecent(list, n, owner) == FirstRows(Where(list, OwnedBy(owner)), n)

FindBySymbol(list, x) == FirstRows(Where(list, OfSymbols({x})), ListLimit)

GetSummaries(list, owner) == FindLatestPerSymbol(list, {"NEWS"}, owner)
GetReportSummaries(list, owner) ==
    FindLatestPerSymbol(list, {"DISCLOSURE", "REPORT"}, owner)
GetAnalysisLogs(list, owner) == FindRecent(list, ListLimit, owner)
GetPublicSummaries(list, symbols) == FindLatestBySymbols(list, symbols)
GetStockDetail(list, x) == FindBySymbol(list, x)
GetLogs(list) == [logs |-> FirstRows(list, ListLimit), total |-> Len(list)]

\* GET /public/home-stats: a dict by symbol, in the order of its first writes,
\* cut to the first ten; two queries, so two orders.
HomeStats(tops, recent) ==
    FirstRows(AddUnseen(FindLatestBySymbols(tops, Top),
                        FindRecent(recent, RecentSize, Anonymous)), HomeSize)

-----------------------------------------------------------------------------
(* Properties.                                                             *)

AnalysisLogsTypeOK == analysisLogs \in Seq(LogRows) /\ second \in 0 .. LogSeconds

AllLogs == Range(analysisLogs)

\* A list has one entry per symbol among the rows, and no row of the symbol
\* is newer.
NewestOfEach(list, rows) ==
    /\ Range(list) \subseteq rows
    /\ Cardinality({e.symbol : e \in Range(list)}) = Len(list)
    /\ \A r \in rows : \E e \in Range(list) : e.symbol = r.symbol /\ e.at >= r.at

\* The summaries of an account are the newest of each of its symbols, rows of
\* no type counting as news, and its two lists leave out no row
\* (analysis_log_repository_impl.py 36-68).
SummariesAreNewest ==
    \A o \in Orders, owner \in Owners \cup {Anonymous} :
        LET theirs == {r \in AllLogs : owner \in {Anonymous, r.owner}}
            typed(types) == {r \in theirs : r.kind \in types}
        IN  /\ NewestOfEach(GetSummaries(ByTime(o), owner), typed({"NEWS", NoKind}))
            /\ NewestOfEach(GetReportSummaries(ByTime(o), owner),
                            typed(Kinds \ {"NEWS"}))

\* The public home page shows the newest log of every top symbol that has one,
\* and of every symbol among the newest logs of all, one entry per symbol, each
\* the newest there is, and the cut at ten loses none of them
\* (public_router.py 46-62).
HomeIsNewest ==
    \A o \in Orders, p \in Orders :
        LET list == HomeStats(ByTime(o), ByTime(p))
            lately == {ByTime(p)[i].symbol : i \in DOMAIN FirstRows(p, RecentSize)}
        IN  NewestOfEach(list, {r \in AllLogs : r.symbol \in Top \cup lately})

\* Whoever reads the logs sees the newest analysis of each symbol, whatever
\* order the runs committed in and the database breaks ties in.
ReadersSeeTheNewest == SummariesAreNewest /\ HomeIsNewest
=============================================================================
