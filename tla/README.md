# alpha-terminal-ai-server in TLA+

Specifications, model-checking runs and proofs for the backend under `src/`: a
FastAPI application that collects news and filings about the stocks of its
users' watchlists, has a language model analyse them, and serves the results.
Source paths below are relative to `src/app/domains/` unless they start with
`src/`.

## The system

One asyncio event loop per server process. Handlers are coroutines that call
SQLAlchemy and Redis synchronously, so what stands between two `await`s is one
atomic step of its process; a few calls go to worker threads
(`asyncio.to_thread`, `run_in_executor`). Stores: MySQL (REPEATABLE READ: a
transaction reads the snapshot of its first read), PostgreSQL for article
bodies, comments and investment answers, Redis for sessions, the registry and
caches. Three `AsyncIOScheduler`s start jobs in the same process: the pipeline
at 07:00, 09:00 and 15:30, the profile batch at 00:00, the morning briefing at
07:00.

| component | state | operations | what is hard | what makes it correct |
|---|---|---|---|---|
| `pipeline` | `analysis_logs`, summary registry (memory or Redis) | run by request, by stream, by schedule; reads | runs interleave over one article table; registry and logs are two stores; a failed insert spoils the session; crashes | all logs of a run or none; every item reported; results about their own symbol |
| `pipeline` stream | an event queue per request, a background task | `run-stream` | the client leaves at any time; one end, told truly | one terminal event, in order, true of the database; run and stream end |
| phase 2 of a run with `stock_analyzer`, `stock_normalizer` | semaphore, dictionaries of normalised articles and analyses | synthesis, fall back, single analyses | answers in any order, failures, limit shared by all symbols | limit kept, no permit lost, result independent of the order |
| `stock_collector` | `raw_articles` | collect (from a run or a request), migrate symbols | lookup then insert in a snapshot, unique key without the symbol; answers of services that fail or are ragged | what was collected is stored once, and says what it is about |
| `investment` | the agents' state; `analysis_cache`, event queue per request | decision, decision stream | a model that routes as it likes; time-out against a late answer; bounded queue without reader | a verdict that follows from data; answers kept; every task ends |
| `account`, `auth`, `kakao_auth` | `accounts`; tokens and sessions in Redis; cookies | Kakao log-in, registration, log-in, logout | late failures between stores, temporary tokens used twice, routes that read different cookies | one account per user and e-mail; one identity per browser |
| `user_profile` | profile, interactions | view, click, investment profile, batch | the batch's day, ten rows per account, whole-row saves | the newest are kept, nothing is forgotten |
| `watchlist`, `notification`, `agent_proactive_recommendation` | watchlist, notifications | add, remove, read, morning job | one session for all accounts | what the job reports is what it left |
| `card_share`, `board`, `post` | cards, likes, comments, boards, posts | share, like, comment, delete | counters kept beside rows, several workers | counters equal rows |
| `news_search`, `news_analyzer` | articles in MySQL, bodies in PostgreSQL | search, save, bulk analysis | two commits that are not one | a body has its headline, an article one body |
| `youtube`, `market_video` | videos and logs in MySQL, comments in PostgreSQL | collect, list | batches that roll back in part | what is reported is stored |
| `stock` | `stocks`, price caches in memory and Redis | synchronisation, heatmap | threads over one cache, a market that changes under them, two providers | what is shown is what the provider quotes |
| `admin`, `analytics`, `public` | event rows, roles | lists, statistics, public pages | pages by offset while rows are added, ties in the order | nobody is missed, the newest is shown |
| `stock_theme` | `stock_themes` | seed, recommend | entries committed one by one, requests that meet on a unique code; counts, ranks and rounding | a seed that tells its count has seeded; what is recommended follows from the comments |
| `market_analysis`, `llm` | none | questions to the model | - | - |
| `src/app/infrastructure`, `src/main.py` | engines, Redis client, schedulers | wiring, start-up | connection pool shared with the event loop | - |

`PROJECT.json` lists the same parts with their status, and under `hazards`
everything found that a test would hardly reach, with the properties that watch
over it.

## The modules

| module | models |
|---|---|
| `RunOutcome` | abstract: what a run promises to readers of the logs: begin; publish all logs in one step; abort with none |
| `PipelineRun` | `run_pipeline_usecase.py`, `pipeline_router.py`, `collect_articles_usecase.py`, the repositories below them, `collector_router.py`, the registry: any number of runs and collect requests over one article table |
| `ArticleAnalysis` | phase 2 of `run_pipeline_usecase.py` with `get_or_create_analysis_usecase.py` and the normaliser |
| `PipelineStream` | `pipeline_router.py` 103-158 with the events of the use case: task, queue, generator, client |
| `AnalysisLogs` | the readers of `analysis_logs`: summaries, reports, stock pages, public pages, administrator |
| `Collectors` | what each collector asks for, survives and stores; `migrate-symbols` |
| `InvestmentVerdict` | `investment_decision_analyzer.py`: scores, direction, confidence, verdict |
| `InvestmentWorkflow` | one run of the agents: orchestrator, query parser, retrieval, analysis, synthesis; EXTENDS `InvestmentVerdict` |
| `InvestmentDecision` | `investment_router.py`: both routes, answer cache, queue, time-out, client |
| `NewsStore` | `investment_news_source.py`: headlines in MySQL, bodies in PostgreSQL |
| `YouTubeStore` | `/market-video` collections, and the videos and comments of the agents |
| `MarketVideos` | `/youtube/collect` and `/youtube/list` over `market_videos` |
| `SavedArticles` | saving articles and the bulk analysis |
| `Sessions` | Kakao log-in, registration, password log-in, logout; who a browser is to each route |
| `Activity` | views, clicks, investment profile, the batch of midnight |
| `Briefing` | watchlist, notifications, the morning job |
| `Community` | shared cards, likes, comments, boards |
| `Orders` | the elements of a set in an order: what `sorted()` and a filtering loop return |
| `Heatmap` | the stocks table, its synchronisation, the heatmap with its caches and providers |
| `Backoffice` | registrations, roles, pages of users, events, dashboard |
| `StockThemes` | the seeding of `stock_themes`; nouns, synonyms, scores and reasons of a recommendation |
| `MCPipelineRun`, `MCArticleAnalysis`, `MCInvestmentWorkflow`, `MCInvestmentDecision`, `MCPortal` | instances for TLC |
| `PipelineRun_proofs`, `ArticleAnalysis_proofs`, `PipelineStream_proofs`, `InvestmentWorkflow_proofs`, `InvestmentDecision_proofs` | theorems about the module of the name |
| `Members_proofs` | theorems about `Sessions`, `Backoffice`, `Community`, `Briefing`, `Activity` and `AnalysisLogs` |
| `Market_proofs` | theorems about `Orders`, `Heatmap` and `Collectors` |
| `Stores_proofs` | theorems about `NewsStore`, `SavedArticles`, `MarketVideos`, `YouTubeStore` and `StockThemes` |

### The pipeline

The three pipeline modules are three views of a run, cut where the code does
not share state. `PipelineRun` has the database and takes phase 2 as one step,
which is sound because phase 2 touches no database and no other run; of its
result it assumes only that it carries a newest article of its symbol and kind, or
nothing. `ArticleAnalysis` establishes that (`ResultIsNewest`).
`PipelineStream` keeps of the articles only which items have some. `Collectors`
says what the documents are that `PipelineRun` finds; `AnalysisLogs` reads what
it has written.

**PipelineRun.** `rawArticles` and `logs` are the tables, `registry` the
summaries. Each session (run or request) has the snapshot of its transaction, a
flag `broken` for "a flush failed and nobody rolled back", and the local
variables of `execute` (`items`, `todo`, `current`, `noArticle`, `errors`,
`symbolData`, `best`). `phase` is the program counter:

    idle -> next <-> collecting (-> raised) -> publishing -> persisting -> done
                                                             failed / crashed

- `StartRun` reads the watchlist (any content the instance allows) and opens
  the snapshot. `BeginCollect` starts the worker thread for one item; the
  loop's order is left open.
- `SkipDuplicate`, `Save`, `SaveFails` are one document each: the lookup reads
  the session's snapshot, the insert meets the table as it is now. `Save` ends
  the transaction and its refresh opens the next: the snapshot moves on.
  `SaveFails` is the unique key or a value too long for its column.
- `SkipSymbol` is the `except` of the loop; `NoArticleFound`, `ArticlesFound`
  the two ways on; `FindAllFails` the database error outside the `try`.
- `Analyze`, `PutRegistry` (or `RegistryUnreachable`: Redis errors are
  swallowed), `SaveLogs` or `SaveLogsFails`. The code from the registry to the
  commit has no `await`: `HoldsLoop`.
- A collect request runs the same collection on the event loop and holds it.
- `Crash` ends whatever runs; `RegistryExpires` is the 24-hour time to live.

**ArticleAnalysis.** A batch is the news or the reports of a symbol. `Select`
is `_select_articles` with its stable descending sort; `BatchStep` follows
`_analyze_articles`, `JobStep` the tasks of `_analyze_single_best`.
`asyncio.Semaphore` is external: a FIFO queue of waiters, `release` wakes the
first sleeping one, `locked` also holds while there are waiters. The code's part
is where the semaphore is made, once for a run (`Spawn` takes the one there is),
and that `async with` gives a permit back whichever way an analysis ends
(`Release`). Normalisation
gives a new id (`uuid4`), so the lookup of a stored analysis under that id
finds nothing: an explicit conjunct of `Normalize`, checked to hold.

**PipelineStream.** `taken` and `queue` together are the events the run
emitted. A step of the task is what runs between two suspension points, so
`CollectLast` puts two events and `Aggregate` the DONE event, the terminal event
and the sentinel. The client may disconnect whenever the stream is open: the
generator is cancelled, the task is not.

**Collectors.** One collector answers at a time. `Turn` hands on to the next of
`_build_collectors`, `CollectorRaises` is an answer that is no JSON, which no
collector catches. The report collector's loop over years and codes, its retry
under the year before and the choice between consolidated and separate
statements are kept. A request fails (time-out, HTTP error), which gives the year
up, or is answered with HTTP status 200 and a DART status of its own (limit of
requests, maintenance) or without key accounts: the code reads that as "no
statement" and goes on to the next kind and year, as it does where nothing was
filed (`refused`). The Naver page is two lists of matches paired by position,
of which one may lose an entry (`ragged`). Months pass between requests.

**AnalysisLogs.** All readers order by `analyzed_at` alone, to the second; the
order of equal ones is the database's, so each reader is an operator over every
possible order of the rows.

### The investment agents

`InvestmentVerdict` is arithmetic without state. Scores are integers in units
that make every weight whole; the sigmoid of the confidence is monotone, so its
argument (`Evidence`) stands for it, and 0.6 lies between 8 and 9 twentieths.

`InvestmentWorkflow` is one run: `node` is where LangGraph is, `iteration` the
orchestrator's counter, `supersteps` LangGraph's. The language model is
external and may route to any agent, name any list of sources of `Replies`, break
its JSON or fail. The sources of one retrieval answer in any order, with any
signal of their sets, fail or run into their time-out (`GivenUp`). `obedient` is
history: whether the model has routed as its prompt says so far.

`InvestmentDecision` has one cache row per symbol and hour-old expiry, a queue of
`QueueSize` events, and for each request its stage, its task and what the client
was sent. `TimeOut` is the 120 s without an event, `Leave` the client's
disconnection; the look-up and the save run in threads and may fail. The agents
are their log lines and an answer or a failure, which `WorkflowEnds` of
`InvestmentWorkflow` justifies.

What the agents' sources store is `NewsStore` and `YouTubeStore`: an article or
a collection is a sequence of commits in two databases, with other jobs between
them.

### The portal

These components share no state with each other beyond account ids, so `MCPortal`
runs them as alternatives: a behaviour has one of eighteen `topic`s and the
variables of the others stand still. Some topics share a component, each bounding
it in its own way (`OneThread`, `OneSymbol`, `ReportsOnly`, `OneMonth`). That is a
composition without interleaving, and sound because there is none to lose; where two components do share a table, one
module has both (`Activity`: handlers and batch; `Briefing`: routes and job;
`Community`: cards and boards; `Heatmap`: synchronisation and requests).

- **Sessions.** A handler writes to MySQL and Redis one write at a time;
  `RegisterFailsLate` and `CallbackFailsLate` stop between them. `jar` is the
  browser's cookies, each of which may expire alone. `Me`, `CurrentAccount`,
  `ResolveAccountId`, `AdminAccount`, `SettingsAccount` are the five ways in
  which the routes find out who asks.
- **Activity.** Ten rows are `MaxViewed` here. `Remember` is the save with its
  trim in a second commit, which may fail. `UpdateAllUserProfiles` is the batch
  as one step: it has no `await`. The clock is that of Seoul, as the scheduler's;
  in a container that runs in UTC the day of `datetime.now()` differs, and the
  batch likewise finds nothing of the day that has ended.
- **Briefing.** The job goes account by account over one session; an account may
  fail before or after it broke the session, or after its notification was
  committed: `save()` reads the row back, and if that fails the row stays and the
  account is not counted (`ReadBackFails`, `uncounted`). The job holds the loop, so no handler
  runs in between; with one server process, as the module assumes, no
  notification changes during it.
- **Community.** A request is a read and a write step, and several workers
  interleave. The write locks the card's row first, so writes of one card are
  serial. `unmatched` counts DELETEs that met no row.
- **NewsStore, SavedArticles.** Look-up, flush, commit and the other database's
  commit are steps of their own in `NewsStore`, where jobs are threads; a bulk
  request of `SavedArticles` holds the loop article by article.
- **MarketVideos, YouTubeStore.** Batches of upserts by several workers; a
  failure rolls back the batch so far in one, breaks the session in the other.
  The sentiment of a company reads the newest `MaxLogs` logs (3 in the code) and on
  their videos the newest `CommentLimit` comments (250; three logs can have 300).
  Both queries order by `created_at`, to the second in MySQL and to the microsecond
  in PostgreSQL, and rows of one moment come in any order: `LatestOf` is the set
  of possible answers.
- **Heatmap.** `RowsFrom` are the raw rows of each provider: missing, unreadable
  and repeated days, rows of another symbol. Requests are threads over `cache`,
  a dictionary without lock, and `remote`, the one in Redis; a synchronisation
  changes markets meanwhile, and `startup` may end between its halves. Markets
  come only for codes of six digits, as the adapter takes no others from the
  lists; those are Korean by their digits anyway, so a symbol's provider never
  changes, which `HeatmapIsTrue` states and its proof shows. An entry of either
  cache has `left` of `Life` ticks and, as history, the `age` of its closes: what
  is read from Redis begins a second lifetime in the process.
- **Backoffice.** An administrator walks the pages while members register; the
  dashboard is shown on a day that is not over. Its session keeps the role it
  was opened with.
- **StockThemes.** A seed is a look-up, a save and a refresh per entry, each save a
  commit of its own; `sees` is the snapshot of its session. A recommendation is
  a function of the state: counted nouns, merged synonyms, the top of them,
  scores rounded to four places, reasons from the reply of the model. The code
  adds up floats theme by theme before it rounds; for totals up to some 10^10
  their error matters only where a share lies midway between two places, and there
  each stock's score may go either way (`Halves`, and `up` of `Match`): equal shares
  then need not come by name. Posted counts may be negative, as the route
  accepts them.

## Runs

| run | instance | properties | size |
|---|---|---|---|
| `PipelineRun` | two runs (account, scheduled), two symbols, three documents, one of them offered for both symbols; registry in memory; crashes | `EveryItemReportedOnce`, `LogsMatchOutcome`, `NoForeignArticle`, `CollectionIsTold`, `ImplementsOutcome` | 1.48 million states |
| `PipelineRedis` | a run and a collect request, a document the table rejects, Redis that fails or expires; fairness | `RegistryBacked`, `SessionsEnd` | 53 000 |
| `PipelineConflict` | as `PipelineRun` | violates `FailedInsertOnlySkips` | |
| `ArticleAnalysis` | one run, two batches of up to three articles with equal, missing and old dates, two permits, with and without the analyzer port; fairness | `CallsWithinLimit`, `BestIsFirstMostConfident`, `ResultIsNewest`, `NoResultMeansFailure`, `AnalysisEnds` | 351 000 |
| `AnalysisRepeated` | two runs over the same articles | violates `AnalysedOnce` | |
| `PipelineStream` | up to three items, a client that may leave; fairness | `OneTerminalEvent`, `EndIsTrue`, `EventsInOrder`, `BothEnd` | 109 000 |
| `StreamAnalysisFails` | up to two items | violates `FailedAnalysisIsError` | |
| `InvestmentWorkflow` | one run of the agents, four iterations, replies with repeated, unknown and no sources, signals on both sides of the thresholds; fairness | `VerdictFollowsDirection`, `AnswerRestsOnData`, `ObedientRunAnswers`, `WithinRecursionLimit`, `WorkflowEnds` | 1.03 million |
| `InvestmentDecision` | two streams and two direct requests, one symbol, clients that leave, a queue of three, an expiring cache; fairness | `AnswerIsKept`, `OneOutcome`, `TaskOutlivesClient` | 598 000 |
| `Portal` | the eighteen topics of `MCPortal` | `OneAccountEach`, `OneIdentity`, `CountsMatchRows`, `NewestAreKept`, `NothingForgotten`, `SentIsTrue`, `StoresAgree`, `SeedsSucceed`, `RecommendationsAreTrue`, `OneContentEach`, `HeatmapIsTrue`, `ReportedIsStored`, `CollectedIsReadable`, `CollectedIsTrue`, `ReadersSeeTheNewest`, `AdminIsNotMisled` | 872 000 |
| `EveryDayCounts`, `FreshIsAnalysed` | `Activity` and `SavedArticles` alone, sized as in `Portal` | each violates the property of its name | |

What each shows is the comment above its property. Each property of a passing
run has, under `mutants`, a plausible bug of the code that violates it.

**Bounds.**

- *Pipeline.* Two sessions are what a conflict needs: every hazard here is
  between one session and the table as another left it, and a third session
  adds no new relation (the proofs have no such bound). Three documents and two
  symbols give a symbol with a document of its own and one shared, so that the
  conflict, the foreign duplicate and the empty symbol all occur. Two permits
  and up to five articles make analyses queue behind each other in both
  batches. Three items are the first number with a first, a middle and a last
  one.
- *Agents.* `MaxIterations` is 4 instead of 6 and the recursion limit 10
  instead of 25: both cut in, at the same distance of 2 n + 1 from each other's
  edge, and the theorem has them free. One signal per source and its absence
  give every combination of sources. `QueueSize` 3 is one line, the result and
  the sentinel, that is, exactly what fits; `MaxLogs + 2 <= QueueSize` is what
  the code relies on (some hundreds of lines, room for 2000).
- *Sessions.* `MaxTokens` 3 is enough for a registration that fails late, its
  repetition and a log-in, or for two registrations one of which fails late; one
  browser belongs to one user, one is shared by two.
- *Community.* One card, two workers, an account and a guest: a race needs two
  requests for one like, and cards do not touch each other. *Activity:* three
  symbols on two places, four instants, that is two midnights. *Briefing:* two
  accounts, so that one can break the session for the other, and two runs.
- *Stores.* Two jobs over two links, two articles each; two videos and two
  comments, one kept log and one comment read, so that both limits cut; of two
  workflows one finds the first video only, the other any videos with comments. A third job only repeats what one of
  two does to the other.
- *Heatmap.* Two symbols for one thread, or one symbol for two threads: the first
  has answers with items and errors and both providers, the second the races. One
  symbol has six digits, the other is on the list of KONEX but has not (0001A0), and
  is passed over. A `Life` of 2 ticks lets an entry be read when it is new, near its
  end and after it.
- *Collectors.* Pages of up to `PageEntries` 2 entries, two being what a pairing by
  position can get wrong (the ten pairs the code keeps at most are never
  reached). Every second month of a year to start in and three that pass cover every turn
  of the report codes, with every choice of requests that fail or are refused; one
  October with three symbols covers the rest, without refusals.
- *Logs and back office.* Three rows in two seconds give ties and late commits;
  three members on pages of one, over two seconds, give a page before and after
  a registration and a member of the same second; a day is one second and one
  event is counted, so that the figures of a day are read before and after it.
- *Themes.* Three requests, so that two fail of each other and a third goes on;
  three stocks whose themes overlap, over a table never seeded or seeded by an
  earlier version. Three nouns, two of them synonyms, said four times; clients
  post counts of -1, 1 and 19999 for one or two words, which gives shares midway
  between two places, different shares that round to one, and totals that are
  negative or zero; a reply has up to two items, with and without a reason, one of them
  about a stock that is not there.

Counters that the code does not bound (tokens, notifications, boards, comments,
clicks, logs, clocks) stop at constants that the comments of the modules mark as
bounds; the guards name them.

**Fairness.** Weak fairness of each session's steps, of the analyses' steps, of
the task and of the generator, of the agents' run and of the server's side of a
decision: the event loop runs every task that is ready, threads return because
the clients they use have time-outs, and the language model's client answers or
times out. Nobody has to start a run, open a stream, ask or leave. `PipelineRun`
needs fairness per session, not per action: a session that can go on in several
ways takes one of them. The portal's properties are safety only, and its
specification has no fairness.

**Deadlock** is checked in the pipeline's runs and the workflow's, where the
states in which everything has ended stutter explicitly (`AllEnded`,
`AllFinished`, `Over`). In `InvestmentDecision` and `Portal` requests and
counters run out, which is the bounds' doing: there it is off.

## What was found

1. *A failed insert costs the run everything* (`PipelineConflict`).
   `RawArticleRepositoryImpl.save` commits without a rollback on failure. Two
   runs that collect the same document at once (the jobs and any request do)
   make one of them violate `uq_dedup_key`; the loop says "skipping", but the
   session raises from then on, every later symbol is skipped too
   (`BrokenRunSkipsTheRest`) and `save_all` fails: no log of the run is stored
   (`BrokenRunFails`).
2. *The stored analysis is never found* (`AnalysisRepeated`): it is kept under
   an id made anew at each normalisation.
3. *The stream ends with `done` when every analysis failed*
   (`StreamAnalysisFails`), where its backlog document asks for `error`.
4. *The batch of midnight counts nothing* (`EveryDayCounts`): it takes the
   day that has just begun for the day to count.
5. *A bulk request analyses nothing new* (`FreshIsAnalysed`): it stores what it
   has found without a text, and then refuses it for want of one.

Met while reading, and in the models as the code has it, but with no run of
their own:

- A collector that raises (an answer that is no JSON) ends the collection of its
  symbol, later collectors included (`CollectorRaises`), where
  `src/docs/backlog/BL-BE-11-pipeline-multi-source-collector.md:18` asks that the
  others' results be returned. A symbol without a row in `stocks` ends the use
  case before any collector, and that table has Korean stocks only, so that line
  16's collection for English symbols does not take place.
- Two un-likes at once count down twice for one row: a card then shows too few
  likes (`unmatched` in `CountsMatchRows`).
- A report may be stored with the figures of the year before under this year's
  title when a request failed, and also when DART only said that its limit was
  reached or that it was being maintained: such answers come with HTTP status 200
  and are taken for "nothing filed" (`dart_report_collector_adapter.py:104`), which
  may put a separate statement in the consolidated one's place too
  (`PeriodExplained`, `ConsolidatedFirst`).
- Two requests for a heatmap that find the same entry expired both delete it; the
  second gets a `KeyError` and no answer (`DeleteFails`).
- `_format_amount` (`dart_report_collector_adapter.py:36`) replaces every minus
  sign with a zero: a loss is printed as a profit. Amounts are not modelled.
- Logs of scheduled runs have no account, and the account's summaries do not
  show them (`GetSummaries`). An administrator's session keeps its role when the
  account has lost it (`require_admin.py:29`).
- The synonym table (`youtube/domain/service/synonym_table.py:15`) counts 전기차
  (electric car) for 자동차 (car): a stock that has the first as its theme and not
  the second (Tesla, Samsung SDI, LG Energy Solution) is not recommended for
  comments that say it, where `stock_theme_router.py:62` says that the nouns of
  the comments are matched with themes.
- `market_analysis_router.py:120` imports a `run_graph` that
  `src/app/infrastructure/langgraph/graph_builder.py` does not define.

## Proofs

Proved with TLAPS for every value of the constants; `PROJECT.json` lists the
theorems with the properties they state.

**`PipelineRun_proofs`**, from `PipelineAssumption` (the constants are functions
of the right domain, the model values for "none" are no members): `TypeCorrect`,
`ItemsReported`, `LogsAllOrNothing`, `BrokenNeverDone`, `BrokenSkips`,
`ArticlesOfTheSymbol`, `RegistryConsistent` and `Refinement`. `TypeOK` alone is
not inductive: an item in hand must be a real item, so `TypeInv` adds that.
`NoForeignArticle` follows from two facts that travel with the snapshot: a row
once written never changes (no action writes a document that has one), so a
snapshot never contradicts the table (`SnapshotInv`), and what a run found is a
subset of what its snapshot showed (`ArticleInv`). `EveryItemReportedOnce` needs
the loop invariant `LoopInv`: items are split between those to do, the one in
hand, the skipped and the ones with articles; the last two are disjoint for one
account because an item is then determined by its symbol (`ItemExtensional`),
which is exactly what fails for a scheduled run over several accounts.
`LogsMatchOutcome` and `RegistryBacked` rest on the phases (`ResultInv`,
`RegistryInv`): results do not change after the analysis, and only the step to
`done` adds logs. The refinement maps phases to the four states of `RunOutcome`;
each action is matched with a step or a stutter by how it moves the phase
(`PhaseMoves`), and the one publishing step needs that a run has one log per
symbol and kind.
`CollectionIsTold` is an action property: `LookedUp` says that while a session
collects, its snapshot shows a row of every document dealt with, and whoever has
an error is skipped.

**`ArticleAnalysis_proofs`**, from `AnalysisAssumption`: `PermitsAreKept`,
`CallsAreLimited`, `BestIsChosen`, `NewestIsTold`, `NothingIsLeftOut`. The
invariant `IInv` has three layers. Of the semaphore (`SemaphoreInv`): the queue
holds exactly those that wait or were woken, once each; permits and their holders
add up, whichever way an analysis ends, from which `CallsAreLimited` follows; and a
free permit with somebody queued means that a queued one was
woken, which is what one release must hand to the next. Of the collection:
nothing before it, everything after. Of a batch (`BatchInv`): its selection
has a newest article first, its result is the winner of its single answers or a
newest article, and a batch without result has a failed call. `Selected` and
`BestWins` say what the stable sort and the loop over the answers compute for
every list; ranks (`NextPlace`, `Places`) replace the induction on sorted lists.

**`PipelineStream_proofs`**: `TellsOneEnd`, `TheEndIsTrue`, `EventsAreInOrder`.
Everything is stated of `Emitted`, the events taken and queued together, so
that the generator and the client drop out. `Ending`: there is no terminal event
and no sentinel before the task ends, and exactly those two last and true
then. `OrderInv`: the phases emitted so far do not exceed the one the run has
reached (`Level`), and the announcements of analyses are those of `asked` and
`answered`.

**`InvestmentWorkflow_proofs`**, from `WorkflowAssumption`. `VerdictOfDirection`:
direction and confidence are two different weighted sums of the same scores, and
no signals whatever (any counts of events, any price change, margin and debt)
get a direction without enough confidence for it, so the threshold 0.6 never
turns a verdict; the lemma `DirectionConvinces` bounds the one sum by the other.
`VerdictFollows` carries it to every run, for which the signals must be well
formed in every state (`TypeInv`, and with it `TypeCorrect`).
`RecursionLimitHolds`: with `2 * MaxIterations + 1 < RecursionLimit` (13 < 25 in
the code) no run reaches LangGraph's limit; the inductive invariant
`Alternating` counts the agents' and the orchestrator's supersteps against the
iterations. `AnswersRestOnData`: `Grounded` says that only what was retrieved is
analysed. `ObedientAnswers`: `Obeys` says that an obedient model retrieves once,
before there is a verdict.

**`InvestmentDecision_proofs`**: `KeptAnswer`, `GetsOneOutcome`. `Telling` lists
what a task may have told at each of its stages, by what the client has of it and
what is still queued behind the lines of the log (`Trails`); `Answering` says when
an answer must be saved. A step of one request leaves the others' part alone
(`Frame`), which reduces the proof to one request.

**`Members_proofs`**. From `SessionsAssumption`: `UniqueAccounts`. The
inductive invariant `RowsInv` needs, beside uniqueness itself, only that rows
are well formed and tokens lead to Kakao users; the lemma `AccountForKeepsRows`
is the argument: the Kakao id is looked up before the e-mail, and a row is
repaired only if its Kakao id is an e-mail. `OneIdentityEach` adds that no
cookie knows a token of the future (`TokensInv`), that a user with an account of
an earlier version never gets a temporary token (`LegacyInv`), and that every
cookie of a browser of one user leads to an account of that user (`JarInv`);
`MineIsOne`: those are one. From `BackofficeAssumption`, `PagesAndFiguresHold`:
whoever was known and has not been seen has at least as many members before him
as the pages read hold, whatever order the database breaks ties in (`WalkInv`);
`FiguresInv` fixes the cohorts of a day, and `RatesRise` is the arithmetic of the
rates.

From `CommunityAssumption`, `CountsAlwaysMatch`: the
invariant adds to the counts of each card that cards not yet shared have
nothing, and that whoever is about to take a like back still finds its row
(`Sound`), because the first of two tells the others (`Settle`). From
`BriefingAssumption`, `ReportsAreTrue`: `SentOnce` says of every step of the job
that its count and the accounts left out of it make up the rows of the run, one
for each account it is done with and none for the others. From `ActivityAssumption`, `ProfileShowsTheNewest`:
a symbol seen but not kept was pushed out by `MaxViewed` later ones (`FullSince`),
which `KeptIsNewest` carries through the trim; and `ProfilesForgetNothing`, an
action property, for which `MergedKeepsAll` says what the batch's merge of old
and new symbols keeps. From `AnalysisLogsAssumption`, `ReadersAreShownTheNewest`:
the rows only need their types as invariant; the argument is in the readers.
`OrderedRows`: any order of the database is a permutation, from the newest down;
`WhereFinds` and `AddUnseenKeeps`: a query keeps that order, and of each symbol
the first row stays, which is the newest; `HomeIsComplete`: two lists in two
orders give one entry per symbol, and no more than fit.

**`Stores_proofs`**. `StoresAlwaysAgree`: the invariant `Progress` says that a job
past its look-up has an article in hand whose headline is in the table or in its
own transaction, and past its first commit in the table: the order of the two
commits carries the property. `OneContentForEach` is inductive with the types.
`ReportsAreStored`: inside a batch, what came after its last failure is stored or
waits for the commit (`UpsertInv`); `BatchSettled` is the commit.
`CollectionsAreReadable`: a log once written stays, and a collection that has
passed its comments has them in the table or in its transaction, later than those
its look-up saw (`InvestmentInv`); `LeftOut` is the argument about a limit: what a
query leaves out, it leaves out for as many others. `SeedsGetThrough`, from `StockThemesAssumption`: what a request
has saved stays saved (`WrittenInv`), and while no worker dies one of the requests
that began is beyond defeat (`ChampionInv`): done, about to look anew at the
table, or aware of every row there is.
`RecommendationsAlwaysTrue`: the only invariant is that comments hold nouns; the
argument is in the functions. `TallyTallies` says what a Counter holds after any
list of keys and amounts, `SynonymsMerged` that counting first and merging
synonyms then counts every noun once (no noun is in two groups), `SortedSorts`
that the insertion sort is a stable sort, `SumIsNatural` that the fold of the
weights is a whole number, `RoundedWell` how far rounding goes, `RoundedOrder` that
a score that is not lower comes from a share that is not smaller, but for what
rounding hides, `ReasonsExplain` that a
code's reason is one the LLM gave for it.

**`Market_proofs`**, from `HeatmapAssumption` and `CollectorsAssumption`; the first
takes from Twelve Data that its answer has each day once (`interval=1day`), which
of data.go.kr is not assumed. `ListsInOrder`: the sorted list of a finite set has
each element once, in order. `HeatmapAlwaysTrue`: the invariant says that both
caches hold under a key what the key's provider answers for its symbol; that the
table has Korean markets for symbols of six digits only, so that each symbol has
one provider (`RightProvider`); that what an entry's closes have aged and what it has
left make up one lifetime in Redis and less than two in the process; and of a request
on its way (`Answering`) that its items, its errors and the symbols left make up
what was asked, none twice. That an item is true is then a chain about one answer:
`ClosesAreDaily` (each readable day once, rising, and none left out),
`ReturnsAreTrue` (from one quoted day to the next), `BucketIsTrue`,
`SeriesAreTrue` (the last `MaxDays` of them), `SummariesCount`.
`CollectedAlwaysTrue`, an action property: the invariant is that DART has figures
of past periods only; `FirstAsked` is the case analysis of the twelve months,
`StatementFound` and `StatementMissing` what an answer, or its lack, says of what
was filed, lost or refused, and
`PairsFit` that of a page that is not ragged neither list has lost anything, so
that pairing by position is right.

These proofs reason about recursive functions and sorts by a least
counterexample: the first place where a function's value is not as claimed
(`LeastNatural`, `Recursion`), which needs no induction theorem of the library.

**Only model-checked.** Liveness (`SessionsEnd`, `AnalysisEnds`, `BothEnd`,
`WorkflowEnds`, `TaskOutlivesClient`), as fairness and `ENABLED` are out of the
prover's reach. Every other property of a passing run
is stated by a theorem. The runs that expect a violation have none.

## What is not modelled

- Contents of articles, prompts and reports, wording of events, layout.
- *Stock themes*: the plain list of the table. *Market analysis*, sentiment, tags
  and keywords: one question to the model over data read before, writing
  nothing. The two routes of `market_video` that count nouns and list comments:
  stateless reads. *Posts*: rows without any relation to others.
- Search adapters are a set of results. The data.go.kr answers are taken to fit
  one page. The adapters for Twitter and for Naver blogs and cafes are never
  constructed.
- The text cleaning of `stock_normalizer`, and the HTTP routes of
  `stock_normalizer` and `stock_analyzer`, which nothing of the pipeline reads.
- The connection pool, wiring, schema creation and migrations, settings, the
  OAuth exchange with Kakao itself, the progress store that nothing writes any
  more, the schedulers' clocks (a job may start at any time instead).
- `migrate-symbols` is modelled over the collectors (`MigrateSymbols`), not
  between two steps of a run in `PipelineRun`.

## What could come next

- `migrate-symbols` as an action of `PipelineRun`, and what remains true of
  `NoForeignArticle` with it; the limit of the connection pool.
- Facts without fairness behind the liveness properties: that in each
  state that is no end some step is possible.
