------------------------------ MODULE MCPortal ------------------------------
(* An instance for TLC of the parts of the portal that share no state, and *)
(* so need no interleaving with each other: each behaviour is about one of *)
(* them, the topic, and the others stand still.                            *)
EXTENDS Integers, Sessions, Community, Activity, Briefing, NewsStore,
        SavedArticles, MarketVideos, YouTubeStore, Backoffice, StockThemes,
        AnalysisLogs, Heatmap, Collectors

CONSTANTS own, shared, k1, k2, e1, e2, member, neighbour, guest,
          s1, s2, s3, l1, l2, p1, p2, v1, v2, c1, c2, nothing

VARIABLE topic

\* A browser of k1 alone, and one that k1 and k2 share.
MCUsersOf == [b \in Browsers |-> IF b = own THEN {k1} ELSE {k1, k2}]

\* Kakao tells an e-mail of k1 alone, the one a legacy account has.
MCKakaoEmail == [k \in KakaoUsers |-> IF k = k1 THEN e1 ELSE NoEmail]

MCVideoOf == [c \in {c1, c2} |-> IF c = c1 THEN v1 ELSE v2]

\* A symbol of six digits listed at KOSDAQ, which counts as KOSPI while the table
\* does not tell; and one that is listed at KONEX with a code that is not of six
\* digits, which the synchronisation passes over.  Both providers answer for both,
\* so that asking the wrong one would show.  The provider of the Korean markets
\* has a day without a price and one whose close is no number, repeats a day, and
\* adds a row of another symbol.
MCMarketOf == [s \in HeatSymbols |-> IF s = "005930" THEN "KOSDAQ" ELSE "KONEX"]
Quote(s, day, close) == [of |-> s, day |-> day, close |-> close]
MCRowsFrom ==
    [p \in Providers |-> [s \in HeatSymbols |->
       IF p = "DATA_GO_KR"
       THEN <<Quote(s, 7, 980), Quote(s, 6, -1), Quote(s, 5, 900), Quote(s, 5, 1004),
              Quote("005935", 8, 1), Quote(s, 4, 1000), Quote(s, 3, 0),
              Quote(s, 2, 1020), Quote(s, 1, 1000)>>
       ELSE <<Quote("", 3, 99), Quote("", 2, 99), Quote("", 1, 100)>>]]

\* One thread asks for two symbols, or two threads for the one that is in the
\* lists of KOSDAQ.
OneThread == heatRequest'[p2] = heatRequest[p2]
OneSymbol ==
    \A t \in Threads : heatRequest'[t].phase # "idle" => heatRequest'[t].asked = <<"005930">>

\* One of the workflows finds the first video with its comment, the other any
\* videos with comments.
FoundVideos ==
    /\ collecting'[p1].phase = "log" => collecting'[p1].comments # {}
    /\ collecting'[p2].phase = "log"
          => collecting'[p2].videos = {v1} /\ collecting'[p2].comments = {c1}

MCStatements ==
    [x \in CollectorSymbols |-> IF x = "005930" THEN {"CFS", "OFS"} ELSE {"OFS"}]
MCIssuer == [r \in Receipts |-> "005930"]
MCLinkOf == [a \in Articles |-> IF a = s1 THEN l1 ELSE l2]
MCLegacyNames == {<<"samsung", "005930">>}

\* The reports of a company that files both kinds of statements, over the turn
\* of the codes of any month; and the documents of two companies, one of them
\* with the older statements only, in one October.
ReportsOnly ==
    /\ UNCHANGED <<newsRows, disclosures>>
    /\ task'.symbol \in {"", "005930"}
    /\ met' # "ragged"
    /\ \A p \in filed' \ filed : p.symbol = "005930"
October == 21
OneMonth == month' = month /\ met' # "refused"

\* Three requests seed the stocks; and stocks are recommended from four nouns,
\* of which "ev" counts for "car", or from two counts, also negative ones, of which
\* a share is lost in rounding or, 1 of 20000, lies in the middle.
MCSeedData == <<[code |-> "hynix", themes |-> {"memory"}],
                [code |-> "hyundai", themes |-> {"car", "ev"}],
                [code |-> "tesla", themes |-> {"ev", "memory"}]>>
MCByName == <<"hynix", "hyundai", "tesla">>
MCEarlierThemes == [c \in StockCodes |-> IF c = "tesla" THEN {"memory"} ELSE {"car"}]
MCSynonymGroups == [k \in {"car"} |-> {"car", "ev"}]
MCPosted == UNION {[words -> {-1, 1, 19999}] :
                     words \in {{}, {"car"}, {"car", "ev"}, {"ev", "memory"}}}
Items == [code : StockCodes \cup {"nvidia"}, text : {nothing, v1, v2}]
MCReplies == {nothing, <<>>} \cup {<<i>> : i \in Items} \cup (Items \X Items)

Topics == {"sessions", "community", "activity", "briefing", "news", "saved",
           "seeding", "recommendations",
           "heatmap", "heatmap of one symbol", "market videos",
           "videos", "investment videos", "reports", "collected news",
           "analysis logs", "members", "retention"}

PortalInit ==
    /\ topic \in Topics
    /\ SessionsInit /\ (topic # "sessions" => accounts = <<>>)
    /\ CommunityInit /\ ActivityInit /\ BriefingInit
    /\ NewsStoreInit /\ SavedArticlesInit /\ MarketVideosInit /\ YouTubeStoreInit
    /\ StockThemesInit
    /\ topic \notin {"seeding", "recommendations"} => stored = [c \in StockCodes |-> nothing]
    /\ HeatmapInit
    /\ CollectorsInit /\ (topic # "reports" => month = October)
    /\ topic # "collected news" => \A l \in ArticleLinks : newsRows[l] = NoRow
    /\ AnalysisLogsInit /\ (topic # "analysis logs" => analysisLogs = <<>>)
    /\ BackofficeInit

Others(t) ==
    /\ topic = t
    /\ UNCHANGED topic
    /\ IF t = "sessions" THEN TRUE ELSE UNCHANGED sessionVars
    /\ IF t = "community" THEN TRUE ELSE UNCHANGED communityVars
    /\ IF t = "activity" THEN TRUE ELSE UNCHANGED activityVars
    /\ IF t = "briefing" THEN TRUE ELSE UNCHANGED briefingVars
    /\ IF t = "news" THEN TRUE ELSE UNCHANGED newsVars
    /\ IF t \in {"seeding", "recommendations"} THEN TRUE ELSE UNCHANGED themeVars
    /\ IF t = "saved" THEN TRUE ELSE UNCHANGED savedVars
    /\ IF t \in {"heatmap", "heatmap of one symbol"} THEN TRUE
       ELSE UNCHANGED heatmapVars
    /\ IF t = "market videos" THEN TRUE ELSE UNCHANGED marketVideoVars
    /\ IF t \in {"videos", "investment videos"} THEN TRUE
       ELSE UNCHANGED youtubeVars
    /\ IF t \in {"reports", "collected news"} THEN TRUE
       ELSE UNCHANGED collectorVars
    /\ IF t = "analysis logs" THEN TRUE ELSE UNCHANGED logVars
    /\ IF t \in {"members", "retention"} THEN TRUE ELSE UNCHANGED backofficeVars

PortalNext ==
    \/ Others("sessions") /\ SessionsNext
    \/ Others("community") /\ CommunityNext
    \/ Others("activity") /\ ActivityNext
    \/ Others("briefing") /\ BriefingNext
    \/ Others("news") /\ NewsStoreNext
    \/ Others("seeding") /\ SeedNext
    \/ Others("recommendations") /\ CommentNext
    \/ Others("saved") /\ SavedArticlesNext
    \/ Others("heatmap") /\ HeatmapNext /\ OneThread
    \/ Others("heatmap of one symbol") /\ HeatmapNext /\ OneSymbol
    \/ Others("market videos") /\ MarketVideosNext
    \/ Others("videos") /\ MarketNext
    \/ Others("investment videos") /\ InvestmentNext /\ FoundVideos
    \/ Others("reports") /\ CollectorsNext /\ ReportsOnly
    \/ Others("collected news") /\ CollectorsNext /\ OneMonth
    \/ Others("analysis logs") /\ AnalysisLogsNext
    \/ Others("members") /\ MembersNext
    \/ Others("retention") /\ DashboardNext

PortalSpec ==
    PortalInit /\ [][PortalNext]_<<topic, sessionVars, communityVars, activityVars,
                                   briefingVars, newsVars, themeVars,
                                   savedVars, heatmapVars,
                                   marketVideoVars, youtubeVars, collectorVars,
                                   logVars, backofficeVars>>
=============================================================================
