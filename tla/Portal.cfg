SPECIFICATION PortalSpec
CONSTANTS
  own = own
  shared = shared
  k1 = k1
  k2 = k2
  e1 = e1
  e2 = e2
  NoEmail = NoEmail
  Browsers = {own, shared}
  KakaoUsers = {k1, k2}
  Emails = {e1, e2}
  UsersOf <- MCUsersOf
  KakaoEmail <- MCKakaoEmail
  Legacy = {e1}
  Operators = {"admin"}
  MaxTokens = 3
  member = member
  neighbour = neighbour
  guest = guest
  s1 = s1
  s2 = s2
  s3 = s3
  l1 = l1
  l2 = l2
  p1 = p1
  p2 = p2
  v1 = v1
  v2 = v2
  c1 = c1
  c2 = c2
  nothing = nothing
  StockCodes = {"hyundai", "hynix", "tesla"}
  Nouns = {"car", "ev", "memory"}
  SeedData <- MCSeedData
  ByName <- MCByName
  EarlierThemes <- MCEarlierThemes
  SynonymGroups <- MCSynonymGroups
  Seeds = {p1, p2, v1}
  CommentBound = 4
  Scale = 10000
  Posted <- MCPosted
  Replies <- MCReplies
  NoThemes = nothing
  Blank = nothing
  LLMFailed = nothing
  Owners = {member}
  Anonymous = guest
  LogSymbols = {s1, s2}
  Top = {s1}
  RecentSize = 2
  HomeSize = 3
  ListLimit = 2
  LogRowBound = 3
  LogSeconds = 2
  DayLength = 1
  PageSize = 1
  RetentionDays = 2
  MaxMembers = 3
  MaxEvents = 1
  MaxSeconds = 2
  Processes = {p1, p2}
  Accounts = {member}
  Guests = {guest}
  MaxCards = 1
  MaxComments = 2
  MaxBoards = 1
  MaxUnmatched = 1
  Viewers = {member}
  Symbols = {s1, s2, s3}
  Styles = {"long"}
  MaxViewed = 2
  MaxClicks = 2
  MaxTime = 4
  Watchers = {member, neighbour}
  WatchSymbols = {s1}
  MaxNotes = 3
  MaxRuns = 2
  Jobs = {p1, p2}
  NewsLinks = {l1, l2}
  MaxNews = 2
  Readers = {member}
  Links = {l1, l2}
  MaxFound = 2
  VideoWorkers = {p1, p2}
  LastVideo = 2
  TopN = 1
  Workers = {p1, p2}
  Videos = {v1, v2}
  Comments = {c1, c2}
  VideoOf <- MCVideoOf
  MaxLogs = 1
  CommentLimit = 1
  LogBound = 2
  Threads = {p1, p2}
  HeatSymbols = {"005930", "0001A0"}
  SixDigits = {"005930"}
  MarketOf <- MCMarketOf
  NoMarket = ""
  RowsFrom <- MCRowsFrom
  MaxDays = 3
  Life = 2
  CollectorSymbols = {"005930", "0001A0", "AAPL"}
  Registered = {"005930", "0001A0"}
  Digits = {"005930"}
  Latin = {"AAPL"}
  English = {"005930"}
  LegacyNames <- MCLegacyNames
  Statements <- MCStatements
  Receipts = {c1}
  Issuer <- MCIssuer
  Articles = {s1, s2}
  NoArticle = nothing
  LinkOf <- MCLinkOf
  Starts = {13, 15, 17, 19, 21, 23}
  PageEntries = 2
  MaxMonths = 3
INVARIANTS
  OneAccountEach
  OneIdentity
  CountsMatchRows
  NewestAreKept
  SentIsTrue
  StoresAgree
  SeedsSucceed
  RecommendationsAreTrue
  OneContentEach
  HeatmapIsTrue
  ReportedIsStored
  CollectedIsReadable
  ReadersSeeTheNewest
  AdminIsNotMisled
PROPERTIES
  NothingForgotten
  CollectedIsTrue
CHECK_DEADLOCK FALSE
