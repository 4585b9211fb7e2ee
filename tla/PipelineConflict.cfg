SPECIFICATION Spec
CONSTANTS
  r1 = r1
  r2 = r2
  c1 = c1
  a1 = a1
  x1 = x1
  x2 = x2
  d1 = d1
  d2 = d2
  d3 = d3
  Anonymous = Anonymous
  NoSymbol = NoSymbol
  NoDoc = NoDoc
  Sessions <- MCTwoRuns
  Task <- MCTask
  Accounts <- MCAccounts
  Account <- MCAccount
  Selected <- MCSelected
  Symbols <- MCSymbols
  Watchlists <- MCWatchlists
  Docs <- MCDocs
  Offered <- MCOffered
  Unstorable = {}
  DocKind <- MCDocKind
  Recency <- MCRecency
  RegistrySurvives = FALSE
INVARIANTS
  FailedInsertOnlySkips
