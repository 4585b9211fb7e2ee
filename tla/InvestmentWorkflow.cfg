SPECIFICATION Spec
CONSTANTS
  MaxIterations = 4
  MaxRetries = 2
  RecursionLimit = 10
  Replies <- MCReplies
  NewsFound <- MCNewsFound
  YouTubeFound <- MCYouTubeFound
  PricesFound <- MCPricesFound
  FinancialsFound <- MCFinancialsFound
INVARIANTS
  VerdictFollowsDirection
  AnswerRestsOnData
  ObedientRunAnswers
  WithinRecursionLimit
PROPERTIES
  WorkflowEnds
