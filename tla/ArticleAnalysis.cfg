SPECIFICATION FairSpec
CONSTANTS
  b1 = b1
  b2 = b2
  a1 = a1
  a2 = a2
  a3 = a3
  a4 = a4
  a5 = a5
  NoArticle = NoArticle
  Runs = {r1}
  Ports = {TRUE, FALSE}
  Batches <- MCBatches
  Raw <- MCRaw
  Inputs <- MCInputs
  Published <- MCPublished
  Modes <- MCModes
  Yesterday = 2
  Limit = 2
  Confidences = {1, 2}
INVARIANTS
  CallsWithinLimit
  BestIsFirstMostConfident
  ResultIsNewest
  NoResultMeansFailure
PROPERTIES
  AnalysisEnds
