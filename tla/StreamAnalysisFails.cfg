SPECIFICATION Spec
CONSTANTS
  MaxItems = 2
INVARIANTS
  FailedAnalysisIsError
