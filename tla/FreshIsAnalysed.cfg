SPECIFICATION SavedArticlesSpec
CONSTANTS
  member = member
  l1 = l1
  l2 = l2
  Readers = {member}
  Links = {l1, l2}
  MaxFound = 2
INVARIANT FreshIsAnalysed
CHECK_DEADLOCK FALSE
