SPECIFICATION ActivitySpec
CONSTANTS
  member = member
  s1 = s1
  s2 = s2
  s3 = s3
  Viewers = {member}
  Symbols = {s1, s2, s3}
  Styles = {"long"}
  MaxViewed = 2
  MaxClicks = 2
  MaxTime = 4
PROPERTY EveryDayCounts
CHECK_DEADLOCK FALSE
