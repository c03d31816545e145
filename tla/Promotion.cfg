SPECIFICATION PromotionSpec
CONSTANTS
  a = a
  b = b
  absent = absent
  torn = torn
  Models = {a, b}
  Configs <- MCConfigs
  Order <- TwoOrders
  MaxAge = 1
  Runs = 1
  Edits = 2
  MaxTime = 2
INVARIANTS PromotedIsLive StartedIsShown SamePrintIsPromoted
CHECK_DEADLOCK FALSE
