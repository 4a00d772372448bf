CONSTANTS
  p1 = p1
  p2 = p2
  t1 = t1
  t2 = t2
  o1 = o1
  o2 = o2
  c1 = c1
  Paths <- MCPaths
  MaxHintPaths = 1
  Tasks <- MCTask
  Ops <- MCOp
  Callers <- MCCallers
  Closable = TRUE
  MaxHints = 1
  MaxVersion = 1
SPECIFICATION FairSpec
PROPERTIES
  CallerSettles
  HintSettles
  FullRunFollows
CHECK_DEADLOCK FALSE
