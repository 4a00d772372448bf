CONSTANTS
  p1 = p1
  p2 = p2
  t1 = t1
  t2 = t2
  o1 = o1
  o2 = o2
  c1 = c1
  Paths <- MCPaths
  MaxHintPaths = 1
  Tasks <- MCTasks
  Ops <- MCOps
  Callers <- MCCallers
  Closable = FALSE
  MaxHints = 1
  MaxVersion = 2
SPECIFICATION Spec
SYMMETRY Symmetry
INVARIANTS
  TypeOK
  OneRun
  HintIsCovered
  PendingIsDriven
  UndisturbedIsFresh
PROPERTIES
  PublishedAfterMutation
  ViewAdvances
CHECK_DEADLOCK FALSE
