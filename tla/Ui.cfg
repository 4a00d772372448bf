SPECIFICATION UiSpec
CONSTANTS
  None = None
  Order <- MCOrder
  Parent <- MCParent
  Above <- MCAbove
  Dirs = {"r", "d"}
  Name <- MCName
  Chars = {"a"}
  Paths = {"f"}
  Saved <- MCSaved
  Budget = 1
  Limit = 3
  Requests = {1, 2}
  MaxActs = 3
  MaxChanges = 1
  DragIds = {"r", "d", "f", "g"}
  DragDirs = {"r", "d"}
  DragParent <- MCDragParent
  DragName <- MCDragName
  DragIgnored = {"d", "g"}
  DragPaths = {"p"}
  Selections <- MCSelections
  Places <- MCPlaces
  Drops = {1, 2}
  collision = "error"
  Answers = {"overwrite", "skip"}
  DragElsewhere = 0
  RowIds = {1, 2}
  RowNames = {"a"}
  Provisional = "new"
  RenameCalls = {1, 2}
  MaxSessions = 3
  MaxAttempts = 0
  RenameElsewhere = 2
  Texts = {"a", "b"}
  SearchOrder <- MCSearchOrder
  SearchFound <- MCSearchFound
  Crossing = {"x"}
  SearchLimit = 2
  SearchRows <- MCSearchRows
  SearchCalls = {1, 2}
  SearchActs = 4
  SearchChanges = 1
  BadgeIds = {"a", "b"}
  BadgeRoots = {"b"}
  Windows = {1, 2}
  BadgeSlot <- MCBadgeSlot
  BadgeSetups <- MCBadgeSetups
  BadgeMarks <- MCBadgeMarks
  Early = {1}
  BadgeJobs = {1, 2}
  MaxVersion = 1
  MaxRuns = 1
  MaxTree = 1
  MaxWindows = 2
INVARIANTS
  NavigationIsSound
  SearchIsSound
  DecorationsAgree
PROPERTY EditsAreSound
CHECK_DEADLOCK FALSE
