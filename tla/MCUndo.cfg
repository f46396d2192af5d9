CONSTANTS
  Char <- Letters
  Upcase <- CapitalOf
  MinSize = 20
  MaxSize = 60
  SameSecond = FALSE
  BetweenUndos = FALSE
  MaxText = 2
  MaxUndo = 5
  MaxTime = 2
SPECIFICATION Spec
CHECK_DEADLOCK FALSE
INVARIANTS RecordsLeadBack PendingLeadsBack UnmodifiedIsSaved
PROPERTY UnsavedUndoReachesBoundary
