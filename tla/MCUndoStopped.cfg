CONSTANTS
  Char <- Letters
  Upcase <- CapitalOf
  MinSize = 20
  MaxSize = 60
  SameSecond = FALSE
  BetweenUndos = FALSE
  MaxText = 1
  MaxUndo = 7
  MaxTime = 2
SPECIFICATION Spec
CHECK_DEADLOCK FALSE
PROPERTY UndoReachesBoundary
