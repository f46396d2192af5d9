CONSTANTS
  Char <- Letters
  Upcase <- CapitalOf
  MinSize = 20
  MaxSize = 60
  SameSecond = FALSE
  BetweenUndos = TRUE
  MaxText = 2
  MaxUndo = 6
  MaxTime = 1
SPECIFICATION Spec
CHECK_DEADLOCK FALSE
INVARIANT PendingLeadsBack
