CONSTANTS
  Editor = {e1, e2}
  Old = old
  Empty = empty
  Inode <- ThreeInodes
  Patience = 1
  Answers <- Yielding
  Overlap = TRUE
  WritesFail = FALSE
  SameSecond = FALSE
SPECIFICATION Spec
PROPERTY LockedOrTold
