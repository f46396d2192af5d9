CONSTANTS
  Editor = {e1, e2, e3}
  Old = old
  Empty = empty
  Inode <- FourInodes
  Patience = 1
  Answers <- Yielding
  Overlap = FALSE
  WritesFail = FALSE
  SameSecond = TRUE
SPECIFICATION Spec
INVARIANT ModifiedIsLocked
PROPERTIES LockedOrTold NoBlindOverwrite
SYMMETRY Symmetry
