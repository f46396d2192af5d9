CONSTANTS
  Editor = {e1, e2}
  Old = old
  Empty = empty
  Inode <- ThreeInodes
  Patience = 1
  Answers <- Yielding
  Overlap = FALSE
  WritesFail = TRUE
  SameSecond = FALSE
SPECIFICATION Spec
INVARIANT ModifiedIsLocked
