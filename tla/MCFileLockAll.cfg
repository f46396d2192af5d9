CONSTANTS
  Editor = {e1, e2}
  Old = old
  Empty = empty
  Inode <- ThreeInodes
  Patience = 1
  Answers <- AnyAnswer
  Overlap = TRUE
  WritesFail = TRUE
  SameSecond = FALSE
SPECIFICATION Spec
INVARIANT NoLockLeftBehind
SYMMETRY Symmetry
