--------------------------- MODULE MCFileLock ---------------------------
(* FileLock for TLC: two or three Emacs processes, and an inode more than  *)
(* those, so that a new lock file always finds one nobody has open.        *)
EXTENDS FileLock, TLC

Symmetry == Permutations(Editor)
ThreeInodes == {1, 2, 3}
FourInodes == {1, 2, 3, 4}
Yielding == {"yield"}
StealOrYield == {"steal", "yield"}
AnyAnswer == {"steal", "proceed", "yield"}
=============================================================================
