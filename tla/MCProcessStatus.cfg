CONSTANTS
  Proc = {p, q}
  Net = {q}
  Filtered = {p, q}
  Watched = {p}
  MaxOutput = 1
  MaxOps = 1
  MaxDepth = 7
  ForkFails = TRUE
  delete_exited_processes = TRUE
SPECIFICATION FairSpec
INVARIANTS MaskIsOpen StoredIsMarked
PROPERTIES OutputReadBeforeClosing ChangesAreTold
