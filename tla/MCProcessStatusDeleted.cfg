CONSTANTS
  Proc = {p, q}
  Net = {}
  Filtered = {}
  Watched = {p, q}
  MaxOutput = 0
  MaxOps = 2
  MaxDepth = 7
  ForkFails = FALSE
  delete_exited_processes = TRUE
SPECIFICATION Spec
INVARIANT DeletedIsForgotten
