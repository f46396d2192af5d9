SPECIFICATION SpecWithOutput
CONSTANTS
  Char = {a, b}
  Nul = Nul
  Junk = Nul
  Marker = {pm}
  ProcMark = pm
  Asks = TRUE
  MaxPos = 4
  InitGap = 1
  GapExtra = 1
  Chunk = 2
  MaxInsert = 1
INVARIANT GapInOrNextToDeletion
SYMMETRY Symmetry
