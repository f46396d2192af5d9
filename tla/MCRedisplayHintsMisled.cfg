SPECIFICATION SpecWithHints
CONSTANTS
  Char = {a, b}
  Nul = Nul
  Junk = Nul
  Marker = {}
  MaxPos = 3
  InitGap = 1
  GapExtra = 1
  Chunk = 1
  MaxInsert = 2
INVARIANTS UnchangedWasUntouched
SYMMETRY Symmetry
