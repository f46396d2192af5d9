SPECIFICATION SpecWithEveryCopy
CONSTANTS
  Char = {a, b}
  Nul = Nul
  Junk = Nul
  Marker = {}
  MaxPos = 5
  InitGap = 2
  GapExtra = 1
  Chunk = 2
  MaxInsert = 2
PROPERTY RegionIsCopied
SYMMETRY Symmetry
