SPECIFICATION SpecWithCopy
CONSTANTS
  Char = {a, b}
  Nul = Nul
  Junk = Nul
  Marker = {}
  MaxPos = 5
  InitGap = 2
  GapExtra = 1
  Chunk = 1
  MaxInsert = 1
INVARIANTS UnchangedUnlessMisled
PROPERTIES ImplementsText OneSideIsCopied
SYMMETRY Symmetry
CONSTRAINT TwoCharacters
