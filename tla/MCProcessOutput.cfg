SPECIFICATION SpecWithOutput
CONSTANTS
  Char = {a, b}
  Nul = Nul
  Junk = Nul
  Marker = {pm}
  ProcMark = pm
  Asks = FALSE
  MaxPos = 4
  InitGap = 1
  GapExtra = 1
  Chunk = 2
  MaxInsert = 2
INVARIANTS PositionsOrdered MarkersOutsideGap TextIsCharacters CallStillValid
PROPERTIES PointKeepsItsPlace OutputEndsAtMark
SYMMETRY Symmetry
