CONSTANTS
  Buffer = {A, B}
  Value = {u, v, w}
  Absent = absent
  Nobody = nobody
  MaxBound = 2
SPECIFICATION Spec
PROPERTIES ImplementsLocals CSeesSwitch LetRestores
SYMMETRY Symmetry
