CONSTANTS
  Systems = {"iso_2022_jp", "oldjis", "ctext", "euc_japan", "iso_2022_kr", "ss2_8", "ss2_7", "lock", "sjis", "autoconv"}
  MaxChars = 3
  MaxPiece = 2
  CutLineEnd = FALSE
  LastCR = FALSE
SPECIFICATION Spec
INVARIANTS ReadsBack LinesStandAlone
