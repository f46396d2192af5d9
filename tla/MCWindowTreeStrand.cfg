SPECIFICATION Spec
CONSTANTS
  MaxWindows = 6
  Screens <- OneScreen
  MinHeight = 2
  MinWidth = 2
  MaxDelta = 3
  MaxSaved = 0
  OffScreen = FALSE
INVARIANT SelectedIsAlwaysShown
