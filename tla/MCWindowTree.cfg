SPECIFICATION Spec
CONSTANTS
  MaxWindows = 6
  Screens <- TwoScreens
  MinHeight = 2
  MinWidth = 1
  MaxDelta = 2
  MaxSaved = 1
  OffScreen = FALSE
INVARIANTS TreeTiles SelectedIsShown
PROPERTY RestoresWhatWasSaved
