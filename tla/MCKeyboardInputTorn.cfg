CONSTANTS
  Key = {a, b}
  Quit = quit
  Junk = junk
  Size = 3
  MaxTyped = 5
  Torn = TRUE
SPECIFICATION Spec
PROPERTY ImplementsQueue
