CONSTANTS
  Key = {a, b}
  Quit = quit
  Junk = junk
  Size = 3
  MaxTyped = 5
  Torn = FALSE
SPECIFICATION FairSpec
INVARIANTS NoSleepOverInput NeverAborts
PROPERTIES ImplementsQueue InputIsRead
