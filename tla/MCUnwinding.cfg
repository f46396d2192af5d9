CONSTANTS
  MaxStack = 12
  MaxBindings = 5
  MaxMinibuf = 2
  MaxForms = 2
  MaxLost = 1
SPECIFICATION Spec
INVARIANTS RegistersFitStack ScopeFitsStack PromptIsAlive InputIsKept
PROPERTY QuitIsKept
