--------------------------- MODULE MCKeyboardInput ---------------------------
EXTENDS KeyboardInput
=============================================================================
