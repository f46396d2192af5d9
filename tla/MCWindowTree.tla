---------------------------- MODULE MCWindowTree ----------------------------
EXTENDS WindowTree
\* One size of the screen, and two between which it changes.
OneScreen  == {[v |-> 7, h |-> 4]}
Tall == {[v |-> 12, h |-> 2]}
TwoScreens == {[v |-> 5, h |-> 3], [v |-> 4, h |-> 2]}
=============================================================================
