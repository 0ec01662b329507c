--------------------------- MODULE MCSessionCommands ---------------------------
EXTENDS SessionCommands, TLC

Alike == Permutations(Session) \cup Permutations(Cmd)
=============================================================================
