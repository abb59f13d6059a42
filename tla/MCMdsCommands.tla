--------------------------- MODULE MCMdsCommands ---------------------------
EXTENDS MdsCommands, TLC

Symmetry == Permutations(Proc)
=============================================================================
