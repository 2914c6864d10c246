--------------------------- MODULE MCSalesPlaybook ---------------------------
EXTENDS SalesPlaybook, TLC

Symmetry == Permutations(Editors)
=============================================================================
