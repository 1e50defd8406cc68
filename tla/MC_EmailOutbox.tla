--------------------------- MODULE MC_EmailOutbox ---------------------------
EXTENDS EmailOutbox, TLC

CONSTANTS w1, w2

TwoWorkers == {w1, w2}
Symmetric == Permutations(TwoWorkers)

=============================================================================
