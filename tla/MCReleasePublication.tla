------------------------- MODULE MCReleasePublication -------------------------
EXTENDS ReleasePublication, TLC
CONSTANTS i1, i2
Symmetry == Permutations(Intents)
==============================================================================
