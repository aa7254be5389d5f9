------------------------- MODULE MCLimboResolution -------------------------
EXTENDS LimboResolution, TLC
Symmetry == Permutations(View) \cup Permutations(Key)
=============================================================================
