------------------------- MODULE MCLiquidityEpochs -------------------------
EXTENDS LiquidityEpochs, TLC

Symmetry == Permutations(Users)
=============================================================================
