------------------------------ MODULE MC_Mempool ------------------------------
EXTENDS Mempool, TLC

HashSymmetry == Permutations(Hashes)
=============================================================================
