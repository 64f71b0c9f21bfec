------------------------------ MODULE MCEosNet ------------------------------
EXTENDS EosNet, TLC

BufferPermutations == Permutations(Buffer)
=============================================================================
