-------------------------- MODULE MCVerifySingleton --------------------------
EXTENDS VerifySingleton, TLC

ProcSymmetry == Permutations(Procs)
=============================================================================
