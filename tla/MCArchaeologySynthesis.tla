------------------------ MODULE MCArchaeologySynthesis ------------------------
\* ArchaeologySynthesis on a small instance.
EXTENDS ArchaeologySynthesis, TLC

Perms == Permutations(Callers)
=============================================================================
