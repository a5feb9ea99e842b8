-------------------------- MODULE MCArchaeologyJobs --------------------------
\* ArchaeologyJobs on a small instance.
EXTENDS ArchaeologyJobs, TLC

Perms == Permutations(Jobs) \cup Permutations(Gens) \cup Permutations(Owners)
            \cup Permutations(Revisions)
=============================================================================
