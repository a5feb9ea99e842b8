------------------------- MODULE MCArchaeologyRefresh -------------------------
\* ArchaeologyRefresh on a small instance.
EXTENDS ArchaeologyRefresh, TLC

CONSTANTS u1, u2, u3, u4, r1, r2, r3, r4

\* r2 changes u3, r3 changes u2 as well; r4 is a commit on r1 that touches no
\* unit.
BlobEdited == [r \in Revisions |-> [u \in Units |->
                  IF <<r, u>> \in {<<r2, u3>>, <<r3, u3>>, <<r3, u2>>}
                  THEN 1 ELSE 0]]

\* u1 copies u2 and u4 refers to u3: a change of u3 alone clones u1.
Copybook == {<<u1, u2>>}
Calls == {<<u4, u3>>}
None == {}

Perms == Permutations(Jobs) \cup Permutations(Gens) \cup Permutations(Workers)
=============================================================================
