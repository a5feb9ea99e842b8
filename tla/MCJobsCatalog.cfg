CONSTANTS
  Jobs = {j1, j2}
  Gens = {g1, g2}
  Owners = {o1}
  Revisions = {r1, r2}
  Units = {u1}
  MaxTime = 0
  CleanupBatch = 1
  NoGen = NoGen
  NoRev = NoRev
  NoOwner = NoOwner
  NoReceipt = NoReceipt
SPECIFICATION Spec
SYMMETRY Perms
INVARIANTS ReadyPointerConsistent LeaseConsistent PublishedIntact
PROPERTIES ImplementsCatalog
CHECK_DEADLOCK FALSE
