CONSTANTS
  Jobs = {j1}
  Gens = {g1}
  Owners = {o1, o2}
  Revisions = {r1}
  Units = {u1}
  MaxTime = 2
  CleanupBatch = 1
  NoGen = NoGen
  NoRev = NoRev
  NoOwner = NoOwner
  NoReceipt = NoReceipt
SPECIFICATION Spec
SYMMETRY Perms
INVARIANTS TypeOK LeaseConsistent CancellationRecorded PublishedIntact
PROPERTIES TerminalJobsFinal HeartbeatMonotone ImplementsCatalog
CHECK_DEADLOCK FALSE
