CONSTANTS
  Jobs = {j1}
  Gens = {g1}
  Owners = {o1}
  Revisions = {r1}
  Units = {u1}
  MaxTime = 0
  CleanupBatch = 1
  NoGen = NoGen
  NoRev = NoRev
  NoOwner = NoOwner
  NoReceipt = NoReceipt
  Callers = {c1, c2}
  Keys = {k1}
  Eligible = {k1}
  MaxAttempts = 2
  MaySleep = TRUE
  MayOvertake = TRUE
  MaxCrashes = 1
  NoKey = NoKey
SPECIFICATION SynthesisSpec
INVARIANTS SynthesisTypeOK OneCallPerAttempt ReadyHasSuccess CatalogBacked
PROPERTIES SettledStays CancelWins
SYMMETRY Perms
