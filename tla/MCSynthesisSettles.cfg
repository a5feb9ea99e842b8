CONSTANTS
  Jobs = {j1}
  Gens = {g1}
  Owners = {o1}
  Revisions = {r1}
  Units = {u1}
  MaxTime = 0
  CleanupBatch = 1
  NoGen = NoGen
  NoRev = NoRev
  NoOwner = NoOwner
  NoReceipt = NoReceipt
  Callers = {c1}
  Keys = {k1, k2, k3}
  Eligible = {k1, k2}
  MaxAttempts = 2
  MaySleep = FALSE
  MayOvertake = FALSE
  MaxCrashes = 0
  NoKey = NoKey
SPECIFICATION FairSynthesisSpec
INVARIANTS CatalogBacked
PROPERTIES CommandsReturn CancelDuringCall
