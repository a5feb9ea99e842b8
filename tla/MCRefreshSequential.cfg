CONSTANTS
  Jobs = {j1, j2, j3}
  Gens = {g1, g2, g3}
  Owners = {o1}
  u1 = u1
  u2 = u2
  u3 = u3
  u4 = u4
  r1 = r1
  r2 = r2
  r3 = r3
  r4 = r4
  Revisions = {r1, r2, r3, r4}
  Units = {u1, u2, u3, u4}
  MaxTime = 0
  CleanupBatch = 1
  NoGen = NoGen
  NoRev = NoRev
  NoOwner = NoOwner
  NoReceipt = NoReceipt
  Workers = {w1}
  NoWorker = NoWorker
  NoJobId = NoJobId
  Blob <- BlobEdited
  References <- Calls
  Copies <- Copybook
  ParseBatch = 2
  MaxFaults = 0
  MaxCancels = 1
  MayReload = FALSE
SPECIFICATION RefreshSpec
SYMMETRY Perms
INVARIANTS PlanCoversRefreshed
