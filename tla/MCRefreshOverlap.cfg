CONSTANTS
  Jobs = {j1}
  Gens = {g1}
  Owners = {o1}
  u1 = u1
  u2 = u2
  u3 = u3
  u4 = u4
  r1 = r1
  r2 = r2
  r3 = r3
  r4 = r4
  Revisions = {r1}
  Units = {u1, u2}
  MaxTime = 0
  CleanupBatch = 1
  NoGen = NoGen
  NoRev = NoRev
  NoOwner = NoOwner
  NoReceipt = NoReceipt
  Workers = {w1, w2}
  NoWorker = NoWorker
  NoJobId = NoJobId
  Blob <- BlobEdited
  References <- None
  Copies <- None
  ParseBatch = 1
  MaxFaults = 1
  MaxCancels = 2
  MayReload = TRUE
SPECIFICATION FairRefreshSpec
INVARIANTS RefreshTypeOK StageOutput PublishedFresh
CHECK_DEADLOCK FALSE
PROPERTIES SettledViewStays UninterruptedRunSettles UninterruptedCancelSettles
