\* One slot, two issues: crashes, shutdowns, failing calls, and a restart.
SPECIFICATION Spec
CONSTANTS
  i1 = i1  i2 = i2  i3 = i3  r1 = r1  r2 = r2  r3 = r3
  Null = Null
  May <- Machines
  Mode = "polling"
  MaxConcurrent = 1
  MaxEpochs = 2
  MaxStream = 1
  Issues = {i1, i2}
  Runs = {r1, r2}
SYMMETRY Symmetry
INVARIANTS
  TypeOK
  SlotAccounting
  WithinCapacity
  QueueIsWaiting
  OneRunPerIssue
PROPERTIES
  UnlocksOnlyFinished
