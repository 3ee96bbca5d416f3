\* One slot, three issues, nothing but approvals.
SPECIFICATION FairSpec
CONSTANTS
  i1 = i1  i2 = i2  i3 = i3  r1 = r1  r2 = r2  r3 = r3
  Null = Null
  May <- Approvals
  Mode = "polling"
  MaxConcurrent = 1
  MaxEpochs = 1
  MaxStream = 1
  Issues = {i1, i2, i3}
  Runs = {r1, r2}
PROPERTIES
  QueueIsServed
  ApprovalIsServed
