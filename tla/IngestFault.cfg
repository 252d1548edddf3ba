SPECIFICATION FairSpec
CONSTANTS
  d1 = d1  d2 = d2  f1 = f1  f2 = f2  f3 = f3
  Doc = {d1, d2}
  File = {f1, f2, f3}
  DocOf <- MixedDocOf
  Verdicts <- MixedVerdicts
  Watcher = {watcher}
  Sweeper = {sweeper}
  Operator = {}
  Receipt = {r1, r2, r3, r4}
  ClaimOnly = FALSE
  SweepAged = TRUE
  CriticalSink = FALSE
  MaxCrash = 1
  MaxCall = 0
  Nobody = Nobody  NoReceipt = NoReceipt  NoDoc = NoDoc  NoFile = NoFile
INVARIANTS CommitComplete
PROPERTY EventuallySettled EventuallyClaimed
