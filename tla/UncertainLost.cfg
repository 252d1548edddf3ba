SPECIFICATION Spec
CONSTANTS
  d1 = d1  d2 = d2  f1 = f1  f2 = f2  f3 = f3
  Doc = {d1}
  File = {f1, f2}
  DocOf <- TwinDocOf
  Verdicts <- SteadyVerdicts
  Watcher = {watcher}
  Sweeper = {sweeper}
  Operator = {}
  Receipt = {r1, r2, r3, r4}
  ClaimOnly = TRUE
  SweepAged = FALSE
  CriticalSink = TRUE
  MaxCrash = 0
  MaxCall = 0
  Nobody = Nobody  NoReceipt = NoReceipt  NoDoc = NoDoc  NoFile = NoFile
PROPERTY UncertainKept
