SPECIFICATION Spec
CONSTANTS
  d1 = d1  d2 = d2  f1 = f1  f2 = f2  f3 = f3
  Doc = {d1}
  File = {f1, f2}
  DocOf <- TwinDocOf
  Verdicts <- SteadyVerdicts
  Watcher = {watcher}
  Sweeper = {sweeper}
  Operator = {op}
  Receipt = {r1, r2, r3, r4}
  ClaimOnly = FALSE
  SweepAged = TRUE
  CriticalSink = TRUE
  MaxCrash = 2
  MaxCall = 1
  Nobody = Nobody  NoReceipt = NoReceipt  NoDoc = NoDoc  NoFile = NoFile
INVARIANTS TypeOK CompletionAuditedOnce IndexAudited NeverLost
