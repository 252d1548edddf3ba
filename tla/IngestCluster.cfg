SPECIFICATION Spec
CONSTANTS
  d1 = d1  d2 = d2  f1 = f1  f2 = f2  f3 = f3
  Doc = {d1}
  File = {f1, f2}
  DocOf <- TwinDocOf
  Verdicts <- FilingVerdicts
  Watcher = {watcher}
  Sweeper = {s1, s2}
  Operator = {op}
  Receipt = {r1, r2, r3, r4}
  ClaimOnly = TRUE
  SweepAged = FALSE
  CriticalSink = TRUE
  MaxCrash = 1
  MaxCall = 2
  Nobody = Nobody  NoReceipt = NoReceipt  NoDoc = NoDoc  NoFile = NoFile
INVARIANTS ManifestHeld DeliverOnce NeverLost
PROPERTY VerdictKept ReceiptFinal
