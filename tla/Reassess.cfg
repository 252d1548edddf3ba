SPECIFICATION Spec
CONSTANTS
  w1 = w1
  w2 = w2
  nobody = nobody
  Worker = {w1, w2}
  NoWorker = nobody
  MaxSeq = 3
  MaxPurges = 1
  MaxFaults = 1
SYMMETRY Symmetric
INVARIANTS
  AuditedOnce
  AssessmentAudited
  PdfWhereRowSays
  PurgeFinal
PROPERTIES
  HistoryKept
  NoUnattendedRelease
