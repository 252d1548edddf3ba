SPECIFICATION Spec
CONSTANTS
  w1 = w1
  w2 = w2
  nobody = nobody
  Worker = {w1, w2}
  NoWorker = nobody
  MaxSeq = 2
  MaxPurges = 1
  MaxFaults = 0
PROPERTY ErasureStands
