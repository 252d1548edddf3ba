SPECIFICATION Spec
CONSTANTS
  j1 = j1
  j2 = j2
  j3 = j3
  d1 = d1
  d2 = d2
  none = none
  Job = {j1, j2, j3}
  Drain = {d1, d2}
  NoEvent = none
  NativeMin = 4
  BlankMaxInk = 1
  RasterArea = 2
  CoarseArea = 4
  Dot = "."
  MaxPages = 2
  QuarantineOnDegraded = TRUE
  MaxMessage = 2
  MaxFaults = 1
  Menu <- MCMenu
  Rules <- MCRules
  Alnum <- MCAlnum
SYMMETRY Symmetry
CHECK_DEADLOCK FALSE
INVARIANTS
  ArchivedWasRead
  RevealIsTheMatch
  RowsTogether
  
  SpoolInOrder
