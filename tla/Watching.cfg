SPECIFICATION Spec
CONSTANTS
  r1 = r1
  r2 = r2
  nobody = nobody
  Replica = {r1, r2}
  NoReplica = nobody
  File = {"scan"}
  StabilityPolls = 2
  GracePolls = 1
  Duration = 1
  FullSize = 3
  MaxDrops = 2
  MaxFaults = 1
INVARIANTS
  LeaderHoldsLease
  OneClaimer
PROPERTIES
  HalfWrittenOnlyAfterPause
  CompanionWithItsDocument
  EventuallyTaken
