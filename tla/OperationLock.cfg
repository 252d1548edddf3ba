SPECIFICATION FairSpec
CONSTANTS
  t1 = t1  t2 = t2  t3 = t3  p1 = p1  p2 = p2
  Thread <- MCThread
  Process <- MCProcess
  ProcOf <- MCProcOf
  Inode = {i1, i2, i3}
  Entry = {e1, e2}
  MaxDepth = 2
  NoThread = NoThread  NoInode = NoInode  NoEntry = NoEntry
INVARIANTS TypeOK MutualExclusion ProcessExclusion NoRegistryLeak
PROPERTY ImplementsJobMutex NonBlockingReturns
