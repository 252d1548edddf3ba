------------------------- MODULE OperationLockProofs -------------------------
(***************************************************************************)
(* Proofs about OperationLock, for every set of threads, processes, inodes *)
(* and mutex objects: the lock excludes, it implements JobMutex, and the   *)
(* table of each process keeps its threads apart and empties.              *)
(***************************************************************************)
EXTENDS OperationLock, FiniteSetTheorems, TLAPS

\* The strengthening that makes MutualExclusion inductive.  A thread that has
\* got past flock() holds the flock of the file it has open; one that passed
\* the inode check and has not deleted the directory has open the very file
\* the path names, and a fresh inode is one that nobody has open.
OpenInv ==
  \A t \in Thread : pc[t] \in {"flock", "check", "held"} => fd[t] \in Inode
FlockInv ==
  \A t \in Thread : pc[t] \in {"check", "held"} => flock[fd[t]] = t
PathInv ==
  \A t \in Thread : Owns(t) => file = fd[t]
DiscardInv ==
  \A t \in Thread : discard[t] # "no" => pc[t] = "held"
RefInv ==
  \A t \in Thread : /\ pc[t] # "idle" => ref[t] \in Entry
                    /\ pc[t] \in {"mkdir", "open", "flock", "check", "held"}
                       => depth[t] >= 1
\* Processes share no mutex, and an entry in the table has a user: it is
\* deleted with the last one, so the count never drops below zero.
RegistryInv ==
  /\ \A p, q \in Process : registry[p] = registry[q] /\ p # q
                          => registry[p] = NoEntry
  /\ \A p \in Process : registry[p] # NoEntry => users[registry[p]] >= 1

IInv == TypeOK /\ OpenInv /\ FlockInv /\ PathInv /\ DiscardInv /\ RefInv
        /\ RegistryInv

USE ThreadAssumption DEF ThreadAssumption

-----------------------------------------------------------------------------
LEMMA InitIInv == Init => IInv
<1> SUFFICES ASSUME Init PROVE IInv
  OBVIOUS
<1>1. TypeOK
  <2>1. blocking \in [Thread -> BOOLEAN] /\ dir \in BOOLEAN
    BY Zenon DEF Init
  <2>2. depth \in [Thread -> 0..MaxDepth] /\ users \in [Entry -> Nat]
    BY DEF Init
  <2>3. QED
    BY <2>1, <2>2 DEF Init, TypeOK, PcStates
<1>2. OpenInv /\ FlockInv /\ PathInv /\ DiscardInv /\ RefInv
  BY DEF Init, OpenInv, FlockInv, PathInv, DiscardInv, RefInv, Owns
<1>3. RegistryInv
  BY DEF Init, RegistryInv
<1>4. QED
  BY <1>1, <1>2, <1>3 DEF IInv

\* Who gives an entry back counts it down, or drops it as its last user.
LEMMA EntryReleased ==
  ASSUME IInv, NEW p \in Process, ReleaseEntry(p)
  PROVE  /\ registry' \in [Process -> Entry \cup {NoEntry}]
         /\ users' \in [Entry -> Nat]
         /\ RegistryInv'
<1> USE DEF IInv, TypeOK, RegistryInv
<1>1. CASE registry[p] = NoEntry
  BY <1>1 DEF ReleaseEntry
<1>2. CASE registry[p] # NoEntry
  <2>1. registry[p] \in Entry /\ users[registry[p]] >= 1 /\ users[registry[p]] \in Nat
    BY <1>2
  <2>2. users' = [users EXCEPT ![registry[p]] = @ - 1]
    BY <1>2 DEF ReleaseEntry
  <2>3. users' \in [Entry -> Nat]
    BY <2>1, <2>2
  <2>4. CASE users[registry[p]] <= 1
    <3>1. registry' = [registry EXCEPT ![p] = NoEntry]
      BY <1>2, <2>4 DEF ReleaseEntry
    <3>2. QED
      BY <1>2, <2>1, <2>2, <2>3, <3>1
  <2>5. CASE ~ (users[registry[p]] <= 1)
    <3>1. registry' = registry
      BY <1>2, <2>5 DEF ReleaseEntry
    <3>2. QED
      BY <1>2, <2>1, <2>2, <2>3, <2>5, <3>1
  <2>6. QED
    BY <2>4, <2>5
<1>3. QED
  BY <1>1, <1>2

\* The steps on the registry of mutexes leave the lock file alone.
LEMMA LocalStep ==
  ASSUME IInv, NEW t \in Thread,
         Call(t) \/ AcquireMutex(t) \/ MutexContended(t) \/ ReleaseMutex(t)
         \/ Unregister(t) \/ Reenter(t) \/ LeaveNested(t)
  PROVE  IInv'
<1> USE DEF IInv, TypeOK, PcStates, OpenInv, FlockInv, PathInv, DiscardInv,
            RefInv, RegistryInv, Owns, Goto, fileVars
<1>1. ASSUME NEW b \in BOOLEAN, Register(t, b) PROVE IInv'
  <2>1. PICK e \in Entry :
          /\ IF registry[ProcOf[t]] = NoEntry
             THEN FreshEntry(e) /\ mutex' = [mutex EXCEPT ![e] = NoThread]
                                /\ users' = [users EXCEPT ![e] = 1]
             ELSE registry[ProcOf[t]] = e /\ mutex' = mutex
                                          /\ users' = [users EXCEPT ![e] = @ + 1]
          /\ registry' = [registry EXCEPT ![ProcOf[t]] = e]
          /\ ref' = [ref EXCEPT ![t] = e]
    BY <1>1 DEF Register
  <2>2. RegistryInv'
    <3>1. CASE registry[ProcOf[t]] = NoEntry
      BY <2>1, <3>1 DEF FreshEntry
    <3>2. CASE registry[ProcOf[t]] # NoEntry
      BY <2>1, <3>2
    <3>3. QED
      BY <3>1, <3>2
  <2>3. TypeOK'
    BY <1>1, <2>1 DEF Register
  <2>4. (OpenInv /\ FlockInv /\ PathInv /\ DiscardInv /\ RefInv)'
    BY <1>1, <2>1 DEF Register
  <2>5. QED
    BY <2>2, <2>3, <2>4
<1>2. CASE AcquireMutex(t)
  BY <1>2 DEF AcquireMutex
<1>3. CASE MutexContended(t)
  BY <1>3 DEF MutexContended, localVars
<1>4. CASE ReleaseMutex(t)
  BY <1>4 DEF ReleaseMutex
<1>5. CASE Unregister(t)
  <2>1. RegistryInv' /\ TypeOK'
    BY <1>5, EntryReleased DEF Unregister
  <2>2. (OpenInv /\ FlockInv /\ PathInv /\ DiscardInv /\ RefInv)'
    BY <1>5 DEF Unregister
  <2>3. QED
    BY <2>1, <2>2
<1>6. CASE Reenter(t)
  BY <1>6 DEF Reenter
<1>7. CASE LeaveNested(t)
  <2>1. RegistryInv' /\ TypeOK'
    BY <1>7, EntryReleased DEF LeaveNested
  <2>2. (OpenInv /\ FlockInv /\ PathInv /\ DiscardInv /\ RefInv)'
    BY <1>7 DEF LeaveNested
  <2>3. QED
    BY <2>1, <2>2
<1>8. QED
  BY <1>1, <1>2, <1>3, <1>4, <1>5, <1>6, <1>7 DEF Call

\* The steps on the lock file.
LEMMA FileStep ==
  ASSUME IInv, NEW t \in Thread,
         MakeDir(t) \/ OpenMissing(t) \/ OpenExisting(t) \/ OpenCreate(t)
         \/ LockFile(t) \/ FileContended(t) \/ CheckSame(t) \/ CheckReplaced(t)
         \/ Unlock(t) \/ DiscardUnlink(t) \/ DiscardRmdir(t)
  PROVE  IInv'
<1> USE DEF IInv, TypeOK, PcStates, OpenInv, FlockInv, PathInv, DiscardInv,
            RefInv, RegistryInv, Owns, Goto, localVars
<1>1. CASE MakeDir(t)
  BY <1>1 DEF MakeDir
<1>2. CASE OpenMissing(t)
  BY <1>2 DEF OpenMissing, fileVars
<1>3. CASE OpenExisting(t)
  BY <1>3 DEF OpenExisting
<1>4. CASE OpenCreate(t)
  BY <1>4 DEF OpenCreate, FreshInode
<1>5. CASE LockFile(t)
  BY <1>5 DEF LockFile
<1>6. CASE FileContended(t)
  <2>1. TypeOK' /\ RegistryInv' /\ RefInv' /\ DiscardInv'
    BY <1>6 DEF FileContended
  <2>2. OpenInv' /\ FlockInv' /\ PathInv'
    BY <1>6 DEF FileContended
  <2>3. QED
    BY <2>1, <2>2
<1>7. CASE CheckSame(t)
  <2>1. TypeOK' /\ RegistryInv' /\ RefInv' /\ DiscardInv'
    BY <1>7 DEF CheckSame, fileVars
  <2>2. OpenInv' /\ FlockInv' /\ PathInv'
    BY <1>7 DEF CheckSame, fileVars
  <2>3. QED
    BY <2>1, <2>2
<1>8. CASE CheckReplaced(t)
  BY <1>8 DEF CheckReplaced, CloseFile
<1>9. CASE Unlock(t)
  BY <1>9 DEF Unlock, CloseFile
<1>10. CASE DiscardUnlink(t)
  BY <1>10 DEF DiscardUnlink
<1>11. CASE DiscardRmdir(t)
  BY <1>11 DEF DiscardRmdir
<1>12. QED
  BY <1>1, <1>2, <1>3, <1>4, <1>5, <1>6, <1>7, <1>8, <1>9, <1>10, <1>11

LEMMA CrashStep ==
  ASSUME IInv, NEW p \in Process, Crash(p)
  PROVE  IInv'
BY DEF IInv, TypeOK, PcStates, OpenInv, FlockInv, PathInv, DiscardInv,
       RefInv, RegistryInv, Owns, Crash

LEMMA NextIInv == IInv /\ [Next]_vars => IInv'
<1> SUFFICES ASSUME IInv, [Next]_vars PROVE IInv'
  OBVIOUS
<1>1. CASE UNCHANGED vars
  BY <1>1 DEF vars, lockVars, fileVars, localVars, IInv, TypeOK, OpenInv,
              FlockInv, PathInv, DiscardInv, RefInv, RegistryInv, Owns
<1>2. ASSUME NEW t \in Thread, Call(t) \/ Progress(t) \/ Body(t) PROVE IInv'
  BY <1>2, LocalStep, FileStep DEF Progress, Body
<1>3. ASSUME NEW p \in Process, Crash(p) PROVE IInv'
  BY <1>3, CrashStep
<1>4. QED
  BY <1>1, <1>2, <1>3 DEF Next

LEMMA Invariance == Spec => []IInv
BY InitIInv, NextIInv, PTL DEF Spec

-----------------------------------------------------------------------------
\* Every variable of operation_lock() keeps its type: the table, the counts,
\* the descriptors and the flocks of every caller.
THEOREM TypeCorrect == Spec => []TypeOK
<1>1. IInv => TypeOK
  BY DEF IInv
<1>2. QED
  BY <1>1, Invariance, PTL

\* operation_lock() excludes: no two callers are inside its with-block unless
\* one of them has deleted the lock directory.
LEMMA ExclusionFollows == IInv => MutualExclusion
BY DEF IInv, TypeOK, OpenInv, FlockInv, PathInv, MutualExclusion, Owns

THEOREM Exclusion == Spec => []MutualExclusion
BY Invariance, ExclusionFollows, PTL

-----------------------------------------------------------------------------
LEMMA OwnerUnique ==
  ASSUME IInv, NEW t \in Thread, Owns(t)
  PROVE  CurrentOwner = t
<1>1. \A u \in Thread : Owns(u) => u = t
  BY ExclusionFollows DEF MutualExclusion
<1>2. QED
  BY <1>1 DEF CurrentOwner

LEMMA OwnerNone ==
  ASSUME \A t \in Thread : ~Owns(t)
  PROVE  CurrentOwner = NoThread
BY DEF CurrentOwner

\* A step that hands nobody the lock either keeps the owner or releases it.
LEMMA OwnersShrink ==
  ASSUME IInv, IInv', \A t \in Thread : Owns(t)' => Owns(t)
  PROVE  [Mutex!Next]_CurrentOwner
<1>1. CASE \E t \in Thread : Owns(t)'
  <2>1. PICK t \in Thread : Owns(t)'
    BY <1>1
  <2>2. CurrentOwner' = t
    <3>1. \A u \in Thread : Owns(u)' => u = t
      BY <2>1, ExclusionFollows DEF MutualExclusion, IInv, TypeOK, OpenInv, FlockInv, PathInv, Owns
    <3>2. QED
      BY <2>1, <3>1 DEF CurrentOwner
  <2>3. CurrentOwner = t
    BY <2>1, OwnerUnique
  <2>4. QED
    BY <2>2, <2>3
<1>2. CASE ~\E t \in Thread : Owns(t)'
  <2>1. CurrentOwner' = NoThread
    BY <1>2 DEF CurrentOwner
  <2>2. CASE \E t \in Thread : Owns(t)
    <3>1. PICK t \in Thread : Owns(t)
      BY <2>2
    <3>2. CurrentOwner = t
      BY <3>1, OwnerUnique
    <3>3. Mutex!Release(t)
      BY <2>1, <3>2 DEF Mutex!Release
    <3>4. QED
      BY <3>3 DEF Mutex!Next
  <2>3. CASE ~\E t \in Thread : Owns(t)
    BY <2>1, <2>3, OwnerNone
  <2>4. QED
    BY <2>2, <2>3
<1>3. QED
  BY <1>1, <1>2

\* CheckSame is the one step that hands over the lock, and it finds it free.
LEMMA CheckSameAcquires ==
  ASSUME IInv, IInv', NEW t \in Thread, CheckSame(t)
  PROVE  [Mutex!Next]_CurrentOwner
<1>1. \A u \in Thread : u # t => (Owns(u)' <=> Owns(u))
  BY DEF CheckSame, Owns, Goto, IInv, TypeOK
<1>2. \A u \in Thread : ~Owns(u)
  BY DEF CheckSame, Owns, IInv, TypeOK, OpenInv, FlockInv, PathInv
<1>3. discard[t] = "no"
  BY DEF CheckSame, IInv, TypeOK, DiscardInv
<1>4. Owns(t)'
  BY <1>3 DEF CheckSame, Owns, Goto, IInv, TypeOK
<1>5. CurrentOwner' = t
  BY <1>1, <1>2, <1>4 DEF CurrentOwner
<1>6. CurrentOwner = NoThread
  BY <1>2, OwnerNone
<1>7. Mutex!Acquire(t)
  BY <1>5, <1>6 DEF Mutex!Acquire
<1>8. QED
  BY <1>7 DEF Mutex!Next

\* Every other step leaves alone, or ends, the ownership of each thread.
LEMMA OthersShrink ==
  ASSUME IInv, [Next]_vars, \A t \in Thread : ~CheckSame(t)
  PROVE  \A t \in Thread : Owns(t)' => Owns(t)
<1> USE DEF Owns, IInv, TypeOK, DiscardInv
<1>1. CASE UNCHANGED vars
  BY <1>1 DEF vars, lockVars
<1>2. ASSUME NEW p \in Process, Crash(p)
      PROVE  \A t \in Thread : Owns(t)' => Owns(t)
  BY <1>2 DEF Crash
<1>3. ASSUME NEW u \in Thread, Call(u) \/ Progress(u)
      PROVE  \A t \in Thread : Owns(t)' => Owns(t)
  <2>1. ASSUME NEW b \in BOOLEAN, Register(u, b)
        PROVE  \A t \in Thread : Owns(t)' => Owns(t)
    BY <2>1 DEF Register, Goto
  <2>2. CASE Progress(u)
    BY <2>2 DEF Progress, Goto, AcquireMutex, MutexContended, MakeDir,
                OpenMissing, OpenExisting, OpenCreate, LockFile,
                FileContended, CheckReplaced, ReleaseMutex, Unregister
  <2>3. QED
    BY <1>3, <2>1, <2>2 DEF Call
<1>4. ASSUME NEW u \in Thread, Body(u)
      PROVE  \A t \in Thread : Owns(t)' => Owns(t)
  BY <1>4 DEF Body, Goto, Reenter, LeaveNested, DiscardUnlink, DiscardRmdir,
              Unlock
<1>5. QED
  BY <1>1, <1>2, <1>3, <1>4 DEF Next

\* Refinement: seen through the caller that is inside and has not deleted the
\* directory, the file, the inode check, the registry and the crashes together
\* behave as one mutex, which is what the pipeline's modules assume.
THEOREM Refinement == Spec => ImplementsJobMutex
<1>1. Init => Mutex!Init
  BY DEF Init, Mutex!Init, CurrentOwner, Owns
<1>2. IInv /\ IInv' /\ [Next]_vars => [Mutex!Next]_CurrentOwner
  <2> SUFFICES ASSUME IInv, IInv', [Next]_vars
               PROVE  [Mutex!Next]_CurrentOwner
    OBVIOUS
  <2>1. CASE \E t \in Thread : CheckSame(t)
    BY <2>1, CheckSameAcquires
  <2>2. CASE \A t \in Thread : ~CheckSame(t)
    BY <2>2, OthersShrink, OwnersShrink
  <2>3. QED
    BY <2>1, <2>2
<1>3. QED
  BY <1>1, <1>2, Invariance, PTL DEF Spec, ImplementsJobMutex, Mutex!Spec

-----------------------------------------------------------------------------
(* The registry of mutexes: what entry[1] counts.                          *)

\* How many with-blocks of operation_lock() the thread is in or waits for, and
\* the nested calls of a process, one pair for each of them.
Levels(t) == IF pc[t] = "idle" THEN 0 ELSE IF depth[t] = 0 THEN 1 ELSE depth[t]
Holdings(p) == {h \in Thread \X (1..MaxDepth) :
                  ProcOf[h[1]] = p /\ h[2] <= Levels(h[1])}
Inside == {"mkdir", "open", "flock", "check", "held", "unmutex"}

\* entry[1] is the number of calls that use the entry: it is dropped with the
\* last of them and not before, so whoever uses an entry finds it in the table.
CountAt(p) ==
  /\ IsFiniteSet(Holdings(p))
  /\ registry[p] = NoEntry => Holdings(p) = {}
  /\ registry[p] # NoEntry => users[registry[p]] = Cardinality(Holdings(p))
CountInv == \A p \in Process : CountAt(p)
DepthInv ==
  \A t \in Thread : /\ pc[t] \in Inside \ {"held"} => depth[t] = 1
                    /\ pc[t] = "held" => depth[t] >= 1
                    /\ pc[t] \notin Inside => depth[t] = 0
HolderInv ==
  \A t \in Thread : /\ pc[t] # "idle" => ref[t] = registry[ProcOf[t]]
                    /\ pc[t] \in Inside => mutex[ref[t]] = t

LInv == IInv /\ CountInv /\ DepthInv /\ HolderInv

LEMMA LevelsType ==
  ASSUME TypeOK
  PROVE  \A t \in Thread : Levels(t) \in 0..MaxDepth
BY DEF TypeOK, Levels

\* A step after which every thread is in as many calls as before.
LEMMA SameHoldings ==
  ASSUME \A t \in Thread : Levels(t)' = Levels(t), NEW p \in Process
  PROVE  Holdings(p)' = Holdings(p)
BY DEF Holdings

LEMMA MoreHoldings ==
  ASSUME TypeOK, NEW t \in Thread, Levels(t)' = Levels(t) + 1, Levels(t) < MaxDepth,
         \A u \in Thread : u # t => Levels(u)' = Levels(u)
  PROVE  /\ Holdings(ProcOf[t])' = Holdings(ProcOf[t]) \cup {<<t, Levels(t) + 1>>}
         /\ <<t, Levels(t) + 1>> \notin Holdings(ProcOf[t])
         /\ \A p \in Process : p # ProcOf[t] => Holdings(p)' = Holdings(p)
<1>1. \A u \in Thread : Levels(u) \in 0..MaxDepth
  BY LevelsType
<1>2. <<t, Levels(t) + 1>> \in Thread \X (1..MaxDepth)
  BY <1>1
<1>3. ASSUME NEW u \in Thread, NEW n \in 1..MaxDepth
      PROVE  <<u, n>> \in Holdings(ProcOf[t])' <=>
               <<u, n>> \in Holdings(ProcOf[t]) \/ <<u, n>> = <<t, Levels(t) + 1>>
  BY <1>1 DEF Holdings
<1>4. Holdings(ProcOf[t])' = Holdings(ProcOf[t]) \cup {<<t, Levels(t) + 1>>}
  BY <1>2, <1>3 DEF Holdings
<1>5. <<t, Levels(t) + 1>> \notin Holdings(ProcOf[t])
  BY <1>1 DEF Holdings
<1>6. \A p \in Process : p # ProcOf[t] => Holdings(p)' = Holdings(p)
  BY DEF Holdings
<1>7. QED
  BY <1>4, <1>5, <1>6

LEMMA FewerHoldings ==
  ASSUME TypeOK, NEW t \in Thread, Levels(t)' = Levels(t) - 1, Levels(t) >= 1,
         \A u \in Thread : u # t => Levels(u)' = Levels(u)
  PROVE  /\ Holdings(ProcOf[t])' = Holdings(ProcOf[t]) \ {<<t, Levels(t)>>}
         /\ <<t, Levels(t)>> \in Holdings(ProcOf[t])
         /\ \A p \in Process : p # ProcOf[t] => Holdings(p)' = Holdings(p)
<1>1. \A u \in Thread : Levels(u) \in 0..MaxDepth
  BY LevelsType
<1>2. <<t, Levels(t)>> \in Thread \X (1..MaxDepth)
  BY <1>1
<1>3. ASSUME NEW u \in Thread, NEW n \in 1..MaxDepth
      PROVE  <<u, n>> \in Holdings(ProcOf[t])' <=>
               <<u, n>> \in Holdings(ProcOf[t]) /\ <<u, n>> # <<t, Levels(t)>>
  BY <1>1 DEF Holdings
<1>4. Holdings(ProcOf[t])' = Holdings(ProcOf[t]) \ {<<t, Levels(t)>>}
  BY <1>2, <1>3 DEF Holdings
<1>5. <<t, Levels(t)>> \in Holdings(ProcOf[t])
  BY <1>1, <1>2 DEF Holdings
<1>6. \A p \in Process : p # ProcOf[t] => Holdings(p)' = Holdings(p)
  BY DEF Holdings
<1>7. QED
  BY <1>4, <1>5, <1>6

\* The last call of a process leaves nothing.
LEMMA LastHolding ==
  ASSUME NEW S, IsFiniteSet(S), Cardinality(S) <= 1, NEW x \in S
  PROVE  S = {x}
<1>1. IsFiniteSet(S \ {x}) /\ Cardinality(S \ {x}) = Cardinality(S) - 1
  BY FS_RemoveElement
<1>2. Cardinality(S \ {x}) \in Nat /\ Cardinality(S) \in Nat
  BY <1>1, FS_CardinalityType
<1>3. S \ {x} = {}
  BY <1>1, <1>2, FS_EmptySet
<1>4. QED
  BY <1>3

\* A call more: Register or Reenter has counted it.
LEMMA CountMore ==
  ASSUME LInv, NEW t \in Thread, Levels(t)' = Levels(t) + 1, Levels(t) < MaxDepth,
         \A u \in Thread : u # t => Levels(u)' = Levels(u),
         registry'[ProcOf[t]] \in Entry,
         users'[registry'[ProcOf[t]]] = Cardinality(Holdings(ProcOf[t])) + 1,
         \A p \in Process : p # ProcOf[t] =>
            /\ registry'[p] = registry[p]
            /\ registry[p] # NoEntry => users'[registry[p]] = users[registry[p]]
  PROVE  CountInv'
<1>1. TypeOK /\ ProcOf[t] \in Process
  BY DEF LInv, IInv
<1>2. CountAt(ProcOf[t])'
  <2>1. /\ Holdings(ProcOf[t])' = Holdings(ProcOf[t]) \cup {<<t, Levels(t) + 1>>}
        /\ <<t, Levels(t) + 1>> \notin Holdings(ProcOf[t])
    BY <1>1, MoreHoldings
  <2>2. IsFiniteSet(Holdings(ProcOf[t]))
    BY <1>1 DEF LInv, CountInv, CountAt
  <2> DEFINE S == Holdings(ProcOf[t])
             x == <<t, Levels(t) + 1>>
  <2>3. IsFiniteSet(S \cup {x}) /\ Cardinality(S \cup {x}) = Cardinality(S) + 1
    BY <2>1, <2>2, FS_AddElement
  <2>4. QED
    BY <1>1, <2>1, <2>3 DEF CountAt
<1>3. ASSUME NEW p \in Process, p # ProcOf[t] PROVE CountAt(p)'
  <2>1. Holdings(p)' = Holdings(p)
    BY <1>1, <1>3, MoreHoldings
  <2>2. QED
    BY <1>3, <2>1 DEF LInv, CountInv, CountAt
<1>4. QED
  BY <1>2, <1>3 DEF CountInv

\* A call less: _release_entry() has counted it, and drops the entry with the
\* last one.
LEMMA CountFewer ==
  ASSUME LInv, NEW t \in Thread, Levels(t)' = Levels(t) - 1, Levels(t) >= 1,
         \A u \in Thread : u # t => Levels(u)' = Levels(u),
         ReleaseEntry(ProcOf[t])
  PROVE  /\ CountInv'
         /\ \A u \in Thread : Levels(u)' >= 1 => registry'[ProcOf[u]] = registry[ProcOf[u]]
<1> DEFINE e == registry[ProcOf[t]]
           S == Holdings(ProcOf[t])
           x == <<t, Levels(t)>>
<1>1. TypeOK /\ ProcOf[t] \in Process
  BY DEF LInv, IInv
<1>2. /\ Holdings(ProcOf[t])' = S \ {x} /\ x \in S
      /\ \A p \in Process : p # ProcOf[t] => Holdings(p)' = Holdings(p)
  BY <1>1, FewerHoldings
<1>3. IsFiniteSet(S) /\ e \in Entry /\ users[e] = Cardinality(S) /\ users[e] >= 1
  BY <1>1, <1>2 DEF LInv, CountInv, CountAt, IInv, RegistryInv, TypeOK
<1>4. /\ users' = [users EXCEPT ![e] = @ - 1]
      /\ registry' = IF users[e] <= 1 THEN [registry EXCEPT ![ProcOf[t]] = NoEntry]
                                      ELSE registry
  BY <1>3 DEF ReleaseEntry
<1>5. IsFiniteSet(S \ {x}) /\ Cardinality(S \ {x}) = Cardinality(S) - 1
  BY <1>2, <1>3, FS_RemoveElement
<1>6. users[e] <= 1 => S \ {x} = {}
  BY <1>2, <1>3, LastHolding
<1>7. CountAt(ProcOf[t])'
  BY <1>1, <1>2, <1>3, <1>4, <1>5, <1>6 DEF CountAt, TypeOK
<1>8. ASSUME NEW p \in Process, p # ProcOf[t] PROVE CountAt(p)'
  <2>1. registry'[p] = registry[p]
    BY <1>1, <1>4, <1>8 DEF TypeOK
  <2>2. registry[p] # NoEntry => registry[p] # e /\ registry[p] \in Entry
    BY <1>1, <1>3, <1>8 DEF LInv, IInv, RegistryInv, TypeOK
  <2>3. registry[p] # NoEntry => users'[registry[p]] = users[registry[p]]
    BY <1>1, <1>4, <2>2 DEF TypeOK
  <2>4. QED
    BY <1>2, <1>8, <2>1, <2>3 DEF LInv, CountInv, CountAt
<1>9. ASSUME NEW u \in Thread, Levels(u)' >= 1
      PROVE  registry'[ProcOf[u]] = registry[ProcOf[u]]
  <2>1. CASE ProcOf[u] # ProcOf[t]
    BY <1>1, <1>4, <2>1 DEF TypeOK
  <2>2. CASE ProcOf[u] = ProcOf[t]
    <3>1. <<u, 1>> \in Holdings(ProcOf[t])'
      BY <1>9, <2>2 DEF Holdings
    <3>2. users[e] > 1
      BY <1>1, <1>2, <1>3, <1>6, <3>1 DEF TypeOK
    <3>3. QED
      BY <1>1, <1>3, <1>4, <3>2 DEF TypeOK
  <2>3. QED
    BY <2>1, <2>2
<1>10. QED
  BY <1>7, <1>8, <1>9 DEF CountInv

\* Every other step of a thread: nobody enters or leaves a call.
LEMMA CountSame ==
  ASSUME LInv, \A t \in Thread : Levels(t)' = Levels(t), UNCHANGED <<registry, users>>
  PROVE  CountInv'
BY SameHoldings DEF LInv, CountInv, CountAt

-----------------------------------------------------------------------------
(* Every step keeps the count, the depths and the holders.                 *)

LEMMA LocalCount ==
  ASSUME LInv, NEW t \in Thread,
         Call(t) \/ AcquireMutex(t) \/ MutexContended(t) \/ ReleaseMutex(t)
         \/ Unregister(t) \/ Reenter(t) \/ LeaveNested(t)
  PROVE  CountInv' /\ DepthInv' /\ HolderInv'
<1> USE DEF Goto
<1>1. /\ TypeOK /\ RefInv /\ RegistryInv /\ DepthInv /\ HolderInv
      /\ ProcOf[t] \in Process /\ Levels(t) \in 0..MaxDepth
  BY LevelsType DEF LInv, IInv
<1>2. ASSUME NEW b \in BOOLEAN, Register(t, b)
      PROVE  CountInv' /\ DepthInv' /\ HolderInv'
  <2>1. PICK e \in Entry :
          /\ IF registry[ProcOf[t]] = NoEntry
             THEN FreshEntry(e) /\ mutex' = [mutex EXCEPT ![e] = NoThread]
                                /\ users' = [users EXCEPT ![e] = 1]
             ELSE registry[ProcOf[t]] = e /\ mutex' = mutex
                                          /\ users' = [users EXCEPT ![e] = @ + 1]
          /\ registry' = [registry EXCEPT ![ProcOf[t]] = e]
          /\ ref' = [ref EXCEPT ![t] = e]
    BY <1>2 DEF Register
  <2>2. pc[t] = "idle" /\ pc' = [pc EXCEPT ![t] = "mutex"] /\ UNCHANGED depth
    BY <1>2 DEF Register
  <2>3. depth[t] = 0
    BY <1>1, <2>2 DEF DepthInv, Inside
  <2>4. /\ Levels(t) = 0 /\ Levels(t)' = 1
        /\ \A u \in Thread : u # t => Levels(u)' = Levels(u)
    BY <1>1, <2>2, <2>3 DEF Levels, TypeOK
  <2>5. registry'[ProcOf[t]] = e
    BY <1>1, <2>1 DEF TypeOK
  <2>6. users'[e] = Cardinality(Holdings(ProcOf[t])) + 1
    <3>1. CASE registry[ProcOf[t]] = NoEntry
      <4>1. Holdings(ProcOf[t]) = {}
        BY <1>1, <3>1 DEF LInv, CountInv, CountAt
      <4>2. Cardinality(Holdings(ProcOf[t])) = 0
        BY <4>1, FS_EmptySet
      <4>3. QED
        BY <1>1, <2>1, <3>1, <4>2 DEF TypeOK
    <3>2. CASE registry[ProcOf[t]] # NoEntry
      BY <1>1, <2>1, <3>2 DEF LInv, CountInv, CountAt, TypeOK
    <3>3. QED
      BY <3>1, <3>2
  <2>7. ASSUME NEW p \in Process, p # ProcOf[t]
        PROVE  /\ registry'[p] = registry[p]
               /\ registry[p] # NoEntry => users'[registry[p]] = users[registry[p]]
    BY <1>1, <2>1, <2>7 DEF TypeOK, RegistryInv, FreshEntry
  <2>8. CountInv'
    BY <1>1, <2>4, <2>5, <2>6, <2>7, CountMore
  <2>9. DepthInv'
    BY <1>1, <2>2, <2>3 DEF DepthInv, Inside, TypeOK
  <2>10. ASSUME NEW u \in Thread
         PROVE  /\ pc'[u] # "idle" => ref'[u] = registry'[ProcOf[u]]
                /\ pc'[u] \in Inside => mutex'[ref'[u]] = u
    <3>1. CASE u = t
      BY <1>1, <2>1, <2>2, <2>5, <3>1 DEF TypeOK, Inside
    <3>2. CASE u # t
      <4>1. pc'[u] = pc[u] /\ ref'[u] = ref[u] /\ ProcOf[u] \in Process
        BY <1>1, <2>1, <2>2, <3>2 DEF TypeOK
      <4>2. pc[u] # "idle" => ref[u] = registry[ProcOf[u]] /\ ref[u] \in Entry
        BY <1>1 DEF HolderInv, RefInv
      <4>3. pc[u] # "idle" => registry'[ProcOf[u]] = registry[ProcOf[u]]
        BY <1>1, <2>1, <2>7, <4>1, <4>2 DEF TypeOK
      <4>4. pc[u] \in Inside => mutex'[ref[u]] = mutex[ref[u]]
        BY <1>1, <2>1, <4>1, <4>2 DEF TypeOK, FreshEntry, Inside
      <4>5. QED
        BY <1>1, <4>1, <4>2, <4>3, <4>4 DEF HolderInv
    <3>3. QED
      BY <3>1, <3>2
  <2>11. QED
    BY <2>8, <2>9, <2>10 DEF HolderInv
<1>3. CASE AcquireMutex(t)
  <2>1. /\ \A u \in Thread : Levels(u)' = Levels(u)
        /\ UNCHANGED <<registry, users>>
    BY <1>1, <1>3 DEF AcquireMutex, DepthInv, Inside, Levels, TypeOK
  <2>2. DepthInv'
    BY <1>1, <1>3 DEF AcquireMutex, DepthInv, Inside, TypeOK
  <2>3. HolderInv'
    BY <1>1, <1>3 DEF AcquireMutex, HolderInv, RefInv, Inside, TypeOK
  <2>4. QED
    BY <2>1, <2>2, <2>3, CountSame
<1>4. CASE MutexContended(t)
  <2>1. /\ \A u \in Thread : Levels(u)' = Levels(u)
        /\ UNCHANGED <<registry, users>>
    BY <1>1, <1>4 DEF MutexContended, DepthInv, Inside, Levels, TypeOK, localVars
  <2>2. DepthInv' /\ HolderInv'
    BY <1>1, <1>4 DEF MutexContended, DepthInv, HolderInv, Inside, TypeOK, localVars
  <2>3. QED
    BY <2>1, <2>2, CountSame
<1>5. CASE ReleaseMutex(t)
  <2>1. /\ \A u \in Thread : Levels(u)' = Levels(u)
        /\ UNCHANGED <<registry, users>>
    BY <1>1, <1>5 DEF ReleaseMutex, DepthInv, Inside, Levels, TypeOK
  <2>2. DepthInv'
    BY <1>1, <1>5 DEF ReleaseMutex, DepthInv, Inside, TypeOK
  <2>3. HolderInv'
    BY <1>1, <1>5 DEF ReleaseMutex, HolderInv, RefInv, Inside, TypeOK
  <2>4. QED
    BY <2>1, <2>2, <2>3, CountSame
<1>6. CASE Unregister(t)
  <2>1. /\ pc[t] = "unregister" /\ pc' = [pc EXCEPT ![t] = "idle"]
        /\ ref' = [ref EXCEPT ![t] = NoEntry] /\ UNCHANGED <<depth, mutex>>
        /\ ReleaseEntry(ProcOf[t])
    BY <1>6 DEF Unregister
  <2>2. depth[t] = 0
    BY <1>1, <2>1 DEF DepthInv, Inside
  <2>3. /\ Levels(t) = 1 /\ Levels(t)' = 0
        /\ \A u \in Thread : u # t => Levels(u)' = Levels(u)
    BY <1>1, <2>1, <2>2 DEF Levels, TypeOK
  <2>4. /\ CountInv'
        /\ \A u \in Thread : Levels(u)' >= 1 => registry'[ProcOf[u]] = registry[ProcOf[u]]
    BY <1>1, <2>1, <2>3, CountFewer
  <2>5. DepthInv'
    BY <1>1, <2>1, <2>2 DEF DepthInv, Inside, TypeOK
  <2>6. \A u \in Thread : pc'[u] # "idle" => Levels(u)' >= 1 /\ u # t
    BY <1>1, <2>1 DEF Levels, TypeOK
  <2>7. HolderInv'
    BY <1>1, <2>1, <2>4, <2>6 DEF HolderInv, Inside, TypeOK
  <2>8. QED
    BY <2>4, <2>5, <2>7
<1>7. CASE Reenter(t)
  <2>1. /\ pc[t] = "held" /\ depth[t] < MaxDepth /\ depth[t] >= 1
        /\ depth' = [depth EXCEPT ![t] = @ + 1]
        /\ users' = [users EXCEPT ![ref[t]] = @ + 1]
        /\ UNCHANGED <<pc, registry, ref, mutex>>
    BY <1>1, <1>7 DEF Reenter, DepthInv
  <2>2. /\ Levels(t) = depth[t] /\ Levels(t)' = depth[t] + 1
        /\ \A u \in Thread : u # t => Levels(u)' = Levels(u)
    BY <1>1, <2>1 DEF Levels, TypeOK
  <2>3. ref[t] = registry[ProcOf[t]] /\ ref[t] \in Entry
    BY <1>1, <2>1 DEF HolderInv, RefInv
  <2>4. users'[ref[t]] = Cardinality(Holdings(ProcOf[t])) + 1
    BY <1>1, <2>1, <2>3 DEF LInv, CountInv, CountAt, TypeOK
  <2>5. ASSUME NEW p \in Process, p # ProcOf[t]
        PROVE  /\ registry'[p] = registry[p]
               /\ registry[p] # NoEntry => users'[registry[p]] = users[registry[p]]
    BY <1>1, <2>1, <2>3, <2>5 DEF TypeOK, RegistryInv
  <2>6. CountInv'
    BY <1>1, <2>1, <2>2, <2>3, <2>4, <2>5, CountMore
  <2>7. DepthInv' /\ HolderInv'
    BY <1>1, <2>1 DEF DepthInv, HolderInv, Inside, TypeOK
  <2>8. QED
    BY <2>6, <2>7
<1>8. CASE LeaveNested(t)
  <2>1. /\ pc[t] = "held" /\ depth[t] > 1
        /\ depth' = [depth EXCEPT ![t] = @ - 1]
        /\ ReleaseEntry(ProcOf[t]) /\ UNCHANGED <<pc, ref, mutex>>
    BY <1>8 DEF LeaveNested
  <2>2. /\ Levels(t) = depth[t] /\ Levels(t)' = depth[t] - 1 /\ Levels(t) >= 1
        /\ \A u \in Thread : u # t => Levels(u)' = Levels(u)
    BY <1>1, <2>1 DEF Levels, TypeOK
  <2>3. /\ CountInv'
        /\ \A u \in Thread : Levels(u)' >= 1 => registry'[ProcOf[u]] = registry[ProcOf[u]]
    BY <1>1, <2>1, <2>2, CountFewer
  <2>4. DepthInv'
    BY <1>1, <2>1 DEF DepthInv, Inside, TypeOK
  <2>5. \A u \in Thread : pc[u] # "idle" => Levels(u)' >= 1
    BY <1>1, <2>1 DEF Levels, TypeOK
  <2>6. HolderInv'
    BY <1>1, <2>1, <2>3, <2>5 DEF HolderInv
  <2>7. QED
    BY <2>3, <2>4, <2>6
<1>9. QED
  BY <1>2, <1>3, <1>4, <1>5, <1>6, <1>7, <1>8 DEF Call

LEMMA FileCount ==
  ASSUME LInv, NEW t \in Thread,
         MakeDir(t) \/ OpenMissing(t) \/ OpenExisting(t) \/ OpenCreate(t)
         \/ LockFile(t) \/ FileContended(t) \/ CheckSame(t) \/ CheckReplaced(t)
         \/ Unlock(t) \/ DiscardUnlink(t) \/ DiscardRmdir(t)
  PROVE  CountInv' /\ DepthInv' /\ HolderInv'
<1>1. TypeOK /\ DepthInv /\ HolderInv
  BY DEF LInv, IInv
<1>2. UNCHANGED <<depth, registry, ref, mutex, users>>
  BY DEF MakeDir, OpenMissing, OpenExisting, OpenCreate, LockFile, FileContended,
         CheckSame, CheckReplaced, Unlock, DiscardUnlink, DiscardRmdir, localVars
<1>3. PICK label :
        /\ pc' = [pc EXCEPT ![t] = label]
        /\ \/ label = pc[t]
           \/ /\ label \in Inside /\ pc[t] \in Inside
              /\ depth[t] = 1
  <2>1. CASE DiscardUnlink(t) \/ DiscardRmdir(t)
    <3>1. pc' = [pc EXCEPT ![t] = pc[t]]
      BY <1>1, <2>1 DEF DiscardUnlink, DiscardRmdir, TypeOK
    <3>2. QED
      BY <3>1
  <2>2. CASE Unlock(t)
    BY <1>1, <2>2 DEF Unlock, Goto, Inside
  <2>3. CASE MakeDir(t) \/ OpenMissing(t) \/ OpenExisting(t) \/ OpenCreate(t)
             \/ LockFile(t) \/ FileContended(t) \/ CheckSame(t) \/ CheckReplaced(t)
    BY <1>1, <2>3 DEF MakeDir, OpenMissing, OpenExisting, OpenCreate, LockFile,
                      FileContended, CheckSame, CheckReplaced, Goto, Inside, DepthInv
  <2>4. QED
    BY <2>1, <2>2, <2>3
<1>4. "idle" \notin Inside
  BY DEF Inside
<1>5. \A u \in Thread : Levels(u)' = Levels(u)
  BY <1>1, <1>2, <1>3, <1>4 DEF Levels, TypeOK
<1>6. DepthInv'
  BY <1>1, <1>2, <1>3, <1>4 DEF DepthInv, TypeOK
<1>7. HolderInv'
  BY <1>1, <1>2, <1>3, <1>4 DEF HolderInv, TypeOK
<1>8. QED
  BY <1>2, <1>5, <1>6, <1>7, CountSame

LEMMA CrashCount ==
  ASSUME LInv, NEW p \in Process, Crash(p)
  PROVE  CountInv' /\ DepthInv' /\ HolderInv'
<1>1. TypeOK /\ DepthInv /\ HolderInv /\ RefInv
  BY DEF LInv, IInv
<1>2. /\ \A t \in Thread : ProcOf[t] = p => Levels(t)' = 0
      /\ \A t \in Thread : ProcOf[t] # p => Levels(t)' = Levels(t)
  BY <1>1 DEF Crash, Levels, TypeOK
<1>3. Holdings(p)' = {}
  BY <1>2 DEF Holdings
<1>4. \A q \in Process : q # p => Holdings(q)' = Holdings(q)
  BY <1>2 DEF Holdings
<1>5. /\ registry'[p] = NoEntry /\ UNCHANGED users
      /\ \A q \in Process : q # p => registry'[q] = registry[q]
  BY <1>1 DEF Crash, TypeOK
<1>6. CountAt(p)'
  BY <1>3, <1>5, FS_EmptySet DEF CountAt
<1>7. ASSUME NEW q \in Process, q # p PROVE CountAt(q)'
  BY <1>4, <1>5, <1>7 DEF LInv, CountInv, CountAt
<1>8. DepthInv'
  BY <1>1 DEF Crash, DepthInv, Inside, TypeOK
<1>9. HolderInv'
  BY <1>1, <1>5 DEF Crash, HolderInv, RefInv, Inside, TypeOK
<1>10. QED
  BY <1>6, <1>7, <1>8, <1>9 DEF CountInv

LEMMA InitLInv == Init => LInv
<1> SUFFICES ASSUME Init PROVE LInv
  OBVIOUS
<1>1. \A t \in Thread : Levels(t) = 0
  BY DEF Init, Levels
<1>2. \A p \in Process : Holdings(p) = {}
  BY <1>1 DEF Holdings
<1>3. CountInv
  BY <1>2, FS_EmptySet DEF Init, CountInv, CountAt
<1>4. DepthInv /\ HolderInv
  BY DEF Init, DepthInv, HolderInv, Inside
<1>5. QED
  BY <1>3, <1>4, InitIInv DEF LInv

LEMMA NextLInv == LInv /\ [Next]_vars => LInv'
<1> SUFFICES ASSUME LInv, [Next]_vars PROVE LInv'
  OBVIOUS
<1>1. CASE UNCHANGED vars
  <2>1. UNCHANGED <<registry, users, depth, pc, ref, mutex>>
    BY <1>1 DEF vars, lockVars, localVars
  <2>2. \A t \in Thread : Levels(t)' = Levels(t)
    BY <2>1 DEF Levels
  <2>3. DepthInv' /\ HolderInv'
    BY <2>1 DEF LInv, DepthInv, HolderInv
  <2>4. QED
    BY <2>1, <2>2, <2>3, CountSame, NextIInv DEF LInv
<1>2. ASSUME NEW t \in Thread, Call(t) \/ Progress(t) \/ Body(t) PROVE LInv'
  BY <1>2, LocalCount, FileCount, NextIInv DEF Progress, Body, LInv
<1>3. ASSUME NEW p \in Process, Crash(p) PROVE LInv'
  BY <1>3, CrashCount, NextIInv DEF LInv
<1>4. QED
  BY <1>1, <1>2, <1>3 DEF Next

LEMMA AlwaysLInv == Spec => []LInv
BY InitLInv, NextLInv, PTL DEF Spec

\* The threads of one process exclude each other from the moment one has the
\* mutex until it gives it back, although the directory may be deleted under them
\* and the table drops and recreates the mutex: they find the same entry, because
\* it is dropped only when no call uses it.
THEOREM OneThreadPerProcess == Spec => []ProcessExclusion
<1>1. LInv => ProcessExclusion
  <2> SUFFICES ASSUME LInv,
                      NEW t \in Thread, NEW u \in Thread, ProcOf[t] = ProcOf[u],
                      pc[t] \in Inside, pc[u] \in Inside
               PROVE  t = u
    BY DEF ProcessExclusion, Inside
  <2>1. ref[t] = registry[ProcOf[t]] /\ ref[u] = registry[ProcOf[u]]
    BY DEF LInv, HolderInv, Inside
  <2>2. mutex[ref[t]] = t /\ mutex[ref[u]] = u
    BY DEF LInv, HolderInv
  <2>3. QED
    BY <2>1, <2>2
<1>2. QED
  BY <1>1, AlwaysLInv, PTL

\* A table entry never outlives the calls that use it: the count of its users is
\* exact, for any number of threads and any nesting of calls, refused calls and
\* crashes.
THEOREM NoEntryLeft == Spec => []NoRegistryLeak
<1>1. LInv => NoRegistryLeak
  <2> SUFFICES ASSUME LInv, NEW p \in Process,
                      \A t \in Thread : ProcOf[t] = p => pc[t] = "idle",
                      registry[p] # NoEntry
               PROVE  FALSE
    BY DEF NoRegistryLeak
  <2>1. \A t \in Thread : ProcOf[t] = p => Levels(t) = 0
    BY DEF Levels
  <2>2. Holdings(p) = {}
    BY <2>1 DEF Holdings
  <2>3. users[registry[p]] = 0
    BY <2>2, FS_EmptySet DEF LInv, CountInv, CountAt
  <2>4. users[registry[p]] >= 1
    BY DEF LInv, IInv, RegistryInv
  <2>5. QED
    BY <2>3, <2>4
<1>2. QED
  BY <1>1, AlwaysLInv, PTL
=============================================================================
