---------------------------- MODULE OperationLock ----------------------------
(***************************************************************************)
(* operation_lock() and _locked_file() of src/dlpduck/operations.py for    *)
(* one lock root, together with Pipeline._discard_job_lock_dir(), which    *)
(* deletes the lock's directory while the lock is held.                    *)
(*                                                                         *)
(* A caller first registers in its process's _LOCAL_LOCKS table and takes  *)
(* the re-entrant mutex it finds there; then it opens root/.operations.lock*)
(* and flocks it; then it compares the file it locked with the file the    *)
(* path names now, and starts again when they differ.  flock is per open   *)
(* file, so it excludes other processes; the mutex excludes the threads of *)
(* the same process.  Inodes and mutex objects that nobody refers to may   *)
(* be allocated again, as a filesystem and an allocator do.                *)
(***************************************************************************)
EXTENDS Naturals, FiniteSets

CONSTANTS Thread, Process,
          ProcOf,     \* the process each thread belongs to
          Inode,      \* lock files that can exist at the same time
          Entry,      \* [RLock, users] objects of the _LOCAL_LOCKS tables
          MaxDepth,   \* bound on nested operation_lock() calls of one thread
          NoThread, NoInode, NoEntry

ASSUME ThreadAssumption ==
  /\ ProcOf \in [Thread -> Process]
  /\ NoThread \notin Thread
  /\ NoInode \notin Inode
  /\ NoEntry \notin Entry
  /\ MaxDepth \in Nat \ {0}

VARIABLES
  pc,        \* where each thread is in operation_lock()
  blocking,  \* the mode of the call each thread is in
  depth,     \* RLock recursion of the thread: nested with-blocks
  discard,   \* how far the holder's rmtree of the lock directory has come
  fd,        \* the lock file each thread has open
  file,      \* the inode root/.operations.lock names
  dir,       \* whether root exists
  flock,     \* the thread that holds each inode's flock
  registry,  \* _LOCAL_LOCKS of each process, at this root's key
  ref,       \* the entry whose mutex each thread uses
  mutex,     \* the owner of each entry's RLock
  users      \* entry[1]: callers that hold the entry or wait on it

lockVars  == <<pc, blocking, depth, discard>>
fileVars  == <<fd, file, dir, flock>>
localVars == <<registry, ref, mutex, users>>
vars      == <<lockVars, fileVars, localVars>>

PcStates == {"idle", "mutex", "mkdir", "open", "flock", "check", "held",
             "unmutex", "unregister"}

TypeOK ==
  /\ pc \in [Thread -> PcStates]
  /\ blocking \in [Thread -> BOOLEAN]
  /\ depth \in [Thread -> 0..MaxDepth]
  /\ discard \in [Thread -> {"no", "unlinked", "done"}]
  /\ fd \in [Thread -> Inode \cup {NoInode}]
  /\ file \in Inode \cup {NoInode}
  /\ dir \in BOOLEAN
  /\ flock \in [Inode -> Thread \cup {NoThread}]
  /\ registry \in [Process -> Entry \cup {NoEntry}]
  /\ ref \in [Thread -> Entry \cup {NoEntry}]
  /\ mutex \in [Entry -> Thread \cup {NoThread}]
  /\ users \in [Entry -> Nat]
  \* a descriptor is open exactly between open() and close()
  /\ \A t \in Thread : fd[t] # NoInode <=> pc[t] \in {"flock", "check", "held"}

Init ==
  /\ pc = [t \in Thread |-> "idle"]
  /\ blocking = [t \in Thread |-> FALSE]
  /\ depth = [t \in Thread |-> 0]
  /\ discard = [t \in Thread |-> "no"]
  /\ fd = [t \in Thread |-> NoInode]
  /\ file = NoInode
  /\ dir = FALSE
  /\ flock = [i \in Inode |-> NoThread]
  /\ registry = [p \in Process |-> NoEntry]
  /\ ref = [t \in Thread |-> NoEntry]
  /\ mutex = [e \in Entry |-> NoThread]
  /\ users = [e \in Entry |-> 0]

Goto(t, label) == pc' = [pc EXCEPT ![t] = label]

-----------------------------------------------------------------------------
(* The process-local half: the registry of re-entrant mutexes.             *)

FreshEntry(e) == /\ \A p \in Process : registry[p] # e
                 /\ \A t \in Thread : ref[t] # e

\* _LOCAL_LOCKS.setdefault(key, [RLock(), 0]) and entry[1] += 1, in one
\* critical section of _REGISTRY_LOCK.
Register(t, b) ==
  /\ pc[t] = "idle"
  /\ \E e \in Entry :
       /\ IF registry[ProcOf[t]] = NoEntry
          THEN FreshEntry(e) /\ mutex' = [mutex EXCEPT ![e] = NoThread]
                             /\ users' = [users EXCEPT ![e] = 1]
          ELSE registry[ProcOf[t]] = e /\ mutex' = mutex
                                       /\ users' = [users EXCEPT ![e] = @ + 1]
       /\ registry' = [registry EXCEPT ![ProcOf[t]] = e]
       /\ ref' = [ref EXCEPT ![t] = e]
  /\ blocking' = [blocking EXCEPT ![t] = b]
  /\ Goto(t, "mutex")
  /\ UNCHANGED <<depth, discard, fileVars>>

AcquireMutex(t) ==
  /\ pc[t] = "mutex"
  /\ mutex[ref[t]] = NoThread
  /\ mutex' = [mutex EXCEPT ![ref[t]] = t]
  /\ depth' = [depth EXCEPT ![t] = 1]
  /\ Goto(t, "mkdir")
  /\ UNCHANGED <<blocking, discard, fileVars, registry, ref, users>>

\* A non-blocking call that finds the mutex taken raises LockContended.
MutexContended(t) ==
  /\ pc[t] = "mutex"
  /\ ~blocking[t]
  /\ mutex[ref[t]] # NoThread
  /\ Goto(t, "unregister")
  /\ UNCHANGED <<blocking, depth, discard, fileVars, localVars>>

ReleaseMutex(t) ==
  /\ pc[t] = "unmutex"
  /\ mutex' = [mutex EXCEPT ![ref[t]] = NoThread]
  /\ depth' = [depth EXCEPT ![t] = 0]
  /\ Goto(t, "unregister")
  /\ UNCHANGED <<blocking, discard, fileVars, registry, ref, users>>

\* Variant: the entry is deleted by whoever leaves first.
ReleaseEntryUncounted(p) ==
  /\ registry' = [registry EXCEPT ![p] = NoEntry]
  /\ UNCHANGED users

\* Variant: "< 0" where the code says "<= 0".
ReleaseEntryLate(p) ==
  LET e == registry[p] IN
  IF e = NoEntry
  THEN UNCHANGED <<registry, users>>
  ELSE /\ users' = [users EXCEPT ![e] = @ - 1]
       /\ registry' = IF users[e] <= 0 THEN [registry EXCEPT ![p] = NoEntry]
                                       ELSE registry

\* _release_entry(key): it looks the entry up again, by key.
ReleaseEntry(p) ==
  LET e == registry[p] IN
  IF e = NoEntry
  THEN UNCHANGED <<registry, users>>
  ELSE /\ users' = [users EXCEPT ![e] = @ - 1]
       /\ registry' = IF users[e] <= 1 THEN [registry EXCEPT ![p] = NoEntry]
                                       ELSE registry

Unregister(t) ==
  /\ pc[t] = "unregister"
  /\ ReleaseEntry(ProcOf[t])
  /\ ref' = [ref EXCEPT ![t] = NoEntry]
  /\ Goto(t, "idle")
  /\ UNCHANGED <<blocking, depth, discard, fileVars, mutex>>

\* A nested call for a root this thread already holds: registered, the RLock
\* taken once more, and the file left alone because the key is in _HELD.
Reenter(t) ==
  /\ pc[t] = "held"
  /\ depth[t] < MaxDepth
  /\ depth' = [depth EXCEPT ![t] = @ + 1]
  /\ users' = [users EXCEPT ![ref[t]] = @ + 1]
  /\ UNCHANGED <<pc, blocking, discard, fileVars, registry, ref, mutex>>

LeaveNested(t) ==
  /\ pc[t] = "held"
  /\ depth[t] > 1
  /\ depth' = [depth EXCEPT ![t] = @ - 1]
  /\ ReleaseEntry(ProcOf[t])
  /\ UNCHANGED <<pc, blocking, discard, fileVars, ref, mutex>>

-----------------------------------------------------------------------------
(* The shared half: the lock file.                                         *)

FreshInode(i) == file # i /\ \A t \in Thread : fd[t] # i

MakeDir(t) ==
  /\ pc[t] = "mkdir"
  /\ dir' = TRUE
  /\ Goto(t, "open")
  /\ UNCHANGED <<blocking, depth, discard, fd, file, flock, localVars>>

\* The directory was removed between mkdir and open.
OpenMissing(t) ==
  /\ pc[t] = "open"
  /\ ~dir
  /\ Goto(t, "mkdir")
  /\ UNCHANGED <<blocking, depth, discard, fileVars, localVars>>

OpenExisting(t) ==
  /\ pc[t] = "open"
  /\ dir /\ file # NoInode
  /\ fd' = [fd EXCEPT ![t] = file]
  /\ Goto(t, "flock")
  /\ UNCHANGED <<blocking, depth, discard, file, dir, flock, localVars>>

OpenCreate(t) ==
  /\ pc[t] = "open"
  /\ dir /\ file = NoInode
  /\ \E i \in Inode :
       /\ FreshInode(i)
       /\ file' = i
       /\ fd' = [fd EXCEPT ![t] = i]
  /\ Goto(t, "flock")
  /\ UNCHANGED <<blocking, depth, discard, dir, flock, localVars>>

\* Variant: flock is not asked for.
LockFileUnchecked(t) ==
  /\ pc[t] = "flock"
  /\ flock' = [flock EXCEPT ![fd[t]] = t]
  /\ Goto(t, "check")
  /\ UNCHANGED <<blocking, depth, discard, fd, file, dir, localVars>>

LockFile(t) ==
  /\ pc[t] = "flock"
  /\ flock[fd[t]] = NoThread
  /\ flock' = [flock EXCEPT ![fd[t]] = t]
  /\ Goto(t, "check")
  /\ UNCHANGED <<blocking, depth, discard, fd, file, dir, localVars>>

\* Variant: the refused call leaves its descriptor open.
FileContendedLeak(t) ==
  /\ pc[t] = "flock"
  /\ ~blocking[t]
  /\ flock[fd[t]] # NoThread
  /\ Goto(t, "unmutex")
  /\ UNCHANGED <<blocking, depth, discard, fileVars, localVars>>

\* Variant: a refused non-blocking call tries again.
FileContendedRetry(t) ==
  /\ pc[t] = "flock"
  /\ ~blocking[t]
  /\ flock[fd[t]] # NoThread
  /\ fd' = [fd EXCEPT ![t] = NoInode]
  /\ Goto(t, "mkdir")
  /\ UNCHANGED <<blocking, depth, discard, file, dir, flock, localVars>>

FileContended(t) ==
  /\ pc[t] = "flock"
  /\ ~blocking[t]
  /\ flock[fd[t]] # NoThread
  /\ fd' = [fd EXCEPT ![t] = NoInode]
  /\ Goto(t, "unmutex")
  /\ UNCHANGED <<blocking, depth, discard, file, dir, flock, localVars>>

\* Variant: the path is not looked at again.
CheckNothing(t) ==
  /\ pc[t] = "check"
  /\ Goto(t, "held")
  /\ UNCHANGED <<blocking, depth, discard, fileVars, localVars>>

\* fstat of the descriptor and stat of the path agree: the caller is in.
CheckSame(t) ==
  /\ pc[t] = "check"
  /\ file = fd[t]
  /\ Goto(t, "held")
  /\ UNCHANGED <<blocking, depth, discard, fileVars, localVars>>

CloseFile(t) ==
  /\ flock' = [flock EXCEPT ![fd[t]] = NoThread]
  /\ fd' = [fd EXCEPT ![t] = NoInode]

\* They differ: the file was replaced or removed meanwhile; start again.
CheckReplaced(t) ==
  /\ pc[t] = "check"
  /\ file # fd[t]
  /\ CloseFile(t)
  /\ Goto(t, "mkdir")
  /\ UNCHANGED <<blocking, depth, discard, file, dir, localVars>>

\* The end of the outermost with-block.
Unlock(t) ==
  /\ pc[t] = "held"
  /\ depth[t] = 1
  /\ discard[t] # "unlinked"
  /\ CloseFile(t)
  /\ discard' = [discard EXCEPT ![t] = "no"]
  /\ Goto(t, "unmutex")
  /\ UNCHANGED <<blocking, depth, file, dir, localVars>>

\* _discard_job_lock_dir(): rmtree unlinks the file the path names, then
\* removes the directory, which fails (and is ignored) when somebody has
\* created a new lock file meanwhile.  commit() and commit_failed() each do
\* this once, and a caller runs one of them at most once per acquisition.
DiscardUnlink(t) ==
  /\ pc[t] = "held"
  /\ discard[t] = "no"
  /\ file' = NoInode
  /\ discard' = [discard EXCEPT ![t] = "unlinked"]
  /\ UNCHANGED <<pc, blocking, depth, fd, dir, flock, localVars>>

DiscardRmdir(t) ==
  /\ discard[t] = "unlinked"
  /\ dir' = (dir /\ file # NoInode)
  /\ discard' = [discard EXCEPT ![t] = "done"]
  /\ UNCHANGED <<pc, blocking, depth, fd, file, flock, localVars>>

-----------------------------------------------------------------------------
\* A process dies: its descriptors are closed, so its flocks are released;
\* the lock file stays.
Crash(p) ==
  LET Dead == {t \in Thread : ProcOf[t] = p} IN
  /\ \E t \in Dead : pc[t] # "idle"
  /\ pc' = [t \in Thread |-> IF t \in Dead THEN "idle" ELSE pc[t]]
  /\ depth' = [t \in Thread |-> IF t \in Dead THEN 0 ELSE depth[t]]
  /\ discard' = [t \in Thread |-> IF t \in Dead THEN "no" ELSE discard[t]]
  /\ fd' = [t \in Thread |-> IF t \in Dead THEN NoInode ELSE fd[t]]
  /\ flock' = [i \in Inode |-> IF flock[i] \in Dead THEN NoThread ELSE flock[i]]
  /\ ref' = [t \in Thread |-> IF t \in Dead THEN NoEntry ELSE ref[t]]
  /\ mutex' = [e \in Entry |-> IF mutex[e] \in Dead THEN NoThread ELSE mutex[e]]
  /\ registry' = [registry EXCEPT ![p] = NoEntry]
  /\ UNCHANGED <<blocking, file, dir, users>>

Call(t) == \E b \in BOOLEAN : Register(t, b)

\* The steps operation_lock() takes by itself on the way in and on the way out.
Progress(t) ==
  \/ AcquireMutex(t) \/ MutexContended(t)
  \/ MakeDir(t) \/ OpenMissing(t) \/ OpenExisting(t) \/ OpenCreate(t)
  \/ LockFile(t) \/ FileContended(t) \/ CheckSame(t) \/ CheckReplaced(t)
  \/ ReleaseMutex(t) \/ Unregister(t)

\* What the body of the with-block does.
Body(t) ==
  \/ Reenter(t) \/ LeaveNested(t)
  \/ DiscardUnlink(t) \/ DiscardRmdir(t)
  \/ Unlock(t)

Next ==
  \/ \E t \in Thread : Call(t) \/ Progress(t) \/ Body(t)
  \/ \E p \in Process : Crash(p)

Spec == Init /\ [][Next]_vars

\* A thread inside operation_lock() is scheduled; nothing says that a caller
\* ever leaves its with-block.
FairSpec == Spec /\ \A t \in Thread : WF_vars(Progress(t))

-----------------------------------------------------------------------------
(* Properties.                                                             *)

\* t is inside the with-block and has not deleted the lock directory.
Owns(t) == pc[t] = "held" /\ discard[t] = "no"

\* Exclusion, what _locked_file()'s inode check is for: while lock files are
\* deleted and created again under waiting callers, no two callers are inside
\* the with-block unless one of them has already deleted the directory, which
\* commit() and commit_failed() do as their last act on the job.
MutualExclusion ==
  \A t, u \in Thread : Owns(t) /\ Owns(u) => t = u

\* Exclusion between threads of one process, what the registry of mutexes is
\* for: it holds even after the directory was deleted, although the registry
\* drops a mutex nobody uses and creates another for the next caller.
ProcessExclusion ==
  \A t, u \in Thread :
    /\ ProcOf[t] = ProcOf[u]
    /\ pc[t] \in {"mkdir", "open", "flock", "check", "held", "unmutex"}
    /\ pc[u] \in {"mkdir", "open", "flock", "check", "held", "unmutex"}
    => t = u

\* The reason _LOCAL_LOCKS counts users: once no thread of a process is in
\* operation_lock() the table holds no entry, whatever order the nested,
\* refused and crashed calls ended in.
NoRegistryLeak ==
  \A p \in Process :
    (\A t \in Thread : ProcOf[t] = p => pc[t] = "idle") => registry[p] = NoEntry

\* The lock implements JobMutex: the owner is the caller inside that has not
\* deleted the directory.
CurrentOwner == IF \E t \in Thread : Owns(t) THEN CHOOSE t \in Thread : Owns(t)
                                             ELSE NoThread
Mutex == INSTANCE JobMutex WITH owner <- CurrentOwner
ImplementsJobMutex == Mutex!Spec

\* claim() runs on the watcher's only poll thread, so a non-blocking call must
\* come back, with the lock or with LockContended, even if its holder never
\* leaves - as long as lock directories are not deleted under it for ever.
NonBlockingReturns ==
  <>[][\A t \in Thread : ~DiscardUnlink(t)]_vars =>
    \A t \in Thread :
      (pc[t] # "idle" /\ ~blocking[t]) ~> (pc[t] \in {"idle", "held"})
=============================================================================
