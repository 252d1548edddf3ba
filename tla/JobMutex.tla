------------------------------ MODULE JobMutex ------------------------------
(***************************************************************************)
(* What operation_lock() (src/dlpduck/operations.py) promises its callers: *)
(* a mutual-exclusion lock.  A caller owns the lock from the moment its    *)
(* with-block is entered until it leaves the block or deletes the lock     *)
(* directory, whichever comes first; a crash of its process also ends it.  *)
(* OperationLock implements this specification; IngestPipeline uses it.    *)
(***************************************************************************)

CONSTANTS Thread,    \* the threads of all processes that share work_dir
          NoThread   \* nobody

VARIABLE owner       \* the thread that owns the lock

Init == owner = NoThread

Acquire(t) == /\ owner = NoThread
              /\ owner' = t

Release(t) == /\ owner = t
              /\ owner' = NoThread

Next == \E t \in Thread : Acquire(t) \/ Release(t)

Spec == Init /\ [][Next]_owner
=============================================================================
