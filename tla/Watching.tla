------------------------------- MODULE Watching -------------------------------
(***************************************************************************)
(* Who may watch the drop folder, and when a file in it is ready:          *)
(* src/dlpduck/leader.py (a Kubernetes Lease, updated by conditional PUTs  *)
(* whose answers may be late or lost), src/dlpduck/watcher.py (polls that  *)
(* wait for a size to settle and for a companion) and the start and stop   *)
(* of the daemon in src/dlpduck/cli.py.  The flag is read once per poll,   *)
(* and a poll's ready files are claimed one after the other, so a replica  *)
(* may claim long after its lease has gone.  What a claim does with the    *)
(* bytes is IngestPipeline's; here it is the source and the companion.     *)
(***************************************************************************)
EXTENDS Integers, FiniteSets, FiniteSetsExt, Functions

CONSTANTS Replica,         \* pods with a watcher
          NoReplica,       \* nobody
          File,            \* names in the drop folder
          StabilityPolls,  \* source.stability_polls
          GracePolls,      \* source.metadata_grace_polls
          Duration,        \* cluster.lease_duration_seconds, in ticks
          FullSize,        \* writes a sender takes for a file
          MaxDrops,        \* bound: documents sent under one name
          MaxFaults        \* bound: crashes, signals, lost answers, failed claims,
                           \* missed deadlines

ASSUME ParameterAssumption ==
  /\ NoReplica \notin Replica
  /\ StabilityPolls \in Nat \ {0} /\ GracePolls \in Nat
  /\ Duration \in Nat \ {0} /\ FullSize \in Nat \ {0}
  /\ MaxDrops \in Nat \ {0} /\ MaxFaults \in Nat

VARIABLES lease,     \* the Lease: its holder, the age of renewTime
          leader,    \* _is_leader
          call,      \* the API call in flight of a replica
          up,        \* where the daemon is in its life
          folder,    \* the drop folder: a document's number, size, companion
          sent,      \* the documents whose companion was sent
          tracked,   \* Watcher._tracked
          ready,     \* what is left of the list discover_ready() returned
          work,      \* the claim in progress
          faults, late,
          quiet, orphan   \* history, read by properties only

leaseVars == <<lease, leader, call>>
folderVars == <<folder, sent>>
watchVars == <<tracked, ready, work>>
history == <<quiet, orphan>>
vars == <<lease, leader, call, up, folder, sent, tracked, ready, work, faults,
          late, quiet, orphan>>

Older(age) == IF age > Duration THEN age ELSE age + 1
Expired(age) == age > Duration
NoLease == [holder |-> NoReplica, age |-> Duration + 1]
NoCall == [kind |-> "none", age |-> 0, fresh |-> FALSE]
Untracked == [size |-> 0, stable |-> 0, grace |-> 0]
NoWork == [file |-> CHOOSE f \in File : TRUE, doc |-> 0, meta |-> FALSE, at |-> "idle"]
Running == {r \in Replica : up[r] # "down"}
Fault == faults < MaxFaults /\ faults' = faults + 1

Init ==
  /\ lease = NoLease
  /\ leader = [r \in Replica |-> FALSE]
  /\ call = [r \in Replica |-> NoCall]
  /\ up = [r \in Replica |-> "up"]
  /\ folder = [f \in File |-> [doc |-> 0, size |-> 0, companion |-> 0]]
  /\ sent = [f \in File |-> {}]
  /\ tracked = [r \in Replica |-> [f \in File |-> Untracked]]
  /\ ready = [r \in Replica |-> {}]
  /\ work = [r \in Replica |-> NoWork]
  /\ faults = 0 /\ late = FALSE
  /\ quiet = [f \in File |-> 0]
  /\ orphan = {}

-------------------------------------------------------------------------------
\* The drop folder's senders: a file is written in pieces, its companion
\* comes when it comes.

Drop(f) ==
  /\ folder[f].size = 0 /\ folder[f].doc < MaxDrops
  /\ folder' = [folder EXCEPT ![f].doc = @ + 1, ![f].size = 1]
  /\ quiet' = [quiet EXCEPT ![f] = 0]
  /\ UNCHANGED <<leaseVars, up, sent, watchVars, faults, late, orphan>>

Grow(f) ==
  /\ folder[f].size \in 1..(FullSize - 1)
  /\ folder' = [folder EXCEPT ![f].size = @ + 1]
  /\ quiet' = [quiet EXCEPT ![f] = IF @ >= StabilityPolls THEN @ ELSE 0]
  /\ UNCHANGED <<leaseVars, up, sent, watchVars, faults, late, orphan>>

\* Nobody waits for a companion any more once its document is on a list of
\* ready files without it, or gone; and the claim of an earlier document
\* takes whatever has the name.
Awaited(f, doc) ==
  /\ folder[f].doc = doc /\ folder[f].size > 0
  /\ \A r \in Replica :
       /\ \A e \in ready[r] : e.file = f => e.meta
       /\ work[r].at # "idle" => \/ work[r].file # f
                                 \/ work[r].doc = doc /\ work[r].meta

SendCompanion(f, doc) ==
  /\ doc \in 1..folder[f].doc \ sent[f]
  /\ sent' = [sent EXCEPT ![f] = @ \cup {doc}]
  /\ folder' = [folder EXCEPT ![f].companion = doc]
  /\ orphan' = IF Awaited(f, doc) THEN orphan ELSE orphan \cup {f}
  /\ UNCHANGED <<leaseVars, up, watchVars, faults, late, quiet>>

-------------------------------------------------------------------------------
\* KubernetesLeaseElection

\* _is_leader is set.  What a replica tracked stays while it stands by.
Lead(r, leads) == leader' = [leader EXCEPT ![r] = leads]

\* _tick(): GET, and what it decides to PUT with the version it has read
\* and the time it is now.
Decide(r) == IF lease = NoLease THEN "create"
             ELSE IF lease.holder = r THEN "renew"
             ELSE IF Expired(lease.age) THEN "take_over" ELSE "none"

\* The poll loop is between two polls, or has ended.
Unoccupied(r) == ready[r] = {} /\ work[r] = NoWork

Tick(r) ==
  /\ up[r] = "up" \/ (up[r] = "draining" /\ ~Unoccupied(r))
  /\ call[r] = NoCall
  /\ IF Decide(r) = "none"
     THEN leader[r] /\ Lead(r, FALSE) /\ call' = call
     ELSE /\ leader' = leader
          /\ call' = [call EXCEPT ![r] = [kind |-> Decide(r), age |-> 0, fresh |-> TRUE]]
  /\ UNCHANGED <<lease, up, folderVars, watchVars, faults, late, quiet, orphan>>

\* The API server accepts a PUT that names the current version, and a POST
\* of a Lease that does not exist; otherwise it answers 409.  Whatever
\* others have read before is no longer current.
\* Variant: without the version.
AcceptsAny(r) == TRUE
Accepts(r) == call[r].fresh

Serve(r) ==
  /\ lease' = IF ~Accepts(r) THEN lease
              ELSE [holder |-> IF call[r].kind = "release" THEN NoReplica ELSE r,
                    age |-> call[r].age]
  /\ call' = [s \in Replica |->
                IF s = r THEN NoCall
                ELSE IF call[s] = NoCall THEN NoCall
                ELSE [call[s] EXCEPT !.fresh = @ /\ ~Accepts(r)]]

\* _create(), _renew(), _take_over(): leader unless the answer is 409.
Put(r) ==
  /\ call[r].kind \in {"create", "renew", "take_over"}
  /\ Serve(r)
  /\ Lead(r, Accepts(r))
  /\ UNCHANGED <<up, folderVars, watchVars, faults, late, quiet, orphan>>

\* _run(): any exception, before the request arrived or after it was
\* carried out, and the replica stands down.
TickFails(r) ==
  /\ Fault
  /\ call[r].kind \in {"create", "renew", "take_over"}
  /\ \/ Serve(r)
     \/ call' = [call EXCEPT ![r] = NoCall] /\ lease' = lease
  /\ Lead(r, FALSE)
  /\ UNCHANGED <<up, folderVars, watchVars, late, quiet, orphan>>

\* Time.  A running holder renews, and a call is answered, before the lease
\* runs out, unless a deadline is missed.
Overdue == \/ lease.holder \in Running /\ lease.age = Duration
           \/ \E r \in Replica : call[r] # NoCall /\ call[r].age = Duration

Clock ==
  /\ lease # NoLease
  /\ IF Overdue THEN Fault /\ late' = TRUE ELSE UNCHANGED <<faults, late>>
  /\ lease' = [lease EXCEPT !.age = Older(@)]
  /\ call' = [r \in Replica |-> IF call[r] = NoCall THEN NoCall
                                ELSE [call[r] EXCEPT !.age = Older(@)]]
  /\ UNCHANGED <<leader, up, folderVars, watchVars, history>>
  /\ vars # vars'

-------------------------------------------------------------------------------
\* Watcher.discover_ready() of the replica that leads

\* Size tracking: the first sight of a size counts as one poll.
\* Variant: counts polls, whatever the size.
TrackPolls(t, size) == [t EXCEPT !.size = size,
                                 !.stable = IF @ < StabilityPolls THEN @ + 1 ELSE @]
Track(t, size) == IF t.size # size THEN [size |-> size, stable |-> 1, grace |-> 0]
                  ELSE [t EXCEPT !.stable = IF @ < StabilityPolls THEN @ + 1 ELSE @]
Stable(t) == t.stable >= StabilityPolls
HasCompanion(f) == folder[f].companion # 0
\* A stable file waits GracePolls polls more for a companion.
\* Variant: the polls are not counted.
WaitUncounted(f, t) == t
Wait(f, t) == IF Stable(t) /\ ~HasCompanion(f) THEN [t EXCEPT !.grace = @ + 1] ELSE t
IsReady(f, t) == Stable(t) /\ (HasCompanion(f) \/ t.grace > GracePolls)

Seen(r, f) == Wait(f, Track(tracked[r][f], folder[f].size))
Present == {f \in File : folder[f].size > 0}

\* What is returned is no longer tracked.
StillTracked(found) == Present \ found

Poll(r) ==
  /\ up[r] = "up" /\ leader[r]
  /\ Unoccupied(r)
  /\ LET found == {f \in Present : IsReady(f, Seen(r, f))}
     IN /\ ready' = [ready EXCEPT ![r] =
                       {[file |-> f, meta |-> HasCompanion(f)] : f \in found}]
        /\ tracked' = [tracked EXCEPT ![r] =
                         [f \in File |-> IF f \in StillTracked(found) THEN Seen(r, f) ELSE Untracked]]
  /\ quiet' = [f \in File |-> IF folder[f].size \in 1..(FullSize - 1) /\ quiet[f] < StabilityPolls
                              THEN quiet[f] + 1 ELSE quiet[f]]
  /\ UNCHANGED <<leaseVars, up, folderVars, work, faults, late, orphan>>

\* run_job() or stage(): the source is read; a name that is gone raises.
Read(r, e) ==
  /\ e \in ready[r] /\ work[r] = NoWork
  /\ ready' = [ready EXCEPT ![r] = @ \ {e}]
  /\ IF folder[e.file].size = 0 THEN work' = work
     ELSE work' = [work EXCEPT ![r] = [file |-> e.file, doc |-> folder[e.file].doc,
                                       meta |-> e.meta, at |-> "unlink"]]
  /\ UNCHANGED <<leaseVars, up, folderVars, tracked, faults, late, history>>

\* _unlink_if_same(): only the file that was read.
UnlinkSource(r) ==
  /\ work[r].at = "unlink"
  /\ LET f == work[r].file
     IN folder' = IF folder[f].doc = work[r].doc THEN [folder EXCEPT ![f].size = 0] ELSE folder
  /\ quiet' = [f \in File |-> IF folder'[f].size = 0 THEN 0 ELSE quiet[f]]
  /\ work' = [work EXCEPT ![r] = IF @.meta THEN [@ EXCEPT !.at = "companion"] ELSE NoWork]
  /\ UNCHANGED <<leaseVars, up, sent, tracked, ready, faults, late, orphan>>

\* The companion under the name found at discovery, whatever it is now.
\* Variant: it stays in the drop folder.
TakeCompanionCopy(r) ==
  /\ work[r].at = "companion"
  /\ work' = [work EXCEPT ![r] = NoWork]
  /\ UNCHANGED <<leaseVars, up, folderVars, tracked, ready, faults, late, history>>
TakeCompanion(r) ==
  /\ work[r].at = "companion"
  /\ folder' = [folder EXCEPT ![work[r].file].companion = 0]
  /\ work' = [work EXCEPT ![r] = NoWork]
  /\ UNCHANGED <<leaseVars, up, sent, tracked, ready, faults, late, history>>

\* An exception in a claim, before the source is removed or after it and
\* before the companion is: logged, and the next file is tried.
ClaimFails(r) ==
  /\ Fault
  /\ work[r].at # "idle"
  /\ work' = [work EXCEPT ![r] = NoWork]
  /\ orphan' = IF work[r].at = "companion" THEN orphan \cup {work[r].file} ELSE orphan
  /\ UNCHANGED <<leaseVars, up, folderVars, tracked, ready, late, quiet>>

-------------------------------------------------------------------------------
\* cli.run(): SIGTERM ends the watch loop after its list, then the election.

Signal(r) ==
  /\ Fault
  /\ up[r] = "up"
  /\ up' = [up EXCEPT ![r] = "draining"]
  /\ UNCHANGED <<leaseVars, folderVars, watchVars, late, history>>

\* The process and all it remembered are gone.
Ends(r) ==
  /\ up' = [up EXCEPT ![r] = "down"]
  /\ leader' = [leader EXCEPT ![r] = FALSE]
  /\ tracked' = [tracked EXCEPT ![r] = [f \in File |-> Untracked]]

\* stop(): the lease is given back when it is still ours.
\* Variant: while the watcher still has files to claim.
StopElectionEarly(r) ==
  /\ up[r] = "draining" /\ call[r] = NoCall
  /\ leader[r] /\ lease.holder = r
  /\ call' = [call EXCEPT ![r] = [kind |-> "release", age |-> 0, fresh |-> TRUE]]
  /\ up' = [up EXCEPT ![r] = "releasing"]
  /\ UNCHANGED <<lease, leader, tracked, folderVars, ready, work, faults, late, quiet,
                 orphan>>
StopElection(r) ==
  /\ up[r] = "draining" /\ Unoccupied(r) /\ call[r] = NoCall
  /\ IF leader[r] /\ lease.holder = r
     THEN /\ call' = [call EXCEPT ![r] = [NoCall EXCEPT !.kind = "release", !.fresh = TRUE]]
          /\ up' = [up EXCEPT ![r] = "releasing"]
          /\ UNCHANGED <<lease, leader, tracked>>
     ELSE Ends(r) /\ UNCHANGED <<lease, call>>
  /\ UNCHANGED <<folderVars, ready, work, faults, late, quiet, orphan>>

Released(r) ==
  /\ up[r] = "releasing"
  /\ Serve(r)
  /\ Ends(r)
  /\ UNCHANGED <<folderVars, ready, work, faults, late, quiet, orphan>>

Crash(r) ==
  /\ Fault
  /\ up[r] # "down"
  /\ Ends(r)
  /\ call' = [call EXCEPT ![r] = NoCall]
  /\ ready' = [ready EXCEPT ![r] = {}]
  /\ work' = [work EXCEPT ![r] = NoWork]
  /\ orphan' = IF work[r].at = "companion" THEN orphan \cup {work[r].file} ELSE orphan
  /\ UNCHANGED <<lease, folderVars, late, quiet>>

\* A new process under the same identity.
Start(r) ==
  /\ up[r] = "down"
  /\ up' = [up EXCEPT ![r] = "up"]
  /\ UNCHANGED <<leaseVars, folderVars, watchVars, faults, late, history>>

-------------------------------------------------------------------------------
Election(r) == Tick(r) \/ Put(r) \/ StopElection(r) \/ Released(r)
Claim(r) == (\E e \in ready[r] : Read(r, e)) \/ UnlinkSource(r) \/ TakeCompanion(r)

Next ==
  \/ \E f \in File : Drop(f) \/ Grow(f) \/ \E doc \in 1..MaxDrops : SendCompanion(f, doc)
  \/ \E r \in Replica : \/ Election(r) \/ TickFails(r)
                        \/ Poll(r) \/ Claim(r) \/ ClaimFails(r)
                        \/ Signal(r) \/ Crash(r) \/ Start(r)
  \/ Clock

\* The threads of a running daemon keep going, a stopped pod is started
\* again, time passes, and a sender finishes what it began.
Fairness == /\ \A r \in Replica : /\ WF_vars(Election(r)) /\ WF_vars(Poll(r))
                                  /\ WF_vars(Claim(r)) /\ WF_vars(Start(r))
            /\ \A f \in File : WF_vars(Grow(f))
            /\ WF_vars(Clock)
Spec == Init /\ [][Next]_vars /\ Fairness

-------------------------------------------------------------------------------
TypeOK ==
  /\ lease \in [holder : Replica \cup {NoReplica}, age : 0..(Duration + 1)]
  /\ leader \in [Replica -> BOOLEAN]
  /\ call \in [Replica -> [kind : {"none", "create", "renew", "take_over", "release"},
                           age : 0..(Duration + 1), fresh : BOOLEAN]]
  /\ up \in [Replica -> {"up", "draining", "releasing", "down"}]
  /\ folder \in [File -> [doc : 0..MaxDrops, size : 0..FullSize, companion : 0..MaxDrops]]
  /\ sent \in [File -> SUBSET (1..MaxDrops)]
  /\ tracked \in [Replica -> [File -> [size : 0..FullSize, stable : 0..StabilityPolls,
                                       grace : 0..GracePolls]]]
  /\ \A r \in Replica : /\ ready[r] \subseteq [file : File, meta : BOOLEAN]
                         /\ \A e \in ready[r] : tracked[r][e.file] = Untracked
  /\ work \in [Replica -> [file : File, doc : 0..MaxDrops, meta : BOOLEAN,
                           at : {"idle", "unlink", "companion"}]]
  /\ faults \in 0..MaxFaults /\ late \in BOOLEAN
  /\ quiet \in [File -> 0..StabilityPolls]
  /\ orphan \subseteq File

\* Two replicas lead only after a missed deadline, never through a race for
\* an expired lease, a lost answer, a late PUT, a shutdown or a restart: a
\* replica that believes it leads is the one the lease names.
LeaderHoldsLease ==
  \A r \in Replica : leader[r] => lease.holder = r \/ up[r] = "releasing" \/ late

\* "exactly one replica runs the drop-folder watch loop": two replicas are
\* in the middle of claims at once only after a missed deadline, also while
\* one of them shuts down.
OneClaimer == ~late => Cardinality({r \in Replica : ~Unoccupied(r)}) <= 1

\* The same without the exemption, as leader.py states it: nobody else is in
\* the middle of a watch loop's claims, whatever deadline was missed.
OneWatchLoop == Cardinality({r \in Replica : ~Unoccupied(r)}) <= 1

\* A document is read half-written only when its sender paused for
\* StabilityPolls polls, then or while the list was worked on, also when the
\* watcher stood by in between and kept the sizes it had tracked (unless a
\* deadline was missed and another replica claimed meanwhile).
HalfWrittenOnlyAfterPause ==
  [][\A r \in Replica :
       (work[r] = NoWork /\ work'[r] # NoWork /\ folder[work'[r].file].size < FullSize)
         => quiet[work'[r].file] >= StabilityPolls \/ late]_vars

\* A companion that came while its document was waited for goes with it,
\* and a document never gets the companion of another: unless a companion
\* came too late, or while the name was being claimed, or a claim crashed
\* or failed between the two, or two replicas claimed at once.
CompanionWithItsDocument ==
  [][\A r \in Replica :
       LET f == work[r].file
       IN (work[r] # NoWork /\ work'[r] = NoWork /\ faults' = faults /\ f \notin orphan /\ ~late)
            => (IF work[r].at = "companion" THEN folder[f].companion ELSE 0)
                 = (IF work[r].doc \in sent[f] THEN work[r].doc ELSE 0)]_vars

\* Every document dropped is taken from the folder, with or without a
\* companion, through crashes, restarts and changes of leader.
EventuallyTaken == \A f \in File : folder[f].size > 0 ~> folder[f].size = 0
===============================================================================
