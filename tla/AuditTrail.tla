------------------------------ MODULE AuditTrail ------------------------------
(***************************************************************************)
(* The hash-chained audit trail (src/dlpduck/audit.py) and the retention   *)
(* of its partitions (src/dlpduck/retention.py).  Several processes append *)
(* to one file per UTC day, each under a file lock and after reading the   *)
(* end of the trail again; an operator redacts an event in place; a        *)
(* retention run removes old partitions without holding the lock.  A write *)
(* may be cut short by a crash or a full disk, and any process may die     *)
(* between two steps.  A hash is the number of the write that computed it: *)
(* two events never share one, and the numbers order the lines.            *)
(***************************************************************************)
EXTENDS Integers, FiniteSets

CONSTANTS Proc,         \* threads and processes with an AuditLog over one directory
          NoProc,       \* nobody
          AuditDays,    \* the retention windows a run may be configured with
          MaxDay,       \* bound: the last UTC day
          MaxEvents,    \* bound: writes of a line
          MaxFaults     \* bound: writes cut short and processes that die

ASSUME ParameterAssumption ==
  /\ NoProc \notin Proc
  /\ AuditDays \subseteq Nat
  /\ MaxDay \in Nat /\ MaxEvents \in Nat /\ MaxFaults \in Nat

VARIABLES day,         \* the UTC day on every clock
          log,         \* the lines of all partition files
          dirs,        \* the days that have a partition directory
          checkpoint,  \* .chain_checkpoint.json
          lock,        \* the process that holds .write.lock
          fresh,       \* the number of writes so far: hashes up to it are used
          pc, tail, work, plan,    \* per process: see TypeOK
          faults, acked, torn, cut, hole    \* history, read by properties only

disk == <<day, log, dirs, checkpoint>>
history == <<faults, acked, torn, cut, hole>>
vars == <<day, log, dirs, checkpoint, lock, fresh, pc, tail, work, plan,
          faults, acked, torn, cut, hole>>

Day == 0..MaxDay
None == [seq |-> 0, hash |-> 0]
NoTail == [seq |-> 0, hash |-> 0, day |-> 0]
NoWork == [from |-> "idle", target |-> 0, body |-> {}, at |-> 0]

\* Where a process stands.  At "idle", "explain", "announce" and "conclude"
\* it is about to append the event Owed names.
Owed == [idle |-> "event", explain |-> "audit.redacted",
         announce |-> "retention.started", conclude |-> "retention.applied"]
After == [idle |-> "idle", explain |-> "idle",
          announce |-> "checkpoint", conclude |-> "idle"]
Places == DOMAIN Owed \cup {"writing", "rewriting", "checkpoint", "removing"}

Kinds == {Owed[p] : p \in DOMAIN Owed}
\* at is the number of the write: the place of the line in its file and
\* among the files, and the hash of the event.
Line == [at : Nat \ {0}, day : Day, kind : Kinds \cup {"unreadable"}, seq : Nat, prev : Nat,
         target : Nat, redacted : BOOLEAN, ended : BOOLEAN]

Readable(lines) == {l \in lines : l.kind # "unreadable"}
Partition(d) == {l \in log : l.day = d}
Older(l, lines) == {m \in lines : m.at < l.at}
Latest(lines) == CHOOSE l \in lines : \A m \in lines : m.at <= l.at

\* The last record among the lines that parses, else the checkpoint.
EndOf(lines) == IF Readable(lines) = {} THEN checkpoint
                ELSE [seq |-> Latest(Readable(lines)).seq, hash |-> Latest(Readable(lines)).at]

\* Variant: a resume that looks at the newest partition only.
ResumeNewestOnly == EndOf({l \in log : \A m \in log : m.day <= l.day})

\* The last record of all partitions that parses, else the checkpoint.
Resume == EndOf(log)

Init ==
  /\ day = 0 /\ log = {} /\ dirs = {} /\ checkpoint = None
  /\ lock = NoProc /\ fresh = 0
  /\ pc = [p \in Proc |-> "idle"]
  /\ tail = [p \in Proc |-> NoTail]
  /\ work = [p \in Proc |-> NoWork]
  /\ plan = [p \in Proc |-> {}]
  /\ faults = 0 /\ acked = {} /\ torn = 0 /\ cut = {} /\ hole = FALSE

Midnight == /\ day < MaxDay
            /\ day' = day + 1
            /\ UNCHANGED <<log, dirs, checkpoint, lock, fresh, pc, tail, work, plan, history>>

-------------------------------------------------------------------------------
\* append()

\* Variant: an append that reads the end of the trail without the lock.
StartAppendUnlocked(p) ==
  /\ pc[p] \in DOMAIN Owed
  /\ fresh < MaxEvents
  /\ tail' = [tail EXCEPT ![p] = [seq |-> Resume.seq, hash |-> Resume.hash, day |-> day]]
  /\ work' = [work EXCEPT ![p].from = pc[p]]
  /\ pc' = [pc EXCEPT ![p] = "writing"]
  /\ UNCHANGED <<disk, lock, fresh, plan, history>>

\* _appending(): take the file lock, read the end of the trail again, and
\* take the time the event will carry.
StartAppend(p) ==
  /\ pc[p] \in DOMAIN Owed
  /\ lock = NoProc
  /\ fresh < MaxEvents
  /\ lock' = p
  /\ tail' = [tail EXCEPT ![p] = [seq |-> Resume.seq, hash |-> Resume.hash, day |-> day]]
  /\ work' = [work EXCEPT ![p].from = pc[p]]
  /\ pc' = [pc EXCEPT ![p] = "writing"]
  /\ UNCHANGED <<disk, fresh, plan, history>>

NewLine(p) == [at |-> fresh + 1, day |-> tail[p].day, kind |-> Owed[work[p].from],
               seq |-> tail[p].seq + 1, prev |-> tail[p].hash, target |-> work[p].target,
               redacted |-> FALSE, ended |-> TRUE]
Garbled(line) == [line EXCEPT !.kind = "unreadable", !.seq = 0, !.prev = 0, !.target = 0]

\* The last line of a file, when its newline was not written.
Unended(d) == {l \in Partition(d) : ~l.ended /\ Latest(Partition(d)) = l}

\* O_APPEND onto the day's file: text that follows a line without its
\* newline becomes part of that line, which no longer parses.
Appended(line) ==
  LET open == Unended(line.day)
  IN IF open = {} THEN log \cup {line} ELSE (log \ open) \cup {Garbled(line)}

WriteLine(p) ==
  /\ pc[p] = "writing"
  /\ log' = Appended(NewLine(p))
  /\ fresh' = fresh + 1
  /\ dirs' = dirs \cup {tail[p].day}
  /\ acked' = acked \cup {fresh + 1}
  /\ lock' = NoProc
  /\ pc' = [pc EXCEPT ![p] = After[work[p].from]]
  /\ work' = [work EXCEPT ![p] = NoWork]
  /\ tail' = [tail EXCEPT ![p] = NoTail]
  /\ UNCHANGED <<day, checkpoint, plan, faults, torn, cut, hole>>

\* A crash or an error of the disk while the line is written: nothing of
\* it, a part, all but the newline, or all of it reached the file.  The
\* append raises or its process is gone; either way the flock is free.
CutWrite(p) ==
  /\ pc[p] = "writing"
  /\ faults < MaxFaults
  /\ \/ log' = log /\ dirs' \in {dirs, dirs \cup {tail[p].day}}
     \/ /\ LET line == NewLine(p)
           IN \E part \in {[Garbled(line) EXCEPT !.ended = FALSE],
                           [line EXCEPT !.ended = FALSE], line} : log' = Appended(part)
        /\ dirs' = dirs \cup {tail[p].day}
  /\ fresh' = fresh + 1
  /\ lock' = NoProc
  /\ pc' = [pc EXCEPT ![p] = "idle"]
  /\ faults' = faults + 1
  /\ torn' = torn + 1
  /\ cut' = IF work[p].from = "explain" THEN cut \cup {work[p].target} ELSE cut
  /\ work' = [work EXCEPT ![p] = NoWork]
  /\ plan' = [plan EXCEPT ![p] = {}]
  /\ tail' = [tail EXCEPT ![p] = NoTail]
  /\ UNCHANGED <<day, checkpoint, acked, hole>>

-------------------------------------------------------------------------------
\* redact()

\* Variant: a redaction recorded under the number of the line.
StartRedactByLine(p) ==
  /\ pc[p] = "idle"
  /\ lock = NoProc
  /\ \E l \in Readable(log) :
       LET body == Partition(l.day)
       IN work' = [work EXCEPT ![p] = [from |-> "rewriting", body |-> body, at |-> l.at,
                                       target |-> Cardinality(Older(l, body)) + 1]]
  /\ lock' = p
  /\ pc' = [pc EXCEPT ![p] = "rewriting"]
  /\ UNCHANGED <<disk, fresh, tail, plan, history>>

\* Under the lock: find the event and read its partition.
StartRedact(p) ==
  /\ pc[p] = "idle"
  /\ lock = NoProc
  /\ \E l \in Readable(log) :
       work' = [work EXCEPT ![p] = [from |-> "rewriting", body |-> Partition(l.day), at |-> l.at,
                                    target |-> l.seq]]
  /\ lock' = p
  /\ pc' = [pc EXCEPT ![p] = "rewriting"]
  /\ UNCHANGED <<disk, fresh, tail, plan, history>>

\* Variant: the lines joined without a final newline.
RewrittenUnended(body, at) ==
  {[l EXCEPT !.ended = \E m \in body : m.at > l.at, !.redacted = @ \/ l.at = at] : l \in body}

\* The partition as it is written back: the event emptied, its place in the
\* chain kept, every line ended.
Rewritten(body, at) ==
  {[l EXCEPT !.ended = TRUE, !.redacted = @ \/ l.at = at] : l \in body}

\* write_atomically() over the partition, then the lock is free; the event
\* that explains the redaction is still owed.  It raises when retention has
\* removed the directory.
Rewrite(p) ==
  /\ pc[p] = "rewriting"
  /\ \E l \in work[p].body :
       /\ l.at = work[p].at
       /\ IF l.day \in dirs
          THEN /\ log' = (log \ Partition(l.day)) \cup Rewritten(work[p].body, work[p].at)
               /\ pc' = [pc EXCEPT ![p] = "explain"]
               /\ work' = [work EXCEPT ![p].body = {}, ![p].at = 0, ![p].from = "idle"]
          ELSE /\ log' = log
               /\ pc' = [pc EXCEPT ![p] = "idle"]
               /\ work' = [work EXCEPT ![p] = NoWork]
  /\ lock' = NoProc
  /\ UNCHANGED <<day, dirs, checkpoint, fresh, tail, plan, history>>

-------------------------------------------------------------------------------
\* plan_retention() and apply_retention() for the audit store

Eligible(days) == {d \in dirs : d + days < day}

PlanRetention(p, days) ==
  /\ pc[p] = "idle"
  /\ Eligible(days) # {}
  /\ plan' = [plan EXCEPT ![p] = Eligible(days)]
  /\ pc' = [pc EXCEPT ![p] = "announce"]
  /\ UNCHANGED <<disk, lock, fresh, tail, work, history>>

Newest(days) == CHOOSE d \in days : \A e \in days : e <= d
Oldest(days) == CHOOSE d \in days : \A e \in days : d <= e

\* write_trim_checkpoint() for partition d: the last event in it that parses,
\* but never back behind an earlier trim.
Record(d) ==
  LET lines == Readable(Partition(d))
  IN /\ checkpoint' = IF lines # {} /\ checkpoint.seq < EndOf(lines).seq THEN EndOf(lines)
                      ELSE checkpoint
     /\ hole' = (hole \/ (lines = {} /\ d \in dirs))

\* Variant: a checkpoint taken from the oldest partition of the plan.
WriteCheckpointOldest(p) ==
  /\ pc[p] = "checkpoint"
  /\ Record(Oldest(plan[p]))
  /\ pc' = [pc EXCEPT ![p] = "removing"]
  /\ UNCHANGED <<day, log, dirs, lock, fresh, tail, work, plan, faults, acked, torn, cut>>

\* The checkpoint is taken from the newest partition about to go.
WriteCheckpoint(p) ==
  /\ pc[p] = "checkpoint"
  /\ Record(Newest(plan[p]))
  /\ pc' = [pc EXCEPT ![p] = "removing"]
  /\ UNCHANGED <<day, log, dirs, lock, fresh, tail, work, plan, faults, acked, torn, cut>>

\* shutil.rmtree() of the next partition of the plan; it raises when
\* another run has removed it.
RemovePartition(p) ==
  /\ pc[p] = "removing"
  /\ LET d == Oldest(plan[p])
     IN /\ log' = log \ Partition(d)
        /\ dirs' = dirs \ {d}
        /\ acked' = acked \ {l.at : l \in Readable(Partition(d))}
        /\ plan' = [plan EXCEPT ![p] = IF d \in dirs THEN @ \ {d} ELSE {}]
        /\ pc' = [pc EXCEPT ![p] = IF d \notin dirs THEN "idle"
                                   ELSE IF plan[p] = {d} THEN "conclude" ELSE @]
  /\ UNCHANGED <<day, checkpoint, lock, fresh, tail, work, faults, torn, cut, hole>>

\* The process dies, or a call raises, between two steps.
Stop(p) ==
  /\ pc[p] \notin {"idle", "writing"}
  /\ faults < MaxFaults
  /\ faults' = faults + 1
  /\ cut' = IF pc[p] = "explain" THEN cut \cup {work[p].target} ELSE cut
  /\ lock' = IF lock = p THEN NoProc ELSE lock
  /\ pc' = [pc EXCEPT ![p] = "idle"]
  /\ work' = [work EXCEPT ![p] = NoWork]
  /\ plan' = [plan EXCEPT ![p] = {}]
  /\ UNCHANGED <<disk, fresh, tail, acked, torn, hole>>

Next == \/ Midnight
        \/ \E p \in Proc : \/ StartAppend(p) \/ WriteLine(p) \/ CutWrite(p)
                           \/ Rewrite(p) \/ WriteCheckpoint(p) \/ RemovePartition(p)
                           \/ StartRedact(p) \/ Stop(p)
                           \/ \E days \in AuditDays : PlanRetention(p, days)

Spec == Init /\ [][Next]_vars

-------------------------------------------------------------------------------
\* verify() and events()

\* The hash of the record before l that parses, or else the checkpoint's.
Before(l) == EndOf(Older(l, log)).hash
Broken == {l \in Readable(log) : l.prev # Before(l)}
Explained == {r.target : r \in {l \in log : l.kind = "audit.redacted"}}
Unexplained == {l \in Readable(log) : l.redacted /\ l.seq \notin Explained}

\* What verify() says of the trail as it stands at one moment: nothing
\* unreadable, every link holds from the checkpoint on, every emptied event
\* has a record that says so.  The code reads checkpoint, file names and
\* files one after the other without the lock: see AuditVerify.
Verified == Readable(log) = log /\ Broken = {} /\ Unexplained = {}

Matching(first, last, before) ==
  {l \in Readable(log) : l.seq < before /\ l.day \in first..last}

\* events(): partitions from the newest down until limit events are in
\* hand, sorted by sequence number, cut to limit; the page as a set.
EventsPage(first, last, limit, before) ==
  LET matching == Matching(first, last, before)
      opened == {l \in matching : Cardinality({m \in matching : m.day > l.day}) < limit}
  IN {l \in opened : Cardinality({m \in opened : m.seq > l.seq}) < limit}

-------------------------------------------------------------------------------
TypeOK ==
  /\ day \in Day
  /\ log \subseteq Line /\ IsFiniteSet(log)
  /\ {l.day : l \in log} \subseteq dirs /\ dirs \subseteq 0..day
  /\ checkpoint \in [seq : Nat, hash : Nat]
  /\ lock \in Proc \cup {NoProc}
  /\ fresh \in 0..MaxEvents /\ \A l \in log : l.at <= fresh
  /\ pc \in [Proc -> Places]
  /\ \A p \in Proc : lock = p <=> pc[p] \in {"writing", "rewriting"}
  /\ tail \in [Proc -> [seq : Nat, hash : Nat, day : Day]]
  /\ work \in [Proc -> [from : DOMAIN Owed \cup {"rewriting"}, target : Nat,
                        body : SUBSET Line, at : Nat]]
  /\ \A p \in Proc : /\ pc[p] = "writing" => work[p].from \in DOMAIN Owed
                     /\ pc[p] = "rewriting" => \E l \in work[p].body : l.at = work[p].at
  /\ plan \in [Proc -> SUBSET Day]
  /\ \A p \in Proc : pc[p] \in {"announce", "checkpoint", "removing"} => plan[p] # {}
  /\ faults \in 0..MaxFaults /\ torn \in 0..faults
  /\ acked \subseteq 1..fresh /\ cut \subseteq Nat /\ hole \in BOOLEAN

\* Two processes over one directory, redactions and retention do not make
\* verify() fail: as long as nothing was cut short, and outside the windows
\* in which the checkpoint covers a partition that is still there or a
\* redaction has still to be explained, every event is readable, linked and
\* accounted for ("False alarms are worse than no alarm", audit.py:308).
NoFalseAlarm ==
  (/\ faults = 0
   /\ \A l \in Readable(log) : l.seq > checkpoint.seq
   /\ \A p \in Proc : /\ pc[p] # "explain"
                      /\ pc[p] = "writing" => work[p].from # "explain")
  => Verified

\* The chain starts at nothing, at the checkpoint, or at an event that the
\* checkpoint covers because a trim has not finished: retention never
\* leaves a gap at the front that the checkpoint does not explain, unless
\* the newest partition of its plan was there with nothing readable in it.
TrimExplained ==
  \A l \in Readable(log) :
    (~hole /\ Readable(Older(l, log)) = {})
    => l.prev \in {0, checkpoint.hash} \/ l.seq <= checkpoint.seq

\* An emptied event without a record of who emptied it is left by a
\* redaction under way, one that was interrupted, or one whose record was
\* merged with a torn line; and no record claims a removal that did not
\* happen (the order redact() chose), unless retention lost count of the
\* events and numbers were given out twice.
RedactionAccounted ==
  /\ \A l \in Unexplained : \/ l.seq \in cut
                            \/ torn > 0
                            \/ \E p \in Proc : work[p].target = l.seq
  /\ ~hole => \A l \in Readable(log) : l.seq \in Explained => l.redacted

\* An event whose append returned stays readable until retention removes its
\* partition, but for one event per write that was cut short.
LossBounded == Cardinality(acked \ {l.at : l \in Readable(log)}) <= torn

\* A page of events() is the newest events of the trail in the order they
\* were written, although it stops opening partitions early and sorts by
\* sequence number.
NewestOf(lines, limit) == {l \in lines : Cardinality({m \in lines : m.at > l.at}) < limit}
PageIsNewest ==
  \A limit \in 1..2, before \in {3, MaxEvents + 1}, last \in {day, day - 1} :
    EventsPage(0, last, limit, before) = NewestOf(Matching(0, last, before), limit)

\* The readable trail is a ledger: it grows at its end by events that name
\* their predecessor, and is trimmed at its front, up to the checkpoint.
L == INSTANCE Ledger WITH
       chain <- {[seq |-> l.seq, prev |-> l.prev, hash |-> l.at] : l \in Readable(log)},
       anchor <- checkpoint, gap <- hole
ImplementsLedger == L!Spec

\* "an unclean shutdown costs at most the record in flight"
\* (src/dlpduck/durability.py:3-4): an event whose append returned is
\* readable until retention removes it.
OnlyInFlightLost == acked \subseteq {l.at : l \in Readable(log)}
=============================================================================
