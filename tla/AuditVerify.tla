------------------------------ MODULE AuditVerify ------------------------------
(***************************************************************************)
(* A run of verify() (src/dlpduck/audit.py) beside the audit trail it      *)
(* reads.  It holds no lock: it reads the checkpoint, then the names of    *)
(* the partition files, then one file after the other, while the           *)
(* processes of AuditTrail append, redact and trim.  A file is read in one *)
(* step.  AuditTrail's predicate Verified is the same verdict on the trail *)
(* as it stands at one moment.                                             *)
(***************************************************************************)
EXTENDS AuditTrail

VARIABLES reader,   \* the run of verify()
          sound     \* history: Verified has held at every moment since it began

allVars == <<vars, reader, sound>>

\* at: where it stands; last: prev_hash; left: the days whose file is still
\* to be read; broken: something is wrong so far; emptied, explained: the
\* redacted events, and those that an audit.redacted names.
Reader == [at : {"idle", "listing", "reading", "done", "raised"}, last : Nat,
           left : SUBSET Day, broken : BOOLEAN, emptied : SUBSET Nat, explained : SUBSET Nat]

InitVerify ==
  /\ Init
  /\ reader = [at |-> "idle", last |-> 0, left |-> {}, broken |-> FALSE,
               emptied |-> {}, explained |-> {}]
  /\ sound = TRUE

\* Variant: a verification that starts the chain at nothing.
StartVerifyFromNothing ==
  /\ reader.at = "idle"
  /\ reader' = [reader EXCEPT !.at = "listing"]
  /\ sound' = Verified
  /\ UNCHANGED vars

\* _read_checkpoint(): where the chain is expected to start.
StartVerify ==
  /\ reader.at = "idle"
  /\ reader' = [reader EXCEPT !.at = "listing", !.last = checkpoint.hash]
  /\ sound' = Verified
  /\ UNCHANGED vars

\* _partition_files()
ListPartitions ==
  /\ reader.at = "listing"
  /\ reader' = [reader EXCEPT !.left = {l.day : l \in log},
                              !.at = IF log = {} THEN "done" ELSE "reading"]
  /\ UNCHANGED <<vars, sound>>

\* The hash that line l of a file must name, when the file follows hash h.
Expected(l, lines, h) ==
  LET older == Older(l, Readable(lines)) IN IF older = {} THEN h ELSE Latest(older).at

\* The oldest file left, from its first line to its last.  open() raises
\* when retention has removed it since it was listed.
ReadPartition ==
  /\ reader.at = "reading"
  /\ LET d == Oldest(reader.left)
         lines == Partition(d)
         events == Readable(lines)
     IN reader' =
          IF lines = {} THEN [reader EXCEPT !.at = "raised"]
          ELSE [at |-> IF reader.left = {d} THEN "done" ELSE "reading",
                left |-> reader.left \ {d},
                last |-> IF events = {} THEN reader.last ELSE Latest(events).at,
                broken |-> \/ reader.broken
                           \/ events # lines
                           \/ \E l \in events : l.prev # Expected(l, lines, reader.last),
                emptied |-> reader.emptied \cup {l.seq : l \in {e \in events : e.redacted}},
                explained |-> reader.explained \cup
                              {l.target : l \in {e \in events : e.kind = "audit.redacted"}}]
  /\ UNCHANGED <<vars, sound>>

\* Any step of the trail before the run ends: what comes after it is what
\* comes in a behaviour without it.
TrailStep ==
  /\ reader.at \notin {"done", "raised"}
  /\ Next
  /\ sound' = (reader.at = "idle" \/ (sound /\ Verified'))
  /\ UNCHANGED reader

NextVerify == StartVerify \/ ListPartitions \/ ReadPartition \/ TrailStep

SpecVerify == InitVerify /\ [][NextVerify]_allVars

\* The verdict: a break, or an emptied event that nothing accounts for.
Alarm == reader.broken \/ ~(reader.emptied \subseteq reader.explained)

-------------------------------------------------------------------------------
ReaderTypeOK == reader \in Reader /\ sound \in BOOLEAN

\* verify() reads without the lock, but it reports a break only when a look
\* at the whole trail at some one moment of its run would have found one:
\* appends, midnights and new partitions, rewritten files and torn lines
\* that fall between two of its reads add none.
AlarmSeenAtSomeMoment == reader.at = "done" /\ sound => ~Alarm
===============================================================================
