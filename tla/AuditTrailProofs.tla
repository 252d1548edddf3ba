-------------------------- MODULE AuditTrailProofs --------------------------
(***************************************************************************)
(* AuditTrail for any number of processes, days, events and faults: no     *)
(* false alarm, no unexplained trim, every redaction accounted for, one    *)
(* event lost per torn write, pages of the newest events, and the          *)
(* refinement of Ledger.                                                   *)
(*                                                                         *)
(* Base is the inductive invariant under all of them.  Typed adds to the   *)
(* types that a number is given to one line and that a redaction's copy of *)
(* its partition is still what is there; Ordered says that lines are       *)
(* written in the order of the days, Planned that a retention run has      *)
(* every partition older than one it plans to remove, and that nobody      *)
(* writes to those.  With these the chain of readable events stays Linked; *)
(* the checkpoint is in it or behind it (Sealed), a writer's tail is its   *)
(* end (Tails), and a removal takes nothing the checkpoint does not cover  *)
(* (Covered).  Front, Losses, Owing, Recorded, Whole and Accounted are     *)
(* inductive relative to Base, one per property.                           *)
(***************************************************************************)
EXTENDS AuditTrail, FiniteSetTheorems, WellFoundedInduction, TLAPS

\* A set of numbers has a least, and below a bound a greatest member.
LEMMA Least ==
  ASSUME NEW S \in SUBSET Nat, S # {}
  PROVE  \E x \in S : \A y \in S : x <= y
<1>1. PICK x \in S : \A y \in S : ~ (<<y, x>> \in OpToRel(<, Nat))
  BY NatLessThanWellFounded, WFMin, Zenon
<1>2. \A y \in S : ~ (y < x)
  BY <1>1, Zenon DEF OpToRel
<1>3. QED
  BY <1>2

LEMMA Greatest ==
  ASSUME NEW m \in Nat, NEW S \in SUBSET (0..m), S # {}
  PROVE  \E x \in S : \A y \in S : y <= x
<1> DEFINE Below == {m - x : x \in S}
<1>1. PICK b \in Below : \A c \in Below : b <= c
  <2>1. \A x \in S : m - x \in Nat
    OBVIOUS
  <2>2. Below \in SUBSET Nat /\ Below # {}
    BY <2>1
  <2> HIDE DEF Below
  <2> QED BY <2>2, Least
<1>2. PICK x \in S : b = m - x OBVIOUS
<1>3. \A y \in S : m - x <= m - y BY <1>1, <1>2
<1> QED BY <1>3

-----------------------------------------------------------------------------
(* Types.                                                                   *)

USE ParameterAssumption DEF ParameterAssumption

LEMMA Steps ==
  /\ DOMAIN Owed = {"idle", "explain", "announce", "conclude"}
  /\ Kinds = {"event", "audit.redacted", "retention.started", "retention.applied"}
  /\ \A from \in DOMAIN Owed : Owed[from] \in Kinds /\ After[from] \in Places
  /\ \A from \in DOMAIN Owed : Owed[from] = "audit.redacted" <=> from = "explain"
  /\ \A from \in DOMAIN Owed : After[from] \in {"idle", "checkpoint"}
  /\ \A from \in DOMAIN Owed : After[from] = "checkpoint" <=> from = "announce"
  /\ Places = DOMAIN Owed \cup {"writing", "rewriting", "checkpoint", "removing"}
<1>1. DOMAIN Owed = {"idle", "explain", "announce", "conclude"}
  BY DEF Owed
<1>2. Kinds = {"event", "audit.redacted", "retention.started", "retention.applied"}
  BY <1>1 DEF Kinds, Owed
<1>3. QED
  BY <1>1, <1>2 DEF Owed, After, Places

\* The events that parse.
Chain == Readable(log)

\* A number is given to one line.
Unique == \A l, m \in log : l.at = m.at => l = m

\* What a redaction has read of its partition is still what is there.
Bodies ==
  \A p \in Proc : pc[p] = "rewriting" =>
    \E l \in work[p].body :
      /\ l.at = work[p].at /\ l.seq = work[p].target /\ l.kind # "unreadable"
      /\ \A m \in work[p].body : m.at = l.at => m = l
      /\ l.day \in dirs => work[p].body = Partition(l.day)

\* A write that has begun has a number left for it and a day that has come.
Begun ==
  \A p \in Proc : pc[p] = "writing" =>
    fresh < MaxEvents /\ tail[p].day <= day /\ (work[p].from = "announce" => plan[p] # {})

Typed == TypeOK /\ Unique /\ Bodies /\ Begun

LEMMA LatestIsLast ==
  ASSUME Typed, NEW S \in SUBSET log, S # {}
  PROVE  Latest(S) \in S /\ \A m \in S : m.at <= Latest(S).at
<1> DEFINE ats == {l.at : l \in S}
<1>1. ats \in SUBSET (0..fresh) /\ ats # {} /\ fresh \in Nat
  BY DEF Typed, TypeOK, Line
<1>2. PICK n \in ats : \A k \in ats : k <= n
  <2> HIDE DEF ats
  <2>1. QED BY <1>1, Greatest
<1>3. \E l \in S : \A m \in S : m.at <= l.at
  BY <1>2
<1>4. QED
  BY <1>3 DEF Latest

LEMMA EndIsLast ==
  ASSUME Typed
  PROVE  /\ EndOf(log) \in [seq : Nat, hash : Nat]
         /\ Chain = {} => EndOf(log) = checkpoint
         /\ Chain # {} => \E l \in Chain : /\ EndOf(log) = [seq |-> l.seq, hash |-> l.at]
                                           /\ \A m \in Chain : m.at <= l.at
<1>1. Chain \in SUBSET log
  BY DEF Chain, Readable
<1>2. CASE Chain = {}
  BY <1>2 DEF EndOf, Chain, Typed, TypeOK
<1>3. CASE Chain # {}
  <2>1. Latest(Chain) \in Chain /\ \A m \in Chain : m.at <= Latest(Chain).at
    BY <1>1, <1>3, LatestIsLast
  <2>2. EndOf(log) = [seq |-> Latest(Chain).seq, hash |-> Latest(Chain).at]
    BY <1>3 DEF EndOf, Chain
  <2>3. Latest(Chain).seq \in Nat /\ Latest(Chain).at \in Nat
    BY <1>1, <2>1 DEF Typed, TypeOK, Line
  <2>4. QED
    BY <1>3, <2>1, <2>2, <2>3
<1>4. QED
  BY <1>2, <1>3

\* What may reach the file of a line that is being written.
Parts(p) == {NewLine(p), [NewLine(p) EXCEPT !.ended = FALSE],
             [Garbled(NewLine(p)) EXCEPT !.ended = FALSE]}

LEMMA PartFields ==
  ASSUME Typed, NEW p \in Proc, pc[p] = "writing", NEW part \in Parts(p)
  PROVE  /\ part \in Line /\ part.at = fresh + 1 /\ part.day = tail[p].day
         /\ part.redacted = FALSE /\ (part.ended => part = NewLine(p))
         /\ part.kind # "unreadable" =>
              /\ part.seq = tail[p].seq + 1 /\ part.prev = tail[p].hash
              /\ part.target = work[p].target /\ part.kind = Owed[work[p].from]
         /\ Garbled(part) \in Line /\ Garbled(part).at = fresh + 1
         /\ Garbled(part).day = tail[p].day /\ Garbled(part).kind = "unreadable"
         /\ Garbled(part).redacted = FALSE /\ Garbled(part).ended = part.ended
<1>1. /\ fresh \in Nat /\ tail[p] \in [seq : Nat, hash : Nat, day : Day]
      /\ work[p].from \in DOMAIN Owed /\ work[p].target \in Nat
  BY DEF Typed, TypeOK
<1>2. Owed[work[p].from] \in Kinds /\ Owed[work[p].from] # "unreadable"
  BY <1>1, Steps
<1>3. /\ NewLine(p) \in Line /\ NewLine(p).at = fresh + 1 /\ NewLine(p).day = tail[p].day
      /\ NewLine(p).kind = Owed[work[p].from] /\ NewLine(p).seq = tail[p].seq + 1
      /\ NewLine(p).prev = tail[p].hash /\ NewLine(p).target = work[p].target
      /\ NewLine(p).redacted = FALSE /\ NewLine(p).ended = TRUE
  BY <1>1, <1>2 DEF NewLine, Line
<1>4. ASSUME NEW l \in Line
      PROVE  /\ Garbled(l) \in Line /\ Garbled(l).at = l.at /\ Garbled(l).day = l.day
             /\ Garbled(l).kind = "unreadable" /\ Garbled(l).redacted = l.redacted
             /\ Garbled(l).ended = l.ended
  BY DEF Garbled, Line
<1>5. ASSUME NEW l \in Line
      PROVE  /\ [l EXCEPT !.ended = FALSE] \in Line /\ [l EXCEPT !.ended = FALSE].at = l.at
             /\ [l EXCEPT !.ended = FALSE].day = l.day /\ [l EXCEPT !.ended = FALSE].seq = l.seq
             /\ [l EXCEPT !.ended = FALSE].kind = l.kind
             /\ [l EXCEPT !.ended = FALSE].prev = l.prev
             /\ [l EXCEPT !.ended = FALSE].target = l.target
             /\ [l EXCEPT !.ended = FALSE].redacted = l.redacted
             /\ [l EXCEPT !.ended = FALSE].ended = FALSE
  BY DEF Line
<1>6. /\ part \in Line /\ part.at = fresh + 1 /\ part.day = tail[p].day
      /\ part.redacted = FALSE /\ (part.ended => part = NewLine(p))
      /\ part.kind # "unreadable" =>
              /\ part.seq = tail[p].seq + 1 /\ part.prev = tail[p].hash
              /\ part.target = work[p].target /\ part.kind = Owed[work[p].from]
  <2>1. CASE part = NewLine(p)
    BY <2>1, <1>3
  <2>2. CASE part = [NewLine(p) EXCEPT !.ended = FALSE]
    BY <2>2, <1>3, <1>5
  <2>3. CASE part = [Garbled(NewLine(p)) EXCEPT !.ended = FALSE]
    BY <2>3, <1>3, <1>4, <1>5
  <2>4. QED
    BY <2>1, <2>2, <2>3 DEF Parts
<1>7. QED
  BY <1>4, <1>6

\* An append adds a line, or garbles it with the unended line it follows.
LEMMA AppendCases ==
  ASSUME Typed, NEW p \in Proc, pc[p] = "writing", NEW part \in Parts(p)
  PROVE  \/ Appended(part) = log \cup {part}
         \/ \E u \in log :
              /\ ~u.ended /\ u.day = tail[p].day
              /\ \A m \in log : m.day = u.day => m.at <= u.at
              /\ Appended(part) = (log \ {u}) \cup {Garbled(part)}
<1>1. part.day = tail[p].day
  BY PartFields
<1> DEFINE lines == Partition(tail[p].day)
<1>2. CASE Unended(tail[p].day) = {}
  BY <1>1, <1>2 DEF Appended
<1>3. CASE Unended(tail[p].day) # {}
  <2>1. PICK u \in Unended(tail[p].day) : TRUE
    BY <1>3
  <2>2. u \in lines /\ ~u.ended /\ u = Latest(lines) /\ Unended(tail[p].day) = {u}
    BY <2>1 DEF Unended
  <2>3. lines \in SUBSET log
    BY DEF Partition
  <2>4. \A m \in lines : m.at <= u.at
    BY <2>2, <2>3, LatestIsLast
  <2>5. Appended(part) = (log \ {u}) \cup {Garbled(part)}
    BY <1>1, <1>3, <2>2 DEF Appended
  <2>6. u \in log /\ u.day = tail[p].day /\ \A m \in log : m.day = u.day => m.at <= u.at
    BY <2>2, <2>4 DEF Partition
  <2>7. QED
    BY <2>2, <2>5, <2>6
<1>4. QED
  BY <1>2, <1>3

LEMMA CutCases ==
  ASSUME Typed, NEW p \in Proc, CutWrite(p)
  PROVE  \/ log' = log /\ dirs' \in {dirs, dirs \cup {tail[p].day}}
         \/ /\ \E part \in Parts(p) : log' = Appended(part)
            /\ dirs' = dirs \cup {tail[p].day}
BY DEF CutWrite, Parts

\* A line of the trail as the redaction of line t leaves it.
Redone(l, t) == IF l.day # t.day THEN l
                ELSE [l EXCEPT !.ended = TRUE, !.redacted = @ \/ l.at = t.at]

\* A redaction that finds its directory rewrites the lines of one day.
LEMMA RewriteLines ==
  ASSUME Typed, NEW p \in Proc, Rewrite(p)
  PROVE  \/ log' = log /\ pc' = [pc EXCEPT ![p] = "idle"] /\ work' = [work EXCEPT ![p] = NoWork]
         \/ \E t \in log :
              /\ t.seq = work[p].target /\ t.kind # "unreadable" /\ t.day \in dirs
              /\ log' = {Redone(l, t) : l \in log}
              /\ pc' = [pc EXCEPT ![p] = "explain"]
              /\ work' = [work EXCEPT ![p].body = {}, ![p].at = 0, ![p].from = "idle"]
<1>1. pc[p] = "rewriting"
  BY DEF Rewrite
<1>2. PICK t \in work[p].body :
         /\ t.at = work[p].at /\ t.seq = work[p].target /\ t.kind # "unreadable"
         /\ \A m \in work[p].body : m.at = t.at => m = t
         /\ t.day \in dirs => work[p].body = Partition(t.day)
  BY <1>1 DEF Typed, Bodies
<1>3. PICK l \in work[p].body :
         /\ l.at = work[p].at
         /\ IF l.day \in dirs
            THEN /\ log' = (log \ Partition(l.day)) \cup Rewritten(work[p].body, work[p].at)
                 /\ pc' = [pc EXCEPT ![p] = "explain"]
                 /\ work' = [work EXCEPT ![p].body = {}, ![p].at = 0, ![p].from = "idle"]
            ELSE /\ log' = log
                 /\ pc' = [pc EXCEPT ![p] = "idle"]
                 /\ work' = [work EXCEPT ![p] = NoWork]
  BY DEF Rewrite
<1>4. l = t
  BY <1>2, <1>3
<1>5. CASE t.day \notin dirs
  BY <1>3, <1>4, <1>5
<1>6. CASE t.day \in dirs
  <2>1. t \in log /\ work[p].body = Partition(t.day)
    BY <1>2, <1>6 DEF Partition
  <2>2. log' = (log \ Partition(t.day)) \cup Rewritten(Partition(t.day), t.at)
    BY <1>2, <1>3, <1>4, <1>6, <2>1
  <2>3. log' = {Redone(k, t) : k \in log}
    BY <2>2, Zenon DEF Partition, Rewritten, Redone
  <2>4. QED
    BY <1>2, <1>3, <1>4, <1>6, <2>1, <2>3
<1>7. QED
  BY <1>5, <1>6

\* Nothing but an append changes the set of partitions' lines upwards.
LEMMA OneHolder ==
  ASSUME Typed, NEW p \in Proc, NEW q \in Proc,
         pc[p] \in {"writing", "rewriting"}, pc[q] \in {"writing", "rewriting"}
  PROVE  p = q
BY DEF Typed, TypeOK

LEMMA BoundedFinite ==
  ASSUME NEW S \in SUBSET Line, NEW n \in Nat, \A l \in S : l.at <= n,
         \A l, m \in S : l.at = m.at => l = m
  PROVE  IsFiniteSet(S)
<1> DEFINE f == [l \in S |-> l.at]
<1>1. f \in [S -> 1..n]
  BY DEF Line
<1>2. f \in Injection(S, 1..n)
  BY <1>1 DEF Injection, IsInjective
<1>3. IsFiniteSet(1..n)
  BY FS_Interval
<1>4. QED
  BY <1>2, <1>3, FS_Injection

WorkType == [from : DOMAIN Owed \cup {"rewriting"}, target : Nat, body : SUBSET Line, at : Nat]
TailType == [seq : Nat, hash : Nat, day : Day]

DiskOK ==
  /\ day \in Day
  /\ log \subseteq Line /\ IsFiniteSet(log)
  /\ {l.day : l \in log} \subseteq dirs /\ dirs \subseteq 0..day
  /\ checkpoint \in [seq : Nat, hash : Nat]
  /\ fresh \in 0..MaxEvents /\ \A l \in log : l.at <= fresh
  /\ faults \in 0..MaxFaults /\ torn \in 0..faults
  /\ acked \subseteq 1..fresh /\ cut \subseteq Nat /\ hole \in BOOLEAN

ProcOK ==
  /\ lock \in Proc \cup {NoProc}
  /\ pc \in [Proc -> Places] /\ tail \in [Proc -> TailType] /\ work \in [Proc -> WorkType]
  /\ plan \in [Proc -> SUBSET Day]
  /\ \A p \in Proc : lock = p <=> pc[p] \in {"writing", "rewriting"}
  /\ \A p \in Proc : /\ pc[p] = "writing" => work[p].from \in DOMAIN Owed
                     /\ pc[p] = "rewriting" => \E l \in work[p].body : l.at = work[p].at
  /\ \A p \in Proc : pc[p] \in {"announce", "checkpoint", "removing"} => plan[p] # {}

LEMMA TypeParts == TypeOK <=> DiskOK /\ ProcOK
<1>1. TypeOK => DiskOK
  BY DEF TypeOK, DiskOK
<1>2. TypeOK => ProcOK
  BY DEF TypeOK, ProcOK, WorkType, TailType
<1>3. DiskOK /\ ProcOK => TypeOK
  BY DEF TypeOK, DiskOK, ProcOK, WorkType, TailType
<1>4. QED
  BY <1>1, <1>2, <1>3

LEMMA TypedInit == Init => Typed
<1> SUFFICES ASSUME Init PROVE Typed
  OBVIOUS
<1>1. IsFiniteSet({})
  BY FS_EmptySet
<1>2. DiskOK
  <2>1. {l.day : l \in log} = {}
    BY DEF Init
  <2>2. log \subseteq Line /\ IsFiniteSet(log) /\ \A l \in log : l.at <= fresh
    BY <1>1 DEF Init
  <2>3. day \in Day /\ dirs \subseteq 0..day /\ checkpoint \in [seq : Nat, hash : Nat]
    BY DEF Init, Day, None
  <2>4. /\ fresh \in 0..MaxEvents /\ faults \in 0..MaxFaults /\ torn \in 0..faults
        /\ acked \subseteq 1..fresh /\ cut \subseteq Nat /\ hole \in BOOLEAN
    <3>1. fresh = 0 /\ faults = 0 /\ torn = 0 /\ acked = {} /\ cut = {} /\ hole = FALSE
      BY DEF Init
    <3>2. fresh \in 0..MaxEvents /\ faults \in 0..MaxFaults /\ torn \in 0..faults
      BY <3>1
    <3>3. acked \subseteq 1..fresh /\ cut \subseteq Nat
      BY <3>1
    <3>4. QED
      BY <3>1, <3>2, <3>3
  <2>5. QED
    BY <2>1, <2>2, <2>3, <2>4 DEF DiskOK
<1>3. NoWork \in WorkType /\ NoTail \in TailType /\ "idle" \in Places
  BY Steps DEF NoWork, NoTail, WorkType, TailType, Day
<1>4. ProcOK
  BY <1>3 DEF Init, ProcOK
<1>5. QED
  BY <1>2, <1>4, TypeParts DEF Init, Typed, Unique, Bodies, Begun

\* A process that goes on holds the lock just where it needs it.
LEMMA ProcKept ==
  ASSUME ProcOK, NEW p \in Proc, NEW place \in Places, NEW w \in WorkType,
         NEW t \in TailType, NEW d \in SUBSET Day,
         pc' = [pc EXCEPT ![p] = place], work' = [work EXCEPT ![p] = w],
         tail' = [tail EXCEPT ![p] = t], plan' = [plan EXCEPT ![p] = d],
         \/ place \notin {"writing", "rewriting"} /\ lock' = IF lock = p THEN NoProc ELSE lock
         \/ place \in {"writing", "rewriting"} /\ lock = NoProc /\ lock' = p,
         place = "writing" => w.from \in DOMAIN Owed,
         place = "rewriting" => \E l \in w.body : l.at = w.at,
         place \in {"announce", "checkpoint", "removing"} => d # {}
  PROVE  ProcOK'
<1>1. /\ pc' \in [Proc -> Places] /\ tail' \in [Proc -> TailType] /\ work' \in [Proc -> WorkType]
      /\ plan' \in [Proc -> SUBSET Day]
  BY DEF ProcOK
<1>2. \A q \in Proc : /\ pc'[q] = IF q = p THEN place ELSE pc[q]
                      /\ work'[q] = IF q = p THEN w ELSE work[q]
                      /\ plan'[q] = IF q = p THEN d ELSE plan[q]
  BY DEF ProcOK
<1>3. lock' \in Proc \cup {NoProc}
  BY DEF ProcOK
<1>4. ASSUME NEW q \in Proc PROVE lock' = q <=> pc'[q] \in {"writing", "rewriting"}
  BY <1>2 DEF ProcOK
<1>5. ASSUME NEW q \in Proc
      PROVE  /\ pc'[q] = "writing" => work'[q].from \in DOMAIN Owed
             /\ pc'[q] = "rewriting" => \E l \in work'[q].body : l.at = work'[q].at
             /\ pc'[q] \in {"announce", "checkpoint", "removing"} => plan'[q] # {}
  BY <1>2 DEF ProcOK
<1>6. QED
  BY <1>1, <1>3, <1>4, <1>5 DEF ProcOK

\* The invariant after a step that leaves the lines, the directories and
\* the holder of the lock as they are.
LEMMA SameLines ==
  ASSUME Typed, log' = log, dirs' = dirs, fresh' = fresh,
         day \in Nat, day' \in Nat, day <= day', ProcOK,
         \A q \in Proc : pc'[q] = "writing" =>
           pc[q] = "writing" /\ work'[q] = work[q] /\ tail'[q] = tail[q] /\ plan'[q] = plan[q],
         \A q \in Proc : pc'[q] = "rewriting" => pc[q] = "rewriting" /\ work'[q] = work[q]
  PROVE  (Unique /\ Bodies /\ Begun)'
<1>1. (Unique /\ Bodies)'
  BY DEF Typed, Unique, Bodies, Partition
<1>2. \A q \in Proc : tail[q].day \in Nat
  BY DEF ProcOK, TailType, Day
<1>3. Begun'
  BY <1>2 DEF Typed, Begun
<1>4. QED
  BY <1>1, <1>3

LEMMA Others ==
  ASSUME ProcOK, NEW p \in Proc
  PROVE  /\ [pc EXCEPT ![p] = pc[p]] = pc /\ [work EXCEPT ![p] = work[p]] = work
         /\ [tail EXCEPT ![p] = tail[p]] = tail /\ [plan EXCEPT ![p] = plan[p]] = plan
         /\ pc[p] \in Places /\ work[p] \in WorkType /\ tail[p] \in TailType
         /\ plan[p] \in SUBSET Day
         /\ NoWork \in WorkType /\ NoTail \in TailType
BY Steps DEF ProcOK, NoWork, NoTail, WorkType, TailType, Day

LEMMA TypedMidnight == ASSUME Typed, Midnight PROVE Typed'
<1>1. DiskOK'
  BY TypeParts DEF Typed, DiskOK, Midnight, history, Day
<1>2. ProcOK'
  BY TypeParts DEF Typed, ProcOK, Midnight
<1>3. (Unique /\ Bodies /\ Begun)'
  BY TypeParts, SameLines DEF Typed, DiskOK, Day, Midnight
<1>4. TypeOK'
  BY <1>1, <1>2, TypeParts, PTL
<1>5. QED
  BY <1>3, <1>4 DEF Typed

LEMMA TypedStartAppend == ASSUME Typed, NEW p \in Proc, StartAppend(p) PROVE Typed'
<1> DEFINE t == [seq |-> Resume.seq, hash |-> Resume.hash, day |-> day]
           w == [work[p] EXCEPT !.from = pc[p]]
<1>1. DiskOK /\ ProcOK
  BY TypeParts DEF Typed
<1>2. DiskOK'
  BY <1>1 DEF DiskOK, StartAppend, disk, history
<1>3. t \in TailType
  BY <1>1, EndIsLast DEF Resume, TailType, DiskOK
<1>4. w \in WorkType /\ w.from \in DOMAIN Owed
  BY <1>1 DEF ProcOK, WorkType, StartAppend
<1>5. /\ pc' = [pc EXCEPT ![p] = "writing"] /\ work' = [work EXCEPT ![p] = w]
      /\ tail' = [tail EXCEPT ![p] = t] /\ plan' = [plan EXCEPT ![p] = plan[p]]
      /\ lock = NoProc /\ lock' = p
  BY <1>1, Others DEF StartAppend
<1>6. "writing" \in Places /\ plan[p] \in SUBSET Day
  BY <1>1, Steps, Others
<1> HIDE DEF t, w
<1>7. ProcOK'
  BY <1>1, <1>3, <1>4, <1>5, <1>6, ProcKept
<1>8. UNCHANGED <<log, dirs, fresh>> /\ fresh < MaxEvents
  BY DEF StartAppend, disk
<1>9. \A q \in Proc : pc'[q] = "rewriting" => pc[q] = "rewriting" /\ work'[q] = work[q]
  BY <1>1, <1>5 DEF ProcOK
<1>10. (Unique /\ Bodies)'
  BY <1>8, <1>9 DEF Typed, Unique, Bodies, Partition
<1>11. Begun'
  <2>1. \A q \in Proc : pc'[q] = "writing" => q = p
    BY <1>5, <1>7 DEF ProcOK
  <2>2. tail'[p].day = day /\ day' = day /\ work'[p].from = pc[p] /\ plan'[p] = plan[p]
    BY <1>1, <1>4, <1>5 DEF ProcOK, StartAppend, disk, t, w, WorkType
  <2>3. pc[p] = "announce" => plan[p] # {}
    BY <1>1 DEF ProcOK
  <2>4. day \in Nat
    BY <1>1 DEF DiskOK, Day
  <2>5. QED
    BY <1>8, <2>1, <2>2, <2>3, <2>4 DEF Begun
<1>12. TypeOK'
  BY <1>2, <1>7, TypeParts, PTL
<1>13. QED
  BY <1>10, <1>11, <1>12 DEF Typed

LEMMA TypedPlanRetention ==
  ASSUME Typed, NEW p \in Proc, NEW days \in AuditDays, PlanRetention(p, days) PROVE Typed'
<1>1. DiskOK /\ ProcOK
  BY TypeParts DEF Typed
<1>2. DiskOK'
  BY <1>1 DEF DiskOK, PlanRetention, disk, history
<1>3. Eligible(days) \in SUBSET Day /\ Eligible(days) # {}
  <2>1. Eligible(days) \subseteq dirs
    BY DEF Eligible
  <2>2. dirs \subseteq Day
    BY <1>1 DEF DiskOK, Day
  <2>3. QED
    BY <2>1, <2>2 DEF PlanRetention
<1>4. /\ pc' = [pc EXCEPT ![p] = "announce"] /\ work' = [work EXCEPT ![p] = work[p]]
      /\ tail' = [tail EXCEPT ![p] = tail[p]] /\ plan' = [plan EXCEPT ![p] = Eligible(days)]
      /\ lock' = lock /\ lock # p
  BY <1>1, Others DEF PlanRetention, ProcOK
<1>5. "announce" \in Places /\ tail[p] \in TailType /\ work[p] \in WorkType
  BY <1>1, Steps, Others
<1>6. ProcOK'
  BY <1>1, <1>3, <1>4, <1>5, ProcKept
<1>7. (Unique /\ Bodies /\ Begun)'
  BY <1>1, SameLines DEF PlanRetention, disk, DiskOK, ProcOK, Day
<1>8. TypeOK'
  BY <1>2, <1>6, TypeParts, PTL
<1>9. QED
  BY <1>7, <1>8 DEF Typed

LEMMA TypedStop == ASSUME Typed, NEW p \in Proc, Stop(p) PROVE Typed'
<1>1. DiskOK /\ ProcOK
  BY TypeParts DEF Typed
<1>2. DiskOK'
  <2>1. work[p].target \in Nat
    BY <1>1 DEF ProcOK, WorkType
  <2>2. UNCHANGED <<day, log, dirs, checkpoint, fresh, acked, torn, hole>>
    BY DEF Stop, disk
  <2>3. faults' \in 0..MaxFaults /\ torn \in 0..faults'
    <3>1. faults' = faults + 1 /\ faults < MaxFaults
      BY DEF Stop
    <3>2. faults \in 0..MaxFaults /\ torn \in 0..faults
      BY <1>1 DEF DiskOK
    <3>3. QED
      BY <3>1, <3>2
  <2>4. cut' \subseteq Nat
    BY <1>1, <2>1 DEF Stop, DiskOK
  <2>5. QED
    BY <1>1, <2>2, <2>3, <2>4 DEF DiskOK
<1>3. /\ pc' = [pc EXCEPT ![p] = "idle"] /\ work' = [work EXCEPT ![p] = NoWork]
      /\ tail' = [tail EXCEPT ![p] = tail[p]] /\ plan' = [plan EXCEPT ![p] = {}]
      /\ lock' = IF lock = p THEN NoProc ELSE lock
  BY <1>1, Others DEF Stop
<1>4. "idle" \in Places /\ tail[p] \in TailType /\ NoWork \in WorkType /\ {} \in SUBSET Day
  BY <1>1, Steps, Others
<1>5. ProcOK'
  BY <1>1, <1>3, <1>4, ProcKept
<1>6. (Unique /\ Bodies /\ Begun)'
  BY <1>1, SameLines DEF Stop, disk, DiskOK, ProcOK, Day
<1>7. TypeOK'
  BY <1>2, <1>5, TypeParts, PTL
<1>8. QED
  BY <1>6, <1>7 DEF Typed

LEMMA TypedWriteCheckpoint == ASSUME Typed, NEW p \in Proc, WriteCheckpoint(p) PROVE Typed'
<1>1. DiskOK /\ ProcOK
  BY TypeParts DEF Typed
<1> DEFINE lines == Readable(Partition(Newest(plan[p])))
<1>2. EndOf(lines) \in [seq : Nat, hash : Nat]
  <2>1. lines \in SUBSET log
    BY DEF Readable, Partition
  <2>2. CASE lines = {}
    BY <1>1, <2>2 DEF EndOf, Readable, DiskOK
  <2>3. CASE lines # {}
    <3>1. Latest(lines) \in Line
      BY <1>1, <2>1, <2>3, LatestIsLast DEF DiskOK
    <3>2. Readable(lines) = lines
      BY DEF Readable
    <3>3. QED
      BY <2>3, <3>1, <3>2 DEF EndOf, Line
  <2>4. QED
    BY <2>2, <2>3
<1>3. checkpoint' \in [seq : Nat, hash : Nat] /\ hole' \in BOOLEAN
  BY <1>1, <1>2 DEF WriteCheckpoint, Record, DiskOK
<1>4. UNCHANGED <<day, log, dirs, lock, fresh, tail, work, plan, faults, acked, torn, cut>>
  BY DEF WriteCheckpoint
<1>5. DiskOK'
  BY <1>1, <1>3, <1>4 DEF DiskOK
<1>6. /\ pc' = [pc EXCEPT ![p] = "removing"] /\ work' = [work EXCEPT ![p] = work[p]]
      /\ tail' = [tail EXCEPT ![p] = tail[p]] /\ plan' = [plan EXCEPT ![p] = plan[p]]
      /\ lock' = lock /\ lock # p /\ plan[p] # {}
  BY <1>1, Others DEF WriteCheckpoint, ProcOK
<1>7. /\ "removing" \in Places /\ tail[p] \in TailType /\ work[p] \in WorkType
      /\ plan[p] \in SUBSET Day
  BY <1>1, Steps, Others
<1>8. ProcOK'
  BY <1>1, <1>6, <1>7, ProcKept
<1>9. (Unique /\ Bodies /\ Begun)'
  BY <1>1, <1>4, SameLines DEF WriteCheckpoint, DiskOK, ProcOK, Day
<1>10. TypeOK'
  BY <1>5, <1>8, TypeParts, PTL
<1>11. QED
  BY <1>9, <1>10 DEF Typed

LEMMA TypedStartRedact == ASSUME Typed, NEW p \in Proc, StartRedact(p) PROVE Typed'
<1>1. DiskOK /\ ProcOK
  BY TypeParts DEF Typed
<1>2. DiskOK'
  BY <1>1 DEF DiskOK, StartRedact, disk, history
<1>3. PICK l \in Readable(log) :
        work' = [work EXCEPT ![p] = [from |-> "rewriting", body |-> Partition(l.day), at |-> l.at,
                                     target |-> l.seq]]
  BY DEF StartRedact
<1> DEFINE w == [from |-> "rewriting", body |-> Partition(l.day), at |-> l.at, target |-> l.seq]
<1>4. l \in log /\ l \in Line /\ l.kind # "unreadable"
  BY <1>1 DEF Readable, DiskOK
<1>5. Partition(l.day) \subseteq log /\ Partition(l.day) \subseteq Line /\ l \in Partition(l.day)
  BY <1>1, <1>4 DEF Partition, DiskOK
<1>6. w \in WorkType /\ w.at = l.at /\ w.body = Partition(l.day) /\ w.target = l.seq
  BY <1>4, <1>5 DEF WorkType, Line
<1>7. /\ pc' = [pc EXCEPT ![p] = "rewriting"] /\ work' = [work EXCEPT ![p] = w]
      /\ tail' = [tail EXCEPT ![p] = tail[p]] /\ plan' = [plan EXCEPT ![p] = plan[p]]
      /\ lock = NoProc /\ lock' = p
  BY <1>1, <1>3, Others DEF StartRedact
<1>8. "rewriting" \in Places /\ plan[p] \in SUBSET Day /\ tail[p] \in TailType
  BY <1>1, Steps, Others
<1> HIDE DEF w
<1>9. ProcOK'
  BY <1>1, <1>5, <1>6, <1>7, <1>8, ProcKept
<1>10. UNCHANGED <<log, dirs, fresh>>
  BY DEF StartRedact, disk
<1>11. Bodies'
  <2>1. ASSUME NEW q \in Proc, pc'[q] = "rewriting"
        PROVE  q = p /\ work'[q] = w
    <3>1. q = p
      BY <1>7, <1>9, <2>1 DEF ProcOK
    <3>2. QED
      BY <1>1, <1>7, <3>1 DEF ProcOK
  <2>2. \A m \in w.body : m.at = l.at => m = l
    BY <1>4, <1>5, <1>6 DEF Typed, Unique
  <2>3. Partition(l.day)' = Partition(l.day)
    BY <1>10 DEF Partition
  <2>4. QED
    BY <1>4, <1>5, <1>6, <2>1, <2>2, <2>3 DEF Bodies, Partition
<1>12. (Unique /\ Begun)'
  BY <1>1, <1>7, <1>10 DEF Typed, Unique, Begun, ProcOK
<1>13. TypeOK'
  BY <1>2, <1>9, TypeParts, PTL
<1>14. QED
  BY <1>11, <1>12, <1>13 DEF Typed

LEMMA TypedRemovePartition == ASSUME Typed, NEW p \in Proc, RemovePartition(p) PROVE Typed'
<1>1. DiskOK /\ ProcOK
  BY TypeParts DEF Typed
<1> DEFINE d == Oldest(plan[p])
<1>2. log' = log \ Partition(d) /\ dirs' = dirs \ {d} /\ acked' \subseteq acked
  BY DEF RemovePartition
<1>3. UNCHANGED <<day, checkpoint, lock, fresh, tail, work, faults, torn, cut, hole>>
  BY DEF RemovePartition
<1>4. DiskOK'
  <2>1. log' \subseteq log /\ IsFiniteSet(log')
    BY <1>1, <1>2, FS_Subset DEF DiskOK
  <2>2. {l.day : l \in log'} \subseteq dirs' /\ dirs' \subseteq 0..day'
    BY <1>1, <1>2, <1>3 DEF DiskOK, Partition
  <2>3. QED
    BY <1>1, <1>2, <1>3, <2>1, <2>2 DEF DiskOK
<1>5. PICK place \in {"idle", "conclude", "removing"}, s \in SUBSET plan[p] :
        /\ pc' = [pc EXCEPT ![p] = place] /\ plan' = [plan EXCEPT ![p] = s]
        /\ place = "removing" => s # {}
  <2>1. /\ plan' = [plan EXCEPT ![p] = IF d \in dirs THEN plan[p] \ {d} ELSE {}]
        /\ pc' = [pc EXCEPT ![p] = IF d \notin dirs THEN "idle"
                                   ELSE IF plan[p] = {d} THEN "conclude" ELSE "removing"]
        /\ plan[p] # {}
    BY <1>1 DEF RemovePartition, ProcOK
  <2>2. CASE d \notin dirs
    BY <2>1, <2>2
  <2>3. CASE d \in dirs /\ plan[p] = {d}
    BY <2>1, <2>3
  <2>4. CASE d \in dirs /\ plan[p] # {d}
    <3>1. plan[p] \ {d} # {} /\ plan[p] \ {d} \in SUBSET plan[p]
      BY <2>1, <2>4
    <3>2. /\ plan' = [plan EXCEPT ![p] = plan[p] \ {d}]
          /\ pc' = [pc EXCEPT ![p] = "removing"]
      BY <2>1, <2>4
    <3>3. QED
      BY <3>1, <3>2
  <2>5. QED
    BY <2>2, <2>3, <2>4
<1>6. /\ work' = [work EXCEPT ![p] = work[p]] /\ tail' = [tail EXCEPT ![p] = tail[p]]
      /\ lock' = lock /\ lock # p
  BY <1>1, <1>3, Others DEF RemovePartition, ProcOK
<1>7. /\ place \in Places /\ s \in SUBSET Day /\ tail[p] \in TailType
      /\ work[p] \in WorkType
  BY <1>1, Steps, Others
<1>8. ProcOK'
  BY <1>1, <1>5, <1>6, <1>7, ProcKept
<1>9. (Unique /\ Begun)'
  BY <1>1, <1>2, <1>3, <1>5 DEF Typed, Unique, Begun, ProcOK
<1>10. Bodies'
  <2> SUFFICES ASSUME NEW q \in Proc, pc'[q] = "rewriting"
               PROVE  \E l \in work'[q].body :
                        /\ l.at = work'[q].at /\ l.seq = work'[q].target /\ l.kind # "unreadable"
                        /\ \A m \in work'[q].body : m.at = l.at => m = l
                        /\ l.day \in dirs' => work'[q].body = Partition(l.day)'
    BY DEF Bodies
  <2>1. pc[q] = "rewriting" /\ work'[q] = work[q]
    BY <1>1, <1>3, <1>5 DEF ProcOK
  <2>2. PICK l \in work[q].body :
      /\ l.at = work[q].at /\ l.seq = work[q].target /\ l.kind # "unreadable"
      /\ \A m \in work[q].body : m.at = l.at => m = l
      /\ l.day \in dirs => work[q].body = Partition(l.day)
    BY <2>1 DEF Typed, Bodies
  <2>3. l.day \in dirs' => l.day \in dirs /\ Partition(l.day)' = Partition(l.day)
    BY <1>2 DEF Partition
  <2>4. QED
    BY <2>1, <2>2, <2>3
<1>11. TypeOK'
  BY <1>4, <1>8, TypeParts, PTL
<1>12. QED
  BY <1>9, <1>10, <1>11 DEF Typed

\* Whoever writes has the lock, so no redaction is under way, and the new
\* number is above all others.
LEMMA TypedGrown ==
  ASSUME Typed, NEW p \in Proc, pc[p] = "writing", NEW part \in Parts(p),
         \/ log' = log \cup {part}
         \/ \E u \in log : log' = (log \ {u}) \cup {Garbled(part)}
         \/ log' = log,
         fresh' = fresh + 1
  PROVE  /\ log' \subseteq Line /\ IsFiniteSet(log') /\ fresh' \in 0..MaxEvents
         /\ \A l \in log' : l.at <= fresh'
         /\ {l.day : l \in log'} \subseteq dirs \cup {tail[p].day}
         /\ Unique'
<1>1. DiskOK
  BY TypeParts DEF Typed
<1>2. /\ part \in Line /\ part.at = fresh + 1 /\ part.day = tail[p].day
      /\ Garbled(part) \in Line /\ Garbled(part).at = fresh + 1 /\ Garbled(part).day = tail[p].day
  BY PartFields
<1>3. PICK new \in {part, Garbled(part)} : log' \subseteq log \cup {new}
  BY Zenon
<1>4. new \in Line /\ new.at = fresh + 1 /\ new.day = tail[p].day
  BY <1>2
<1>5. log' \subseteq Line /\ {l.day : l \in log'} \subseteq dirs \cup {tail[p].day}
  BY <1>1, <1>3, <1>4 DEF DiskOK
<1>6. fresh \in Nat /\ fresh < MaxEvents
  BY <1>1 DEF DiskOK, Typed, Begun
<1>7. \A l \in log : l.at <= fresh /\ l.at \in Nat
  BY <1>1 DEF DiskOK, Line
<1>8. \A l \in log' : l.at <= fresh'
  BY <1>3, <1>4, <1>6, <1>7
<1>9. Unique'
  BY <1>3, <1>4, <1>6, <1>7 DEF Typed, Unique
<1>10. IsFiniteSet(log \cup {new})
  BY <1>1, FS_AddElement DEF DiskOK
<1>11. IsFiniteSet(log')
  BY <1>3, <1>10, FS_Subset
<1>12. QED
  BY <1>5, <1>6, <1>8, <1>9, <1>11

LEMMA NobodyRewrites ==
  ASSUME Typed, NEW p \in Proc, pc[p] = "writing", NEW place \in {"idle", "checkpoint"},
         pc' = [pc EXCEPT ![p] = place]
  PROVE  /\ \A q \in Proc : pc'[q] \notin {"writing", "rewriting"}
         /\ Bodies' /\ Begun'
<1>1. ProcOK
  BY TypeParts DEF Typed
<1>2. ASSUME NEW q \in Proc PROVE pc'[q] \notin {"writing", "rewriting"}
  BY <1>1, OneHolder DEF ProcOK
<1>3. QED
  BY <1>2 DEF Bodies, Begun

LEMMA TypedWriteLine == ASSUME Typed, NEW p \in Proc, WriteLine(p) PROVE Typed'
<1>1. DiskOK /\ ProcOK /\ pc[p] = "writing"
  BY TypeParts DEF Typed, WriteLine
<1>2. NewLine(p) \in Parts(p)
  BY DEF Parts
<1>3. /\ log' = Appended(NewLine(p)) /\ fresh' = fresh + 1 /\ dirs' = dirs \cup {tail[p].day}
      /\ acked' = acked \cup {fresh + 1}
      /\ UNCHANGED <<day, checkpoint, plan, faults, torn, cut, hole>>
  BY DEF WriteLine
<1>4. \/ log' = log \cup {NewLine(p)}
      \/ \E u \in log : log' = (log \ {u}) \cup {Garbled(NewLine(p))}
  BY <1>1, <1>2, <1>3, AppendCases
<1>5. /\ log' \subseteq Line /\ IsFiniteSet(log') /\ fresh' \in 0..MaxEvents
      /\ \A l \in log' : l.at <= fresh'
      /\ {l.day : l \in log'} \subseteq dirs \cup {tail[p].day}
      /\ Unique'
  BY <1>1, <1>2, <1>3, <1>4, TypedGrown
<1>6. tail[p].day \in 0..day
  BY <1>1 DEF Typed, Begun, DiskOK, ProcOK, TailType, Day
<1>7. DiskOK'
  <2>1. dirs' \subseteq 0..day' /\ day' \in Day /\ checkpoint' \in [seq : Nat, hash : Nat]
    BY <1>1, <1>3, <1>6 DEF DiskOK
  <2>2. acked' \subseteq 1..fresh'
    BY <1>1, <1>3 DEF DiskOK
  <2>3. faults' \in 0..MaxFaults /\ torn' \in 0..faults' /\ cut' \subseteq Nat /\ hole' \in BOOLEAN
    BY <1>1, <1>3 DEF DiskOK
  <2>4. QED
    BY <1>3, <1>5, <2>1, <2>2, <2>3 DEF DiskOK
<1>8. PICK place \in {"idle", "checkpoint"} :
        /\ pc' = [pc EXCEPT ![p] = place]
        /\ place = "checkpoint" <=> work[p].from = "announce"
  <2>1. work[p].from \in DOMAIN Owed /\ pc' = [pc EXCEPT ![p] = After[work[p].from]]
    BY <1>1 DEF WriteLine, ProcOK
  <2>2. /\ After[work[p].from] \in {"idle", "checkpoint"}
        /\ After[work[p].from] = "checkpoint" <=> work[p].from = "announce"
    BY <2>1, Steps
  <2>3. QED
    BY <2>1, <2>2
<1>9. place = "checkpoint" => plan[p] # {}
  BY <1>1, <1>8 DEF Typed, Begun
<1>10. /\ work' = [work EXCEPT ![p] = NoWork] /\ tail' = [tail EXCEPT ![p] = NoTail]
       /\ plan' = [plan EXCEPT ![p] = plan[p]] /\ lock' = NoProc /\ lock = p
  BY <1>1, Others DEF WriteLine, ProcOK
<1>11. /\ place \in Places /\ NoTail \in TailType /\ NoWork \in WorkType
       /\ plan[p] \in SUBSET Day
  BY <1>1, Steps, Others
<1>12. ProcOK'
  BY <1>1, <1>8, <1>9, <1>10, <1>11, ProcKept
<1>13. Bodies' /\ Begun'
  BY <1>1, <1>8, NobodyRewrites
<1>14. TypeOK'
  BY <1>7, <1>12, TypeParts, PTL
<1>15. QED
  BY <1>5, <1>13, <1>14 DEF Typed

LEMMA TypedCutWrite == ASSUME Typed, NEW p \in Proc, CutWrite(p) PROVE Typed'
<1>1. DiskOK /\ ProcOK /\ pc[p] = "writing"
  BY TypeParts DEF Typed, CutWrite
<1>2. /\ fresh' = fresh + 1 /\ faults' = faults + 1 /\ torn' = torn + 1
      /\ faults < MaxFaults /\ UNCHANGED <<day, checkpoint, acked, hole>>
      /\ cut' \in {cut, cut \cup {work[p].target}}
  BY DEF CutWrite
<1>3. \/ log' = log /\ dirs' \in {dirs, dirs \cup {tail[p].day}}
      \/ /\ \E part \in Parts(p) : log' = Appended(part)
         /\ dirs' = dirs \cup {tail[p].day}
  BY CutCases
<1>4. \E part \in Parts(p) :
        \/ log' = log
        \/ log' = log \cup {part}
        \/ \E u \in log : log' = (log \ {u}) \cup {Garbled(part)}
  <2>1. NewLine(p) \in Parts(p)
    BY DEF Parts
  <2>2. CASE log' = log
    BY <2>1, <2>2
  <2>3. CASE log' # log
    <3>1. PICK part \in Parts(p) : log' = Appended(part)
      BY <1>3, <2>3
    <3>2. \/ log' = log \cup {part}
          \/ \E u \in log : log' = (log \ {u}) \cup {Garbled(part)}
      BY <1>1, <3>1, AppendCases
    <3>3. QED
      BY <3>2
  <2>4. QED
    BY <2>2, <2>3
<1>5. /\ log' \subseteq Line /\ IsFiniteSet(log') /\ fresh' \in 0..MaxEvents
      /\ \A l \in log' : l.at <= fresh'
      /\ {l.day : l \in log'} \subseteq dirs \cup {tail[p].day}
      /\ Unique'
  BY <1>1, <1>2, <1>4, TypedGrown
<1>6. tail[p].day \in 0..day
  BY <1>1 DEF Typed, Begun, DiskOK, ProcOK, TailType, Day
<1>7. DiskOK'
  <2>1. dirs' \subseteq 0..day' /\ day' \in Day /\ checkpoint' \in [seq : Nat, hash : Nat]
    BY <1>1, <1>2, <1>3, <1>6 DEF DiskOK
  <2>2. acked' \subseteq 1..fresh'
    BY <1>1, <1>2 DEF DiskOK
  <2>3. faults' \in 0..MaxFaults /\ torn' \in 0..faults'
    BY <1>1, <1>2 DEF DiskOK
  <2>4. cut' \subseteq Nat /\ hole' \in BOOLEAN
    BY <1>1, <1>2 DEF DiskOK, ProcOK, WorkType
  <2>5. {l.day : l \in log'} \subseteq dirs'
    BY <1>1, <1>3, <1>5 DEF DiskOK
  <2>6. QED
    BY <1>5, <2>1, <2>2, <2>3, <2>4, <2>5 DEF DiskOK
<1>8. /\ pc' = [pc EXCEPT ![p] = "idle"] /\ work' = [work EXCEPT ![p] = NoWork]
      /\ tail' = [tail EXCEPT ![p] = NoTail] /\ plan' = [plan EXCEPT ![p] = {}]
      /\ lock' = NoProc /\ lock = p
  BY <1>1 DEF CutWrite, ProcOK
<1>9. /\ "idle" \in Places /\ NoTail \in TailType /\ NoWork \in WorkType /\ {} \in SUBSET Day
  BY <1>1, Steps, Others
<1>10. ProcOK'
  BY <1>1, <1>8, <1>9, ProcKept
<1>11. Bodies' /\ Begun'
  BY <1>1, <1>8, NobodyRewrites
<1>12. TypeOK'
  BY <1>7, <1>10, TypeParts, PTL
<1>13. QED
  BY <1>5, <1>11, <1>12 DEF Typed

\* Of a rewritten line nothing changes but the two flags.
Alike(m, l) == /\ m.at = l.at /\ m.day = l.day /\ m.kind = l.kind /\ m.seq = l.seq
               /\ m.prev = l.prev /\ m.target = l.target

LEMMA RedoneIsAlike ==
  ASSUME NEW l \in Line, NEW t \in Line
  PROVE  /\ Redone(l, t) \in Line /\ Alike(Redone(l, t), l)
         /\ Redone(l, t).redacted <=> l.redacted \/ (l.at = t.at /\ l.day = t.day)
         /\ Redone(l, t).ended <=> l.ended \/ l.day = t.day
<1>1. CASE l.day # t.day
  BY <1>1 DEF Line, Redone, Alike
<1>2. CASE l.day = t.day
  <2>1. (l.redacted \/ l.at = t.at) \in BOOLEAN
    BY DEF Line
  <2>2. Redone(l, t) = [l EXCEPT !.ended = TRUE, !.redacted = (l.redacted \/ l.at = t.at)]
    BY <1>2 DEF Redone
  <2>3. QED
    BY <1>2, <2>1, <2>2 DEF Line, Alike
<1>3. QED
  BY <1>1, <1>2

LEMMA RewriteKeeps ==
  ASSUME Typed, NEW t \in log, log' = {Redone(l, t) : l \in log}
  PROVE  /\ \A m \in log' : \E l \in log :
              /\ m = Redone(l, t) /\ m \in Line /\ Alike(m, l)
              /\ (m.redacted <=> l.redacted \/ l = t) /\ (m.ended <=> l.ended \/ l.day = t.day)
         /\ \A l \in log : \E m \in log' :
              /\ m = Redone(l, t) /\ m \in Line /\ Alike(m, l)
              /\ (m.redacted <=> l.redacted \/ l = t) /\ (m.ended <=> l.ended \/ l.day = t.day)
<1>1. log \in SUBSET Line /\ t \in Line
  BY DEF Typed, TypeOK
<1>2. \A l \in log : (l.at = t.at /\ l.day = t.day) <=> l = t
  BY DEF Typed, Unique
<1>3. \A l \in log :
         /\ Redone(l, t) \in Line /\ Alike(Redone(l, t), l)
         /\ Redone(l, t).redacted <=> l.redacted \/ l = t
         /\ Redone(l, t).ended <=> l.ended \/ l.day = t.day
  BY <1>1, <1>2, RedoneIsAlike
<1>4. QED
  BY <1>3

\* What the proofs about the chain need of it.
LEMMA RedoneLines ==
  ASSUME Typed, NEW t \in log, log' = {Redone(l, t) : l \in log}
  PROVE  /\ \A m \in log' : \E l \in log :
              /\ Alike(m, l) /\ (m.redacted <=> l.redacted \/ l = t)
         /\ \A l \in log : \E m \in log' :
              /\ Alike(m, l) /\ (l.redacted \/ l = t => m.redacted)
              /\ (l.ended \/ l = t => m.ended)
<1>1. ASSUME NEW m \in log'
      PROVE  \E l \in log : Alike(m, l) /\ (m.redacted <=> l.redacted \/ l = t)
  <2>1. PICK l \in log : /\ m = Redone(l, t) /\ m \in Line /\ Alike(m, l)
                         /\ (m.redacted <=> l.redacted \/ l = t)
    BY <1>1, RewriteKeeps
  <2>2. QED
    BY <2>1
<1>2. ASSUME NEW l \in log
      PROVE  \E m \in log' : /\ Alike(m, l) /\ (l.redacted \/ l = t => m.redacted)
                             /\ (l.ended \/ l = t => m.ended)
  <2>1. PICK m \in log' : /\ m = Redone(l, t) /\ m \in Line /\ Alike(m, l)
                          /\ (m.redacted <=> l.redacted \/ l = t)
                          /\ (m.ended <=> l.ended \/ l.day = t.day)
    BY <1>2, RewriteKeeps
  <2>2. QED
    BY <2>1
<1>3. QED
  BY <1>1, <1>2

LEMMA TypedRewrite == ASSUME Typed, NEW p \in Proc, Rewrite(p) PROVE Typed'
<1>1. DiskOK /\ ProcOK /\ pc[p] = "rewriting"
  BY TypeParts DEF Typed, Rewrite
<1>2. /\ UNCHANGED <<day, dirs, checkpoint, fresh, tail, plan, history>> /\ lock' = NoProc
      /\ lock = p
  BY <1>1 DEF Rewrite, ProcOK
<1>3. PICK place \in {"idle", "explain"}, w \in WorkType :
        pc' = [pc EXCEPT ![p] = place] /\ work' = [work EXCEPT ![p] = w]
  <2>1. /\ NoWork \in WorkType
        /\ [work[p] EXCEPT !.body = {}, !.at = 0, !.from = "idle"] \in WorkType
    <3>1. work[p] \in WorkType /\ NoWork \in WorkType
      BY <1>1, Others
    <3>2. "idle" \in DOMAIN Owed \cup {"rewriting"} /\ {} \in SUBSET Line /\ 0 \in Nat
      BY Steps
    <3>3. QED
      BY <3>1, <3>2 DEF WorkType
  <2>2. CASE pc' = [pc EXCEPT ![p] = "idle"] /\ work' = [work EXCEPT ![p] = NoWork]
    BY <2>1, <2>2
  <2>3. CASE /\ pc' = [pc EXCEPT ![p] = "explain"]
             /\ work' = [work EXCEPT ![p].body = {}, ![p].at = 0, ![p].from = "idle"]
    <3>1. work' = [work EXCEPT ![p] = [work[p] EXCEPT !.body = {}, !.at = 0, !.from = "idle"]]
      BY <1>1, <2>3 DEF ProcOK, WorkType
    <3>2. QED
      BY <2>1, <2>3, <3>1
  <2>4. QED
    BY <2>2, <2>3, RewriteLines
<1>4. /\ tail' = [tail EXCEPT ![p] = tail[p]] /\ plan' = [plan EXCEPT ![p] = plan[p]]
      /\ place \in Places /\ tail[p] \in TailType /\ plan[p] \in SUBSET Day
  BY <1>1, <1>2, Steps, Others
<1>5. ProcOK'
  BY <1>1, <1>2, <1>3, <1>4, ProcKept
<1>6. /\ log' \subseteq Line /\ \A m \in log' : \E l \in log : m.at = l.at /\ m.day = l.day
      /\ Unique'
  <2>1. CASE log' = log
    BY <1>1, <2>1 DEF Typed, Unique, DiskOK
  <2>2. ASSUME NEW t \in log, log' = {Redone(l, t) : l \in log}
        PROVE  /\ log' \subseteq Line /\ \A m \in log' : \E l \in log : m.at = l.at /\ m.day = l.day
               /\ Unique'
    <3>1. \A m \in log' : \E l \in log : m = Redone(l, t) /\ m \in Line /\ Alike(m, l)
      BY <2>2, RewriteKeeps
    <3>2. \A m, n \in log' : m.at = n.at => m = n
      BY <3>1 DEF Alike, Typed, Unique
    <3>3. QED
      BY <3>1, <3>2 DEF Alike, Unique
  <2>3. QED
    BY <2>1, <2>2, RewriteLines
<1>7. DiskOK'
  <2>1. fresh \in Nat /\ \A l \in log' : l.at <= fresh
    BY <1>1, <1>6 DEF DiskOK
  <2>2. IsFiniteSet(log')
    BY <1>6, <2>1, BoundedFinite DEF Unique
  <2>3. {l.day : l \in log'} \subseteq dirs
    BY <1>1, <1>6 DEF DiskOK
  <2>4. QED
    BY <1>1, <1>2, <1>6, <2>1, <2>2, <2>3 DEF DiskOK, history
<1>8. \A q \in Proc : pc'[q] \notin {"writing", "rewriting"}
  BY <1>1, <1>3, OneHolder DEF ProcOK
<1>9. Bodies' /\ Begun'
  BY <1>8 DEF Bodies, Begun
<1>10. TypeOK'
  BY <1>5, <1>7, TypeParts, PTL
<1>11. QED
  BY <1>6, <1>9, <1>10 DEF Typed

LEMMA TypedStep == ASSUME Typed, Next PROVE Typed'
<1>1. CASE Midnight
  BY <1>1, TypedMidnight
<1>2. ASSUME NEW p \in Proc, StartAppend(p) \/ WriteLine(p) \/ CutWrite(p) PROVE Typed'
  BY <1>2, TypedStartAppend, TypedWriteLine, TypedCutWrite
<1>3. ASSUME NEW p \in Proc, Rewrite(p) \/ WriteCheckpoint(p) \/ RemovePartition(p) PROVE Typed'
  BY <1>3, TypedRewrite, TypedWriteCheckpoint, TypedRemovePartition
<1>4. ASSUME NEW p \in Proc, StartRedact(p) \/ Stop(p) PROVE Typed'
  BY <1>4, TypedStartRedact, TypedStop
<1>5. ASSUME NEW p \in Proc, NEW days \in AuditDays, PlanRetention(p, days) PROVE Typed'
  BY <1>5, TypedPlanRetention
<1>6. QED
  BY <1>1, <1>2, <1>3, <1>4, <1>5 DEF Next

LEMMA TypedStutter == ASSUME Typed, UNCHANGED vars PROVE Typed'
<1>1. (DiskOK /\ ProcOK)'
  BY TypeParts DEF Typed, DiskOK, ProcOK, vars, history
<1>2. TypeOK'
  BY <1>1, TypeParts, PTL
<1>3. (Unique /\ Bodies /\ Begun)'
  BY DEF Typed, Unique, Bodies, Begun, Partition, vars
<1>4. QED
  BY <1>2, <1>3 DEF Typed

\* Types hold, numbers are unique, and a redaction under the lock works on
\* the lines that are in its partition (append() and redact(), audit.py).
THEOREM TypedAlways == Spec => []Typed
<1>1. Init => Typed
  BY TypedInit
<1>2. Typed /\ [Next]_vars => Typed'
  BY TypedStep, TypedStutter
<1>3. QED
  BY <1>1, <1>2, PTL DEF Spec

\* Every variable keeps its type, the lock is held by exactly the process that
\* is between taking and releasing it, and every line has a directory.
THEOREM TypeCorrect == Spec => []TypeOK
<1>1. Typed => TypeOK
  BY DEF Typed
<1>2. QED
  BY <1>1, TypedAlways, PTL

-----------------------------------------------------------------------------
(* The order of the lines.                                                  *)

\* The steps that matter alike: the end of an append, and those that leave
\* alone whoever is writing.
Write(p) == WriteLine(p) \/ CutWrite(p)
Quiet(p) == \/ StartRedact(p) \/ Rewrite(p) \/ WriteCheckpoint(p) \/ RemovePartition(p) \/ Stop(p)
            \/ \E days \in AuditDays : PlanRetention(p, days)

LEMMA NextSteps ==
  Next <=> Midnight \/ \E p \in Proc : StartAppend(p) \/ Write(p) \/ Quiet(p)
BY DEF Next, Write, Quiet

LEMMA Wrote ==
  ASSUME Typed, NEW p \in Proc, Write(p)
  PROVE  /\ pc[p] = "writing" /\ \A q \in Proc : pc'[q] \notin {"writing", "rewriting"}
         /\ UNCHANGED <<day, checkpoint, hole>>
         /\ \A q \in Proc : q # p => /\ pc'[q] = pc[q] /\ work'[q] = work[q]
                                     /\ plan'[q] = plan[q]
         /\ plan'[p] \in {plan[p], {}}
         /\ pc'[p] = "idle" \/ (pc'[p] = "checkpoint" /\ work[p].from = "announce")
         /\ work'[p] = NoWork
         /\ dirs \subseteq dirs' /\ dirs' \subseteq dirs \cup {tail[p].day}
         /\ \/ log' = log
            \/ \E part \in Parts(p) :
                 \/ log' = log \cup {part}
                 \/ \E u \in log : /\ ~u.ended /\ u.day = tail[p].day
                                   /\ \A m \in log : m.day = u.day => m.at <= u.at
                                   /\ log' = (log \ {u}) \cup {Garbled(part)}
<1>1. ProcOK /\ pc[p] = "writing"
  BY TypeParts DEF Typed, Write, WriteLine, CutWrite
<1>2. PICK place \in {"idle", "checkpoint"}, s \in {plan[p], {}} :
        /\ pc' = [pc EXCEPT ![p] = place] /\ (place = "checkpoint" => work[p].from = "announce")
        /\ plan' = [plan EXCEPT ![p] = s]
        /\ work' = [work EXCEPT ![p] = NoWork]
  <2>1. CASE WriteLine(p)
    BY <1>1, <2>1, Steps, Others DEF WriteLine, ProcOK
  <2>2. CASE CutWrite(p)
    BY <2>2 DEF CutWrite
  <2>3. QED
    BY <2>1, <2>2 DEF Write
<1>3. /\ \A q \in Proc : q # p => /\ pc'[q] = pc[q] /\ work'[q] = work[q]
                                  /\ plan'[q] = plan[q]
      /\ pc'[p] = place /\ plan'[p] = s /\ work'[p] = NoWork
  BY <1>1, <1>2 DEF ProcOK
<1>4. \A q \in Proc : pc'[q] \notin {"writing", "rewriting"}
  BY <1>1, <1>2, NobodyRewrites
<1>5. UNCHANGED <<day, checkpoint, hole>>
  BY DEF Write, WriteLine, CutWrite
<1>6. dirs \subseteq dirs' /\ dirs' \subseteq dirs \cup {tail[p].day}
  BY CutCases DEF Write, WriteLine
<1>7. log' = log \/ \E part \in Parts(p) : log' = Appended(part)
  BY CutCases DEF Write, WriteLine, Parts
<1>8. QED
  BY <1>1, <1>2, <1>3, <1>4, <1>5, <1>6, <1>7, AppendCases

LEMMA WroteLines ==
  ASSUME Typed, NEW p \in Proc, Write(p)
  PROVE  \A l \in log' : l \in log \/ (l.at = fresh + 1 /\ l.day = tail[p].day /\ ~l.redacted)
<1>1. CASE log' = log
  BY <1>1
<1>2. CASE log' # log
  <2>1. PICK part \in Parts(p) : \/ log' = log \cup {part}
                                 \/ \E u \in log : log' = (log \ {u}) \cup {Garbled(part)}
    BY <1>2, Wrote
  <2>2. pc[p] = "writing"
    BY Wrote
  <2>3. /\ part.at = fresh + 1 /\ part.day = tail[p].day /\ part.redacted = FALSE
        /\ Garbled(part).at = fresh + 1 /\ Garbled(part).day = tail[p].day
        /\ Garbled(part).redacted = FALSE
    BY <2>2, PartFields
  <2>4. QED
    BY <2>1, <2>3
<1>3. QED
  BY <1>1, <1>2

LEMMA Quietly ==
  ASSUME Typed, NEW p \in Proc, Quiet(p)
  PROVE  /\ UNCHANGED <<day, fresh, tail>> /\ dirs' \subseteq dirs
         /\ \A q \in Proc : pc'[q] = "writing" => /\ pc[q] = "writing" /\ work'[q] = work[q]
                                                  /\ plan'[q] = plan[q]
         /\ \/ log' = log /\ dirs' = dirs
            \/ /\ dirs' = dirs /\ pc[p] = "rewriting"
               /\ \E t \in log : t.kind # "unreadable" /\ log' = {Redone(l, t) : l \in log}
            \/ /\ pc[p] = "removing" /\ dirs' = dirs \ {Oldest(plan[p])}
               /\ log' = log \ Partition(Oldest(plan[p]))
<1>1. ProcOK
  BY TypeParts DEF Typed
<1>2. UNCHANGED <<day, fresh, tail>>
  BY DEF Quiet, StartRedact, Rewrite, WriteCheckpoint, RemovePartition, Stop, PlanRetention,
         disk, history
<1>3. dirs' = dirs \/ (RemovePartition(p) /\ dirs' = dirs \ {Oldest(plan[p])})
  BY DEF Quiet, StartRedact, Rewrite, WriteCheckpoint, RemovePartition, Stop, PlanRetention, disk
<1>4. \A q \in Proc : pc'[q] = "writing" => /\ pc[q] = "writing" /\ work'[q] = work[q]
                                            /\ plan'[q] = plan[q]
  <2>1. CASE StartRedact(p)
    BY <1>1, <2>1 DEF StartRedact, ProcOK
  <2>2. CASE Rewrite(p)
    BY <1>1, <2>2 DEF Rewrite, ProcOK
  <2>3. CASE WriteCheckpoint(p)
    BY <1>1, <2>3 DEF WriteCheckpoint, ProcOK
  <2>4. CASE RemovePartition(p)
    BY <1>1, <2>4 DEF RemovePartition, ProcOK
  <2>5. CASE Stop(p)
    BY <1>1, <2>5 DEF Stop, ProcOK
  <2>6. ASSUME NEW days \in AuditDays, PlanRetention(p, days)
        PROVE  \A q \in Proc : pc'[q] = "writing" => /\ pc[q] = "writing" /\ work'[q] = work[q]
                                                     /\ plan'[q] = plan[q]
    BY <1>1, <2>6 DEF PlanRetention, ProcOK
  <2>7. QED
    BY <2>1, <2>2, <2>3, <2>4, <2>5, <2>6 DEF Quiet
<1>5. CASE Rewrite(p)
  <2>1. UNCHANGED dirs /\ pc[p] = "rewriting"
    BY <1>5 DEF Rewrite
  <2>2. QED
    BY <1>2, <1>4, <1>5, <2>1, RewriteLines
<1>6. CASE RemovePartition(p)
  BY <1>2, <1>4, <1>6 DEF RemovePartition
<1>7. CASE ~ Rewrite(p) /\ ~ RemovePartition(p)
  <2>1. log' = log
    BY <1>7 DEF Quiet, StartRedact, WriteCheckpoint, Stop, PlanRetention, disk
  <2>2. QED
    BY <1>2, <1>3, <1>4, <1>7, <2>1
<1>8. QED
  BY <1>5, <1>6, <1>7

\* Later lines are in later partitions, and no partition is later than the
\* one that is about to be written.
Ordered ==
  /\ \A l, m \in log : l.at < m.at => l.day <= m.day
  /\ \A p \in Proc : pc[p] = "writing" => \A e \in dirs : e <= tail[p].day

LEMMA LineNumbers ==
  ASSUME Typed, NEW l \in log
  PROVE  /\ l \in Line /\ l.at \in Nat /\ l.at > 0 /\ l.at <= fresh /\ l.day \in dirs
         /\ l.day \in Nat /\ l.day <= day /\ l.seq \in Nat /\ l.prev \in Nat /\ l.target \in Nat
         /\ fresh \in Nat /\ day \in Nat
BY DEF Typed, TypeOK, Line, Day

LEMMA TailNumbers ==
  ASSUME Typed, NEW p \in Proc
  PROVE  /\ tail[p].seq \in Nat /\ tail[p].hash \in Nat /\ tail[p].day \in Nat
         /\ checkpoint.seq \in Nat /\ checkpoint.hash \in Nat
         /\ checkpoint \in [seq : Nat, hash : Nat]
         /\ plan[p] \subseteq Nat /\ dirs \subseteq Nat /\ \A e \in dirs : e <= day
         /\ work[p].target \in Nat
BY DEF Typed, TypeOK, Day

LEMMA OrderedStep ==
  ASSUME Typed, Ordered, Next
  PROVE  Ordered'
<1>1. CASE Midnight
  BY <1>1 DEF Ordered, Midnight
<1>2. ASSUME NEW p \in Proc, StartAppend(p)
      PROVE  Ordered'
  <2>1. UNCHANGED <<log, dirs>>
    BY <1>2 DEF StartAppend, disk
  <2>2. ASSUME NEW q \in Proc, pc'[q] = "writing"
        PROVE  tail'[q].day = day
    BY <1>2, <2>2 DEF StartAppend, Typed, TypeOK
  <2>3. QED
    BY <2>1, <2>2, TailNumbers DEF Ordered
<1>3. ASSUME NEW p \in Proc, Write(p)
      PROVE  Ordered'
  <2>1. pc[p] = "writing" /\ \A q \in Proc : pc'[q] # "writing"
    BY <1>3, Wrote
  <2>2. \A l \in log' : l \in log \/ (l.at = fresh + 1 /\ l.day = tail[p].day)
    BY <1>3, WroteLines
  <2>3. \A l \in log : l.at <= fresh /\ l.at \in Nat /\ fresh \in Nat /\ l.day <= tail[p].day
    BY <2>1, LineNumbers DEF Ordered
  <2>4. tail[p].day \in Nat
    BY TailNumbers
  <2>5. \A l, m \in log' : l.at < m.at => l.day <= m.day
    BY <2>2, <2>3, <2>4 DEF Ordered
  <2>6. QED
    BY <2>1, <2>5 DEF Ordered
<1>4. ASSUME NEW p \in Proc, Quiet(p)
      PROVE  Ordered'
  <2>1. \A l \in log' : \E k \in log : l.at = k.at /\ l.day = k.day
    BY <1>4, Quietly, RewriteKeeps DEF Alike
  <2>2. QED
    BY <1>4, <2>1, Quietly DEF Ordered
<1>5. QED
  BY <1>1, <1>2, <1>3, <1>4, NextSteps

-----------------------------------------------------------------------------
(* What retention may take.                                                 *)

\* A run whose plan is announced, or about to be: it no longer waits for a
\* writer that began before.
Going(p) == pc[p] \in {"checkpoint", "removing"} \/ (pc[p] = "writing" /\ work[p].from = "announce")

\* A plan holds whole days that are over, with all that is older; what is
\* gone of it does not come back.
Planned ==
  \A p \in Proc : \A d \in plan[p] :
    /\ d < day
    /\ \A e \in dirs : e < d => e \in plan[p]
    /\ d \notin dirs => \A e \in dirs : d < e
    /\ d \notin dirs \/ Going(p) => \A q \in Proc : pc[q] = "writing" => d < tail[q].day

LEMMA OldestIsLeast ==
  ASSUME Typed, NEW p \in Proc, plan[p] # {}
  PROVE  Oldest(plan[p]) \in plan[p] /\ \A e \in plan[p] : Oldest(plan[p]) <= e
<1>1. plan[p] \in SUBSET Nat
  BY TailNumbers
<1>2. QED
  BY <1>1, Least DEF Oldest

LEMMA NewestIsGreatest ==
  ASSUME Typed, NEW p \in Proc, plan[p] # {}
  PROVE  Newest(plan[p]) \in plan[p] /\ \A e \in plan[p] : e <= Newest(plan[p])
<1>1. plan[p] \in SUBSET (0..MaxDay) /\ MaxDay \in Nat
  BY DEF Typed, TypeOK, Day
<1>2. QED
  BY <1>1, Greatest DEF Newest

\* A removal takes the oldest partition there is.
LEMMA RemovesOldest ==
  ASSUME Typed, Planned, NEW p \in Proc, pc[p] = "removing"
  PROVE  /\ Oldest(plan[p]) \in plan[p] /\ Oldest(plan[p]) \in Nat
         /\ \A e \in dirs : Oldest(plan[p]) <= e
         /\ \A q \in Proc : pc[q] = "writing" => Oldest(plan[p]) < tail[q].day
<1>1. plan[p] # {}
  BY DEF Typed, TypeOK
<1>2. Oldest(plan[p]) \in plan[p] /\ \A e \in plan[p] : Oldest(plan[p]) <= e
  BY <1>1, OldestIsLeast
<1>3. Oldest(plan[p]) \in Nat /\ dirs \subseteq Nat
  BY <1>2, TailNumbers
<1>4. \A e \in dirs : e < Oldest(plan[p]) => e \in plan[p]
  BY <1>2 DEF Planned
<1>5. \A q \in Proc : pc[q] = "writing" => Oldest(plan[p]) < tail[q].day
  BY <1>2 DEF Planned, Going
<1>6. QED
  BY <1>2, <1>3, <1>4, <1>5

LEMMA PlannedStep ==
  ASSUME Typed, Ordered, Planned, Next
  PROVE  Planned'
<1> DEFINE Sound(p, d) ==
      /\ d < day
      /\ \A e \in dirs : e < d => e \in plan[p]
      /\ d \notin dirs => \A e \in dirs : d < e
      /\ d \notin dirs \/ Going(p) => \A q \in Proc : pc[q] = "writing" => d < tail[q].day
<1>0. \A p \in Proc : plan[p] \subseteq Nat /\ tail[p].day \in Nat /\ dirs \subseteq Nat
  BY TailNumbers
<1>1. CASE Midnight
  <2>1. day \in Nat /\ day' = day + 1
    BY <1>1 DEF Midnight, Typed, TypeOK, Day
  <2>2. QED
    BY <1>0, <1>1, <2>1 DEF Midnight, Planned, Going
<1>2. ASSUME NEW p \in Proc, StartAppend(p)
      PROVE  Planned'
  <2>1. UNCHANGED <<day, dirs, plan>>
    BY <1>2 DEF StartAppend, disk
  <2>2. \A q \in Proc : pc'[q] = "writing" => tail'[q].day = day
    BY <1>2 DEF StartAppend, Typed, TypeOK
  <2>3. QED
    BY <2>1, <2>2 DEF Planned
<1>3. ASSUME NEW p \in Proc, Write(p)
      PROVE  Planned'
  <2>1. /\ pc[p] = "writing" /\ \A q \in Proc : pc'[q] # "writing"
        /\ UNCHANGED day /\ dirs \subseteq dirs' /\ dirs' \subseteq dirs \cup {tail[p].day}
        /\ \A q \in Proc : plan'[q] \in {plan[q], {}}
    BY <1>3, Wrote
  <2>2. ASSUME NEW q \in Proc, NEW d \in plan'[q]
        PROVE  /\ d < day' /\ \A e \in dirs' : e < d => e \in plan'[q]
               /\ d \notin dirs' => \A e \in dirs' : d < e
    <3>1. d \in plan[q] /\ plan'[q] = plan[q] /\ d \in Nat /\ tail[p].day \in Nat
      BY <1>0, <2>1, <2>2
    <3>2. d < day /\ (\A e \in dirs : e < d => e \in plan[q])
          /\ (d \notin dirs => (\A e \in dirs : d < e) /\ d < tail[p].day)
      BY <2>1, <3>1 DEF Planned
    <3>3. d \in dirs => d <= tail[p].day
      BY <2>1 DEF Ordered
    <3>4. QED
      BY <2>1, <3>1, <3>2, <3>3
  <2>3. QED
    BY <2>1, <2>2 DEF Planned
<1>4. ASSUME NEW p \in Proc, RemovePartition(p)
      PROVE  Planned'
  <2> DEFINE o == Oldest(plan[p])
  <2>1. pc[p] = "removing" /\ dirs' = dirs \ {o} /\ UNCHANGED <<day, tail, work>>
    BY <1>4 DEF RemovePartition
  <2>2. /\ \A e \in dirs : o <= e
        /\ \A q \in Proc : pc[q] = "writing" => o < tail[q].day
    BY <2>1, RemovesOldest
  <2>3. ASSUME NEW q \in Proc
        PROVE  /\ plan'[q] \subseteq plan[q]
               /\ \A e \in dirs' : e \in plan[q] => e \in plan'[q] \/ plan'[q] = {}
               /\ pc'[q] = "writing" => pc[q] = "writing"
               /\ q # p => pc'[q] = pc[q]
               /\ pc'[p] # "writing"
    BY <1>4, <2>1 DEF RemovePartition, Typed, TypeOK
  <2>4. Going(p)
    BY <2>1 DEF Going
  <2>5. ASSUME NEW q \in Proc, NEW d \in plan'[q]
        PROVE  Sound(q, d)'
    <3>1. d \in plan[q] /\ Sound(q, d) /\ d \in Nat /\ o \in Nat
      BY <1>0, <2>1, <2>3, <2>5, RemovesOldest DEF Planned
    <3>2. \A e \in dirs' : e < d => e \in plan'[q]
      BY <2>1, <2>3, <2>5, <3>1
    <3>3. d \notin dirs' => \A e \in dirs' : d < e
      BY <1>0, <2>1, <2>2, <3>1
    <3>4. Going(q)' => Going(q)
      BY <2>1, <2>3, <2>4 DEF Going
    <3>5. \A r \in Proc : pc'[r] = "writing" /\ (d \notin dirs' \/ Going(q)') => d < tail'[r].day
      BY <2>1, <2>2, <2>3, <3>1, <3>4
    <3>6. QED
      BY <2>1, <3>1, <3>2, <3>3, <3>5
  <2>6. QED
    BY <2>5 DEF Planned
<1>5. ASSUME NEW p \in Proc, NEW days \in AuditDays, PlanRetention(p, days)
      PROVE  Planned'
  <2>1. UNCHANGED <<day, dirs, tail, work>> /\ plan' = [plan EXCEPT ![p] = Eligible(days)]
        /\ pc' = [pc EXCEPT ![p] = "announce"]
    BY <1>5 DEF PlanRetention, disk
  <2>2. ASSUME NEW d \in Eligible(days)
        PROVE  d \in dirs /\ d < day /\ \A e \in dirs : e < d => e \in Eligible(days)
    <3>1. days \in Nat /\ day \in Nat /\ d \in dirs /\ d + days < day /\ dirs \subseteq Nat
      BY DEF Eligible, Typed, TypeOK, Day
    <3>2. QED
      BY <3>1 DEF Eligible
  <2>3. ASSUME NEW q \in Proc, NEW d \in plan'[q]
        PROVE  Sound(q, d)'
    <3>1. \A r \in Proc : pc'[r] = "writing" => pc[r] = "writing"
      BY <2>1 DEF Typed, TypeOK
    <3>2. CASE q = p
      <4>1. plan'[q] = Eligible(days) /\ ~ Going(q)'
        BY <2>1, <3>2 DEF Going, Typed, TypeOK
      <4>2. QED
        BY <2>1, <2>2, <2>3, <4>1
    <3>3. CASE q # p
      <4>1. plan'[q] = plan[q] /\ (Going(q)' <=> Going(q))
        BY <2>1, <3>3 DEF Going, Typed, TypeOK
      <4>2. Sound(q, d)
        BY <2>3, <4>1 DEF Planned
      <4>3. QED
        BY <2>1, <3>1, <4>1, <4>2
    <3>4. QED
      BY <3>2, <3>3
  <2>4. QED
    BY <2>3 DEF Planned
<1>6. ASSUME NEW p \in Proc,
             StartRedact(p) \/ Rewrite(p) \/ WriteCheckpoint(p) \/ Stop(p)
      PROVE  Planned'
  <2>1. UNCHANGED <<day, dirs, tail>>
    BY <1>6 DEF StartRedact, Rewrite, WriteCheckpoint, Stop, disk
  <2>2. ASSUME NEW q \in Proc
        PROVE  /\ plan'[q] \in {plan[q], {}}
               /\ pc'[q] = "writing" => pc[q] = "writing" /\ work'[q] = work[q]
               /\ Going(q)' => Going(q)
    BY <1>6 DEF StartRedact, Rewrite, WriteCheckpoint, Stop, Going, Typed, TypeOK
  <2>3. QED
    BY <2>1, <2>2 DEF Planned
<1>7. QED
  BY <1>1, <1>2, <1>3, <1>4, <1>5, <1>6, NextSteps DEF Quiet

-----------------------------------------------------------------------------
(* The chain.                                                               *)

\* Numbers rise along the chain, and every event but its first names the
\* one before it, which has the number before its own.
Linked ==
  /\ \A l \in Chain : l.seq >= 1 /\ (l.prev = 0 <=> l.seq = 1)
  /\ \A l, m \in Chain : l.at < m.at =>
       l.seq < m.seq /\ \E k \in Chain : k.at = m.prev /\ m.seq = k.seq + 1

\* The checkpoint is an event of the chain, or it is behind the chain; what
\* it covers is in partitions that nobody writes to any more.
Sealed ==
  /\ checkpoint.seq = 0 <=> checkpoint.hash = 0
  /\ \A l \in Chain : l.seq = checkpoint.seq => l.at = checkpoint.hash
  /\ Chain # {} => \E l \in Chain : checkpoint.seq <= l.seq
  /\ \A l \in Chain : l.seq <= checkpoint.seq =>
       l.day < day /\ \A q \in Proc : pc[q] = "writing" => l.day < tail[q].day

\* What a writer has read is still the end of the chain, or retention has
\* taken all of it and the checkpoint is that end.
Tails ==
  \A q \in Proc : pc[q] = "writing" =>
    /\ tail[q].seq = 0 <=> tail[q].hash = 0
    /\ checkpoint.seq <= tail[q].seq
    /\ tail[q].seq = checkpoint.seq => tail[q].hash = checkpoint.hash
    /\ \A l \in Chain : l.seq <= tail[q].seq /\ (l.seq = tail[q].seq => l.at = tail[q].hash)
    /\ Chain # {} => \E l \in Chain : l.seq = tail[q].seq
    /\ Chain = {} /\ ~hole => tail[q].seq = checkpoint.seq

\* A removal under way takes nothing the checkpoint does not cover.
Covered == ~hole =>
  \A p \in Proc : pc[p] = "removing" =>
    \A d \in plan[p], l \in Chain : l.day <= d => l.seq <= checkpoint.seq

Chained == Linked /\ Sealed /\ Tails /\ Covered
Base == Typed /\ Ordered /\ Planned /\ Chained

LEMMA ChainFacts ==
  ASSUME Typed, Ordered
  PROVE  /\ Chain \subseteq log /\ Chain \subseteq Line
         /\ \A l \in Chain : /\ l.at \in Nat /\ l.at > 0 /\ l.at <= fresh /\ l.day \in dirs
                             /\ l.day \in Nat /\ l.seq \in Nat /\ l.prev \in Nat /\ l.target \in Nat
                             /\ l.kind # "unreadable"
         /\ \A l, m \in Chain : l.at = m.at => l = m
         /\ \A l, m \in Chain : l.day < m.day => l.at < m.at
         /\ \A l \in Chain, m \in log : l.day < m.day => l.at < m.at
<1>1. Chain \subseteq log /\ \A l \in Chain : l.kind # "unreadable"
  BY DEF Chain, Readable
<1>2. \A l, m \in log : l.at = m.at => l = m
  BY DEF Typed, Unique
<1>3. \A l, m \in log : l.day < m.day => l.at < m.at
  <2> SUFFICES ASSUME NEW l \in log, NEW m \in log, l.day < m.day, ~(l.at < m.at) PROVE FALSE
    OBVIOUS
  <2>1. l.at \in Nat /\ m.at \in Nat /\ l.day \in Nat /\ m.day \in Nat
    BY LineNumbers
  <2>2. l.at = m.at => l = m
    BY <1>2
  <2>3. m.at < l.at => m.day <= l.day
    BY DEF Ordered
  <2>4. QED
    BY <2>1, <2>2, <2>3
<1>4. QED
  BY <1>1, <1>2, <1>3, LineNumbers

\* What the end of an append does to the chain.
LEMMA WroteChain ==
  ASSUME Typed, Ordered, NEW p \in Proc, Write(p)
  PROVE  \/ Chain' = Chain
         \/ \E n \in log' :
              /\ Chain' = Chain \cup {n} /\ n \notin log
              /\ n.at = fresh + 1 /\ n.day = tail[p].day /\ n.seq = tail[p].seq + 1
              /\ n.prev = tail[p].hash /\ n.target = work[p].target
              /\ n.kind = Owed[work[p].from] /\ n.kind # "unreadable" /\ ~n.redacted
              /\ log' = log \cup {n}
         \/ \E u \in Chain :
              /\ ~u.ended /\ u.day = tail[p].day /\ \A m \in log : m.at <= u.at
              /\ Chain' = Chain \ {u}
<1>1. CASE log' = log
  BY <1>1 DEF Chain, Readable
<1>2. CASE log' # log
  <2>1. pc[p] = "writing"
    BY Wrote
  <2>2. PICK part \in Parts(p) :
           \/ log' = log \cup {part}
           \/ \E u \in log : /\ ~u.ended /\ u.day = tail[p].day
                             /\ \A m \in log : m.day = u.day => m.at <= u.at
                             /\ log' = (log \ {u}) \cup {Garbled(part)}
    BY <1>2, Wrote
  <2>3. /\ part.at = fresh + 1 /\ part.day = tail[p].day /\ part.redacted = FALSE
        /\ part.kind # "unreadable" =>
              /\ part.seq = tail[p].seq + 1 /\ part.prev = tail[p].hash
              /\ part.target = work[p].target /\ part.kind = Owed[work[p].from]
        /\ Garbled(part).kind = "unreadable"
    BY <2>1, PartFields
  <2>4. part \notin log
    BY <2>3, LineNumbers
  <2>5. CASE log' = log \cup {part}
    <3>1. CASE part.kind = "unreadable"
      BY <2>5, <3>1 DEF Chain, Readable
    <3>2. CASE part.kind # "unreadable"
      <4>1. Chain' = Chain \cup {part}
        BY <2>5, <3>2 DEF Chain, Readable
      <4>2. QED
        BY <2>3, <2>4, <2>5, <3>2, <4>1
    <3>3. QED
      BY <3>1, <3>2
  <2>6. CASE \E u \in log : /\ ~u.ended /\ u.day = tail[p].day
                            /\ \A m \in log : m.day = u.day => m.at <= u.at
                            /\ log' = (log \ {u}) \cup {Garbled(part)}
    <3>1. PICK u \in log : /\ ~u.ended /\ u.day = tail[p].day
                           /\ \A m \in log : m.day = u.day => m.at <= u.at
                           /\ log' = (log \ {u}) \cup {Garbled(part)}
      BY <2>6
    <3>2. \A m \in log : m.at <= u.at
      <4> SUFFICES ASSUME NEW m \in log, u.at < m.at PROVE FALSE
        BY LineNumbers
      <4>1. u.day <= m.day /\ m.day <= tail[p].day
        BY <2>1, LineNumbers DEF Ordered
      <4>2. m.day = u.day
        BY <3>1, <4>1, LineNumbers
      <4>3. QED
        BY <3>1, <4>2, LineNumbers
    <3>3. Chain' = Chain \ {u}
      BY <2>3, <3>1 DEF Chain, Readable
    <3>4. CASE u \in Chain
      BY <3>1, <3>2, <3>3, <3>4
    <3>5. CASE u \notin Chain
      BY <3>3, <3>5
    <3>6. QED
      BY <3>4, <3>5
  <2>7. QED
    BY <2>2, <2>5, <2>6
<1>3. QED
  BY <1>1, <1>2

LEMMA ChainedMidnight == ASSUME Base, Midnight PROVE Chained'
<1>1. UNCHANGED <<log, dirs, checkpoint, pc, tail, work, plan, hole>> /\ day' = day + 1
      /\ Chain' = Chain
  BY DEF Midnight, history, Chain
<1>2. \A l \in Chain : l.day \in Nat /\ l.day <= day /\ day \in Nat
  BY LineNumbers DEF Base, Chain, Readable
<1>3. QED
  BY <1>1, <1>2 DEF Base, Chained, Linked, Sealed, Tails, Covered

\* The end of the chain, as an append reads it.
LEMMA EndOfChain ==
  ASSUME Base
  PROVE  /\ Resume.seq \in Nat /\ Resume.hash \in Nat /\ (Resume.seq = 0 <=> Resume.hash = 0)
         /\ checkpoint.seq <= Resume.seq
         /\ Resume.seq = checkpoint.seq => Resume.hash = checkpoint.hash
         /\ \A l \in Chain : l.seq <= Resume.seq /\ (l.seq = Resume.seq => l.at = Resume.hash)
         /\ Chain # {} => \E l \in Chain : l.seq = Resume.seq
         /\ Chain = {} => Resume = checkpoint
<1>1. checkpoint.seq \in Nat /\ checkpoint.hash \in Nat
  BY DEF Base, Typed, TypeOK
<1>2. CASE Chain = {}
  <2>1. Resume = checkpoint
    BY <1>2, EndIsLast DEF Base, Resume
  <2>2. QED
    BY <1>1, <1>2, <2>1 DEF Base, Chained, Sealed
<1>3. CASE Chain # {}
  <2>1. PICK e \in Chain : /\ Resume = [seq |-> e.seq, hash |-> e.at]
                           /\ \A m \in Chain : m.at <= e.at
    BY <1>3, EndIsLast DEF Base, Resume
  <2>2. Resume.seq = e.seq /\ Resume.hash = e.at
    BY <2>1
  <2>3. ASSUME NEW l \in Chain PROVE l = e \/ l.seq < e.seq
    <3>1. l.at = e.at => l = e
      BY ChainFacts DEF Base
    <3>2. l.at \in Nat /\ e.at \in Nat /\ l.at <= e.at
      BY <2>1, ChainFacts DEF Base
    <3>3. l.at < e.at => l.seq < e.seq
      BY DEF Base, Chained, Linked
    <3>4. QED
      BY <3>1, <3>2, <3>3
  <2>4. \A l \in Chain : l.seq \in Nat /\ l.seq >= 1 /\ l.at \in Nat /\ l.at > 0
    BY ChainFacts DEF Base, Chained, Linked
  <2>5. checkpoint.seq <= e.seq /\ (e.seq = checkpoint.seq => e.at = checkpoint.hash)
    BY <1>1, <1>3, <2>3, <2>4 DEF Base, Chained, Sealed
  <2>6. QED
    BY <1>3, <2>2, <2>3, <2>4, <2>5
<1>4. QED
  BY <1>2, <1>3

LEMMA ChainedStartAppend == ASSUME Base, NEW p \in Proc, StartAppend(p) PROVE Chained'
<1>1. UNCHANGED <<day, log, dirs, checkpoint, plan, hole>> /\ Chain' = Chain
  BY DEF StartAppend, disk, history, Chain
<1>2. ASSUME NEW q \in Proc, pc'[q] = "writing"
      PROVE  tail'[q].seq = Resume.seq /\ tail'[q].hash = Resume.hash /\ tail'[q].day = day
  BY <1>2 DEF StartAppend, Base, Typed, TypeOK
<1>3. Linked'
  BY <1>1 DEF Base, Chained, Linked
<1>4. Sealed'
  BY <1>1, <1>2 DEF Base, Chained, Sealed
<1>5. Tails'
  BY <1>1, <1>2, EndOfChain DEF Tails
<1>6. Covered'
  BY <1>1 DEF StartAppend, Base, Chained, Covered, Typed, TypeOK
<1>7. QED
  BY <1>3, <1>4, <1>5, <1>6 DEF Chained

LEMMA ChainedWrite == ASSUME Base, NEW p \in Proc, Write(p) PROVE Chained'
<1> USE DEF Base, Chained
<1>1. /\ pc[p] = "writing" /\ \A q \in Proc : pc'[q] # "writing"
      /\ UNCHANGED <<day, checkpoint, hole>>
  BY Wrote
<1>2. /\ tail[p].seq \in Nat /\ tail[p].hash \in Nat /\ tail[p].day \in Nat
      /\ checkpoint.seq \in Nat /\ checkpoint.hash \in Nat
  BY TailNumbers
<1>3. /\ (tail[p].seq = 0 <=> tail[p].hash = 0) /\ checkpoint.seq <= tail[p].seq
      /\ \A l \in Chain : l.seq <= tail[p].seq /\ (l.seq = tail[p].seq => l.at = tail[p].hash)
      /\ Chain # {} => \E l \in Chain : l.seq = tail[p].seq
  BY <1>1 DEF Tails
<1>4. /\ fresh \in Nat
      /\ \A l \in Chain : /\ l.at \in Nat /\ l.at > 0 /\ l.at <= fresh /\ l.day \in Nat
                          /\ l.seq \in Nat /\ l.prev \in Nat
      /\ \A l, m \in Chain : l.at = m.at => l = m
  BY ChainFacts DEF Typed, TypeOK
<1>5. Tails'
  BY <1>1 DEF Tails
<1>6. Covered' /\ Linked' /\ Sealed'
  <2>1. CASE Chain' = Chain
    <3>1. Linked' /\ Sealed'
      BY <1>1, <2>1 DEF Linked, Sealed
    <3>2. \A q \in Proc : pc'[q] = "removing" => pc[q] = "removing" /\ plan'[q] = plan[q]
      BY Wrote
    <3>3. Covered'
      BY <1>1, <2>1, <3>2 DEF Covered
    <3>4. QED
      BY <3>1, <3>3
  <2>2. ASSUME NEW n \in log', Chain' = Chain \cup {n}, n.at = fresh + 1, n.day = tail[p].day,
               n.seq = tail[p].seq + 1, n.prev = tail[p].hash
        PROVE  Covered' /\ Linked' /\ Sealed'
    <3>1. \A l \in Chain' : l.seq >= 1 /\ (l.prev = 0 <=> l.seq = 1)
      BY <1>2, <1>3, <2>2 DEF Linked
    <3>2. ASSUME NEW l \in Chain', NEW m \in Chain', l.at < m.at
          PROVE  l.seq < m.seq /\ \E k \in Chain' : k.at = m.prev /\ m.seq = k.seq + 1
      <4>1. l \in Chain
        BY <1>4, <2>2, <3>2
      <4>2. CASE m \in Chain
        BY <2>2, <3>2, <4>1, <4>2 DEF Linked
      <4>3. CASE m = n
        <5>1. PICK k \in Chain : k.seq = tail[p].seq
          BY <1>3, <4>1
        <5>2. k.at = tail[p].hash /\ l.seq <= tail[p].seq
          BY <1>3, <4>1, <5>1
        <5>3. QED
          BY <1>2, <1>4, <2>2, <4>1, <4>3, <5>1, <5>2
      <4>4. QED
        BY <2>2, <4>2, <4>3
    <3>3. Linked'
      BY <3>1, <3>2 DEF Linked
    <3>4. n.seq > checkpoint.seq
      BY <1>2, <1>3, <2>2
    <3>5. Sealed'
      BY <1>1, <1>2, <2>2, <3>4 DEF Sealed
    <3>6. ASSUME ~hole', NEW q \in Proc, pc'[q] = "removing", NEW d \in plan'[q],
                 NEW l \in Chain', l.day <= d
          PROVE  l.seq <= checkpoint'.seq
      <4>1. pc[q] = "removing" /\ d \in plan[q] /\ d \in Nat
        BY <3>6, Wrote, TailNumbers
      <4>2. d < tail[p].day
        BY <1>1, <4>1 DEF Planned, Going
      <4>3. l \in Chain
        BY <1>2, <2>2, <3>6, <4>1, <4>2
      <4>4. QED
        BY <1>1, <3>6, <4>1, <4>3 DEF Covered
    <3>7. QED
      BY <3>3, <3>5, <3>6 DEF Covered
  <2>3. ASSUME NEW u \in Chain, u.day = tail[p].day, \A m \in log : m.at <= u.at,
               Chain' = Chain \ {u}
        PROVE  Covered' /\ Linked' /\ Sealed'
    <3>1. \A m \in Chain : m # u => m.at < u.at /\ m.seq < u.seq
      <4>1. \A m \in Chain : m.at <= u.at
        BY <2>3, ChainFacts
      <4>2. QED
        BY <1>4, <4>1 DEF Linked
    <3>2. ASSUME NEW l \in Chain', NEW m \in Chain', l.at < m.at
          PROVE  l.seq < m.seq /\ \E k \in Chain' : k.at = m.prev /\ m.seq = k.seq + 1
      <4>1. l.seq < m.seq /\ m.seq < u.seq
        BY <2>3, <3>1, <3>2 DEF Linked
      <4>2. PICK k \in Chain : k.at = m.prev /\ m.seq = k.seq + 1
        BY <2>3, <3>2 DEF Linked
      <4>3. k # u
        BY <1>4, <2>3, <4>1, <4>2
      <4>4. QED
        BY <2>3, <4>1, <4>2, <4>3
    <3>3. Linked'
      BY <2>3, <3>2 DEF Linked
    <3>4. checkpoint.seq < u.seq
      <4>1. ~(u.seq <= checkpoint.seq)
        BY <1>1, <1>2, <2>3 DEF Sealed
      <4>2. QED
        BY <1>2, <1>4, <4>1
    <3>5. ASSUME NEW m \in Chain' PROVE \E l \in Chain' : checkpoint.seq <= l.seq
      <4>1. m \in Chain /\ m.at < u.at
        BY <2>3, <3>1
      <4>2. PICK k \in Chain : k.at = u.prev /\ u.seq = k.seq + 1
        BY <4>1 DEF Linked
      <4>3. k # u /\ checkpoint.seq <= k.seq
        BY <1>2, <1>4, <3>4, <4>2
      <4>4. QED
        BY <2>3, <4>2, <4>3
    <3>6. Sealed'
      BY <1>1, <2>3, <3>5 DEF Sealed
    <3>7. \A q \in Proc : pc'[q] = "removing" => pc[q] = "removing" /\ plan'[q] = plan[q]
      BY Wrote
    <3>8. Covered'
      BY <1>1, <2>3, <3>7 DEF Covered
    <3>9. QED
      BY <3>3, <3>6, <3>8
  <2>4. QED
    BY <2>1, <2>2, <2>3, WroteChain
<1>7. QED
  BY <1>5, <1>6

\* A redaction changes nothing that the chain is made of.
LEMMA RewriteChain ==
  ASSUME Typed, NEW t \in log, log' = {Redone(l, t) : l \in log}
  PROVE  /\ \A m \in Chain' : \E l \in Chain : Alike(m, l)
         /\ \A l \in Chain : \E m \in Chain' : Alike(m, l)
<1>1. /\ \A m \in log' : \E l \in log : Alike(m, l)
      /\ \A l \in log : \E m \in log' : Alike(m, l)
  BY RewriteKeeps
<1>2. \A l, m : Alike(m, l) => m.kind = l.kind
  BY DEF Alike
<1>3. /\ \A l : l \in Chain <=> l \in log /\ l.kind # "unreadable"
      /\ \A l : l \in Chain' <=> l \in log' /\ l.kind # "unreadable"
  BY DEF Chain, Readable
<1>4. QED
  BY <1>1, <1>2, <1>3

LEMMA ChainedAlike ==
  ASSUME Base, UNCHANGED <<day, checkpoint, tail, hole>>,
         \A m \in Chain' : \E l \in Chain : Alike(m, l),
         \A l \in Chain : \E m \in Chain' : Alike(m, l),
         \A q \in Proc : pc'[q] = "writing" => pc[q] = "writing",
         \A q \in Proc : pc'[q] = "removing" => pc[q] = "removing" /\ plan'[q] = plan[q]
  PROVE  Chained'
<1> USE DEF Base, Chained
<1>1. Linked'
  <2>1. \A l \in Chain' : l.seq >= 1 /\ (l.prev = 0 <=> l.seq = 1)
    BY DEF Linked, Alike
  <2>2. ASSUME NEW l \in Chain', NEW m \in Chain', l.at < m.at
        PROVE  l.seq < m.seq /\ \E k \in Chain' : k.at = m.prev /\ m.seq = k.seq + 1
    <3>1. PICK a \in Chain, b \in Chain : Alike(l, a) /\ Alike(m, b)
      OBVIOUS
    <3>2. a.seq < b.seq /\ \E k \in Chain : k.at = b.prev /\ b.seq = k.seq + 1
      BY <2>2, <3>1 DEF Linked, Alike
    <3>3. PICK k \in Chain, j \in Chain' : k.at = b.prev /\ b.seq = k.seq + 1 /\ Alike(j, k)
      BY <3>2
    <3>4. QED
      BY <3>1, <3>2, <3>3 DEF Alike
  <2>3. QED
    BY <2>1, <2>2 DEF Linked
<1>2. Chain' # {} => Chain # {}
  OBVIOUS
<1>3. Chain' = {} => Chain = {}
  OBVIOUS
<1>4. Sealed'
  BY <1>2 DEF Sealed, Alike
<1>5. Tails'
  BY <1>2, <1>3 DEF Tails, Alike
<1>6. Covered'
  BY DEF Covered, Alike
<1>7. QED
  BY <1>1, <1>4, <1>5, <1>6

LEMMA RedactChain ==
  ASSUME Typed, NEW p \in Proc, StartRedact(p) \/ Rewrite(p)
  PROVE  /\ \A m \in Chain' : \E l \in Chain : Alike(m, l)
         /\ \A l \in Chain : \E m \in Chain' : Alike(m, l)
<1>1. CASE log' = log
  BY <1>1 DEF Chain, Readable, Alike
<1>2. CASE \E t \in log : log' = {Redone(l, t) : l \in log}
  BY <1>2, RewriteChain
<1>3. StartRedact(p) => log' = log
  BY DEF StartRedact, disk
<1>4. QED
  BY <1>1, <1>2, <1>3, RewriteLines

LEMMA ChainedRedact ==
  ASSUME Base, NEW p \in Proc, StartRedact(p) \/ Rewrite(p) PROVE Chained'
<1>1. UNCHANGED <<day, checkpoint, tail, plan, hole>>
  BY DEF StartRedact, Rewrite, disk, history
<1>2. \A q \in Proc : /\ pc'[q] = "writing" => pc[q] = "writing"
                      /\ pc'[q] = "removing" => pc[q] = "removing"
  BY DEF StartRedact, Rewrite, Base, Typed, TypeOK
<1>3. /\ \A m \in Chain' : \E l \in Chain : Alike(m, l)
      /\ \A l \in Chain : \E m \in Chain' : Alike(m, l)
  BY RedactChain DEF Base
<1>4. QED
  BY <1>1, <1>2, <1>3, ChainedAlike

LEMMA ChainedPlan ==
  ASSUME Base, NEW p \in Proc, Stop(p) \/ \E days \in AuditDays : PlanRetention(p, days)
  PROVE  Chained'
<1>1. UNCHANGED <<day, log, checkpoint, tail, hole>>
  BY DEF Stop, PlanRetention, disk, history
<1>2. \A q \in Proc : /\ pc'[q] = "writing" => pc[q] = "writing"
                      /\ pc'[q] = "removing" => pc[q] = "removing" /\ plan'[q] = plan[q]
  BY DEF Stop, PlanRetention, Base, Typed, TypeOK
<1>3. /\ \A m \in Chain' : \E l \in Chain : Alike(m, l)
      /\ \A l \in Chain : \E m \in Chain' : Alike(m, l)
  BY <1>1 DEF Chain, Readable, Alike
<1>4. QED
  BY <1>1, <1>2, <1>3, ChainedAlike

\* The checkpoint after a look at the newest partition of the plan.
LEMMA CheckpointTaken ==
  ASSUME Base, NEW p \in Proc, WriteCheckpoint(p)
  PROVE  /\ UNCHANGED <<day, log, dirs, lock, fresh, tail, work, plan>> /\ Chain' = Chain
         /\ pc' = [pc EXCEPT ![p] = "removing"]
         /\ checkpoint.seq <= checkpoint'.seq
         /\ \/ checkpoint' = checkpoint
            \/ \E e \in Chain : /\ checkpoint' = [seq |-> e.seq, hash |-> e.at]
                                /\ checkpoint.seq < e.seq /\ e.day \in plan[p] /\ hole' = hole
         /\ hole => hole'
         /\ ~hole' => \A d \in plan[p], l \in Chain : l.day <= d => l.seq <= checkpoint'.seq
<1> USE DEF Base, Chained
<1> DEFINE n == Newest(plan[p])
           lines == Readable(Partition(n))
<1>1. /\ UNCHANGED <<day, log, dirs, lock, fresh, tail, work, plan>> /\ Chain' = Chain
      /\ pc' = [pc EXCEPT ![p] = "removing"] /\ pc[p] = "checkpoint" /\ Record(n)
  BY DEF WriteCheckpoint, Chain
<1>2. n \in plan[p] /\ n \in Nat /\ \A e \in plan[p] : e <= n
  BY <1>1, NewestIsGreatest, TailNumbers DEF Typed, TypeOK
<1>3. lines \subseteq Chain /\ \A l \in Chain : l \in lines <=> l.day = n
  BY DEF Chain, Readable, Partition
<1>4. checkpoint.seq \in Nat /\ checkpoint.hash \in Nat
  BY TailNumbers
<1>5. Readable(lines) = lines
  BY DEF Readable
<1>6. CASE lines = {}
  <2>1. checkpoint' = checkpoint /\ hole' = (hole \/ n \in dirs)
    BY <1>1, <1>6, Zenon DEF Record
  <2>2. ASSUME ~hole', NEW d \in plan[p], NEW l \in Chain, l.day <= d
        PROVE  l.seq <= checkpoint.seq
    <3>1. n \notin dirs
      BY <2>1, <2>2
    <3>2. n < l.day
      BY <1>2, <3>1, ChainFacts DEF Planned
    <3>3. QED
      BY <1>2, <2>2, <3>2, ChainFacts, TailNumbers
  <2>3. checkpoint.seq <= checkpoint'.seq
    BY <1>4, <2>1
  <2>4. hole => hole'
    BY <2>1, Zenon
  <2>5. ~hole' => \A d \in plan[p], l \in Chain : l.day <= d => l.seq <= checkpoint'.seq
    BY <2>1, <2>2
  <2>6. QED
    BY <1>1, <2>1, <2>3, <2>4, <2>5
<1>7. CASE lines # {}
  <2> DEFINE e == Latest(lines)
  <2>1. lines \in SUBSET log
    BY DEF Readable, Partition
  <2>2. e \in lines /\ \A m \in lines : m.at <= e.at
    BY <1>7, <2>1, LatestIsLast
  <2>3. e \in Chain /\ e.day = n /\ e.seq \in Nat
    BY <1>3, <2>2, ChainFacts
  <2>4. EndOf(lines) = [seq |-> e.seq, hash |-> e.at]
    BY <1>5, <1>7 DEF EndOf
  <2>5. hole' = hole
    BY <1>1, <1>7, Zenon DEF Record, Typed, TypeOK
  <2>6. checkpoint' = IF checkpoint.seq < e.seq THEN [seq |-> e.seq, hash |-> e.at] ELSE checkpoint
    BY <1>1, <1>7, <2>4 DEF Record
  <2> HIDE DEF e, lines
  <2>7. checkpoint.seq <= checkpoint'.seq /\ e.seq <= checkpoint'.seq
    BY <1>4, <2>3, <2>6
  <2>8. ASSUME NEW d \in plan[p], NEW l \in Chain, l.day <= d
        PROVE  l.seq <= checkpoint'.seq
    <3>1. l.day <= n /\ l.day \in Nat /\ l.at \in Nat /\ e.at \in Nat /\ l.seq \in Nat
      BY <1>2, <2>3, <2>8, ChainFacts, TailNumbers
    <3>2. l.at <= e.at
      BY <1>2, <1>3, <2>2, <2>3, <3>1, ChainFacts
    <3>3. l.seq <= e.seq
      BY <2>3, <3>1, <3>2, ChainFacts DEF Linked
    <3>4. checkpoint'.seq \in Nat
      BY <1>4, <2>3, <2>6
    <3>5. QED
      BY <2>3, <2>7, <3>1, <3>3, <3>4
  <2>9. \/ checkpoint' = checkpoint
        \/ /\ checkpoint' = [seq |-> e.seq, hash |-> e.at]
           /\ checkpoint.seq < e.seq /\ e.day \in plan[p]
    BY <1>2, <2>3, <2>6
  <2>10. QED
    BY <1>1, <2>3, <2>5, <2>7, <2>8, <2>9
<1>8. QED
  BY <1>6, <1>7

LEMMA ChainedCheckpoint == ASSUME Base, NEW p \in Proc, WriteCheckpoint(p) PROVE Chained'
<1> USE DEF Base, Chained
<1>1. /\ UNCHANGED <<day, log, dirs, tail, work, plan>> /\ Chain' = Chain
      /\ checkpoint.seq <= checkpoint'.seq /\ (hole => hole')
      /\ ~hole' => \A d \in plan[p], l \in Chain : l.day <= d => l.seq <= checkpoint'.seq
  BY CheckpointTaken
<1>2. \A q \in Proc : /\ pc'[q] = "writing" => pc[q] = "writing"
                      /\ pc'[q] = "removing" => q = p \/ pc[q] = "removing"
  BY CheckpointTaken DEF Typed, TypeOK
<1>3. /\ checkpoint.seq \in Nat /\ checkpoint'.seq \in Nat
      /\ \A l \in Chain : l.seq \in Nat /\ l.at \in Nat /\ l.at > 0
  <2>1. \A l \in Chain : l.seq \in Nat /\ l.at \in Nat /\ l.at > 0
    BY ChainFacts
  <2>2. checkpoint.seq \in Nat
    BY TailNumbers
  <2>3. QED
    BY <2>1, <2>2, CheckpointTaken
<1>4. Linked'
  BY <1>1 DEF Linked
<1>5. CASE checkpoint' = checkpoint
  <2>1. Sealed'
    BY <1>1, <1>2, <1>5 DEF Sealed
  <2>2. Tails'
    BY <1>1, <1>2, <1>5 DEF Tails
  <2>3. Covered'
    BY <1>1, <1>2, <1>5 DEF Covered
  <2>4. QED
    BY <1>4, <2>1, <2>2, <2>3
<1>6. ASSUME NEW e \in Chain, checkpoint' = [seq |-> e.seq, hash |-> e.at],
             checkpoint.seq < e.seq, e.day \in plan[p]
      PROVE  Chained'
  <2>1. checkpoint'.seq = e.seq /\ checkpoint'.hash = e.at
    BY <1>6
  <2>2. \A l \in Chain : (l.seq = e.seq => l.at = e.at) /\ (l.seq <= e.seq => l.at <= e.at)
    <3>1. \A l \in Chain : l.at = e.at \/ l.at < e.at \/ e.at < l.at
      BY <1>3
    <3>2. \A l \in Chain : l.at = e.at => l = e
      BY ChainFacts
    <3>3. QED
      BY <1>3, <3>1, <3>2 DEF Linked
  <2>3. ASSUME NEW l \in Chain, l.seq <= e.seq PROVE l.day <= e.day
    BY <1>3, <2>2, <2>3, ChainFacts
  <2>4. Going(p) /\ e.day < day /\ \A q \in Proc : pc[q] = "writing" => e.day < tail[q].day
    <3>1. Going(p)
      BY DEF WriteCheckpoint, Going
    <3>2. QED
      BY <1>6, <3>1 DEF Planned
  <2>5. \A l \in Chain, q \in Proc : l.day \in Nat /\ tail[q].day \in Nat /\ day \in Nat
    BY ChainFacts, TailNumbers DEF Typed, TypeOK, Day
  <2>6. Sealed'
    <3>1. e.seq # 0 /\ e.at # 0
      BY <1>3 DEF Linked
    <3>2. ASSUME NEW l \in Chain, l.seq <= e.seq
          PROVE  l.day < day /\ \A q \in Proc : pc'[q] = "writing" => l.day < tail[q].day
      BY <1>2, <2>3, <2>4, <2>5, <3>2
    <3>3. QED
      BY <1>1, <1>3, <2>1, <2>2, <3>1, <3>2 DEF Sealed
  <2>7. Tails'
    <3>1. ASSUME NEW q \in Proc, pc'[q] = "writing"
          PROVE  /\ e.seq <= tail[q].seq /\ (tail[q].seq = e.seq => tail[q].hash = e.at)
      BY <1>2, <3>1 DEF Tails
    <3>2. QED
      BY <1>1, <1>2, <2>1, <3>1 DEF Tails
  <2>8. Covered'
    BY <1>1, <1>2, <1>3 DEF Covered
  <2>9. QED
    BY <1>4, <2>6, <2>7, <2>8
<1>7. QED
  BY <1>5, <1>6, CheckpointTaken

\* A removal takes a prefix of the chain.
LEMMA RemovedChain ==
  ASSUME Base, NEW p \in Proc, RemovePartition(p)
  PROVE  /\ pc[p] = "removing" /\ UNCHANGED <<day, checkpoint, tail, hole>>
         /\ Chain' \subseteq Chain
         /\ \A l \in Chain : l \in Chain' <=> l.day # Oldest(plan[p])
         /\ \A l \in Chain', m \in Chain \ Chain' : m.day < l.day /\ m.at < l.at /\ m.seq < l.seq
         /\ ~hole => \A l \in Chain \ Chain' : l.seq <= checkpoint.seq
<1> USE DEF Base, Chained
<1> DEFINE o == Oldest(plan[p])
<1>1. /\ pc[p] = "removing" /\ UNCHANGED <<day, checkpoint, tail, hole>>
      /\ log' = log \ Partition(o)
  BY DEF RemovePartition
<1>2. Chain' \subseteq Chain /\ \A l \in Chain : l \in Chain' <=> l.day # o
  BY <1>1 DEF Chain, Readable, Partition
<1>3. o \in plan[p] /\ o \in Nat /\ \A e \in dirs : o <= e
  BY <1>1, RemovesOldest
<1>4. ASSUME NEW l \in Chain', NEW m \in Chain \ Chain'
      PROVE  m.day < l.day /\ m.at < l.at /\ m.seq < l.seq
  <2>1. m.day = o /\ l.day # o /\ o <= l.day /\ l.day \in Nat /\ l \in Chain
    BY <1>2, <1>3, <1>4, ChainFacts
  <2>2. m.day < l.day
    BY <1>3, <2>1
  <2>3. m.at < l.at
    BY <2>1, <2>2, ChainFacts
  <2>4. QED
    BY <2>1, <2>2, <2>3 DEF Linked
<1>5. ASSUME ~hole, NEW l \in Chain \ Chain'
      PROVE  l.seq <= checkpoint.seq
  <2>1. l.day = o /\ l.day <= o
    BY <1>2, <1>3
  <2>2. QED
    BY <1>1, <1>3, <1>5, <2>1 DEF Covered
<1>6. QED
  BY <1>1, <1>2, <1>4, <1>5

LEMMA ChainedRemove == ASSUME Base, NEW p \in Proc, RemovePartition(p) PROVE Chained'
<1> USE DEF Base, Chained
<1>1. /\ UNCHANGED <<day, checkpoint, tail, hole>> /\ Chain' \subseteq Chain
      /\ \A l \in Chain', m \in Chain \ Chain' : m.day < l.day /\ m.at < l.at /\ m.seq < l.seq
      /\ ~hole => \A l \in Chain \ Chain' : l.seq <= checkpoint.seq
  BY RemovedChain
<1>2. \A q \in Proc : /\ pc'[q] = "writing" => pc[q] = "writing"
                      /\ pc'[q] = "removing" => pc[q] = "removing"
                      /\ plan'[q] \subseteq plan[q]
  BY DEF RemovePartition, Typed, TypeOK
<1>3. /\ \A l \in Chain : l.seq \in Nat /\ l.at \in Nat
      /\ checkpoint.seq \in Nat /\ \A q \in Proc : tail[q].seq \in Nat
  BY ChainFacts, TailNumbers
<1>4. ASSUME NEW l \in Chain', NEW m \in Chain', l.at < m.at
      PROVE  l.seq < m.seq /\ \E k \in Chain' : k.at = m.prev /\ m.seq = k.seq + 1
  <2>1. l \in Chain /\ m \in Chain
    BY <1>1
  <2>2. l.seq < m.seq
    BY <1>4, <2>1 DEF Linked
  <2>3. PICK k \in Chain : k.at = m.prev /\ m.seq = k.seq + 1
    BY <1>4, <2>1 DEF Linked
  <2>4. k \in Chain'
    <3>1. k \in Chain \ Chain' => k.seq < l.seq
      BY <1>1
    <3>2. QED
      BY <1>3, <2>1, <2>2, <2>3, <3>1
  <2>5. QED
    BY <2>2, <2>3, <2>4
<1>5. Linked'
  BY <1>1, <1>4 DEF Linked
<1>6. Sealed'
  <2>1. ASSUME NEW m \in Chain'
        PROVE  \E l \in Chain' : checkpoint.seq <= l.seq
    <3>1. PICK l \in Chain : checkpoint.seq <= l.seq
      BY <1>1 DEF Sealed
    <3>2. l \in Chain \ Chain' => checkpoint.seq <= m.seq
      BY <1>1, <1>3, <3>1
    <3>3. QED
      BY <3>1, <3>2
  <2>2. QED
    BY <1>1, <1>2, <2>1 DEF Sealed
<1>7. ASSUME NEW q \in Proc, pc'[q] = "writing"
      PROVE  /\ Chain' # {} => \E l \in Chain' : l.seq = tail[q].seq
             /\ Chain' = {} /\ ~hole => tail[q].seq = checkpoint.seq
  <2>1. pc[q] = "writing"
    BY <1>2, <1>7
  <2>2. CASE Chain = {}
    BY <1>1, <2>1, <2>2 DEF Tails
  <2>3. CASE Chain # {}
    <3>1. PICK l \in Chain : l.seq = tail[q].seq
      BY <2>1, <2>3 DEF Tails
    <3>2. ASSUME NEW m \in Chain' PROVE l \in Chain'
      <4>1. m.seq <= tail[q].seq
        BY <1>1, <2>1 DEF Tails
      <4>2. l \notin Chain' => l.seq < m.seq
        BY <1>1
      <4>3. QED
        BY <1>1, <1>3, <3>1, <4>1, <4>2
    <3>3. Chain' = {} /\ ~hole => l.seq <= checkpoint.seq
      BY <1>1
    <3>4. checkpoint.seq <= tail[q].seq
      BY <2>1 DEF Tails
    <3>5. QED
      BY <1>3, <3>1, <3>2, <3>3, <3>4
  <2>4. QED
    BY <2>2, <2>3
<1>8. Tails'
  BY <1>1, <1>2, <1>7 DEF Tails
<1>9. Covered'
  BY <1>1, <1>2 DEF Covered
<1>10. QED
  BY <1>5, <1>6, <1>8, <1>9

LEMMA BaseStep == ASSUME Base, Next PROVE Base'
<1>1. Typed' /\ Ordered' /\ Planned'
  BY TypedStep, OrderedStep, PlannedStep DEF Base
<1>2. Chained'
  BY NextSteps, ChainedMidnight, ChainedStartAppend, ChainedWrite, ChainedRedact, ChainedPlan,
     ChainedCheckpoint, ChainedRemove DEF Quiet
<1>3. QED
  BY <1>1, <1>2 DEF Base

LEMMA BaseInit == Init => Base
<1> SUFFICES ASSUME Init PROVE Base
  OBVIOUS
<1>1. Chain = {} /\ log = {} /\ checkpoint.seq = 0 /\ checkpoint.hash = 0
      /\ \A p \in Proc : pc[p] = "idle" /\ plan[p] = {}
  BY DEF Init, Chain, Readable, None
<1>2. Typed
  BY TypedInit
<1>3. QED
  BY <1>1, <1>2 DEF Base, Chained, Ordered, Planned, Linked, Sealed, Tails, Covered

LEMMA BaseStutter == ASSUME Base, UNCHANGED vars PROVE Base'
<1>1. Typed'
  BY TypedStutter DEF Base
<1>2. Ordered' /\ Planned'
  BY DEF Base, vars, Ordered, Planned, Going
<1>3. Chain' = Chain
  BY DEF vars, Chain
<1>4. Chained'
  BY <1>3 DEF Base, vars, Chained, Linked, Sealed, Tails, Covered
<1>5. QED
  BY <1>1, <1>2, <1>4 DEF Base

LEMMA BaseAlways == Spec => []Base
<1>1. Base /\ [Next]_vars => Base'
  BY BaseStep, BaseStutter
<1>2. QED
  BY <1>1, BaseInit, PTL DEF Spec

-----------------------------------------------------------------------------
(* The front of the chain.                                                  *)

\* The first event of the chain hangs from nothing or from the checkpoint,
\* or the checkpoint covers it.
Front == ~hole =>
  \A l \in Chain : (\A m \in Chain : ~(m.at < l.at)) =>
    l.prev \in {0, checkpoint.hash} \/ l.seq <= checkpoint.seq

LEMMA FrontIsExplained == Front => TrimExplained
<1>1. \A l : Readable(Older(l, log)) = {m \in Chain : m.at < l.at}
  BY DEF Readable, Older, Chain
<1>2. QED
  BY <1>1 DEF Front, TrimExplained, Chain

LEMMA FrontStep == ASSUME Base, Front, Next PROVE Front'
<1> USE DEF Base, Chained
<1>1. CASE Midnight
  BY <1>1 DEF Front, Midnight, history, Chain
<1>2. ASSUME NEW p \in Proc, StartAppend(p) PROVE Front'
  BY <1>2 DEF Front, StartAppend, disk, history, Chain
<1>3. ASSUME NEW p \in Proc, Write(p) PROVE Front'
  <2>1. UNCHANGED <<checkpoint, hole>> /\ pc[p] = "writing"
    BY <1>3, Wrote
  <2>2. CASE Chain' = Chain
    BY <2>1, <2>2 DEF Front
  <2>3. ASSUME NEW n \in log', Chain' = Chain \cup {n}, n.at = fresh + 1, n.prev = tail[p].hash
        PROVE  Front'
    <3>1. \A l \in Chain : l.at \in Nat /\ l.at < n.at
      BY <2>3, ChainFacts DEF Typed, TypeOK
    <3>2. ASSUME ~hole, Chain = {} PROVE n.prev = checkpoint.hash
      BY <2>1, <2>3, <3>2 DEF Tails
    <3>3. ASSUME ~hole, NEW l \in Chain, \A m \in Chain' : ~(m.at < l.at)
          PROVE  l.prev \in {0, checkpoint.hash} \/ l.seq <= checkpoint.seq
      BY <2>3, <3>3 DEF Front
    <3>4. QED
      BY <2>1, <2>3, <3>1, <3>2, <3>3 DEF Front
  <2>4. ASSUME NEW u \in Chain, \A m \in log : m.at <= u.at, Chain' = Chain \ {u}
        PROVE  Front'
    <3>1. \A l \in Chain : l.at <= u.at /\ l.at \in Nat
      BY <2>4, ChainFacts
    <3>2. QED
      BY <2>1, <2>4, <3>1 DEF Front
  <2>5. QED
    BY <1>3, <2>2, <2>3, <2>4, WroteChain
<1>4. ASSUME NEW p \in Proc, StartRedact(p) \/ Rewrite(p) PROVE Front'
  <2>1. UNCHANGED <<checkpoint, hole>>
    BY <1>4 DEF StartRedact, Rewrite, disk, history
  <2>2. /\ \A m \in Chain' : \E l \in Chain : Alike(m, l)
        /\ \A l \in Chain : \E m \in Chain' : Alike(m, l)
    BY <1>4, RedactChain
  <2>3. QED
    BY <2>1, <2>2 DEF Front, Alike
<1>5. ASSUME NEW p \in Proc, Stop(p) \/ \E days \in AuditDays : PlanRetention(p, days)
      PROVE  Front'
  BY <1>5 DEF Front, Stop, PlanRetention, disk, history, Chain
<1>6. ASSUME NEW p \in Proc, WriteCheckpoint(p) PROVE Front'
  <2>1. Chain' = Chain /\ (hole => hole')
    BY <1>6, CheckpointTaken
  <2>2. CASE checkpoint' = checkpoint
    BY <2>1, <2>2 DEF Front
  <2>3. ASSUME NEW e \in Chain, checkpoint' = [seq |-> e.seq, hash |-> e.at],
               NEW l \in Chain, \A m \in Chain : ~(m.at < l.at)
        PROVE  l.seq <= checkpoint'.seq
    <3>1. checkpoint'.seq = e.seq /\ e.seq \in Nat /\ l.seq \in Nat
      BY <2>3, ChainFacts
    <3>2. l.at < e.at \/ l = e
      BY <2>3, ChainFacts
    <3>3. QED
      BY <3>1, <3>2 DEF Linked
  <2>4. QED
    BY <1>6, <2>1, <2>2, <2>3, CheckpointTaken DEF Front
<1>7. ASSUME NEW p \in Proc, RemovePartition(p) PROVE Front'
  <2>1. /\ UNCHANGED <<checkpoint, hole>> /\ Chain' \subseteq Chain
        /\ \A l \in Chain', m \in Chain \ Chain' : m.at < l.at
        /\ ~hole => \A l \in Chain \ Chain' : l.seq <= checkpoint.seq
    BY <1>7, RemovedChain
  <2>2. ASSUME ~hole, NEW l \in Chain', \A m \in Chain' : ~(m.at < l.at)
        PROVE  l.prev \in {0, checkpoint.hash} \/ l.seq <= checkpoint.seq
    <3>1. CASE \A m \in Chain : ~(m.at < l.at)
      BY <2>1, <2>2, <3>1 DEF Front
    <3>2. CASE \E m \in Chain : m.at < l.at
      <4>1. PICK k \in Chain : k.at = l.prev /\ l.seq = k.seq + 1
        BY <2>1, <3>2 DEF Linked
      <4>2. k \in Chain /\ k.seq \in Nat /\ k.at \in Nat /\ l.at \in Nat /\ l.seq \in Nat
            /\ l \in Chain
        BY <2>1, <4>1, ChainFacts
      <4>3. k.at < l.at
        <5>1. k # l /\ ~(l.seq < k.seq)
          BY <4>1, <4>2
        <5>2. k.at # l.at
          BY <4>2, <5>1, ChainFacts
        <5>3. QED
          BY <4>2, <5>1, <5>2 DEF Linked
      <4>4. k \notin Chain'
        BY <2>2, <4>3
      <4>5. k.seq <= checkpoint.seq /\ checkpoint.seq \in Nat
        BY <2>1, <2>2, <4>2, <4>4, TailNumbers
      <4>6. k.seq = checkpoint.seq => k.at = checkpoint.hash
        BY <4>2 DEF Sealed
      <4>7. QED
        BY <4>1, <4>2, <4>5, <4>6
    <3>3. QED
      BY <3>1, <3>2
  <2>3. QED
    BY <2>1, <2>2 DEF Front
<1>8. QED
  BY <1>1, <1>2, <1>3, <1>4, <1>5, <1>6, <1>7, NextSteps DEF Quiet

LEMMA FrontAlways == Spec => []Front
<1>1. Init => Front
  BY DEF Init, Front, Chain, Readable
<1>2. Base /\ Front /\ [Next]_vars => Front'
  <2>1. ASSUME Front, UNCHANGED vars PROVE Front'
    BY <2>1 DEF Front, vars, Chain
  <2>2. QED
    BY <2>1, FrontStep
<1>3. QED
  BY <1>1, <1>2, BaseAlways, PTL DEF Spec

\* Whatever retention removes, and with it the partitions it takes, the first
\* event left is explained by the checkpoint, unless retention found nothing
\* to record (write_trim_checkpoint(), apply_retention()).
THEOREM TrimsExplained == Spec => []TrimExplained
BY FrontAlways, FrontIsExplained, PTL

-----------------------------------------------------------------------------
(* Pages.                                                                   *)

LEMMA PageOfChain ==
  ASSUME Base, NEW first, NEW last, NEW before, NEW limit \in Nat
  PROVE  EventsPage(first, last, limit, before) = NewestOf(Matching(first, last, before), limit)
<1> DEFINE M == Matching(first, last, before)
           Later(l) == {m \in M : m.day > l.day}
           Above(l) == {m \in M : m.at > l.at}
           opened == {l \in M : Cardinality(Later(l)) < limit}
           Ahead(l) == {m \in opened : m.seq > l.seq}
<1>1. M \subseteq Chain /\ M \subseteq log
  BY DEF Matching, Chain, Readable
<1>2. IsFiniteSet(M)
  BY <1>1, FS_Subset DEF Base, Typed, TypeOK
<1>3. ASSUME NEW S \in SUBSET M
      PROVE  /\ IsFiniteSet(S) /\ Cardinality(S) \in Nat
             /\ \A T \in SUBSET S : Cardinality(T) <= Cardinality(S) /\ Cardinality(T) \in Nat
  <2>1. IsFiniteSet(S)
    BY <1>2, FS_Subset
  <2>2. ASSUME NEW T \in SUBSET S PROVE IsFiniteSet(T) /\ Cardinality(T) <= Cardinality(S)
    BY <2>1, FS_Subset
  <2>3. QED
    BY <2>1, <2>2, FS_CardinalityType
<1>4. ASSUME NEW l \in M, NEW m \in M
      PROVE  /\ m.day > l.day => m.at > l.at
             /\ m.at > l.at => ~(l.day > m.day)
             /\ m.seq > l.seq <=> m.at > l.at
  <2>1. l \in Chain /\ m \in Chain
    BY <1>1
  <2>2. /\ l.at \in Nat /\ m.at \in Nat /\ l.seq \in Nat /\ m.seq \in Nat
        /\ l.day \in Nat /\ m.day \in Nat
    BY <2>1, ChainFacts DEF Base
  <2>3. (l.day < m.day => l.at < m.at) /\ (m.day < l.day => m.at < l.at)
    BY <2>1, ChainFacts DEF Base
  <2>4. l.at = m.at => l = m
    BY <2>1, ChainFacts DEF Base
  <2>5. (l.at < m.at => l.seq < m.seq) /\ (m.at < l.at => m.seq < l.seq)
    BY <2>1 DEF Base, Chained, Linked
  <2>6. QED
    BY <2>2, <2>3, <2>4, <2>5
<1>5. EventsPage(first, last, limit, before) = {l \in opened : Cardinality(Ahead(l)) < limit}
  BY DEF EventsPage
<1>6. NewestOf(M, limit) = {l \in M : Cardinality(Above(l)) < limit}
  BY DEF NewestOf
<1>7. ASSUME NEW l \in M, Cardinality(Above(l)) < limit
      PROVE  l \in opened /\ Cardinality(Ahead(l)) < limit
  <2>1. Later(l) \subseteq Above(l) /\ Ahead(l) \subseteq Above(l) /\ Above(l) \in SUBSET M
    BY <1>4
  <2>2. /\ Cardinality(Later(l)) <= Cardinality(Above(l)) /\ Cardinality(Later(l)) \in Nat
        /\ Cardinality(Ahead(l)) <= Cardinality(Above(l)) /\ Cardinality(Ahead(l)) \in Nat
        /\ Cardinality(Above(l)) \in Nat
    <3> HIDE DEF Later, Ahead, Above, M
    <3> QED
      BY <1>3, <2>1
  <2>3. Cardinality(Later(l)) < limit /\ Cardinality(Ahead(l)) < limit
    BY <1>7, <2>2
  <2>4. QED
    BY <2>3
<1>8. ASSUME NEW l \in opened, Cardinality(Ahead(l)) < limit
      PROVE  Cardinality(Above(l)) < limit
  <2>1. l \in M /\ Cardinality(Later(l)) < limit
    OBVIOUS
  <2>2. ASSUME NEW m \in Above(l) PROVE m \in opened
    <3>1. m \in M /\ m.at > l.at
      OBVIOUS
    <3>2. l.day \in Nat /\ m.day \in Nat /\ \A k \in M : k.day \in Nat
      BY <1>1, <2>1, <3>1, ChainFacts DEF Base
    <3>3. Later(m) \subseteq Later(l) /\ Later(l) \in SUBSET M
      BY <1>4, <2>1, <3>1, <3>2
    <3>4. /\ Cardinality(Later(m)) <= Cardinality(Later(l)) /\ Cardinality(Later(m)) \in Nat
          /\ Cardinality(Later(l)) \in Nat
      <4> HIDE DEF Later, M
      <4> QED
        BY <1>3, <3>3
    <3>5. Cardinality(Later(m)) < limit
      BY <2>1, <3>4
    <3>6. QED
      BY <3>1, <3>5
  <2>3. Above(l) = Ahead(l)
    <3>1. ASSUME NEW m \in Above(l) PROVE m \in Ahead(l)
      BY <1>4, <2>1, <2>2
    <3>2. ASSUME NEW m \in Ahead(l) PROVE m \in Above(l)
      BY <1>4, <2>1
    <3>3. QED
      BY <3>1, <3>2
  <2>4. QED
    BY <1>8, <2>3
<1>9. {l \in opened : Cardinality(Ahead(l)) < limit} = {l \in M : Cardinality(Above(l)) < limit}
  <2>1. opened \subseteq M
    OBVIOUS
  <2> HIDE DEF M, Above, Ahead, opened
  <2>2. QED
    BY <1>7, <1>8, <2>1
<1>10. QED
  BY <1>5, <1>6, <1>9

\* Closing the walk over the partitions early and sorting by number gives the
\* newest events in the order they were written (events(), audit.py:513).
THEOREM PagesAreNewest == Spec => []PageIsNewest
<1>1. Base => PageIsNewest
  BY PageOfChain DEF PageIsNewest
<1>2. QED
  BY <1>1, BaseAlways, PTL

-----------------------------------------------------------------------------
(* Losses.                                                                  *)

Hashes == {l.at : l \in Chain}
Open == {l \in log : ~l.ended}

\* Each cut write pays for the unended line it may leave, and that line for
\* the event that is later appended to it.
Losses ==
  /\ \A l \in Open : l.at \notin acked
  /\ Cardinality(acked \ Hashes) + Cardinality(Open) <= torn

LEMMA Countable ==
  ASSUME Typed
  PROVE  /\ IsFiniteSet(acked) /\ IsFiniteSet(Open)
         /\ \A S \in SUBSET acked : IsFiniteSet(S) /\ Cardinality(S) \in Nat
         /\ \A S \in SUBSET Open : IsFiniteSet(S) /\ Cardinality(S) \in Nat
         /\ torn \in Nat
<1>1. IsFiniteSet(1..fresh)
  BY FS_Interval DEF Typed, TypeOK
<1>2. IsFiniteSet(acked)
  BY <1>1, FS_Subset DEF Typed, TypeOK
<1>3. Open \in SUBSET log /\ IsFiniteSet(log) /\ torn \in Nat
  BY DEF Open, Typed, TypeOK
<1>4. IsFiniteSet(Open)
  BY <1>3, FS_Subset
<1>5. ASSUME NEW T, IsFiniteSet(T)
      PROVE  \A S \in SUBSET T : IsFiniteSet(S) /\ Cardinality(S) \in Nat
  BY <1>5, FS_Subset, FS_CardinalityType
<1>6. QED
  BY <1>2, <1>3, <1>4, <1>5

\* Fewer events lost and fewer lines unended is no harm.
LEMMA FewerLosses ==
  ASSUME Typed, Losses, acked' \ Hashes' \subseteq acked \ Hashes, Open' \subseteq Open,
         acked' \subseteq acked, torn' = torn
  PROVE  Losses'
<1>1. IsFiniteSet(acked \ Hashes) /\ IsFiniteSet(Open)
  BY Countable
<1>2. /\ Cardinality(acked' \ Hashes') <= Cardinality(acked \ Hashes)
      /\ Cardinality(Open') <= Cardinality(Open)
      /\ IsFiniteSet(acked' \ Hashes') /\ IsFiniteSet(Open')
  BY <1>1, FS_Subset
<1>3. /\ Cardinality(acked' \ Hashes') \in Nat /\ Cardinality(acked \ Hashes) \in Nat
      /\ Cardinality(Open') \in Nat /\ Cardinality(Open) \in Nat /\ torn \in Nat
  BY <1>1, <1>2, Countable, FS_CardinalityType
<1>4. Cardinality(acked' \ Hashes') + Cardinality(Open') <= torn'
  BY <1>2, <1>3 DEF Losses
<1>5. QED
  BY <1>4 DEF Losses

LEMMA LossesWriteLine == ASSUME Base, Losses, NEW p \in Proc, WriteLine(p) PROVE Losses'
<1> DEFINE n == NewLine(p)
<1>1. /\ pc[p] = "writing" /\ n \in Parts(p) /\ log' = Appended(n)
      /\ acked' = acked \cup {fresh + 1} /\ torn' = torn
  BY DEF WriteLine, Parts
<1>2. /\ n.at = fresh + 1 /\ n.ended /\ n.kind # "unreadable"
      /\ Garbled(n).ended /\ Garbled(n).kind = "unreadable" /\ Garbled(n).at = fresh + 1
  <2>1. work[p].from \in DOMAIN Owed
    BY <1>1 DEF Base, Typed, TypeOK
  <2>2. Owed[work[p].from] # "unreadable"
    BY <2>1, Steps
  <2>3. n.kind = Owed[work[p].from] /\ n.ended = TRUE /\ n.at = fresh + 1
    BY DEF NewLine
  <2>4. /\ Garbled(n).kind = "unreadable" /\ Garbled(n).ended = n.ended
        /\ Garbled(n).at = fresh + 1
    BY <1>1, PartFields DEF Base
  <2>5. QED
    BY <2>2, <2>3, <2>4
<1>3. fresh + 1 \notin acked /\ \A l \in log : l.at # fresh + 1
  BY LineNumbers DEF Base, Typed, TypeOK
<1>4. IsFiniteSet(acked \ Hashes) /\ IsFiniteSet(Open) /\ torn \in Nat
      /\ Cardinality(acked \ Hashes) \in Nat /\ Cardinality(Open) \in Nat
  BY Countable DEF Base
<1>5. Cardinality(acked \ Hashes) + Cardinality(Open) <= torn
  BY DEF Losses
<1> HIDE DEF n
<1>6. CASE log' = log \cup {n}
  <2>1. Chain' = Chain \cup {n} /\ Open' = Open
    BY <1>2, <1>6 DEF Chain, Readable, Open
  <2>2. Hashes' = Hashes \cup {fresh + 1}
    BY <1>2, <2>1 DEF Hashes
  <2>3. acked' \ Hashes' = acked \ Hashes
    BY <1>1, <1>3, <2>2
  <2>4. \A l \in Open' : l.at \notin acked'
    BY <1>1, <1>3, <2>1 DEF Losses, Open
  <2>5. QED
    BY <1>1, <1>5, <2>1, <2>3, <2>4 DEF Losses
<1>7. CASE \E u \in log : ~u.ended /\ log' = (log \ {u}) \cup {Garbled(n)}
  <2>1. PICK u \in Open : log' = (log \ {u}) \cup {Garbled(n)}
    BY <1>7 DEF Open
  <2>2. Chain' = Chain \ {u} /\ Open' = Open \ {u}
    BY <1>2, <2>1 DEF Chain, Readable, Open
  <2>3. Hashes \subseteq Hashes' \cup {u.at}
    BY <2>2 DEF Hashes
  <2>4. acked' \ Hashes' \subseteq (acked \ Hashes) \cup {fresh + 1}
    BY <1>1, <2>1, <2>3 DEF Losses
  <2>5. /\ IsFiniteSet((acked \ Hashes) \cup {fresh + 1})
        /\ Cardinality((acked \ Hashes) \cup {fresh + 1}) = Cardinality(acked \ Hashes) + 1
    BY <1>3, <1>4, FS_AddElement
  <2>6. IsFiniteSet(acked' \ Hashes')
        /\ Cardinality(acked' \ Hashes') <= Cardinality(acked \ Hashes) + 1
    BY <2>4, <2>5, FS_Subset
  <2>7. Cardinality(Open') = Cardinality(Open) - 1
    BY <1>4, <2>1, <2>2, FS_RemoveElement
  <2>8. Cardinality(acked' \ Hashes') \in Nat
    BY <2>6, FS_CardinalityType
  <2>9. Cardinality(acked' \ Hashes') + Cardinality(Open') <= torn'
    BY <1>1, <1>4, <1>5, <2>6, <2>7, <2>8
  <2>10. \A l \in Open' : l.at \notin acked'
    BY <1>1, <1>3, <2>2 DEF Losses, Open
  <2>11. QED
    BY <2>9, <2>10 DEF Losses
<1>8. QED
  BY <1>1, <1>6, <1>7, AppendCases DEF Base

LEMMA LossesCutWrite == ASSUME Base, Losses, NEW p \in Proc, CutWrite(p) PROVE Losses'
<1>1. pc[p] = "writing" /\ acked' = acked /\ torn' = torn + 1
  BY DEF CutWrite
<1>2. \A l \in log : l.at # fresh + 1
  BY LineNumbers DEF Base
<1>3. fresh + 1 \notin acked
  BY DEF Base, Typed, TypeOK
<1>4. IsFiniteSet(acked \ Hashes) /\ IsFiniteSet(Open) /\ torn \in Nat
      /\ Cardinality(acked \ Hashes) \in Nat /\ Cardinality(Open) \in Nat
  BY Countable DEF Base
<1>5. \E n : /\ n.at = fresh + 1
             /\ acked \ Hashes' \subseteq acked \ Hashes
             /\ Open' \subseteq Open \cup {n}
  <2>1. CASE log' = log
    <3>1. Chain' = Chain /\ Open' = Open /\ Hashes' = Hashes
      BY <2>1 DEF Chain, Readable, Open, Hashes
    <3>2. NewLine(p).at = fresh + 1
      BY DEF NewLine
    <3>3. QED
      BY <3>1, <3>2
  <2>2. CASE log' # log
    <3>1. PICK part \in Parts(p) : log' = Appended(part)
      BY <2>2, CutCases DEF Base
    <3>2. /\ part.at = fresh + 1 /\ Garbled(part).at = fresh + 1
          /\ Garbled(part).kind = "unreadable"
      BY <1>1, PartFields DEF Base
    <3>3. CASE log' = log \cup {part}
      <4>1. Chain \subseteq Chain' /\ Open' \subseteq Open \cup {part}
        BY <3>3 DEF Chain, Readable, Open
      <4>2. Hashes \subseteq Hashes'
        BY <4>1 DEF Hashes
      <4>3. QED
        BY <3>2, <4>1, <4>2
    <3>4. CASE \E u \in log : ~u.ended /\ log' = (log \ {u}) \cup {Garbled(part)}
      <4>1. PICK u \in Open : log' = (log \ {u}) \cup {Garbled(part)}
        BY <3>4 DEF Open
      <4>2. Chain' = Chain \ {u} /\ Open' \subseteq Open \cup {Garbled(part)}
        BY <3>2, <4>1 DEF Chain, Readable, Open
      <4>3. Hashes \subseteq Hashes' \cup {u.at}
        BY <4>2 DEF Hashes
      <4>4. acked \ Hashes' \subseteq acked \ Hashes
        BY <4>1, <4>3 DEF Losses
      <4>5. QED
        BY <3>2, <4>2, <4>4
    <3>5. QED
      BY <1>1, <3>1, <3>3, <3>4, AppendCases DEF Base
  <2>3. QED
    BY <2>1, <2>2
<1>6. PICK n : /\ n.at = fresh + 1
               /\ acked \ Hashes' \subseteq acked \ Hashes
               /\ Open' \subseteq Open \cup {n}
  BY <1>5
<1>7. /\ IsFiniteSet(Open \cup {n}) /\ Cardinality(Open \cup {n}) <= Cardinality(Open) + 1
  <2>1. /\ IsFiniteSet(Open \cup {n})
        /\ Cardinality(Open \cup {n}) = IF n \in Open THEN Cardinality(Open)
                                        ELSE Cardinality(Open) + 1
    BY <1>4, FS_AddElement
  <2>2. QED
    BY <1>4, <2>1
<1>8. /\ IsFiniteSet(Open') /\ Cardinality(Open') <= Cardinality(Open \cup {n})
      /\ IsFiniteSet(acked \ Hashes')
      /\ Cardinality(acked \ Hashes') <= Cardinality(acked \ Hashes)
  BY <1>4, <1>6, <1>7, FS_Subset
<1>9. /\ Cardinality(Open') \in Nat /\ Cardinality(acked \ Hashes') \in Nat
      /\ Cardinality(Open \cup {n}) \in Nat
  BY <1>7, <1>8, FS_CardinalityType
<1>10. Cardinality(acked' \ Hashes') + Cardinality(Open') <= torn'
  BY <1>1, <1>4, <1>7, <1>8, <1>9 DEF Losses
<1>11. \A l \in Open' : l.at \notin acked'
  BY <1>1, <1>3, <1>6 DEF Losses
<1>12. QED
  BY <1>10, <1>11 DEF Losses

LEMMA LossesStep == ASSUME Base, Losses, Next PROVE Losses'
<1> USE DEF Base
<1>1. CASE UNCHANGED <<log, acked, torn>>
  BY <1>1 DEF Losses, Open, Hashes, Chain
<1>2. ASSUME NEW p \in Proc, Rewrite(p) PROVE Losses'
  <2>1. CASE log' = log
    BY <1>1, <1>2, <2>1 DEF Rewrite, history
  <2>2. ASSUME NEW t \in log, log' = {Redone(l, t) : l \in log}
        PROVE  Losses'
    <3>1. UNCHANGED <<acked, torn>>
      BY <1>2 DEF Rewrite, history
    <3>2. Open' \subseteq Open
      <4> SUFFICES ASSUME NEW m \in Open' PROVE m \in Open
        OBVIOUS
      <4>1. PICK l \in log : m = Redone(l, t) /\ (m.ended <=> l.ended \/ l.day = t.day)
        BY <2>2, RewriteKeeps DEF Open
      <4>2. ~m.ended /\ l.day # t.day
        BY <4>1 DEF Open
      <4>3. m = l /\ ~l.ended
        BY <4>1, <4>2 DEF Redone
      <4>4. QED
        BY <4>3 DEF Open
    <3>3. Hashes' = Hashes
      <4>1. /\ \A m \in Chain' : \E l \in Chain : m.at = l.at
            /\ \A l \in Chain : \E m \in Chain' : m.at = l.at
        BY <1>2, RedactChain DEF Alike
      <4>2. QED
        BY <4>1 DEF Hashes
    <3>4. QED
      BY <3>1, <3>2, <3>3, FewerLosses
  <2>3. QED
    BY <1>2, <2>1, <2>2, RewriteLines
<1>3. ASSUME NEW p \in Proc, RemovePartition(p) PROVE Losses'
  <2> DEFINE o == Oldest(plan[p])
             gone == {l.at : l \in Readable(Partition(o))}
  <2>1. log' = log \ Partition(o) /\ acked' = acked \ gone /\ torn' = torn
    BY <1>3 DEF RemovePartition
  <2>2. Open' \subseteq Open
    BY <2>1 DEF Open
  <2>3. Hashes \subseteq Hashes' \cup gone
    <3>1. \A l \in Chain : l \in Chain' \/ l \in Readable(Partition(o))
      BY <2>1 DEF Chain, Readable, Partition
    <3>2. QED
      BY <3>1 DEF Hashes
  <2>4. acked' \ Hashes' \subseteq acked \ Hashes /\ acked' \subseteq acked
    BY <2>1, <2>3
  <2>5. QED
    BY <2>1, <2>2, <2>4, FewerLosses
<1>4. ASSUME NEW p \in Proc, WriteLine(p) \/ CutWrite(p) PROVE Losses'
  BY <1>4, LossesWriteLine, LossesCutWrite
<1>5. CASE Midnight
  BY <1>1, <1>5 DEF Midnight, history
<1>6. ASSUME NEW p \in Proc, StartAppend(p) \/ WriteCheckpoint(p) \/ StartRedact(p) \/ Stop(p)
      PROVE  Losses'
  BY <1>1, <1>6 DEF StartAppend, WriteCheckpoint, StartRedact, Stop, disk, history
<1>7. ASSUME NEW p \in Proc, NEW days \in AuditDays, PlanRetention(p, days) PROVE Losses'
  BY <1>1, <1>7 DEF PlanRetention, disk, history
<1>8. QED
  BY <1>2, <1>3, <1>4, <1>5, <1>6, <1>7 DEF Next

\* An acknowledged event is lost at most once per write that was cut short
\* (append() behind a line without its newline, audit.py:355-363).
THEOREM LossesBounded == Spec => []LossBounded
<1>1. Init => Losses
  <2> SUFFICES ASSUME Init PROVE Losses
    OBVIOUS
  <2>1. acked \ Hashes = {} /\ Open = {} /\ torn = 0
    BY DEF Init, Open
  <2>2. Cardinality(acked \ Hashes) = 0 /\ Cardinality(Open) = 0
    BY <2>1, FS_EmptySet
  <2>3. QED
    BY <2>1, <2>2 DEF Losses
<1>2. Base /\ Losses /\ [Next]_vars => Losses'
  <2>1. ASSUME Losses, UNCHANGED vars PROVE Losses'
    BY <2>1 DEF vars, Losses, Open, Hashes, Chain
  <2>2. QED
    BY <2>1, LossesStep
<1>3. Base /\ Losses => LossBounded
  <2> SUFFICES ASSUME Base, Losses PROVE LossBounded
    OBVIOUS
  <2>1. /\ Cardinality(acked \ Hashes) \in Nat /\ Cardinality(Open) \in Nat /\ torn \in Nat
    BY Countable DEF Base
  <2>2. Cardinality(acked \ Hashes) <= torn
    BY <2>1 DEF Losses
  <2>3. QED
    BY <2>2 DEF LossBounded, Hashes, Chain
<1>4. QED
  BY <1>1, <1>2, <1>3, BaseAlways, PTL DEF Spec

-----------------------------------------------------------------------------
(* Redactions.                                                              *)

\* A process between the rewrite of its partition and the event that says so.
Owes(p) == pc[p] = "explain" \/ (pc[p] = "writing" /\ work[p].from = "explain")

\* What is owed a record is emptied, and on safe ground: covered by the
\* checkpoint, or in a line that no append can tear away.
Owing == ~hole =>
  \A p \in Proc : Owes(p) =>
    /\ \A l \in Chain : l.seq = work[p].target => l.redacted
    /\ \/ work[p].target <= checkpoint.seq
       \/ \E l \in Chain : l.ended /\ l.seq = work[p].target

\* A record is about an event before it, which is emptied.
Recorded == ~hole =>
  \A r \in Chain : r.kind = "audit.redacted" =>
    /\ r.target < r.seq
    /\ \A l \in Chain : l.seq = r.target => l.redacted

LEMMA OwesSame ==
  ASSUME Typed, NEW p \in Proc, NEW q \in Proc,
         \/ StartAppend(p) \/ WriteCheckpoint(p) \/ RemovePartition(p) \/ StartRedact(p)
         \/ \E days \in AuditDays : PlanRetention(p, days)
  PROVE  (Owes(q)' <=> Owes(q)) /\ (Owes(q) => work'[q].target = work[q].target)
<1>1. ProcOK
  BY TypeParts DEF Typed
<1>2. CASE StartAppend(p)
  <2>1. /\ pc' = [pc EXCEPT ![p] = "writing"] /\ work' = [work EXCEPT ![p].from = pc[p]]
        /\ pc[p] # "writing"
    BY <1>2, Steps DEF StartAppend
  <2>2. CASE q = p
    <3>1. pc'[q] = "writing" /\ work'[q].from = pc[p] /\ work'[q].target = work[q].target
      BY <1>1, <2>1, <2>2 DEF ProcOK, WorkType
    <3>2. QED
      BY <2>1, <2>2, <3>1 DEF Owes
  <2>3. CASE q # p
    BY <1>1, <2>1, <2>3 DEF Owes, ProcOK
  <2>4. QED
    BY <2>2, <2>3
<1>3. CASE WriteCheckpoint(p) \/ RemovePartition(p)
  BY <1>1, <1>3 DEF WriteCheckpoint, RemovePartition, Owes, ProcOK
<1>4. CASE StartRedact(p)
  BY <1>1, <1>4 DEF StartRedact, Owes, ProcOK
<1>5. CASE \E days \in AuditDays : PlanRetention(p, days)
  BY <1>1, <1>5 DEF PlanRetention, Owes, ProcOK
<1>6. QED
  BY <1>2, <1>3, <1>4, <1>5

LEMMA OwesStop ==
  ASSUME Typed, NEW p \in Proc, NEW q \in Proc, Stop(p)
  PROVE  /\ Owes(q)' <=> Owes(q) /\ q # p
         /\ q # p => work'[q] = work[q]
         /\ Owes(p) => cut' = cut \cup {work[p].target}
         /\ cut \subseteq cut'
BY DEF Stop, Owes, Typed, TypeOK

LEMMA OwesWrite ==
  ASSUME Typed, NEW p \in Proc, NEW q \in Proc, Write(p)
  PROVE  /\ Owes(q)' <=> Owes(q) /\ q # p
         /\ q # p => work'[q] = work[q]
<1>1. pc'[p] # "explain" /\ pc'[p] # "writing"
  BY Wrote
<1>2. q # p => pc'[q] = pc[q] /\ work'[q] = work[q]
  BY Wrote
<1>3. QED
  BY <1>1, <1>2 DEF Owes

LEMMA OwesRewrite ==
  ASSUME Typed, NEW p \in Proc, Rewrite(p)
  PROVE  /\ ~Owes(p) /\ UNCHANGED <<checkpoint, dirs, hole, torn, cut, faults>>
         /\ \A q \in Proc : q # p => (Owes(q)' <=> Owes(q)) /\ work'[q] = work[q]
         /\ \/ log' = log /\ ~Owes(p)'
            \/ \E t \in Chain :
                 /\ t.seq = work[p].target /\ log' = {Redone(l, t) : l \in log}
                 /\ Owes(p)' /\ work'[p].target = work[p].target
<1>1. ProcOK /\ pc[p] = "rewriting"
  BY TypeParts DEF Typed, Rewrite
<1>2. ~Owes(p) /\ UNCHANGED <<checkpoint, dirs, hole, torn, cut, faults>>
  BY <1>1 DEF Owes, Rewrite, history
<1>3. CASE /\ log' = log /\ pc' = [pc EXCEPT ![p] = "idle"]
           /\ work' = [work EXCEPT ![p] = NoWork]
  <2>1. \A q \in Proc : q # p => (Owes(q)' <=> Owes(q)) /\ work'[q] = work[q]
    BY <1>1, <1>3 DEF Owes, ProcOK
  <2>2. ~Owes(p)'
    BY <1>1, <1>3 DEF Owes, ProcOK
  <2>3. QED
    BY <1>2, <1>3, <2>1, <2>2
<1>4. ASSUME NEW t \in log, t.seq = work[p].target, t.kind # "unreadable",
             log' = {Redone(l, t) : l \in log}, pc' = [pc EXCEPT ![p] = "explain"],
             work' = [work EXCEPT ![p].body = {}, ![p].at = 0, ![p].from = "idle"]
      PROVE  /\ \A q \in Proc : q # p => (Owes(q)' <=> Owes(q)) /\ work'[q] = work[q]
             /\ t \in Chain /\ Owes(p)' /\ work'[p].target = work[p].target
  <2>1. t \in Chain
    BY <1>4 DEF Chain, Readable
  <2>2. work'[p].target = work[p].target /\ pc'[p] = "explain"
    BY <1>1, <1>4 DEF ProcOK, WorkType
  <2>3. \A q \in Proc : q # p => pc'[q] = pc[q] /\ work'[q] = work[q]
    BY <1>1, <1>4 DEF ProcOK
  <2>4. QED
    BY <2>1, <2>2, <2>3 DEF Owes
<1>5. \/ /\ log' = log /\ pc' = [pc EXCEPT ![p] = "idle"]
         /\ work' = [work EXCEPT ![p] = NoWork]
      \/ \E t \in log :
           /\ t.seq = work[p].target /\ t.kind # "unreadable" /\ t.day \in dirs
           /\ log' = {Redone(l, t) : l \in log} /\ pc' = [pc EXCEPT ![p] = "explain"]
           /\ work' = [work EXCEPT ![p].body = {}, ![p].at = 0, ![p].from = "idle"]
  BY RewriteLines, ZenonT(60)
<1>6. CASE \E t \in log :
             /\ t.seq = work[p].target /\ t.kind # "unreadable"
             /\ log' = {Redone(l, t) : l \in log} /\ pc' = [pc EXCEPT ![p] = "explain"]
             /\ work' = [work EXCEPT ![p].body = {}, ![p].at = 0, ![p].from = "idle"]
  <2>1. PICK t \in log :
             /\ t.seq = work[p].target /\ t.kind # "unreadable"
             /\ log' = {Redone(l, t) : l \in log} /\ pc' = [pc EXCEPT ![p] = "explain"]
             /\ work' = [work EXCEPT ![p].body = {}, ![p].at = 0, ![p].from = "idle"]
    BY <1>6
  <2>2. /\ \A q \in Proc : q # p => (Owes(q)' <=> Owes(q)) /\ work'[q] = work[q]
        /\ t \in Chain /\ Owes(p)' /\ work'[p].target = work[p].target
    BY <1>4, <2>1
  <2>3. QED
    BY <1>2, <2>1, <2>2
<1>7. QED
  BY <1>2, <1>3, <1>5, <1>6

\* What holds of the records and the debts holds when the chain has lost
\* nothing but what is covered, or unended.
LEMMA RecordsKept ==
  ASSUME Base, Owing, Recorded, hole => hole', checkpoint.seq <= checkpoint'.seq,
         checkpoint'.seq \in Nat, Chain' \subseteq Chain,
         \A l \in Chain \ Chain' : hole \/ l.seq <= checkpoint.seq \/ ~l.ended,
         \A q \in Proc : Owes(q)' => Owes(q) /\ work'[q].target = work[q].target
  PROVE  (Owing /\ Recorded)'
<1>1. Recorded'
  BY DEF Recorded
<1>2. ASSUME ~hole', NEW q \in Proc, Owes(q)'
      PROVE  /\ \A l \in Chain' : l.seq = work'[q].target => l.redacted
             /\ \/ work'[q].target <= checkpoint'.seq
                \/ \E l \in Chain' : l.ended /\ l.seq = work'[q].target
  <2>1. /\ \A l \in Chain : l.seq = work[q].target => l.redacted
        /\ \/ work[q].target <= checkpoint.seq
           \/ \E l \in Chain : l.ended /\ l.seq = work[q].target
    BY <1>2 DEF Owing
  <2>2. work[q].target \in Nat /\ checkpoint.seq \in Nat
    BY TailNumbers DEF Base
  <2>3. QED
    BY <1>2, <2>1, <2>2
<1>3. Owing'
  BY <1>2 DEF Owing
<1>4. QED
  BY <1>1, <1>3

LEMMA RecordsWrite ==
  ASSUME Base, Owing, Recorded, NEW p \in Proc, Write(p)
  PROVE  (Owing /\ Recorded)'
<1> USE DEF Base, Chained
<1>1. /\ UNCHANGED <<checkpoint, hole>> /\ pc[p] = "writing"
      /\ \A q \in Proc : Owes(q)' => Owes(q) /\ work'[q].target = work[q].target
  BY Wrote, OwesWrite
<1>2. /\ tail[p].seq \in Nat /\ checkpoint.seq \in Nat /\ checkpoint.seq <= tail[p].seq
      /\ \A l \in Chain : l.seq <= tail[p].seq /\ l.seq \in Nat /\ l.target \in Nat
      /\ \A q \in Proc : work[q].target \in Nat
  BY <1>1, TailNumbers, ChainFacts DEF Tails
<1>3. ASSUME Chain' \subseteq Chain, \A l \in Chain \ Chain' : ~l.ended
      PROVE  (Owing /\ Recorded)'
  BY <1>1, <1>2, <1>3, RecordsKept
<1>4. ASSUME NEW n \in log', Chain' = Chain \cup {n}, n.seq = tail[p].seq + 1,
             n.target = work[p].target, n.kind = Owed[work[p].from]
      PROVE  (Owing /\ Recorded)'
  <2>1. ASSUME ~hole, NEW q \in Proc, Owes(q)
        PROVE  /\ work[q].target < n.seq
               /\ \A l \in Chain' : l.seq = work[q].target => l.redacted
               /\ \/ work[q].target <= checkpoint.seq
                  \/ \E l \in Chain' : l.ended /\ l.seq = work[q].target
    <3>1. /\ \A l \in Chain : l.seq = work[q].target => l.redacted
          /\ \/ work[q].target <= checkpoint.seq
             \/ \E l \in Chain : l.ended /\ l.seq = work[q].target
      BY <2>1 DEF Owing
    <3>2. work[q].target < n.seq
      BY <1>2, <1>4, <3>1
    <3>3. QED
      BY <1>2, <1>4, <3>1, <3>2
  <2>2. Owing'
    BY <1>1, <2>1 DEF Owing
  <2>3. ASSUME ~hole, NEW r \in Chain', r.kind = "audit.redacted"
        PROVE  r.target < r.seq /\ \A l \in Chain' : l.seq = r.target => l.redacted
    <3>1. CASE r \in Chain
      <4>1. r.target < r.seq /\ \A l \in Chain : l.seq = r.target => l.redacted
        BY <2>3, <3>1 DEF Recorded
      <4>2. r.target < n.seq
        BY <1>2, <1>4, <3>1, <4>1
      <4>3. QED
        BY <1>2, <1>4, <4>1, <4>2
    <3>2. CASE r = n
      <4>1. Owes(p)
        BY <1>1, <1>4, <2>3, <3>2, Steps DEF Owes, Typed, TypeOK
      <4>2. QED
        BY <1>4, <2>1, <2>3, <3>2, <4>1
    <3>3. QED
      BY <1>4, <3>1, <3>2
  <2>4. Recorded'
    BY <1>1, <2>3 DEF Recorded
  <2>5. QED
    BY <2>2, <2>4
<1>5. CASE Chain' = Chain
  BY <1>3, <1>5
<1>6. ASSUME NEW u \in Chain, ~u.ended, Chain' = Chain \ {u}
      PROVE  (Owing /\ Recorded)'
  BY <1>3, <1>6
<1>7. QED
  BY <1>4, <1>5, <1>6, WroteChain

LEMMA RecordsRewrite ==
  ASSUME Base, Owing, Recorded, NEW p \in Proc, Rewrite(p)
  PROVE  (Owing /\ Recorded)'
<1> USE DEF Base, Chained
<1>1. /\ ~Owes(p) /\ UNCHANGED <<checkpoint, hole>>
      /\ \A q \in Proc : q # p => (Owes(q)' <=> Owes(q)) /\ work'[q] = work[q]
  BY OwesRewrite
<1>2. CASE log' = log /\ ~Owes(p)'
  <2>1. Chain' = Chain
    BY <1>2 DEF Chain
  <2>2. \A q \in Proc : Owes(q)' => Owes(q) /\ work'[q].target = work[q].target
    BY <1>1, <1>2
  <2>3. checkpoint'.seq \in Nat /\ checkpoint.seq <= checkpoint'.seq
    BY <1>1, TailNumbers
  <2>4. QED
    BY <1>1, <2>1, <2>2, <2>3, RecordsKept
<1>3. ASSUME NEW t \in Chain, t.seq = work[p].target, log' = {Redone(l, t) : l \in log},
             Owes(p)', work'[p].target = work[p].target
      PROVE  (Owing /\ Recorded)'
  <2>0. t \in log
    BY ChainFacts
  <2>1. /\ \A m \in Chain' : \E l \in Chain :
              Alike(m, l) /\ (l.redacted \/ l = t => m.redacted)
        /\ \A l \in Chain : \E m \in Chain' :
              Alike(m, l) /\ (l.redacted \/ l = t => m.redacted)
                          /\ (l.ended \/ l = t => m.ended)
    <3>1. /\ \A m \in log' : \E l \in log :
              /\ Alike(m, l) /\ (l.redacted \/ l = t => m.redacted)
          /\ \A l \in log : \E m \in log' :
              /\ Alike(m, l) /\ (l.redacted \/ l = t => m.redacted)
              /\ (l.ended \/ l = t => m.ended)
      BY <1>3, <2>0, RedoneLines DEF Base
    <3>2. \A l, m : Alike(m, l) => m.kind = l.kind
      BY DEF Alike
    <3>3. /\ \A l : l \in Chain <=> l \in log /\ l.kind # "unreadable"
          /\ \A l : l \in Chain' <=> l \in log' /\ l.kind # "unreadable"
      BY DEF Chain, Readable
    <3> HIDE DEF Base
    <3>4. \A m \in Chain' : \E l \in Chain :
              Alike(m, l) /\ (l.redacted \/ l = t => m.redacted)
      BY <3>1, <3>2, <3>3
    <3>5. \A l \in Chain : \E m \in Chain' :
              Alike(m, l) /\ (l.redacted \/ l = t => m.redacted)
                          /\ (l.ended \/ l = t => m.ended)
      BY <3>1, <3>2, <3>3
    <3>6. QED
      BY <3>4, <3>5
  <2>2. \A l \in Chain : l.seq = t.seq => l = t
    <3>1. \A l \in Chain : l.seq \in Nat /\ l.at \in Nat
      BY ChainFacts
    <3>2. \A l \in Chain : l.at = t.at => l = t
      BY ChainFacts
    <3>3. QED
      BY <3>1, <3>2 DEF Linked
  <2>3. ASSUME ~hole, NEW q \in Proc, Owes(q)'
        PROVE  /\ \A m \in Chain' : m.seq = work'[q].target => m.redacted
               /\ \/ work'[q].target <= checkpoint.seq
                  \/ \E m \in Chain' : m.ended /\ m.seq = work'[q].target
    <3>1. CASE q = p
      BY <1>3, <2>1, <2>2, <3>1 DEF Alike
    <3>2. CASE q # p
      <4>1. /\ Owes(q) /\ work'[q].target = work[q].target
            /\ \A l \in Chain : l.seq = work[q].target => l.redacted
            /\ \/ work[q].target <= checkpoint.seq
               \/ \E l \in Chain : l.ended /\ l.seq = work[q].target
        BY <1>1, <2>3, <3>2 DEF Owing
      <4>2. QED
        BY <2>1, <4>1 DEF Alike
    <3>3. QED
      BY <3>1, <3>2
  <2>4. Owing'
    BY <1>1, <2>3 DEF Owing
  <2>5. Recorded'
    BY <1>1, <2>1 DEF Recorded, Alike
  <2>6. QED
    BY <2>4, <2>5
<1>4. QED
  BY <1>2, <1>3, OwesRewrite

LEMMA RecordsStep == ASSUME Base, Owing, Recorded, Next PROVE (Owing /\ Recorded)'
<1> USE DEF Base
<1>1. checkpoint.seq \in Nat
  BY DEF Typed, TypeOK
<1>2. CASE Midnight
  <2>1. Chain' = Chain /\ UNCHANGED <<checkpoint, hole, pc, work>>
    BY <1>2 DEF Midnight, history, Chain
  <2>2. QED
    BY <2>1 DEF Owing, Recorded, Owes
<1>3. ASSUME NEW p \in Proc, StartAppend(p) \/ StartRedact(p) \/ Stop(p)
                             \/ \E days \in AuditDays : PlanRetention(p, days)
      PROVE  (Owing /\ Recorded)'
  <2>1. Chain' = Chain /\ UNCHANGED <<checkpoint, hole>>
    BY <1>3 DEF StartAppend, StartRedact, Stop, PlanRetention, disk, history, Chain
  <2>2. \A q \in Proc : Owes(q)' => Owes(q) /\ work'[q].target = work[q].target
    BY <1>3, OwesSame, OwesStop
  <2>3. QED
    BY <1>1, <2>1, <2>2, RecordsKept
<1>4. ASSUME NEW p \in Proc, WriteCheckpoint(p) PROVE (Owing /\ Recorded)'
  <2>1. Chain' = Chain /\ (hole => hole') /\ checkpoint.seq <= checkpoint'.seq
    BY <1>4, CheckpointTaken
  <2>2. checkpoint'.seq \in Nat
    <3>1. Typed'
      BY <1>4, TypedStep, NextSteps DEF Quiet
    <3>2. QED
      BY <3>1 DEF Typed, TypeOK
  <2>3. \A q \in Proc : Owes(q)' => Owes(q) /\ work'[q].target = work[q].target
    BY <1>4, OwesSame
  <2>4. QED
    BY <2>1, <2>2, <2>3, RecordsKept
<1>5. ASSUME NEW p \in Proc, RemovePartition(p) PROVE (Owing /\ Recorded)'
  <2>1. /\ UNCHANGED <<checkpoint, hole>> /\ Chain' \subseteq Chain
        /\ ~hole => \A l \in Chain \ Chain' : l.seq <= checkpoint.seq
    BY <1>5, RemovedChain
  <2>2. \A q \in Proc : Owes(q)' => Owes(q) /\ work'[q].target = work[q].target
    BY <1>5, OwesSame
  <2>3. QED
    BY <1>1, <2>1, <2>2, RecordsKept
<1>6. QED
  BY <1>2, <1>3, <1>4, <1>5, RecordsWrite, RecordsRewrite, NextSteps DEF Quiet

LEMMA RecordsAlways == Spec => [](Owing /\ Recorded)
<1>1. Init => Owing /\ Recorded
  BY DEF Init, Owing, Recorded, Owes, Chain, Readable
<1>2. Base /\ Owing /\ Recorded /\ [Next]_vars => (Owing /\ Recorded)'
  <2>1. ASSUME Owing, Recorded, UNCHANGED vars PROVE (Owing /\ Recorded)'
    BY <2>1 DEF vars, Owing, Recorded, Owes, Chain
  <2>2. QED
    BY <2>1, RecordsStep
<1>3. QED
  BY <1>1, <1>2, BaseAlways, PTL DEF Spec

\* As long as nothing is torn every line is whole, every partition has one
\* (so retention finds an event to record), and without a fault no
\* redaction has been interrupted.
Whole ==
  /\ torn = 0 => /\ ~hole
                 /\ \A l \in log : l.kind # "unreadable" /\ l.ended
                 /\ \A d \in dirs : \E l \in log : l.day = d
  /\ faults = 0 => cut = {}

\* An emptied event has its record, or is owed one, or was cut off from it.
Accounted == torn = 0 =>
  \A l \in Chain : l.redacted =>
    \/ \E r \in Chain : r.kind = "audit.redacted" /\ r.target = l.seq
    \/ l.seq \in cut
    \/ \E q \in Proc : Owes(q) /\ work[q].target = l.seq

LEMMA WholeWriteLine == ASSUME Typed, NEW p \in Proc, WriteLine(p), torn = 0, Whole
  PROVE  /\ Whole' /\ log' = log \cup {NewLine(p)}
         /\ NewLine(p).kind # "unreadable" /\ ~NewLine(p).redacted
         /\ NewLine(p).kind = Owed[work[p].from] /\ NewLine(p).target = work[p].target
<1>1. /\ pc[p] = "writing" /\ NewLine(p) \in Parts(p) /\ log' = Appended(NewLine(p))
      /\ dirs' = dirs \cup {tail[p].day} /\ UNCHANGED <<torn, hole, faults, cut>>
  BY DEF WriteLine, Parts
<1>2. \A l \in log : l.kind # "unreadable" /\ l.ended
  BY DEF Whole
<1>3. log' = log \cup {NewLine(p)}
  BY <1>1, <1>2, AppendCases
<1>4. /\ NewLine(p).day = tail[p].day /\ NewLine(p).ended /\ ~NewLine(p).redacted
      /\ NewLine(p).kind = Owed[work[p].from] /\ NewLine(p).target = work[p].target
  BY DEF NewLine
<1>5. NewLine(p).kind # "unreadable"
  <2>1. work[p].from \in DOMAIN Owed
    BY <1>1 DEF Typed, TypeOK
  <2>2. Owed[work[p].from] \in Kinds /\ "unreadable" \notin Kinds
    BY <2>1, Steps
  <2>3. QED
    BY <1>4, <2>2
<1>6. \A l \in log' : l.kind # "unreadable" /\ l.ended
  BY <1>2, <1>3, <1>4, <1>5
<1>7. \A d \in dirs' : \E l \in log' : l.day = d
  BY <1>1, <1>3, <1>4 DEF Whole
<1>8. QED
  BY <1>1, <1>3, <1>4, <1>5, <1>6, <1>7 DEF Whole

LEMMA WholeStep == ASSUME Base, Whole, Next PROVE Whole'
<1> USE DEF Base
<1>1. torn \in Nat /\ faults \in Nat
  BY DEF Typed, TypeOK
<1>2. ASSUME UNCHANGED <<log, dirs, torn, hole, faults, cut>> PROVE Whole'
  BY <1>2 DEF Whole
<1>3. ASSUME NEW p \in Proc, WriteLine(p) PROVE Whole'
  <2>1. UNCHANGED <<torn, faults, cut>>
    BY <1>3 DEF WriteLine
  <2>2. CASE torn = 0
    BY <1>3, <2>2, WholeWriteLine
  <2>3. CASE torn # 0
    BY <2>1, <2>3 DEF Whole
  <2>4. QED
    BY <2>2, <2>3
<1>4. ASSUME NEW p \in Proc, CutWrite(p) PROVE Whole'
  <2>1. torn' = torn + 1 /\ faults' = faults + 1
    BY <1>4 DEF CutWrite
  <2>2. torn' # 0 /\ faults' # 0
    BY <1>1, <2>1
  <2>3. QED
    BY <2>2 DEF Whole
<1>5. ASSUME NEW p \in Proc, Rewrite(p) PROVE Whole'
  <2>1. UNCHANGED <<dirs, torn, hole, faults, cut>>
    BY <1>5, OwesRewrite
  <2>2. CASE log' = log
    BY <1>2, <2>1, <2>2
  <2>3. ASSUME NEW t \in log, log' = {Redone(l, t) : l \in log} PROVE Whole'
    <3>1. ASSUME torn = 0 PROVE /\ \A m \in log' : m.kind # "unreadable" /\ m.ended
                                /\ \A d \in dirs : \E m \in log' : m.day = d
      <4>1. ASSUME NEW m \in log' PROVE m.kind # "unreadable" /\ m.ended
        <5>1. PICK l \in log : Alike(m, l) /\ (m.ended <=> l.ended \/ l.day = t.day)
          BY <2>3, <4>1, RewriteKeeps
        <5>2. QED
          BY <3>1, <5>1 DEF Whole, Alike
      <4>2. ASSUME NEW d \in dirs PROVE \E m \in log' : m.day = d
        <5>1. PICK l \in log : l.day = d
          BY <3>1 DEF Whole
        <5>2. PICK m \in log' : Alike(m, l)
          BY <2>3, <5>1, RedoneLines
        <5>3. QED
          BY <5>1, <5>2 DEF Alike
      <4>3. QED
        BY <4>1, <4>2
    <3>2. QED
      BY <2>1, <3>1 DEF Whole
  <2>4. QED
    BY <1>5, <2>2, <2>3, RewriteLines
<1>6. ASSUME NEW p \in Proc, WriteCheckpoint(p) PROVE Whole'
  <2> DEFINE n == Newest(plan[p])
             lines == Readable(Partition(n))
  <2>1. /\ UNCHANGED <<log, dirs, torn, faults, cut>>
        /\ hole' = (hole \/ (lines = {} /\ n \in dirs))
    BY <1>6, Zenon DEF WriteCheckpoint, Record
  <2>2. ASSUME torn = 0, n \in dirs PROVE lines # {}
    BY <2>2 DEF Whole, Readable, Partition
  <2>3. torn = 0 => ~hole'
    BY <2>1, <2>2, Zenon DEF Whole
  <2>4. QED
    BY <2>1, <2>3 DEF Whole
<1>7. ASSUME NEW p \in Proc, RemovePartition(p) PROVE Whole'
  <2> DEFINE o == Oldest(plan[p])
  <2>1. /\ UNCHANGED <<hole, torn, faults, cut>> /\ dirs' = dirs \ {o}
        /\ log' = log \ Partition(o)
    BY <1>7 DEF RemovePartition
  <2>2. log' = {l \in log : l.day # o}
    BY <2>1 DEF Partition
  <2> HIDE DEF o
  <2>3. QED
    BY <2>1, <2>2 DEF Whole
<1>8. ASSUME NEW p \in Proc, Stop(p) PROVE Whole'
  <2>1. UNCHANGED <<log, dirs, torn, hole>> /\ faults' = faults + 1
    BY <1>8 DEF Stop, disk
  <2>2. faults' # 0
    BY <1>1, <2>1
  <2>3. QED
    BY <2>1, <2>2 DEF Whole
<1>9. CASE Midnight
  BY <1>2, <1>9 DEF Midnight, history
<1>10. ASSUME NEW p \in Proc, StartAppend(p) \/ StartRedact(p)
                              \/ \E days \in AuditDays : PlanRetention(p, days)
       PROVE  Whole'
  BY <1>2, <1>10 DEF StartAppend, StartRedact, PlanRetention, disk, history
<1>11. QED
  BY <1>3, <1>4, <1>5, <1>6, <1>7, <1>8, <1>9, <1>10 DEF Next

\* What has been accounted for stays so while the records stay, and every
\* debt is kept or becomes a record or a mark in cut.
LEMMA AccountedKept ==
  ASSUME Accounted, torn' = torn, cut \subseteq cut',
         \A m \in Chain' : m.redacted =>
           \/ \E q \in Proc : Owes(q)' /\ work'[q].target = m.seq
           \/ \E l \in Chain : l.redacted /\ l.seq = m.seq,
         \A m \in Chain', r \in Chain :
           torn = 0 /\ r.kind = "audit.redacted" /\ r.target = m.seq =>
             \E r2 \in Chain' : r2.kind = "audit.redacted" /\ r2.target = m.seq,
         \A q \in Proc : Owes(q) =>
           \/ Owes(q)' /\ work'[q].target = work[q].target
           \/ work[q].target \in cut'
           \/ \E r \in Chain' : r.kind = "audit.redacted" /\ r.target = work[q].target
  PROVE  Accounted'
<1> SUFFICES ASSUME torn = 0, NEW m \in Chain', m.redacted
             PROVE  \/ \E r \in Chain' : r.kind = "audit.redacted" /\ r.target = m.seq
                    \/ m.seq \in cut'
                    \/ \E q \in Proc : Owes(q)' /\ work'[q].target = m.seq
  BY DEF Accounted
<1>1. CASE \E q \in Proc : Owes(q)' /\ work'[q].target = m.seq
  BY <1>1
<1>2. CASE \E l \in Chain : l.redacted /\ l.seq = m.seq
  <2>1. \/ \E r \in Chain : r.kind = "audit.redacted" /\ r.target = m.seq
        \/ m.seq \in cut
        \/ \E q \in Proc : Owes(q) /\ work[q].target = m.seq
    BY <1>2 DEF Accounted
  <2>2. CASE \E r \in Chain : r.kind = "audit.redacted" /\ r.target = m.seq
    BY <2>2
  <2>3. CASE m.seq \in cut
    BY <2>3
  <2>4. ASSUME NEW q \in Proc, Owes(q), work[q].target = m.seq
        PROVE  \/ \E r \in Chain' : r.kind = "audit.redacted" /\ r.target = m.seq
               \/ m.seq \in cut'
               \/ \E s \in Proc : Owes(s)' /\ work'[s].target = m.seq
    BY <2>4
  <2>5. QED
    BY <2>1, <2>2, <2>3, <2>4
<1>3. QED
  BY <1>1, <1>2

LEMMA AccountedStep ==
  ASSUME Base, Owing, Recorded, Whole, Accounted, Next PROVE Accounted'
<1>1. Typed /\ torn \in Nat
  BY DEF Base, Typed, TypeOK
<1>2. ASSUME Chain' = Chain, UNCHANGED <<torn, cut>>,
             \A q \in Proc : Owes(q) => Owes(q)' /\ work'[q].target = work[q].target
      PROVE  Accounted'
  BY <1>2, AccountedKept
<1>3. ASSUME NEW p \in Proc, WriteLine(p) PROVE Accounted'
  <2>1. UNCHANGED <<torn, cut>>
    BY <1>3 DEF WriteLine
  <2>2. CASE torn # 0
    BY <2>1, <2>2 DEF Accounted
  <2>3. CASE torn = 0
    <3>1. /\ log' = log \cup {NewLine(p)} /\ ~NewLine(p).redacted
          /\ NewLine(p).kind # "unreadable"
          /\ NewLine(p).kind = Owed[work[p].from] /\ NewLine(p).target = work[p].target
      BY <1>1, <1>3, <2>3, WholeWriteLine
    <3>2. Chain' = Chain \cup {NewLine(p)}
      BY <3>1 DEF Chain, Readable
    <3>3. ASSUME NEW q \in Proc, Owes(q)
          PROVE  \/ Owes(q)' /\ work'[q].target = work[q].target
                 \/ \E r \in Chain' : r.kind = "audit.redacted" /\ r.target = work[q].target
      <4>1. CASE q # p
        BY <1>1, <1>3, <3>3, <4>1, OwesWrite DEF Write
      <4>2. CASE q = p
        <5>1. pc[p] = "writing"
          BY <1>3 DEF WriteLine
        <5>2. work[p].from = "explain"
          BY <3>3, <4>2, <5>1 DEF Owes
        <5>3. NewLine(p).kind = "audit.redacted"
          BY <3>1, <5>2 DEF Owed
        <5>4. QED
          BY <3>1, <3>2, <4>2, <5>3
      <4>3. QED
        BY <4>1, <4>2
    <3>4. QED
      BY <2>1, <3>1, <3>2, <3>3, AccountedKept
  <2>4. QED
    BY <2>2, <2>3
<1>4. ASSUME NEW p \in Proc, CutWrite(p) PROVE Accounted'
  <2>1. torn' = torn + 1
    BY <1>4 DEF CutWrite
  <2>2. QED
    BY <1>1, <2>1 DEF Accounted
<1>5. ASSUME NEW p \in Proc, Rewrite(p) PROVE Accounted'
  <2>1. /\ ~Owes(p) /\ UNCHANGED <<torn, cut>>
        /\ \A q \in Proc : q # p => (Owes(q)' <=> Owes(q)) /\ work'[q] = work[q]
    BY <1>1, <1>5, OwesRewrite
  <2>2. \A q \in Proc : Owes(q) => Owes(q)' /\ work'[q].target = work[q].target
    BY <2>1
  <2>3. CASE log' = log
    <3>1. Chain' = Chain
      BY <2>3 DEF Chain
    <3>2. QED
      BY <1>2, <2>1, <2>2, <3>1
  <2>4. ASSUME NEW t \in Chain, t.seq = work[p].target, log' = {Redone(l, t) : l \in log},
               Owes(p)', work'[p].target = work[p].target
        PROVE  Accounted'
    <3>1. t \in log
      BY DEF Chain, Readable
    <3>2. ASSUME NEW m \in Chain', m.redacted
          PROVE  \/ \E q \in Proc : Owes(q)' /\ work'[q].target = m.seq
                 \/ \E l \in Chain : l.redacted /\ l.seq = m.seq
      <4>1. m \in log' /\ m.kind # "unreadable"
        BY DEF Chain, Readable
      <4>2. PICK l \in log : Alike(m, l) /\ (m.redacted <=> l.redacted \/ l = t)
        BY <1>1, <2>4, <3>1, <4>1, RedoneLines
      <4>3. l \in Chain /\ l.seq = m.seq
        BY <4>1, <4>2 DEF Alike, Chain, Readable
      <4>4. QED
        BY <2>4, <3>2, <4>2, <4>3
    <3>3. ASSUME NEW r \in Chain, r.kind = "audit.redacted"
          PROVE  \E r2 \in Chain' : r2.kind = "audit.redacted" /\ r2.target = r.target
      <4>1. PICK r2 \in Chain' : Alike(r2, r)
        BY <1>1, <1>5, RedactChain
      <4>2. QED
        BY <3>3, <4>1 DEF Alike
    <3>4. QED
      BY <2>1, <2>2, <3>2, <3>3, AccountedKept
  <2>5. QED
    BY <1>1, <1>5, <2>3, <2>4, OwesRewrite
<1>6. ASSUME NEW p \in Proc, RemovePartition(p) PROVE Accounted'
  <2>1. /\ Chain' \subseteq Chain
        /\ \A l \in Chain', m \in Chain \ Chain' : m.seq < l.seq
    BY <1>6, RemovedChain
  <2>2. UNCHANGED <<torn, cut>>
    BY <1>6 DEF RemovePartition
  <2>3. \A q \in Proc : Owes(q) => Owes(q)' /\ work'[q].target = work[q].target
    BY <1>1, <1>6, OwesSame
  <2>4. ASSUME NEW m \in Chain', NEW r \in Chain, r.kind = "audit.redacted", r.target = m.seq,
               torn = 0
        PROVE  r \in Chain'
    <3>1. r.target < r.seq
      BY <2>4 DEF Recorded, Whole
    <3>2. CASE r \notin Chain'
      <4>1. r.seq < m.seq
        BY <2>1, <3>2
      <4>2. r.seq \in Nat /\ m.seq \in Nat
        BY <2>1, ChainFacts DEF Base
      <4>3. QED
        BY <2>4, <3>1, <4>1, <4>2
    <3>3. QED
      BY <3>2
  <2>5. QED
    BY <2>1, <2>2, <2>3, <2>4, AccountedKept
<1>7. ASSUME NEW p \in Proc, Stop(p) PROVE Accounted'
  <2>1. Chain' = Chain /\ torn' = torn
    BY <1>7 DEF Stop, disk, Chain
  <2>2. cut \subseteq cut'
    BY <1>1, <1>7, OwesStop
  <2>3. ASSUME NEW q \in Proc, Owes(q)
        PROVE  (Owes(q)' /\ work'[q].target = work[q].target) \/ work[q].target \in cut'
    BY <1>1, <1>7, <2>3, OwesStop
  <2>4. QED
    BY <2>1, <2>2, <2>3, AccountedKept
<1>8. CASE Midnight
  <2>1. Chain' = Chain /\ UNCHANGED <<torn, cut, pc, work>>
    BY <1>8 DEF Midnight, history, Chain
  <2>2. QED
    BY <1>2, <2>1 DEF Owes
<1>9. ASSUME NEW p \in Proc, StartAppend(p) \/ StartRedact(p) \/ WriteCheckpoint(p)
                             \/ \E days \in AuditDays : PlanRetention(p, days)
      PROVE  Accounted'
  <2>1. Chain' = Chain /\ UNCHANGED <<torn, cut>>
    BY <1>9 DEF StartAppend, StartRedact, WriteCheckpoint, PlanRetention, disk, history, Chain
  <2>2. \A q \in Proc : Owes(q) => Owes(q)' /\ work'[q].target = work[q].target
    BY <1>1, <1>9, OwesSame
  <2>3. QED
    BY <1>2, <2>1, <2>2
<1>10. QED
  BY <1>3, <1>4, <1>5, <1>6, <1>7, <1>8, <1>9 DEF Next

LEMMA AccountedAlways == Spec => [](Whole /\ Accounted)
<1>1. Init => Whole /\ Accounted
  BY DEF Init, Whole, Accounted, Chain, Readable
<1>2. Base /\ Owing /\ Recorded /\ Whole /\ Accounted /\ [Next]_vars => (Whole /\ Accounted)'
  <2>1. ASSUME Whole, Accounted, UNCHANGED vars PROVE (Whole /\ Accounted)'
    BY <2>1 DEF vars, Whole, Accounted, Owes, Chain
  <2>2. QED
    BY <2>1, WholeStep, AccountedStep
<1>3. QED
  BY <1>1, <1>2, BaseAlways, RecordsAlways, PTL DEF Spec

\* Every emptied event of the trail has a record, or is owed one, or lost
\* its record to a crash; and a record claims no removal that did not
\* happen (redact(), audit.py).
THEOREM RedactionsAccounted == Spec => []RedactionAccounted
<1>1. ASSUME Base, Owing, Recorded, Whole, Accounted PROVE RedactionAccounted
  <2>1. ASSUME NEW l \in Unexplained
        PROVE  l.seq \in cut \/ torn > 0 \/ \E p \in Proc : work[p].target = l.seq
    <3>1. l \in Chain /\ l.redacted /\ l.seq \notin Explained
      BY <2>1 DEF Unexplained, Chain
    <3>2. torn \in Nat
      BY <1>1 DEF Base, Typed, TypeOK
    <3>3. CASE torn = 0
      <4>1. ~ \E r \in Chain : r.kind = "audit.redacted" /\ r.target = l.seq
        BY <3>1 DEF Explained, Chain, Readable
      <4>2. QED
        BY <1>1, <3>1, <3>3, <4>1 DEF Accounted
    <3>4. QED
      BY <3>2, <3>3
  <2>2. ASSUME ~hole, NEW l \in Chain, l.seq \in Explained PROVE l.redacted
    <3>1. PICK r \in log : r.kind = "audit.redacted" /\ r.target = l.seq
      BY <2>2 DEF Explained
    <3>2. r \in Chain
      BY <3>1 DEF Chain, Readable
    <3>3. QED
      BY <1>1, <2>2, <3>1, <3>2 DEF Recorded
  <2>3. QED
    BY <2>1, <2>2 DEF RedactionAccounted, Chain
<1>2. QED
  BY <1>1, BaseAlways, RecordsAlways, AccountedAlways, PTL

\* Without a fault every event is linked to the event before it, or to the
\* checkpoint once what the checkpoint covers is gone.
LEMMA ChainUnbroken ==
  ASSUME Base, Front, Whole, torn = 0, \A l \in Chain : l.seq > checkpoint.seq,
         NEW l \in Chain
  PROVE  l.prev = Before(l)
<1> USE DEF Base, Chained
<1> DEFINE older == Readable(Older(l, log))
<1>1. \A m : m \in older <=> m \in Chain /\ m.at < l.at
  BY DEF Chain, Readable, Older
<1>2. /\ l.at \in Nat /\ l.seq \in Nat /\ l.prev \in Nat
      /\ checkpoint.seq \in Nat /\ checkpoint.hash \in Nat
      /\ \A m \in Chain : m.at \in Nat /\ m.seq \in Nat
  BY ChainFacts DEF Typed, TypeOK
<1>3. l.seq > checkpoint.seq
  OBVIOUS
<1>4. CASE older = {}
  <2>1. Before(l) = checkpoint.hash
    BY <1>4 DEF Before, EndOf
  <2>2. l.prev \in {0, checkpoint.hash} \/ l.seq <= checkpoint.seq
    BY <1>4, FrontIsExplained DEF TrimExplained, Whole, Chain
  <2>3. l.prev \in {0, checkpoint.hash}
    BY <1>2, <1>3, <2>2
  <2>4. l.prev = 0 => checkpoint.hash = 0
    <3>1. l.prev = 0 => l.seq = 1
      BY DEF Linked
    <3>2. l.prev = 0 => checkpoint.seq = 0
      BY <1>2, <1>3, <3>1
    <3>3. QED
      BY <3>2 DEF Sealed
  <2>5. QED
    BY <2>1, <2>3, <2>4
<1>5. CASE older # {}
  <2> DEFINE b == Latest(older)
  <2>1. older \in SUBSET log
    BY DEF Readable, Older
  <2>2. b \in older /\ \A m \in older : m.at <= b.at
    BY <1>5, <2>1, LatestIsLast
  <2>3. Before(l) = b.at
    BY <1>5 DEF Before, EndOf
  <2> HIDE DEF b, older
  <2>4. b \in Chain /\ b.at < l.at
    BY <1>1, <2>2
  <2>5. PICK k \in Chain : k.at = l.prev /\ l.seq = k.seq + 1
    BY <2>4 DEF Linked
  <2>6. k.at < l.at
    <3>1. k.seq < l.seq
      BY <1>2, <2>5
    <3>2. l.at < k.at => l.seq < k.seq
      BY DEF Linked
    <3>3. k.at = l.at => k = l
      BY ChainFacts
    <3>4. QED
      BY <1>2, <3>1, <3>2, <3>3
  <2>7. k.at <= b.at
    BY <1>1, <2>2, <2>6
  <2>8. k.at < b.at => k.seq < b.seq
    BY <2>4 DEF Linked
  <2>9. b.seq < l.seq
    BY <2>4 DEF Linked
  <2>10. k.at = b.at
    BY <1>2, <2>4, <2>5, <2>7, <2>8, <2>9
  <2>11. QED
    BY <2>3, <2>5, <2>10
<1>6. QED
  BY <1>4, <1>5

\* As long as no write was cut short and no process died, verify() passes,
\* however the appends, redactions and retention runs of several processes
\* interleave ("False alarms are worse than no alarm", audit.py:308).
THEOREM NoFalseAlarms == Spec => []NoFalseAlarm
<1>1. ASSUME Base, Front, Whole, Accounted, faults = 0,
             \A l \in Readable(log) : l.seq > checkpoint.seq,
             \A p \in Proc : pc[p] # "explain" /\ (pc[p] = "writing" => work[p].from # "explain")
      PROVE  Verified
  <2>1. torn = 0 /\ cut = {}
    BY <1>1 DEF Base, Typed, TypeOK, Whole
  <2>2. Readable(log) = log
    BY <1>1, <2>1 DEF Whole, Readable
  <2>3. Broken = {}
    BY <1>1, <2>1, ChainUnbroken DEF Broken, Chain
  <2>4. Unexplained = {}
    <3> SUFFICES ASSUME NEW l \in Chain, l.redacted PROVE l.seq \in Explained
      BY DEF Unexplained, Chain
    <3>1. PICK r \in Chain : r.kind = "audit.redacted" /\ r.target = l.seq
      BY <1>1, <2>1 DEF Accounted, Owes
    <3>2. r \in log
      BY DEF Chain, Readable
    <3>3. QED
      BY <3>1, <3>2 DEF Explained
  <2>5. QED
    BY <2>2, <2>3, <2>4 DEF Verified
<1>2. Base /\ Front /\ Whole /\ Accounted => NoFalseAlarm
  BY <1>1 DEF NoFalseAlarm
<1>3. QED
  BY <1>2, BaseAlways, FrontAlways, AccountedAlways, PTL

-----------------------------------------------------------------------------
(* The ledger.                                                              *)

Event(l) == [seq |-> l.seq, prev |-> l.prev, hash |-> l.at]
Events == {Event(l) : l \in Chain}

\* Numbers and hashes name an event of the chain, and give it its place.
LEMMA EventsOfChain ==
  ASSUME Base
  PROVE  /\ \A l, m \in Chain : l.seq = m.seq => l = m
         /\ \A l, m \in Chain : Event(l) = Event(m) => l = m
         /\ \A l, m \in Chain : l.at <= m.at => l.seq <= m.seq
         /\ \A e \in Events : e.seq \in Nat /\ e.hash \in Nat
<1>1. \A l, m \in Chain : l.at = m.at => l = m
  BY ChainFacts DEF Base
<1>2. \A l \in Chain : l.seq \in Nat /\ l.at \in Nat
  BY ChainFacts DEF Base
<1>3. \A l, m \in Chain : l.at < m.at => l.seq < m.seq
  BY DEF Base, Chained, Linked
<1>4. \A l, m \in Chain : l.seq = m.seq => l = m
  BY <1>1, <1>2, <1>3
<1>5. \A l, m \in Chain : Event(l) = Event(m) => l = m
  BY <1>1 DEF Event
<1>6. \A l, m \in Chain : l.at <= m.at => l.seq <= m.seq
  BY <1>1, <1>2, <1>3
<1>7. \A e \in Events : e.seq \in Nat /\ e.hash \in Nat
  BY <1>2 DEF Events, Event
<1>8. QED
  BY <1>4, <1>5, <1>6, <1>7

LEMMA TipOfChain ==
  ASSUME Base
  PROVE  /\ Chain = {} => L!Tip = checkpoint
         /\ \A l \in Chain : (\A m \in Chain : m.seq <= l.seq) =>
              L!End(Event(l)) /\ L!Tip = [seq |-> l.seq, hash |-> l.at]
<1>1. CASE Chain = {}
  BY <1>1 DEF L!Tip, Chain
<1>2. ASSUME NEW l \in Chain, \A m \in Chain : m.seq <= l.seq
      PROVE  L!End(Event(l)) /\ L!Tip = [seq |-> l.seq, hash |-> l.at]
  <2>1. \A e : L!End(e) <=> e \in Events /\ \A f \in Events : f.seq <= e.seq
    BY DEF L!End, Events, Event, Chain
  <2>2. L!Tip = LET e == CHOOSE e \in Events : L!End(e) IN [seq |-> e.seq, hash |-> e.hash]
    BY <1>2 DEF L!Tip, Events, Event, Chain
  <2>3. L!End(Event(l))
    BY <1>2, <2>1 DEF Events, Event
  <2>4. \A e \in Events : L!End(e) => e = Event(l)
    <3> SUFFICES ASSUME NEW k \in Chain, L!End(Event(k)) PROVE k = l
      BY DEF Events
    <3>1. Event(l) \in Events /\ Event(l).seq = l.seq /\ Event(k).seq = k.seq
      BY DEF Events, Event
    <3>2. l.seq <= k.seq
      BY <2>1, <3>1
    <3>3. k.seq <= l.seq /\ k.seq \in Nat /\ l.seq \in Nat
      BY <1>2, ChainFacts DEF Base
    <3>4. QED
      BY <3>2, <3>3, EventsOfChain
  <2>5. Event(l) \in Events
    BY DEF Events
  <2>6. (CHOOSE e \in Events : L!End(e)) = Event(l)
    BY <2>3, <2>4, <2>5
  <2>7. L!Tip = [seq |-> Event(l).seq, hash |-> Event(l).hash]
    BY <2>2, <2>6
  <2>8. Event(l).seq = l.seq /\ Event(l).hash = l.at
    BY DEF Event
  <2>9. QED
    BY <2>3, <2>7, <2>8
<1>3. QED
  BY <1>1, <1>2

\* The steps of the ledger, said of the lines.
LEMMA LedgerSteps ==
  /\ (\E e \in Events' : /\ Events' = Events \cup {e} /\ e.seq > L!Tip.seq
                         /\ \A f \in Events : f.hash # e.hash
                         /\ \/ hole /\ Events = {}
                            \/ e.seq = L!Tip.seq + 1 /\ e.prev = L!Tip.hash)
     /\ UNCHANGED <<checkpoint, hole>> => L!Extend
  /\ (\E e \in Events : /\ e.seq > checkpoint.seq
                        /\ checkpoint' = [seq |-> e.seq, hash |-> e.hash])
     /\ Events' = Events /\ hole' = hole => L!Seal
  /\ hole' = TRUE /\ Events' = Events /\ checkpoint' = checkpoint => L!Skip
  /\ Events' \subseteq Events /\ (\A e \in Events', f \in Events \ Events' : f.seq < e.seq)
     /\ (hole \/ \A f \in Events \ Events' : f.seq <= checkpoint.seq)
     /\ UNCHANGED <<checkpoint, hole>> => L!Trim
  /\ (\E e \in Events : L!End(e) /\ e.seq > checkpoint.seq /\ Events' = Events \ {e})
     /\ UNCHANGED <<checkpoint, hole>> => L!Tear
<1>1. Events = {[seq |-> l.seq, prev |-> l.prev, hash |-> l.at] : l \in Readable(log)}
  BY DEF Events, Event, Chain
<1>2. Events' = {[seq |-> l.seq, prev |-> l.prev, hash |-> l.at] : l \in Readable(log)}'
  BY DEF Events, Event, Chain
<1>3. QED
  BY <1>1, <1>2, Zenon DEF L!Extend, L!Seal, L!Skip, L!Trim, L!Tear

LEMMA LedgerWrite ==
  ASSUME Base, NEW p \in Proc, Write(p)
  PROVE  L!Extend \/ L!Tear \/ UNCHANGED <<Events, checkpoint, hole>>
<1> USE DEF Base, Chained
<1>1. /\ pc[p] = "writing" /\ UNCHANGED <<checkpoint, hole>>
      /\ tail[p].seq \in Nat /\ checkpoint.seq \in Nat
  BY Wrote, TailNumbers
<1>2. CASE Chain' = Chain
  BY <1>1, <1>2 DEF Events
<1>3. ASSUME NEW n \in log', Chain' = Chain \cup {n}, n.at = fresh + 1,
             n.seq = tail[p].seq + 1, n.prev = tail[p].hash
      PROVE  L!Extend
  <2> DEFINE e == Event(n)
  <2>1. Events' = Events \cup {e} /\ e \in Events'
    BY <1>3 DEF Events
  <2>2. e.seq = tail[p].seq + 1 /\ e.prev = tail[p].hash /\ e.hash = fresh + 1
    BY <1>3 DEF Event
  <2>3. \A f \in Events : f.hash # e.hash
    <3>1. \A l \in Chain : l.at \in Nat /\ l.at <= fresh /\ fresh \in Nat
      BY ChainFacts DEF Typed, TypeOK
    <3>2. \A f \in Events : f.hash \in Nat /\ f.hash <= fresh /\ fresh \in Nat
      BY <3>1 DEF Events, Event
    <3>3. QED
      BY <2>2, <3>2
  <2>4. CASE Chain = {}
    <3>1. Events = {} /\ L!Tip = checkpoint
      BY <2>4, TipOfChain DEF Events
    <3>2. /\ checkpoint.seq <= tail[p].seq
          /\ tail[p].seq = checkpoint.seq => tail[p].hash = checkpoint.hash
          /\ ~hole => tail[p].seq = checkpoint.seq
      BY <1>1, <2>4 DEF Tails
    <3>3. e.seq > L!Tip.seq
      BY <1>1, <2>2, <3>1, <3>2
    <3>4. hole \/ (e.seq = L!Tip.seq + 1 /\ e.prev = L!Tip.hash)
      BY <2>2, <3>1, <3>2
    <3> HIDE DEF e
    <3>5. QED
      BY <1>1, <2>1, <2>3, <3>1, <3>3, <3>4, LedgerSteps
  <2>5. CASE Chain # {}
    <3>1. PICK l \in Chain : l.seq = tail[p].seq /\ l.at = tail[p].hash
      BY <1>1, <2>5 DEF Tails
    <3>2. \A m \in Chain : m.seq <= l.seq
      BY <1>1, <3>1 DEF Tails
    <3>3. L!Tip = [seq |-> l.seq, hash |-> l.at]
      BY <3>2, TipOfChain
    <3>4. e.seq > L!Tip.seq /\ e.seq = L!Tip.seq + 1 /\ e.prev = L!Tip.hash
      BY <1>1, <2>2, <3>1, <3>3
    <3> HIDE DEF e
    <3>5. QED
      BY <1>1, <2>1, <2>3, <3>4, LedgerSteps
  <2>6. QED
    BY <2>4, <2>5
<1>4. ASSUME NEW u \in Chain, u.day = tail[p].day, \A m \in log : m.at <= u.at,
             Chain' = Chain \ {u}
      PROVE  L!Tear
  <2>1. \A m \in Chain : m.seq <= u.seq
    BY <1>4, ChainFacts, EventsOfChain
  <2>2. L!End(Event(u))
    BY <2>1, TipOfChain
  <2>3. Event(u).seq > checkpoint.seq
    <3>1. u.day \in Nat /\ tail[p].day \in Nat /\ u.seq \in Nat
      BY ChainFacts, TailNumbers
    <3>2. ~(u.seq <= checkpoint.seq)
      BY <1>1, <1>4, <3>1 DEF Sealed
    <3>3. QED
      BY <1>1, <3>1, <3>2 DEF Event
  <2>4. Events' = Events \ {Event(u)} /\ Event(u) \in Events
    BY <1>4, EventsOfChain DEF Events
  <2>5. QED
    BY <1>1, <2>2, <2>3, <2>4, LedgerSteps
<1>5. QED
  BY <1>2, <1>3, <1>4, WroteChain

LEMMA LedgerCheckpoint ==
  ASSUME Base, NEW p \in Proc, WriteCheckpoint(p)
  PROVE  L!Seal \/ L!Skip \/ UNCHANGED <<Events, checkpoint, hole>>
<1>1. Events' = Events
  BY CheckpointTaken DEF Events
<1>2. hole \in BOOLEAN /\ hole' \in BOOLEAN
  <2>1. Typed'
    BY TypedStep, NextSteps DEF Base, Quiet
  <2>2. QED
    BY <2>1 DEF Base, Typed, TypeOK
<1>3. CASE checkpoint' = checkpoint
  <2>1. hole => hole'
    BY CheckpointTaken
  <2>2. CASE hole' = hole
    BY <1>1, <1>3, <2>2
  <2>3. CASE hole' # hole
    <3>1. hole' = TRUE
      BY <1>2, <2>1, <2>3, Zenon
    <3>2. QED
      BY <1>1, <1>3, <3>1, LedgerSteps
  <2>4. QED
    BY <2>2, <2>3
<1>4. ASSUME NEW l \in Chain, checkpoint' = [seq |-> l.seq, hash |-> l.at],
             checkpoint.seq < l.seq, hole' = hole
      PROVE  L!Seal
  <2>1. Event(l) \in Events /\ Event(l).seq = l.seq /\ Event(l).hash = l.at
    BY DEF Events, Event
  <2>2. l.seq \in Nat /\ checkpoint.seq \in Nat
    BY ChainFacts DEF Base, Typed, TypeOK
  <2>3. Event(l).seq > checkpoint.seq
    BY <1>4, <2>1, <2>2
  <2>4. checkpoint' = [seq |-> Event(l).seq, hash |-> Event(l).hash]
    BY <1>4, <2>1
  <2>5. QED
    BY <1>1, <1>4, <2>1, <2>3, <2>4, LedgerSteps
<1>5. QED
  BY <1>3, <1>4, CheckpointTaken

LEMMA LedgerRemove == ASSUME Base, NEW p \in Proc, RemovePartition(p) PROVE L!Trim
<1>1. /\ UNCHANGED <<checkpoint, hole>> /\ Chain' \subseteq Chain
      /\ \A l \in Chain', m \in Chain \ Chain' : m.seq < l.seq
      /\ ~hole => \A l \in Chain \ Chain' : l.seq <= checkpoint.seq
  BY RemovedChain
<1>2. Events' \subseteq Events
  BY <1>1 DEF Events
<1>3. \A e \in Events' : \E l \in Chain' : e = Event(l)
  BY DEF Events
<1>4. \A f \in Events \ Events' : \E m \in Chain \ Chain' : f = Event(m)
  BY DEF Events
<1>5. \A l : Event(l).seq = l.seq
  BY DEF Event
<1>6. \A e \in Events', f \in Events \ Events' : f.seq < e.seq
  BY <1>1, <1>3, <1>4, <1>5
<1>7. hole \/ \A f \in Events \ Events' : f.seq <= checkpoint.seq
  BY <1>1, <1>4, <1>5
<1>8. QED
  BY <1>1, <1>2, <1>6, <1>7, LedgerSteps

LEMMA LedgerStep ==
  ASSUME Base, [Next]_vars
  PROVE  L!Next \/ UNCHANGED <<Events, checkpoint, hole>>
<1>1. CASE UNCHANGED <<log, checkpoint, hole>>
  BY <1>1 DEF Events, Chain
<1>2. ASSUME NEW p \in Proc, Rewrite(p) PROVE UNCHANGED <<Events, checkpoint, hole>>
  <2>1. UNCHANGED <<checkpoint, hole>>
    BY <1>2, OwesRewrite DEF Base
  <2>2. /\ \A m \in Chain' : \E l \in Chain : Event(m) = Event(l)
        /\ \A l \in Chain : \E m \in Chain' : Event(m) = Event(l)
    BY <1>2, RedactChain DEF Base, Alike, Event
  <2>3. Events' = Events
    BY <2>2 DEF Events
  <2>4. QED
    BY <2>1, <2>3
<1>3. ASSUME NEW p \in Proc, StartAppend(p) \/ StartRedact(p) \/ Stop(p)
                             \/ \E days \in AuditDays : PlanRetention(p, days)
      PROVE  UNCHANGED <<log, checkpoint, hole>>
  BY <1>3 DEF StartAppend, StartRedact, Stop, PlanRetention, disk, history
<1>4. CASE Midnight
  BY <1>1, <1>4 DEF Midnight, history
<1>5. CASE UNCHANGED vars
  BY <1>1, <1>5 DEF vars
<1>6. CASE Next
  BY <1>1, <1>2, <1>3, <1>4, <1>6, LedgerWrite, LedgerCheckpoint, LedgerRemove, NextSteps
     DEF Quiet, L!Next
<1>7. QED
  BY <1>5, <1>6

\* Whatever several processes, redactions, retention and torn writes do to
\* the files, a reader sees a chain that grows at its end and is trimmed at
\* its front up to the checkpoint (audit.py, retention.py).
THEOREM LedgerImplemented == Spec => ImplementsLedger
<1>1. Init => L!Init
  BY DEF Init, L!Init, L!Nothing, None, Readable
<1>2. ASSUME Base, [Next]_vars
      PROVE  [L!Next]_<<{[seq |-> l.seq, prev |-> l.prev, hash |-> l.at] : l \in Readable(log)},
                        checkpoint, hole>>
  <2>1. L!Next \/ UNCHANGED <<Events, checkpoint, hole>>
    BY <1>2, LedgerStep
  <2>2. CASE UNCHANGED <<Events, checkpoint, hole>>
    BY <2>2 DEF Events, Event, Chain
  <2>3. QED
    BY <2>1, <2>2
<1>3. QED
  BY <1>1, <1>2, BaseAlways, PTL DEF Spec, ImplementsLedger, L!Spec
=============================================================================
