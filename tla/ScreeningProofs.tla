---------------------------- MODULE ScreeningProofs ----------------------------
(***************************************************************************)
(* What Screening's spool promises for any number of jobs, drains and      *)
(* faults, whatever the documents and the rules are: no event is lost, and *)
(* a drain delivers in order.                                              *)
(***************************************************************************)
EXTENDS Screening, WellFoundedInduction, TLAPS

LEMMA Least ==
  ASSUME NEW S \in SUBSET Nat, S # {}
  PROVE  \E x \in S : \A y \in S : x <= y
<1>1. PICK x \in S : \A y \in S : ~ (<<y, x>> \in OpToRel(<, Nat))
  BY NatLessThanWellFounded, WFMin, Zenon
<1>2. \A y \in S : ~ (y < x)
  BY <1>1, Zenon DEF OpToRel
<1>3. QED
  BY <1>2

Entry == [job : Job, at : Nat]

\* What a drain takes next is on its list, and nothing there is older.
LEMMA OldestFirst ==
  ASSUME NEW list \in SUBSET Entry, list # {}
  PROVE  Oldest(list) \in list /\ \A f \in list : Oldest(list).at <= f.at
<1> DEFINE times == {e.at : e \in list}
<1>1. times \in SUBSET Nat /\ times # {}
  BY DEF Entry
<1>2. PICK n \in times : \A m \in times : n <= m
  <2> HIDE DEF times
  <2>1. QED
    BY <1>1, Least
<1>3. \E e \in list : \A f \in list : e.at <= f.at
  BY <1>2
<1>4. QED
  BY <1>3 DEF Oldest

Accounted(j) == got[j] > 0 \/ \E e \in entries \union aside : e.job = j

\* What a drain has behind it is with the collector or set aside, and the entry
\* it is about to remove is with the collector: it relies on that between the
\* delivery and the removal, while others may remove the entry or set it aside.
Behind(d) == \A e \in drain[d].listed \ drain[d].list : got[e.job] > 0 \/ e \in aside
Stages == {"idle", "read", "deliver", "aside", "unlink"}
DrainState == [pc : Stages, list : SUBSET Entry, listed : SUBSET Entry]
SpoolInv ==
  /\ got \in [Job -> Nat] /\ DOMAIN emit = Job
  /\ stamp \in [Job -> Nat] /\ clock \in Nat /\ entries \subseteq Entry
  /\ drain \in [Drain -> DrainState]
  /\ \A j \in Job : emit[j] \in {"mark", "done"} => Accounted(j)
  /\ \A d \in Drain : /\ drain[d].pc \notin {"idle", "read"} => drain[d].list # {}
                      /\ drain[d].pc = "unlink" => got[Current(d).job] > 0
                      /\ Behind(d)

LEMMA SpoolStart == Init => SpoolInv
<1>1. Idle \in DrainState
  BY DEF Idle, DrainState, Stages
<1>2. QED
  BY <1>1 DEF Init, SpoolInit, SpoolInv, Idle, Accounted, Behind

\* What a step has to do for the invariant beside moving one drain.
Grows == /\ got' \in [Job -> Nat] /\ \A j \in Job : got[j] > 0 => got'[j] > 0
         /\ DOMAIN emit' = Job /\ aside \subseteq aside'
         /\ stamp' \in [Job -> Nat] /\ clock' \in Nat /\ entries' \subseteq Entry
         /\ \A j \in Job : emit'[j] \in {"mark", "done"} => Accounted(j)'

LEMMA JobOfEntry ==
  ASSUME SpoolInv, NEW d \in Drain
  PROVE  /\ drain[d].list \in SUBSET Entry /\ drain[d].listed \in SUBSET Entry
         /\ \A e \in Entry : e.job \in Job /\ e.at \in Nat
         /\ drain[d].list # {} =>
              Current(d) \in drain[d].list /\ Current(d).job \in Job
<1>1. drain[d] \in DrainState
  BY DEF SpoolInv
<1>2. drain[d].list \in SUBSET Entry /\ drain[d].listed \in SUBSET Entry
  BY <1>1 DEF DrainState
<1>3. \A e \in Entry : e.job \in Job /\ e.at \in Nat
  BY DEF Entry
<1>4. QED
  BY <1>2, <1>3, OldestFirst DEF Current

LEMMA DrainFacts ==
  ASSUME SpoolInv, NEW d \in Drain
  PROVE  /\ drain[d] \in DrainState
         /\ drain[d].pc \notin {"idle", "read"} => drain[d].list # {}
         /\ drain[d].pc = "unlink" => got[Current(d).job] > 0
         /\ Behind(d)
BY DEF SpoolInv

\* Nothing a drain relies on is taken from it.
LEMMA StaysTrue ==
  ASSUME SpoolInv, Grows, NEW d \in Drain
  PROVE  /\ drain[d].pc = "unlink" => got'[Current(d).job] > 0
         /\ \A e \in drain[d].listed \ drain[d].list : got'[e.job] > 0 \/ e \in aside'
<1>1. drain[d].pc = "unlink" => Current(d).job \in Job /\ got[Current(d).job] > 0
  BY JobOfEntry, DrainFacts
<1>2. ASSUME NEW e \in drain[d].listed \ drain[d].list
      PROVE  e.job \in Job /\ (got[e.job] > 0 \/ e \in aside)
  <2>1. e \in Entry
    BY JobOfEntry
  <2>2. QED
    BY <2>1, JobOfEntry, DrainFacts DEF Behind
<1>3. QED
  BY <1>1, <1>2 DEF Grows

LEMMA DrainsStay ==
  ASSUME SpoolInv, Grows, UNCHANGED drain
  PROVE  SpoolInv'
<1>1. \A d \in Drain : /\ drain[d].pc = "unlink" => got'[Current(d).job] > 0
                       /\ Behind(d)'
  BY StaysTrue DEF Behind
<1>2. \A d \in Drain : Current(d)' = Current(d)
  BY DEF Current
<1>3. QED
  BY <1>1, <1>2 DEF SpoolInv, Grows

LEMMA DrainMoves ==
  ASSUME SpoolInv, Grows, NEW d \in Drain, NEW now \in DrainState,
         drain' = [drain EXCEPT ![d] = now],
         now.pc \notin {"idle", "read"} => now.list # {},
         now.pc = "unlink" => got'[Oldest(now.list).job] > 0,
         \A e \in now.listed \ now.list : got'[e.job] > 0 \/ e \in aside'
  PROVE  SpoolInv'
<1>1. /\ drain' \in [Drain -> DrainState] /\ drain'[d] = now
      /\ \A c \in Drain : c # d => drain'[c] = drain[c]
  BY DEF SpoolInv
<1>2. ASSUME NEW c \in Drain
      PROVE  /\ drain'[c].pc \notin {"idle", "read"} => drain'[c].list # {}
             /\ drain'[c].pc = "unlink" => got'[Current(c)'.job] > 0
             /\ Behind(c)'
  <2>1. CASE c = d
    BY <1>1, <2>1 DEF Current, Behind
  <2>2. CASE c # d
    <3>1. drain'[c] = drain[c] /\ Current(c)' = Current(c)
      BY <1>1, <2>2 DEF Current
    <3>2. QED
      BY <3>1, StaysTrue DEF SpoolInv, Behind
  <2>3. QED
    BY <2>1, <2>2
<1>3. QED
  BY <1>1, <1>2 DEF SpoolInv, Grows

\* Received or not, what the collector has does not become less.
LEMMA Received ==
  ASSUME SpoolInv, NEW j, Answered(j) \/ AnswerLost(j) \/ NotTaken
  PROVE  /\ got' \in [Job -> Nat] /\ \A i \in Job : got[i] > 0 => got'[i] > 0
         /\ Answered(j) /\ j \in Job => got'[j] > 0
BY DEF SpoolInv, Answered, AnswerLost, NotTaken, Receives

\* Steps that keep what was emitted where it is.
LEMMA NothingGoes ==
  ASSUME SpoolInv, UNCHANGED <<emit, stamp, clock, entries, aside, got>>
  PROVE  Grows
BY DEF Grows, SpoolInv, Accounted

LEMMA EmissionGrows ==
  ASSUME SpoolInv, NEW j \in Job, NEW to, emit' = [emit EXCEPT ![j] = to],
         got' \in [Job -> Nat], \A i \in Job : got[i] > 0 => got'[i] > 0,
         stamp' \in [Job -> Nat], clock' \in Nat, entries \subseteq entries',
         entries' \subseteq Entry, aside' = aside,
         to \in {"mark", "done"} => Accounted(j)'
  PROVE  Grows
<1>1. DOMAIN emit' = Job /\ emit'[j] = to /\ \A i \in Job \ {j} : emit'[i] = emit[i]
  BY DEF SpoolInv
<1>2. \A i \in Job : Accounted(i) => Accounted(i)'
  BY DEF Accounted
<1>3. \A i \in Job : emit'[i] \in {"mark", "done"} => Accounted(i)'
  BY <1>1, <1>2 DEF SpoolInv
<1>4. QED
  BY <1>1, <1>3 DEF Grows

LEMMA Emission ==
  ASSUME SpoolInv, NEW j \in Job,
         Deliver(j) \/ DeliverFails(j) \/ NameEntry(j) \/ WriteEntry(j)
         \/ Emitted(j) \/ EmitCrash(j) \/ Confirm(j)
  PROVE  SpoolInv'
<1>0. stamp \in [Job -> Nat] /\ clock \in Nat /\ entries \subseteq Entry /\ got \in [Job -> Nat]
  BY DEF SpoolInv
<1>1. CASE Deliver(j)
  <2>1. got' \in [Job -> Nat] /\ got'[j] > 0 /\ \A i \in Job : got[i] > 0 => got'[i] > 0
    BY <1>1, Received DEF Deliver
  <2>2. /\ emit' = [emit EXCEPT ![j] = "mark"]
        /\ UNCHANGED <<stamp, clock, entries, aside, drain>>
    BY <1>1 DEF Deliver, EmitAt
  <2>3. Grows
    BY <1>0, <2>1, <2>2, EmissionGrows DEF Accounted
  <2>4. QED
    BY <2>2, <2>3, DrainsStay
<1>2. CASE DeliverFails(j)
  <2>1. got' \in [Job -> Nat] /\ \A i \in Job : got[i] > 0 => got'[i] > 0
    BY <1>2, Received DEF DeliverFails
  <2>2. /\ emit' = [emit EXCEPT ![j] = "name"]
        /\ UNCHANGED <<stamp, clock, entries, aside, drain>>
    BY <1>2 DEF DeliverFails, EmitAt
  <2>3. Grows
    BY <1>0, <2>1, <2>2, EmissionGrows
  <2>4. QED
    BY <2>2, <2>3, DrainsStay
<1>3. CASE NameEntry(j)
  <2>1. /\ emit' = [emit EXCEPT ![j] = "write"]
        /\ stamp' = [stamp EXCEPT ![j] = clock] /\ clock' = clock + 1
        /\ UNCHANGED <<entries, aside, got, drain>>
    BY <1>3 DEF NameEntry, EmitAt
  <2>2. stamp' \in [Job -> Nat] /\ clock' \in Nat
    BY <1>0, <2>1
  <2>3. Grows
    BY <1>0, <2>1, <2>2, EmissionGrows
  <2>4. QED
    BY <2>1, <2>3, DrainsStay
<1>4. CASE WriteEntry(j)
  <2> DEFINE new == [job |-> j, at |-> stamp[j]]
  <2>1. /\ emit' = [emit EXCEPT ![j] = "mark"] /\ entries' = entries \union {new}
        /\ UNCHANGED <<stamp, clock, aside, got, drain>>
    BY <1>4 DEF WriteEntry, EmitAt
  <2>2. new \in Entry /\ new.job = j
    BY <1>0 DEF Entry
  <2> HIDE DEF new
  <2>3. entries' \subseteq Entry /\ Accounted(j)'
    BY <1>0, <2>1, <2>2 DEF Accounted
  <2>4. Grows
    BY <1>0, <2>1, <2>3, EmissionGrows
  <2>5. QED
    BY <2>1, <2>4, DrainsStay
<1>5. CASE Emitted(j)
  <2>1. /\ emit[j] = "mark" /\ emit' = [emit EXCEPT ![j] = "done"]
        /\ UNCHANGED <<stamp, clock, entries, aside, got, drain>>
    BY <1>5 DEF Emitted, EmitAt
  <2>2. Accounted(j)'
    BY <2>1 DEF SpoolInv, Accounted
  <2>3. Grows
    BY <1>0, <2>1, <2>2, EmissionGrows
  <2>4. QED
    BY <2>1, <2>3, DrainsStay
<1>6. CASE EmitCrash(j) \/ Confirm(j)
  <2>1. PICK to \in {"uncertain", "deliver"} : emit' = [emit EXCEPT ![j] = to]
    BY <1>6 DEF EmitCrash, Confirm, EmitAt
  <2>2. UNCHANGED <<stamp, clock, entries, aside, got, drain>>
    BY <1>6 DEF EmitCrash, Confirm
  <2>3. Grows
    BY <1>0, <2>1, <2>2, EmissionGrows
  <2>4. QED
    BY <2>2, <2>3, DrainsStay
<1>7. QED
  BY <1>1, <1>2, <1>3, <1>4, <1>5, <1>6

\* An entry that goes is kept elsewhere.
LEMMA Removal ==
  ASSUME SpoolInv, UNCHANGED <<emit, got, stamp, clock>>, NEW gone,
         entries' = entries \ {gone}, aside \subseteq aside',
         gone.job \in Job /\ gone \in entries => got[gone.job] > 0 \/ gone \in aside'
  PROVE  Grows
<1>1. ASSUME NEW j \in Job, Accounted(j) PROVE Accounted(j)'
  BY <1>1 DEF Accounted
<1>2. QED
  BY <1>1 DEF Grows, SpoolInv

\* Where a drain goes, and what it leaves behind.
LEMMA DrainGoes ==
  ASSUME SpoolInv, Grows, NEW d \in Drain, NEW pc \in Stages, Becomes(d, pc),
         pc \notin {"idle", "read"} => drain[d].list # {},
         pc = "unlink" => got'[Current(d).job] > 0
  PROVE  SpoolInv'
<1> DEFINE now == [pc |-> pc, list |-> drain[d].list, listed |-> drain[d].listed]
<1>1. drain[d] \in DrainState
  BY DEF SpoolInv
<1>2. drain' = [drain EXCEPT ![d] = now]
  <2>1. [drain[d] EXCEPT !.pc = pc] = now
    BY <1>1 DEF DrainState
  <2> HIDE DEF now
  <2>2. QED
    BY <2>1 DEF Becomes
<1>3. /\ now \in DrainState /\ now.pc = pc /\ now.list = drain[d].list
      /\ now.listed = drain[d].listed
  BY <1>1 DEF DrainState
<1> HIDE DEF now
<1>4. QED
  BY <1>2, <1>3, StaysTrue, DrainMoves DEF Current

LEMMA DrainEnds ==
  ASSUME SpoolInv, Grows, NEW d \in Drain, Ends(d)
  PROVE  SpoolInv'
<1>1. /\ Idle \in DrainState /\ Idle.pc = "idle" /\ Idle.listed = {}
      /\ drain' = [drain EXCEPT ![d] = Idle]
  BY DEF Idle, DrainState, Stages, Ends
<1>2. QED
  BY <1>1, DrainMoves

LEMMA DrainGoesOn ==
  ASSUME SpoolInv, Grows, NEW d \in Drain, NextEntry(d), drain[d].list # {},
         got'[Current(d).job] > 0 \/ Current(d) \in aside'
  PROVE  SpoolInv'
<1> DEFINE now == [pc |-> "read", list |-> drain[d].list \ {Current(d)},
                   listed |-> drain[d].listed]
<1>1. drain[d] \in DrainState
  BY DEF SpoolInv
<1>2. drain' = [drain EXCEPT ![d] = now]
  <2>1. drain' = [drain EXCEPT ![d].pc = "read", ![d].list = drain[d].list \ {Current(d)}]
    BY DEF NextEntry, Current
  <2>2. drain'[d] = now
    BY <2>1 DEF DrainState, SpoolInv
  <2>3. drain' = [drain EXCEPT ![d] = drain'[d]]
    BY <2>1
  <2>4. QED
    BY <2>2, <2>3
<1>3. /\ now \in DrainState /\ now.pc = "read" /\ now.list = drain[d].list \ {Current(d)}
      /\ now.listed = drain[d].listed
  BY <1>1 DEF DrainState, Stages
<1> HIDE DEF now
<1>4. \A e \in now.listed \ now.list : got'[e.job] > 0 \/ e \in aside'
  BY <1>3, StaysTrue
<1>5. QED
  BY <1>2, <1>3, <1>4, DrainMoves

LEMMA Draining ==
  ASSUME SpoolInv, NEW d \in Drain,
         List(d) \/ ReadEntry(d) \/ SetAside(d) \/ Replay(d)
         \/ ReplayFails(d) \/ Unlink(d) \/ Drained(d) \/ DrainCrash(d)
  PROVE  SpoolInv'
<1>1. CASE List(d)
  <2> DEFINE now == [pc |-> "read", list |-> entries, listed |-> entries]
  <2>1. drain' = [drain EXCEPT ![d] = now] /\ Grows
    BY <1>1, NothingGoes DEF List, deliveryVars
  <2>2. now \in DrainState /\ now.pc = "read" /\ now.listed \ now.list = {}
    BY DEF SpoolInv, DrainState, Stages
  <2> HIDE DEF now
  <2>3. QED
    BY <2>1, <2>2, DrainMoves
<1>2. CASE ReadEntry(d)
  <2>1. PICK pc \in {"deliver", "aside"} : Becomes(d, pc)
    BY <1>2 DEF ReadEntry
  <2>2. drain[d].list # {} /\ Grows
    BY <1>2, NothingGoes DEF ReadEntry, deliveryVars
  <2>3. QED
    BY <2>1, <2>2, DrainGoes DEF Stages
<1>3. CASE SetAside(d)
  <2>1. CASE Current(d) \in entries
    <3>1. /\ entries' = entries \ {Current(d)} /\ aside' = aside \union {Current(d)}
          /\ UNCHANGED <<emit, got, stamp, clock>>
          /\ NextEntry(d) /\ drain[d].pc = "aside"
      BY <1>3, <2>1 DEF SetAside, deliveryVars
    <3>2. Grows
      BY <3>1, Removal
    <3>3. drain[d].list # {}
      BY <3>1 DEF SpoolInv
    <3>4. QED
      BY <3>1, <3>2, <3>3, DrainGoesOn
  <2>2. CASE Current(d) \notin entries
    BY <1>3, <2>2, NothingGoes, DrainEnds DEF SetAside, deliveryVars
  <2>3. QED
    BY <2>1, <2>2
<1>4. CASE Replay(d)
  <2>1. /\ drain[d].list # {} /\ Becomes(d, "unlink")
        /\ UNCHANGED <<emit, stamp, clock, entries, aside>>
    BY <1>4 DEF Replay, SpoolInv, deliveryVars
  <2>2. /\ got' \in [Job -> Nat] /\ \A i \in Job : got[i] > 0 => got'[i] > 0
        /\ got'[Current(d).job] > 0
    BY <1>4, <2>1, JobOfEntry, Received DEF Replay
  <2>3. Grows
    BY <2>1, <2>2 DEF Grows, SpoolInv, Accounted
  <2>4. QED
    BY <2>1, <2>2, <2>3, DrainGoes DEF Stages
<1>5. CASE ReplayFails(d)
  <2>1. got' \in [Job -> Nat] /\ \A i \in Job : got[i] > 0 => got'[i] > 0
    BY <1>5, Received DEF ReplayFails
  <2>2. Ends(d) /\ UNCHANGED <<emit, stamp, clock, entries, aside>>
    BY <1>5 DEF ReplayFails, deliveryVars
  <2>3. Grows
    BY <2>1, <2>2 DEF Grows, SpoolInv, Accounted
  <2>4. QED
    BY <2>2, <2>3, DrainEnds
<1>6. CASE Unlink(d)
  <2>1. drain[d].pc = "unlink" /\ got[Current(d).job] > 0 /\ drain[d].list # {}
    BY <1>6 DEF Unlink, SpoolInv
  <2>2. CASE Current(d) \in entries
    <3>1. /\ entries' = entries \ {Current(d)} /\ NextEntry(d)
          /\ UNCHANGED <<emit, got, stamp, clock, aside>>
      BY <1>6, <2>2 DEF Unlink, deliveryVars
    <3>2. Grows
      BY <2>1, <3>1, Removal
    <3>3. QED
      BY <2>1, <3>1, <3>2, DrainGoesOn
  <2>3. CASE Current(d) \notin entries
    BY <1>6, <2>3, NothingGoes, DrainEnds DEF Unlink, deliveryVars
  <2>4. QED
    BY <2>2, <2>3
<1>7. CASE Drained(d) \/ DrainCrash(d)
  BY <1>7, NothingGoes, DrainEnds DEF Drained, DrainCrash, deliveryVars
<1>8. QED
  BY <1>1, <1>2, <1>3, <1>4, <1>5, <1>6, <1>7

LEMMA SpoolStep == SpoolInv /\ [Next]_vars => SpoolInv'
<1>1. SUFFICES ASSUME SpoolInv, [Next]_vars PROVE SpoolInv'
  OBVIOUS
<1>2. UNCHANGED <<emit, stamp, clock, entries, aside, got, drain>> => SpoolInv'
  BY <1>1, NothingGoes, DrainsStay
<1>3. CASE UNCHANGED vars
  BY <1>2, <1>3 DEF vars, spoolVars
<1>4. ASSUME NEW j \in Job,
             \/ ExtractRefused(j) \/ ExtractFails(j) \/ Extract(j)
             \/ ScanAll(j) \/ ScanFails(j) \/ Assess(j)
      PROVE  SpoolInv'
  BY <1>2, <1>4 DEF ExtractRefused, ExtractFails, Extract, ScanAll, ScanFails, Assess,
                    spoolVars, deliveryVars
<1>5. ASSUME NEW j \in Job, Emit(j) PROVE SpoolInv'
  <2>1. /\ emit' = [emit EXCEPT ![j] = "deliver"]
        /\ UNCHANGED <<stamp, clock, entries, aside, got, drain>>
    BY <1>5 DEF Emit, EmitAt
  <2>2. got \in [Job -> Nat] /\ stamp \in [Job -> Nat] /\ clock \in Nat /\ entries \subseteq Entry
    BY <1>1 DEF SpoolInv
  <2>3. Grows
    BY <1>1, <2>1, <2>2, EmissionGrows
  <2>4. QED
    BY <1>1, <2>1, <2>3, DrainsStay
<1>6. ASSUME NEW e, Rot(e) PROVE SpoolInv'
  BY <1>2, <1>6 DEF Rot, deliveryVars
<1>7. CASE SpoolNext
  BY <1>1, <1>6, <1>7, Emission, Draining DEF SpoolNext
<1>8. QED
  BY <1>1, <1>3, <1>4, <1>5, <1>7 DEF Next

\* However deliveries, drains, lost answers and crashes interleave: when a
\* job's emit phase has ended, its event has reached the collector or lies in
\* the spool, as an entry or set aside.
THEOREM SpoolKeeps == Spec => []SpoolLosesNothing
<1>1. SpoolInv => SpoolLosesNothing
  BY DEF SpoolInv, SpoolLosesNothing, Accounted
<1>2. QED
  BY <1>1, SpoolStart, SpoolStep, PTL DEF Spec

\* When a drain has delivered an entry, every older entry of its list has
\* reached the collector or was set aside, by it or by others: it took the
\* oldest each time, and stopped at the first that failed.
THEOREM SpoolOrder == Spec => []SpoolInOrder
<1>1. SpoolInv => SpoolInOrder
  <2>1. SUFFICES ASSUME SpoolInv, NEW d \in Drain, drain[d].pc = "unlink",
                        NEW e \in drain[d].listed, e.at < Current(d).at
                 PROVE  got[e.job] > 0 \/ e \in aside
    BY DEF SpoolInOrder
  <2>2. drain[d].list # {} /\ Behind(d)
    BY <2>1 DEF SpoolInv
  <2>3. \A f \in drain[d].list : Current(d).at <= f.at
    <3>1. drain[d].list \in SUBSET Entry
      BY <2>1, JobOfEntry
    <3>2. QED
      BY <2>2, <3>1, OldestFirst DEF Current
  <2>4. Current(d).at \in Nat /\ e.at \in Nat
    BY <2>1, <2>2, JobOfEntry
  <2>5. e \notin drain[d].list
    BY <2>1, <2>3, <2>4
  <2>6. QED
    BY <2>1, <2>2, <2>5 DEF Behind
<1>2. QED
  BY <1>1, SpoolStart, SpoolStep, PTL DEF Spec
===============================================================================
