---------------------------- MODULE WatchingProofs ----------------------------
(***************************************************************************)
(* Watching for any number of replicas, files, documents and faults, as    *)
(* long as no deadline is missed: who leads holds the lease, one replica   *)
(* at a time claims files, a half-written file is read only after a pause, *)
(* and a document goes with its own companion.                             *)
(*                                                                         *)
(* ElectionInv carries the first two.  For the files, TrackInv says that   *)
(* sizes are remembered only by who holds the lease, so that SizeInv can   *)
(* bound what is remembered by the pause that is going on; CompanionInv    *)
(* follows a companion from its sender to the claim that takes it.         *)
(***************************************************************************)
EXTENDS Watching, FiniteSetTheorems, TLAPS

USE ParameterAssumption DEF ParameterAssumption

Kinds == {"none", "create", "renew", "take_over", "release"}
Requests == {"create", "renew", "take_over"}
Stages == {"up", "draining", "releasing", "down"}

ElectionType ==
  /\ lease \in [holder : Replica \cup {NoReplica}, age : Nat]
  /\ leader \in [Replica -> BOOLEAN]
  /\ call \in [Replica -> [kind : Kinds, age : Nat, fresh : BOOLEAN]]
  /\ up \in [Replica -> Stages]
  /\ DOMAIN ready = Replica /\ DOMAIN work = Replica
  /\ late \in BOOLEAN

\* Who must not lose the lease: a replica that leads, unless it is giving the
\* lease back, and one that still has files to claim.
Needs(r) == (leader[r] /\ up[r] # "releasing") \/ ~Unoccupied(r)

\* A request whose version is still current was decided on the lease as it
\* is; nobody claims who is past its watch loop.
Sound(r) ==
  /\ call[r].kind = "create" /\ call[r].fresh => lease = NoLease
  /\ call[r].kind \in {"renew", "release"} /\ call[r].fresh => lease.holder = r
  /\ call[r].kind = "take_over" /\ call[r].fresh => Expired(lease.age)
  /\ call[r].kind \in Requests => up[r] \in {"up", "draining"}
  /\ up[r] = "releasing" => call[r].kind = "release"
  /\ up[r] \in {"releasing", "down"} => Unoccupied(r)
  /\ up[r] = "down" => ~leader[r]

\* Without a missed deadline the lease of such a replica has not run out, and
\* no request is older than a lease lasts.
InTime(r) ==
  /\ Needs(r) => lease.holder = r /\ lease.age <= Duration
  /\ call[r] # NoCall => call[r].age <= Duration

ElectionInv == ElectionType /\ \A r \in Replica : Sound(r) /\ (~late => InTime(r))

LEMMA ElectionStart == Init => ElectionInv
<1>1. ASSUME Init PROVE ElectionType
  <2>1. lease \in [holder : Replica \cup {NoReplica}, age : Nat]
    <3>1. Duration + 1 \in Nat
      OBVIOUS
    <3>2. QED
      BY <1>1, <3>1 DEF Init, NoLease
  <2>5. leader \in [Replica -> BOOLEAN] /\ late \in BOOLEAN
    BY <1>1 DEF Init
  <2>2. call \in [Replica -> [kind : Kinds, age : Nat, fresh : BOOLEAN]]
    BY <1>1 DEF Init, NoCall, Kinds
  <2>3. up \in [Replica -> Stages] /\ DOMAIN ready = Replica /\ DOMAIN work = Replica
    BY <1>1 DEF Init, Stages
  <2>4. QED
    BY <2>1, <2>2, <2>3, <2>5 DEF ElectionType
<1>2. ASSUME Init, NEW r \in Replica PROVE Sound(r) /\ InTime(r)
  BY <1>2 DEF Init, Sound, InTime, Needs, Unoccupied, NoCall, Requests
<1>3. QED
  BY <1>1, <1>2 DEF ElectionInv

\* Steps that leave the election alone and occupy no replica anew.
LEMMA ElectionFrame ==
  ASSUME ElectionInv, UNCHANGED <<lease, leader, call, up, late>>,
         DOMAIN ready' = Replica, DOMAIN work' = Replica,
         \A r \in Replica : Unoccupied(r)' \/ (Needs(r) /\ up[r] \in {"up", "draining"})
  PROVE  ElectionInv'
<1>1. ElectionType'
  BY DEF ElectionInv, ElectionType
<1>2. ASSUME NEW r \in Replica PROVE Sound(r)' /\ (~late' => InTime(r)')
  <2>1. Sound(r)'
    BY DEF ElectionInv, Sound, Expired
  <2>2. ~late' => InTime(r)'
    BY DEF ElectionInv, InTime, Needs
  <2>3. QED
    BY <2>1, <2>2
<1>3. QED
  BY <1>1, <1>2 DEF ElectionInv

LEMMA FolderSteps ==
  ASSUME ElectionInv, NEW f \in File,
         Drop(f) \/ Grow(f) \/ \E doc \in 1..MaxDrops : SendCompanion(f, doc)
  PROVE  ElectionInv'
<1>1. UNCHANGED <<lease, leader, call, up, ready, work, late>>
  BY DEF Drop, Grow, SendCompanion, leaseVars, watchVars
<1>2. \A r \in Replica : Unoccupied(r)' <=> Unoccupied(r)
  BY <1>1 DEF Unoccupied
<1>3. \A r \in Replica : ~Unoccupied(r) => Needs(r) /\ up[r] \in {"up", "draining"}
  BY DEF ElectionInv, ElectionType, Stages, Sound, Needs
<1>4. QED
  BY <1>1, <1>2, <1>3, ElectionFrame DEF ElectionInv, ElectionType

\* Polls and claims: the list grows only at a replica that leads.
LEMMA WatchSteps ==
  ASSUME ElectionInv, NEW r \in Replica, Poll(r) \/ Claim(r) \/ ClaimFails(r)
  PROVE  ElectionInv'
<1>1. UNCHANGED <<lease, leader, call, up, late>>
  BY DEF Poll, Claim, Read, UnlinkSource, TakeCompanion, ClaimFails, leaseVars
<1>2. DOMAIN ready' = Replica /\ DOMAIN work' = Replica
  BY DEF Poll, Claim, Read, UnlinkSource, TakeCompanion, ClaimFails, ElectionInv, ElectionType
<1>3. \A s \in Replica \ {r} : Unoccupied(s)' <=> Unoccupied(s)
  BY DEF Poll, Claim, Read, UnlinkSource, TakeCompanion, ClaimFails, Unoccupied,
         ElectionInv, ElectionType
<1>4. \A s \in Replica : ~Unoccupied(s) => Needs(s) /\ up[s] \in {"up", "draining"}
  BY DEF ElectionInv, ElectionType, Stages, Sound, Needs
<1>5. (leader[r] /\ up[r] = "up") \/ ~Unoccupied(r)
  <2>1. CASE Poll(r)
    BY <2>1 DEF Poll
  <2>2. CASE \E e \in ready[r] : Read(r, e)
    BY <2>2 DEF Read, Unoccupied
  <2>3. CASE UnlinkSource(r) \/ TakeCompanion(r) \/ ClaimFails(r)
    BY <2>3 DEF UnlinkSource, TakeCompanion, ClaimFails, Unoccupied, NoWork
  <2>4. QED
    BY <2>1, <2>2, <2>3 DEF Claim
<1>6. Needs(r) /\ up[r] \in {"up", "draining"}
  BY <1>4, <1>5 DEF Needs
<1>7. QED
  BY <1>1, <1>2, <1>3, <1>4, <1>6, ElectionFrame

-----------------------------------------------------------------------------
(* The election.                                                            *)

LEMMA TickStep ==
  ASSUME ElectionInv, NEW r \in Replica, Tick(r)
  PROVE  ElectionInv'
<1>1. UNCHANGED <<lease, up, ready, work, late>> /\ call[r] = NoCall
  BY DEF Tick, watchVars
<1>2. \A s \in Replica : Unoccupied(s)' <=> Unoccupied(s)
  BY <1>1 DEF Unoccupied
<1>3. CASE Decide(r) = "none"
  <2>1. call' = call /\ leader' = [leader EXCEPT ![r] = FALSE]
    BY <1>3 DEF Tick, Lead
  <2>2. ElectionType'
    BY <1>1, <2>1 DEF ElectionInv, ElectionType
  <2>3. ASSUME NEW s \in Replica PROVE Sound(s)' /\ (~late' => InTime(s)')
    <3>1. leader'[s] => leader[s]
      BY <2>1 DEF ElectionInv, ElectionType
    <3>2. QED
      BY <1>1, <1>2, <2>1, <3>1 DEF ElectionInv, Sound, InTime, Needs, Expired
  <2>4. QED
    BY <2>2, <2>3 DEF ElectionInv
<1>4. CASE Decide(r) # "none"
  <2>1. /\ leader' = leader /\ Decide(r) \in Requests
        /\ call' = [call EXCEPT ![r] = [kind |-> Decide(r), age |-> 0, fresh |-> TRUE]]
    BY <1>4 DEF Tick, Decide, Requests
  <2>2. ElectionType'
    BY <1>1, <2>1 DEF ElectionInv, ElectionType, Kinds, Requests
  <2>3. ASSUME NEW s \in Replica, s # r PROVE Sound(s)' /\ (~late' => InTime(s)')
    BY <1>1, <1>2, <2>1, <2>3 DEF ElectionInv, ElectionType, Sound, InTime, Needs, Expired
  <2>4. Sound(r)' /\ (~late' => InTime(r)')
    <3>1. call'[r] = [kind |-> Decide(r), age |-> 0, fresh |-> TRUE]
      BY <2>1 DEF ElectionInv, ElectionType
    <3>2. up[r] \in {"up", "draining"}
      BY DEF Tick
    <3>3. Sound(r)'
      BY <1>1, <1>2, <2>1, <3>1, <3>2 DEF Sound, Decide, Expired, Requests
    <3>4. ~late' => InTime(r)'
      BY <1>1, <1>2, <2>1, <3>1 DEF ElectionInv, InTime, Needs
    <3>5. QED
      BY <3>3, <3>4
  <2>5. QED
    BY <2>2, <2>3, <2>4 DEF ElectionInv
<1>5. QED
  BY <1>3, <1>4

\* The answer to a request.
LEMMA ServedCalls ==
  ASSUME ElectionInv, NEW r \in Replica, Serve(r)
  PROVE  /\ call' \in [Replica -> [kind : Kinds, age : Nat, fresh : BOOLEAN]]
         /\ call'[r] = NoCall
         /\ \A s \in Replica \ {r} :
              \/ call'[s] = NoCall /\ call[s] = NoCall
              \/ /\ call[s] # NoCall
                 /\ call'[s].kind = call[s].kind /\ call'[s].age = call[s].age
                 /\ call'[s].fresh = (call[s].fresh /\ ~Accepts(r))
<1>1. \A s \in Replica : call[s] \in [kind : Kinds, age : Nat, fresh : BOOLEAN]
  BY DEF ElectionInv, ElectionType
<1>2. NoCall \in [kind : Kinds, age : Nat, fresh : BOOLEAN]
  BY DEF NoCall, Kinds
<1>3. Accepts(r) \in BOOLEAN
  BY <1>1 DEF Accepts
<1>4. call' = [s \in Replica |->
                 IF s = r THEN NoCall
                 ELSE IF call[s] = NoCall THEN NoCall
                 ELSE [call[s] EXCEPT !.fresh = @ /\ ~Accepts(r)]]
  BY DEF Serve
<1>5. ASSUME NEW s \in Replica
      PROVE  /\ [call[s] EXCEPT !.fresh = @ /\ ~Accepts(r)]
                  \in [kind : Kinds, age : Nat, fresh : BOOLEAN]
             /\ [call[s] EXCEPT !.fresh = @ /\ ~Accepts(r)].kind = call[s].kind
             /\ [call[s] EXCEPT !.fresh = @ /\ ~Accepts(r)].age = call[s].age
             /\ [call[s] EXCEPT !.fresh = @ /\ ~Accepts(r)].fresh
                  = (call[s].fresh /\ ~Accepts(r))
  BY <1>1, <1>3
<1>6. QED
  BY <1>2, <1>4, <1>5

\* A write to the lease: nobody else needs it, and every other request is
\* stale afterwards.
LEMMA ServeStep ==
  ASSUME ElectionInv, NEW r \in Replica, Serve(r), call[r].kind \in Requests \cup {"release"},
         UNCHANGED <<ready, work, late>>,
         up' \in [Replica -> Stages], leader' \in [Replica -> BOOLEAN],
         \A s \in Replica \ {r} : up'[s] = up[s] /\ leader'[s] = leader[s],
         call[r].kind \in Requests => up' = up,
         call[r].kind = "release" => up'[r] = "down" /\ Unoccupied(r),
         leader'[r] => Accepts(r) /\ call[r].kind \in Requests
  PROVE  ElectionInv'
<1>1. /\ call' \in [Replica -> [kind : Kinds, age : Nat, fresh : BOOLEAN]]
      /\ call'[r] = NoCall
      /\ \A s \in Replica \ {r} :
           \/ call'[s] = NoCall /\ call[s] = NoCall
           \/ /\ call[s] # NoCall
              /\ call'[s].kind = call[s].kind /\ call'[s].age = call[s].age
              /\ call'[s].fresh = (call[s].fresh /\ ~Accepts(r))
  BY ServedCalls
<1>2. /\ NoCall.kind = "none" /\ NoCall.fresh = FALSE
      /\ "none" \notin Requests /\ "release" \notin Requests
  BY DEF NoCall, Requests
<1>3. /\ ~Accepts(r) => lease' = lease
      /\ Accepts(r) => lease' = [holder |-> IF call[r].kind = "release" THEN NoReplica ELSE r,
                                 age |-> call[r].age]
  BY DEF Serve
<1>4. call[r] \in [kind : Kinds, age : Nat, fresh : BOOLEAN] /\ call[r] # NoCall
  BY <1>2 DEF ElectionInv, ElectionType
<1>5. ElectionType'
  <2>1. lease' \in [holder : Replica \cup {NoReplica}, age : Nat]
    BY <1>3, <1>4 DEF ElectionInv, ElectionType
  <2>2. QED
    BY <1>1, <2>1 DEF ElectionInv, ElectionType
<1>6. \A s \in Replica : Unoccupied(s)' <=> Unoccupied(s)
  BY DEF Unoccupied
<1>7. ASSUME NEW s \in Replica, s # r, ~late, Accepts(r) PROVE ~Needs(s)
  <2>1. Needs(s) => lease.holder = s /\ lease.age <= Duration
    BY <1>7 DEF ElectionInv, InTime
  <2>2. \/ lease = NoLease
        \/ lease.holder = r
        \/ lease.age > Duration
    BY <1>7 DEF ElectionInv, Sound, Accepts, Expired, Requests
  <2>3. NoLease.holder \notin Replica /\ lease.age \in Nat
    BY DEF NoLease, ElectionInv, ElectionType
  <2>4. QED
    BY <1>7, <2>1, <2>2, <2>3
<1>8. ASSUME NEW s \in Replica, s # r PROVE Sound(s)' /\ (~late' => InTime(s)')
  <2>1. Sound(s)'
    <3>1. CASE Accepts(r)
      <4>1. ~call'[s].fresh
        BY <1>1, <1>2, <1>8, <3>1
      <4>2. call'[s].kind = call[s].kind
        BY <1>1, <1>2, <1>8
      <4>3. QED
        BY <1>2, <1>6, <1>8, <4>1, <4>2 DEF ElectionInv, Sound
    <3>2. CASE ~Accepts(r)
      <4>1. lease' = lease
        BY <1>3, <3>2
      <4>2. CASE call'[s] = NoCall
        <5>1. call[s].kind = "none" /\ call'[s].kind = "none" /\ "none" \notin Requests
          BY <1>1, <1>2, <1>8, <4>2
        <5>2. QED
          BY <1>6, <1>8, <5>1 DEF ElectionInv, Sound
      <4>3. CASE call'[s] # NoCall
        <5>1. call'[s].kind = call[s].kind /\ (call'[s].fresh => call[s].fresh)
          BY <1>1, <1>8, <4>3
        <5>2. QED
          BY <1>6, <1>8, <4>1, <5>1 DEF ElectionInv, Sound, Expired
      <4>4. QED
        BY <4>2, <4>3
    <3>3. QED
      BY <3>1, <3>2
  <2>2. ~late' => InTime(s)'
    <3>1. SUFFICES ASSUME ~late PROVE InTime(s)'
      OBVIOUS
    <3>2. Needs(s)' <=> Needs(s)
      BY <1>6, <1>8 DEF Needs
    <3>3. Needs(s) => lease' = lease
      BY <1>3, <1>7, <1>8, <3>1
    <3>4. call'[s] # NoCall => call[s] # NoCall /\ call'[s].age = call[s].age
      BY <1>1, <1>8
    <3>5. QED
      BY <3>1, <3>2, <3>3, <3>4 DEF ElectionInv, InTime
  <2>3. QED
    BY <2>1, <2>2
<1>9. Sound(r)' /\ (~late' => InTime(r)')
  <2>1. call[r].kind \in Requests => up[r] \in {"up", "draining"} /\ up'[r] = up[r]
    BY DEF ElectionInv, Sound
  <2>2. Sound(r)'
    BY <1>1, <1>2, <1>6, <2>1 DEF Sound
  <2>3. ~late' => InTime(r)'
    <3>1. SUFFICES ASSUME ~late PROVE InTime(r)'
      OBVIOUS
    <3>2. call[r].age <= Duration
      BY <1>4, <3>1 DEF ElectionInv, InTime
    <3>3. CASE Accepts(r) /\ call[r].kind \in Requests
      BY <1>1, <1>2, <1>3, <3>2, <3>3 DEF InTime
    <3>4. CASE Accepts(r) /\ call[r].kind = "release"
      <4>1. ~Needs(r)'
        BY <1>2, <1>6, <3>4 DEF Needs
      <4>2. QED
        BY <1>1, <4>1 DEF InTime
    <3>5. CASE ~Accepts(r)
      <4>1. Needs(r)' => Needs(r)
        BY <1>6, <3>5 DEF Needs
      <4>2. QED
        BY <1>1, <1>3, <3>1, <3>5, <4>1 DEF ElectionInv, InTime
    <3>6. QED
      BY <3>3, <3>4, <3>5
  <2>4. QED
    BY <2>2, <2>3
<1>10. QED
  BY <1>5, <1>8, <1>9 DEF ElectionInv

LEMMA PutStep ==
  ASSUME ElectionInv, NEW r \in Replica, Put(r)
  PROVE  ElectionInv'
<1>1. /\ Serve(r) /\ call[r].kind \in Requests /\ UNCHANGED <<up, ready, work, late>>
      /\ leader' = [leader EXCEPT ![r] = Accepts(r)]
  BY DEF Put, Lead, watchVars, Requests
<1>2. Accepts(r) \in BOOLEAN /\ up \in [Replica -> Stages] /\ leader \in [Replica -> BOOLEAN]
  BY DEF Accepts, ElectionInv, ElectionType
<1>3. /\ leader' \in [Replica -> BOOLEAN] /\ up' \in [Replica -> Stages]
      /\ \A s \in Replica \ {r} : up'[s] = up[s] /\ leader'[s] = leader[s]
      /\ leader'[r] => Accepts(r)
  BY <1>1, <1>2
<1>4. "release" \notin Requests
  BY DEF Requests
<1>5. QED
  BY <1>1, <1>3, <1>4, ServeStep

LEMMA TickFailsStep ==
  ASSUME ElectionInv, NEW r \in Replica, TickFails(r)
  PROVE  ElectionInv'
<1>1. /\ call[r].kind \in Requests /\ UNCHANGED <<up, ready, work, late>>
      /\ leader' = [leader EXCEPT ![r] = FALSE]
  BY DEF TickFails, Lead, watchVars, Requests
<1>2. up \in [Replica -> Stages] /\ leader \in [Replica -> BOOLEAN]
  BY DEF ElectionInv, ElectionType
<1>3. /\ leader' \in [Replica -> BOOLEAN] /\ up' \in [Replica -> Stages]
      /\ \A s \in Replica \ {r} : up'[s] = up[s] /\ leader'[s] = leader[s]
      /\ ~leader'[r]
  BY <1>1, <1>2
<1>4. CASE Serve(r)
  <2>1. "release" \notin Requests
    BY DEF Requests
  <2>2. QED
    BY <1>1, <1>3, <1>4, <2>1, ServeStep
<1>5. CASE call' = [call EXCEPT ![r] = NoCall] /\ lease' = lease
  <2>1. \A s \in Replica : (Unoccupied(s)' <=> Unoccupied(s)) /\ (leader'[s] => leader[s])
    BY <1>1, <1>2, <1>3 DEF Unoccupied
  <2>2. ElectionType'
    BY <1>1, <1>3, <1>5 DEF ElectionInv, ElectionType, NoCall, Kinds
  <2>3. call'[r] = NoCall /\ \A s \in Replica \ {r} : call'[s] = call[s]
    BY <1>5 DEF ElectionInv, ElectionType
  <2>4. NoCall.kind = "none" /\ "none" \notin Requests
    BY DEF NoCall, Requests
  <2>5. up[r] \in {"up", "draining"}
    BY <1>1 DEF ElectionInv, Sound
  <2>6. ASSUME NEW s \in Replica PROVE Sound(s)'
    BY <1>1, <1>3, <1>5, <2>1, <2>3, <2>4, <2>5 DEF ElectionInv, Sound, Expired
  <2>7. ASSUME NEW s \in Replica, ~late PROVE InTime(s)'
    BY <1>1, <1>5, <2>1, <2>3, <2>7 DEF ElectionInv, InTime, Needs
  <2>8. QED
    BY <1>1, <2>2, <2>6, <2>7 DEF ElectionInv
<1>6. QED
  BY <1>4, <1>5 DEF TickFails

\* Time runs out for nobody who keeps the deadlines.
LEMMA ClockStep ==
  ASSUME ElectionInv, Clock
  PROVE  ElectionInv'
<1>1. /\ lease # NoLease /\ lease' = [lease EXCEPT !.age = Older(@)]
      /\ UNCHANGED <<leader, up, ready, work>>
      /\ call' = [r \in Replica |-> IF call[r] = NoCall THEN NoCall
                                    ELSE [call[r] EXCEPT !.age = Older(@)]]
      /\ late' \in BOOLEAN /\ (~late' => ~late /\ ~Overdue)
  BY DEF Clock, watchVars, ElectionInv, ElectionType
<1>2. \A n \in Nat : Older(n) \in Nat /\ (n < Duration => Older(n) <= Duration)
                     /\ (Expired(n) => Expired(Older(n)))
  BY DEF Older, Expired
<1>3. lease.age \in Nat /\ lease'.holder = lease.holder /\ lease'.age = Older(lease.age)
  BY <1>1 DEF ElectionInv, ElectionType
<1>4. ASSUME NEW r \in Replica
      PROVE  /\ call[r] \in [kind : Kinds, age : Nat, fresh : BOOLEAN]
             /\ call'[r].kind = call[r].kind /\ call'[r].fresh = call[r].fresh
             /\ call'[r] = NoCall \/ (call[r] # NoCall /\ call'[r].age = Older(call[r].age))
             /\ call'[r] \in [kind : Kinds, age : Nat, fresh : BOOLEAN]
  <2>1. call[r] \in [kind : Kinds, age : Nat, fresh : BOOLEAN]
    BY DEF ElectionInv, ElectionType
  <2>2. CASE call[r] = NoCall
    BY <1>1, <2>1, <2>2
  <2>3. CASE call[r] # NoCall
    <3>1. call'[r] = [call[r] EXCEPT !.age = Older(@)] /\ Older(call[r].age) \in Nat
      BY <1>1, <1>2, <2>1, <2>3
    <3>2. QED
      BY <2>1, <2>3, <3>1
  <2>4. QED
    BY <2>2, <2>3
<1>5. ElectionType'
  <2>1. lease' \in [holder : Replica \cup {NoReplica}, age : Nat]
    BY <1>1, <1>2, <1>3 DEF ElectionInv, ElectionType
  <2>2. call' \in [Replica -> [kind : Kinds, age : Nat, fresh : BOOLEAN]]
    BY <1>1, <1>4
  <2>3. QED
    BY <1>1, <2>1, <2>2 DEF ElectionInv, ElectionType
<1>6. \A r \in Replica : Unoccupied(r)' <=> Unoccupied(r)
  BY <1>1 DEF Unoccupied
<1>7. ASSUME NEW r \in Replica PROVE Sound(r)'
  <2>1. Expired(lease.age) => Expired(lease'.age)
    BY <1>2, <1>3
  <2>2. QED
    BY <1>1, <1>3, <1>4, <1>6, <2>1 DEF ElectionInv, Sound
<1>8. ASSUME NEW r \in Replica, ~late' PROVE InTime(r)'
  <2>1. ~late /\ ~Overdue
    BY <1>1, <1>8
  <2>2. ASSUME Needs(r)' PROVE lease'.holder = r /\ lease'.age <= Duration
    <3>1. Needs(r)
      BY <1>1, <1>6, <2>2 DEF Needs
    <3>2. lease.holder = r /\ lease.age <= Duration
      BY <2>1, <3>1 DEF ElectionInv, InTime
    <3>3. up[r] # "down"
      BY <3>1 DEF ElectionInv, Sound, Needs
    <3>4. lease.age # Duration
      BY <2>1, <3>2, <3>3 DEF Overdue, Running
    <3>5. QED
      BY <1>2, <1>3, <3>2, <3>4
  <2>3. ASSUME call'[r] # NoCall PROVE call'[r].age <= Duration
    <3>1. call[r] # NoCall /\ call'[r].age = Older(call[r].age) /\ call[r].age \in Nat
      BY <1>4, <2>3
    <3>2. call[r].age <= Duration /\ call[r].age # Duration
      BY <2>1, <3>1 DEF ElectionInv, InTime, Overdue
    <3>3. QED
      BY <1>2, <3>1, <3>2
  <2>4. QED
    BY <2>2, <2>3 DEF InTime
<1>9. QED
  BY <1>5, <1>7, <1>8 DEF ElectionInv

\* The life of a daemon.
LEMMA LifeStep ==
  ASSUME ElectionInv, NEW r \in Replica, lease' = lease, late' = late,
         DOMAIN ready' = Replica, DOMAIN work' = Replica,
         NEW stage \in Stages, up' = [up EXCEPT ![r] = stage],
         leader' \in [Replica -> BOOLEAN],
         call' \in [Replica -> [kind : Kinds, age : Nat, fresh : BOOLEAN]],
         \A s \in Replica \ {r} : /\ leader'[s] = leader[s] /\ call'[s] = call[s]
                                  /\ Unoccupied(s)' <=> Unoccupied(s),
         Sound(r)', ~late => InTime(r)'
  PROVE  ElectionInv'
<1>1. ElectionType'
  BY DEF ElectionInv, ElectionType
<1>2. ASSUME NEW s \in Replica, s # r PROVE Sound(s)' /\ (~late => InTime(s)')
  <2>1. up'[s] = up[s] /\ leader'[s] = leader[s] /\ call'[s] = call[s]
        /\ (Unoccupied(s)' <=> Unoccupied(s))
    BY <1>2 DEF ElectionInv, ElectionType
  <2>2. Sound(s)'
    BY <2>1 DEF ElectionInv, Sound, Expired
  <2>3. ~late => InTime(s)'
    BY <2>1 DEF ElectionInv, InTime, Needs
  <2>4. QED
    BY <2>2, <2>3
<1>3. QED
  BY <1>1, <1>2 DEF ElectionInv

LEMMA SignalStep ==
  ASSUME ElectionInv, NEW r \in Replica, Signal(r) \/ Start(r)
  PROVE  ElectionInv'
<1>1. UNCHANGED <<lease, leader, call, ready, work, late>>
  BY DEF Signal, Start, leaseVars, watchVars
<1>2. PICK stage \in {"up", "draining"} : up' = [up EXCEPT ![r] = stage]
  BY DEF Signal, Start
<1>3. \A s \in Replica : Unoccupied(s)' <=> Unoccupied(s)
  BY <1>1 DEF Unoccupied
<1>4. up'[r] \in {"up", "draining"} /\ up[r] # "releasing"
  BY <1>2 DEF Signal, Start, ElectionInv, ElectionType
<1>5. Sound(r)'
  BY <1>1, <1>3, <1>4 DEF ElectionInv, Sound, Expired
<1>6. ~late => InTime(r)'
  BY <1>1, <1>3, <1>4 DEF ElectionInv, InTime, Needs
<1>7. QED
  BY <1>1, <1>2, <1>3, <1>5, <1>6, LifeStep DEF ElectionInv, ElectionType, Stages

\* A daemon ends without a claim in progress, or loses it with the process.
LEMMA EndStep ==
  ASSUME ElectionInv, NEW r \in Replica, Ends(r), lease' = lease, late' = late,
         DOMAIN ready' = Replica, DOMAIN work' = Replica, Unoccupied(r)',
         \A s \in Replica \ {r} : Unoccupied(s)' <=> Unoccupied(s),
         call' = [call EXCEPT ![r] = NoCall]
  PROVE  ElectionInv'
<1>1. /\ up' = [up EXCEPT ![r] = "down"] /\ leader' = [leader EXCEPT ![r] = FALSE]
      /\ "down" \in Stages
  BY DEF Ends, Stages
<1>2. leader' \in [Replica -> BOOLEAN] /\ ~leader'[r] /\ up'[r] = "down"
  BY <1>1 DEF ElectionInv, ElectionType
<1>3. call' \in [Replica -> [kind : Kinds, age : Nat, fresh : BOOLEAN]] /\ call'[r] = NoCall
  BY DEF ElectionInv, ElectionType, NoCall, Kinds
<1>4. \A s \in Replica \ {r} : leader'[s] = leader[s] /\ call'[s] = call[s]
  BY <1>1 DEF ElectionInv, ElectionType
<1>5. Sound(r)'
  BY <1>2, <1>3 DEF Sound, NoCall, Requests
<1>6. InTime(r)'
  BY <1>2, <1>3 DEF InTime, Needs
<1>7. QED
  BY <1>1, <1>2, <1>3, <1>4, <1>5, <1>6, LifeStep

LEMMA StopElectionStep ==
  ASSUME ElectionInv, NEW r \in Replica, StopElection(r)
  PROVE  ElectionInv'
<1>1. /\ UNCHANGED <<lease, ready, work, late>> /\ Unoccupied(r) /\ call[r] = NoCall
      /\ up[r] = "draining"
  BY DEF StopElection
<1>2. \A s \in Replica : Unoccupied(s)' <=> Unoccupied(s)
  BY <1>1 DEF Unoccupied
<1>3. CASE leader[r] /\ lease.holder = r
  <2> DEFINE request == [NoCall EXCEPT !.kind = "release", !.fresh = TRUE]
  <2>1. /\ call' = [call EXCEPT ![r] = request]
        /\ up' = [up EXCEPT ![r] = "releasing"] /\ leader' = leader
    BY <1>3 DEF StopElection
  <2>2. /\ request \in [kind : Kinds, age : Nat, fresh : BOOLEAN]
        /\ request.kind = "release" /\ request.age = 0
    <3>1. NoCall \in [kind : Kinds, age : Nat, fresh : BOOLEAN] /\ NoCall.age = 0
      BY DEF NoCall, Kinds
    <3>2. QED
      BY <3>1 DEF Kinds
  <2> HIDE DEF request
  <2>3. call'[r] = request /\ up'[r] = "releasing"
    BY <2>1 DEF ElectionInv, ElectionType
  <2>4. call' \in [Replica -> [kind : Kinds, age : Nat, fresh : BOOLEAN]]
    BY <2>1, <2>2 DEF ElectionInv, ElectionType
  <2>5. Sound(r)'
    BY <1>1, <1>2, <1>3, <2>2, <2>3 DEF Sound, Requests
  <2>6. InTime(r)'
    BY <1>1, <1>2, <2>2, <2>3 DEF InTime, Needs
  <2>7. QED
    BY <1>1, <1>2, <2>1, <2>4, <2>5, <2>6, LifeStep DEF ElectionInv, ElectionType, Stages
<1>4. CASE ~ (leader[r] /\ lease.holder = r)
  <2>1. Ends(r) /\ call' = call
    BY <1>4 DEF StopElection
  <2>2. call' = [call EXCEPT ![r] = NoCall]
    BY <1>1, <2>1 DEF ElectionInv, ElectionType
  <2>3. QED
    BY <1>1, <1>2, <2>1, <2>2, EndStep DEF ElectionInv, ElectionType
<1>5. QED
  BY <1>3, <1>4

LEMMA ReleasedStep ==
  ASSUME ElectionInv, NEW r \in Replica, Released(r)
  PROVE  ElectionInv'
<1>1. /\ up[r] = "releasing" /\ Serve(r) /\ UNCHANGED <<ready, work, late>>
      /\ up' = [up EXCEPT ![r] = "down"] /\ leader' = [leader EXCEPT ![r] = FALSE]
  BY DEF Released, Ends
<1>2. call[r].kind = "release" /\ Unoccupied(r) /\ "release" \notin Requests
  BY <1>1 DEF ElectionInv, Sound, Requests
<1>3. /\ leader' \in [Replica -> BOOLEAN] /\ up' \in [Replica -> Stages]
      /\ \A s \in Replica \ {r} : up'[s] = up[s] /\ leader'[s] = leader[s]
      /\ ~leader'[r] /\ up'[r] = "down"
  BY <1>1 DEF ElectionInv, ElectionType, Stages
<1>4. QED
  BY <1>1, <1>2, <1>3, ServeStep

LEMMA CrashStep ==
  ASSUME ElectionInv, NEW r \in Replica, Crash(r)
  PROVE  ElectionInv'
<1>1. /\ Ends(r) /\ call' = [call EXCEPT ![r] = NoCall]
      /\ ready' = [ready EXCEPT ![r] = {}] /\ work' = [work EXCEPT ![r] = NoWork]
      /\ UNCHANGED <<lease, late>>
  BY DEF Crash
<1>2. /\ DOMAIN ready' = Replica /\ DOMAIN work' = Replica /\ Unoccupied(r)'
      /\ \A s \in Replica \ {r} : Unoccupied(s)' <=> Unoccupied(s)
  BY <1>1 DEF Unoccupied, ElectionInv, ElectionType
<1>3. QED
  BY <1>1, <1>2, EndStep

LEMMA ElectionStep == ElectionInv /\ [Next]_vars => ElectionInv'
<1>1. ASSUME ElectionInv, UNCHANGED vars PROVE ElectionInv'
  <2>1. \A r \in Replica : Unoccupied(r)' <=> Unoccupied(r)
    BY <1>1 DEF Unoccupied, vars
  <2>2. \A r \in Replica : ~Unoccupied(r) => Needs(r) /\ up[r] \in {"up", "draining"}
    BY <1>1 DEF ElectionInv, ElectionType, Stages, Sound, Needs
  <2>3. UNCHANGED <<lease, leader, call, up, late, ready, work>>
    BY <1>1 DEF vars
  <2>4. QED
    BY <1>1, <2>1, <2>2, <2>3, ElectionFrame DEF ElectionInv, ElectionType
<1>2. ASSUME ElectionInv, Next PROVE ElectionInv'
  BY <1>2, FolderSteps, WatchSteps, TickStep, PutStep, TickFailsStep, ClockStep, SignalStep,
     StopElectionStep, ReleasedStep, CrashStep DEF Next, Election
<1>3. QED
  BY <1>1, <1>2

LEMMA ElectionAlways == Spec => []ElectionInv
BY ElectionStart, ElectionStep, PTL DEF Spec

\* Whatever requests, answers, crashes and restarts interleave: unless a
\* deadline was missed, a replica that believes it leads is the one the lease
\* names, or is giving it back.
THEOREM LeaderHolds == Spec => []LeaderHoldsLease
<1>1. ElectionInv => LeaderHoldsLease
  BY DEF ElectionInv, InTime, Needs, LeaderHoldsLease
<1>2. QED
  BY <1>1, ElectionAlways, PTL

\* Unless a deadline was missed, at most one replica has files to claim, also
\* while a replica that was told to stop works off its list.
THEOREM SingleClaimer == Spec => []OneClaimer
<1>1. ASSUME ElectionInv, ~late
      PROVE  Cardinality({r \in Replica : ~Unoccupied(r)}) <= 1
  <2> DEFINE claiming == {r \in Replica : ~Unoccupied(r)}
  <2>1. claiming \subseteq {lease.holder}
    <3>1. \A r \in Replica : ~Unoccupied(r) => lease.holder = r
      BY <1>1 DEF ElectionInv, InTime, Needs
    <3>2. QED
      BY <3>1
  <2>2. IsFiniteSet({lease.holder}) /\ Cardinality({lease.holder}) = 1
    BY FS_Singleton
  <2>3. IsFiniteSet(claiming) /\ Cardinality(claiming) <= Cardinality({lease.holder})
    <3> HIDE DEF claiming
    <3>1. QED
      BY <2>1, <2>2, FS_Subset
  <2>4. QED
    BY <2>2, <2>3
<1>2. ElectionInv => OneClaimer
  BY <1>1 DEF OneClaimer
<1>3. QED
  BY <1>2, ElectionAlways, PTL

-----------------------------------------------------------------------------
(* The drop folder and the claims.                                          *)

FolderEntry == [doc : Nat, size : Nat, companion : Nat]
Sight == [size : Nat, stable : Nat, grace : Nat]
Found == [file : File, meta : BOOLEAN]
Claims == [file : File, doc : Nat, meta : BOOLEAN, at : {"unlink", "companion"}]

DropType ==
  /\ folder \in [File -> FolderEntry]
  /\ sent \in [File -> SUBSET Nat]
  /\ tracked \in [Replica -> [File -> Sight]]
  /\ ready \in [Replica -> SUBSET Found]
  /\ work \in [Replica -> Claims \cup {NoWork}]
  /\ quiet \in [File -> Nat]
  /\ faults \in Nat

LEMMA FaultCounts ==
  ASSUME DropType, Fault
  PROVE  faults' \in Nat /\ faults' # faults
BY DEF DropType, Fault

LEMMA Idle == NoWork.at = "idle" /\ NoWork \notin Claims
BY DEF NoWork, Claims

LEMMA NothingTracked ==
  /\ Untracked \in Sight /\ Untracked.size = 0
  /\ [f \in File |-> Untracked] \in [File -> Sight]
BY DEF Untracked, Sight

\* What each step does to the folder, the lists and the claims, name by name.
LEMMA DropDoes ==
  ASSUME DropType, NEW f \in File, Drop(f)
  PROVE  /\ DropType'
         /\ folder[f].size = 0
         /\ folder'[f].size = 1 /\ folder'[f].doc = folder[f].doc + 1
         /\ folder'[f].companion = folder[f].companion /\ quiet'[f] = 0
         /\ \A g \in File \ {f} : folder'[g] = folder[g] /\ quiet'[g] = quiet[g]
         /\ UNCHANGED <<sent, tracked, ready, work, orphan, up, late, faults>>
<1>1. /\ folder' = [folder EXCEPT ![f].doc = @ + 1, ![f].size = 1]
      /\ quiet' = [quiet EXCEPT ![f] = 0] /\ folder[f].size = 0
      /\ UNCHANGED <<sent, tracked, ready, work, orphan, up, late, faults>>
  BY DEF Drop, watchVars
<1>2. folder[f] \in FolderEntry
  BY DEF DropType
<1>3. folder' \in [File -> FolderEntry] /\ quiet' \in [File -> Nat]
  BY <1>1, <1>2 DEF DropType, FolderEntry
<1>4. QED
  BY <1>1, <1>2, <1>3 DEF DropType, FolderEntry

LEMMA GrowDoes ==
  ASSUME DropType, NEW f \in File, Grow(f)
  PROVE  /\ DropType'
         /\ folder[f].size > 0 /\ folder[f].size < FullSize
         /\ folder'[f].size = folder[f].size + 1 /\ folder'[f].doc = folder[f].doc
         /\ folder'[f].companion = folder[f].companion
         /\ quiet[f] >= StabilityPolls => quiet'[f] = quiet[f]
         /\ \A g \in File \ {f} : folder'[g] = folder[g] /\ quiet'[g] = quiet[g]
         /\ UNCHANGED <<sent, tracked, ready, work, orphan, up, late, faults>>
<1>1. /\ folder' = [folder EXCEPT ![f].size = @ + 1]
      /\ quiet' = [quiet EXCEPT ![f] = IF @ >= StabilityPolls THEN @ ELSE 0]
      /\ folder[f].size \in 1..(FullSize - 1)
      /\ UNCHANGED <<sent, tracked, ready, work, orphan, up, late, faults>>
  BY DEF Grow, watchVars
<1>2. folder[f] \in FolderEntry
  BY DEF DropType
<1>3. folder' \in [File -> FolderEntry] /\ quiet' \in [File -> Nat]
  BY <1>1, <1>2 DEF DropType, FolderEntry
<1>4. QED
  BY <1>1, <1>2, <1>3 DEF DropType, FolderEntry

LEMMA SendDoes ==
  ASSUME DropType, NEW f \in File, NEW doc \in 1..MaxDrops, SendCompanion(f, doc)
  PROVE  /\ DropType'
         /\ doc <= folder[f].doc /\ doc \notin sent[f]
         /\ folder'[f].size = folder[f].size /\ folder'[f].doc = folder[f].doc
         /\ folder'[f].companion = doc /\ sent'[f] = sent[f] \cup {doc}
         /\ \A g \in File \ {f} : folder'[g] = folder[g] /\ sent'[g] = sent[g]
         /\ orphan \subseteq orphan' /\ (f \notin orphan' => Awaited(f, doc))
         /\ \A g \in File : folder'[g].size = folder[g].size /\ folder'[g].doc = folder[g].doc
         /\ UNCHANGED <<quiet, tracked, ready, work, up, late, faults>>
<1>1. /\ folder' = [folder EXCEPT ![f].companion = doc]
      /\ sent' = [sent EXCEPT ![f] = @ \cup {doc}]
      /\ doc \in 1..folder[f].doc \ sent[f]
      /\ orphan' = IF Awaited(f, doc) THEN orphan ELSE orphan \cup {f}
      /\ UNCHANGED <<quiet, tracked, ready, work, up, late, faults>>
  BY DEF SendCompanion, watchVars
<1>2. folder[f] \in FolderEntry
  BY DEF DropType
<1>3. folder' \in [File -> FolderEntry] /\ sent' \in [File -> SUBSET Nat]
  BY SMTT(30), <1>1, <1>2 DEF DropType, FolderEntry
<1>4. QED
  BY <1>1, <1>2, <1>3 DEF DropType, FolderEntry

LEMMA SeenType ==
  ASSUME DropType, NEW r \in Replica, NEW f \in File
  PROVE  /\ Seen(r, f) \in Sight
         /\ Seen(r, f).size = folder[f].size
         /\ Seen(r, f).stable \in {1, tracked[r][f].stable, tracked[r][f].stable + 1}
         /\ tracked[r][f].size # folder[f].size => Seen(r, f).stable = 1
         /\ tracked[r][f].stable >= StabilityPolls /\ tracked[r][f].size = folder[f].size
              => Seen(r, f).stable = tracked[r][f].stable
<1> DEFINE t == tracked[r][f]
           n == Track(t, folder[f].size)
<1>1. t \in Sight /\ folder[f].size \in Nat
  BY DEF DropType, FolderEntry
<1>2. /\ n \in Sight /\ n.size = folder[f].size
      /\ n.stable \in {1, t.stable, t.stable + 1}
      /\ t.size # folder[f].size => n.stable = 1
      /\ t.stable >= StabilityPolls /\ t.size = folder[f].size => n.stable = t.stable
  <2>1. CASE t.size # folder[f].size
    <3>1. n = [size |-> folder[f].size, stable |-> 1, grace |-> 0]
      BY <2>1 DEF Track
    <3>2. QED
      BY <1>1, <2>1, <3>1 DEF Sight
  <2>2. CASE t.size = folder[f].size
    <3>1. n = [t EXCEPT !.stable = IF t.stable < StabilityPolls THEN t.stable + 1 ELSE t.stable]
      BY <2>2 DEF Track
    <3>2. QED
      BY <1>1, <2>2, <3>1 DEF Sight
  <2>3. QED
    BY <2>1, <2>2
<1>3. Seen(r, f) = Wait(f, n)
  BY DEF Seen
<1> HIDE DEF n
<1>4. Wait(f, n) \in Sight /\ Wait(f, n).size = n.size /\ Wait(f, n).stable = n.stable
  BY <1>2 DEF Wait, Sight
<1>5. QED
  BY <1>2, <1>3, <1>4

LEMMA PollDoes ==
  ASSUME DropType, NEW r \in Replica, Poll(r)
  PROVE  /\ DropType'
         /\ up[r] = "up" /\ leader[r] /\ Unoccupied(r)
         /\ work' = work /\ folder' = folder
         /\ \A e \in ready'[r] :
              /\ e \in Found /\ folder[e.file].size > 0
              /\ Seen(r, e.file).stable >= StabilityPolls
              /\ e.meta = HasCompanion(e.file) /\ tracked'[r][e.file] = Untracked
         /\ \A d, e \in ready'[r] : d.file = e.file => d = e
         /\ \A f \in File : \/ tracked'[r][f] = Untracked
                            \/ tracked'[r][f] = Seen(r, f) /\ folder[f].size > 0
         /\ \A f \in File : \/ quiet'[f] = quiet[f] + 1
                            \/ /\ quiet'[f] = quiet[f]
                               /\ \/ folder[f].size \notin 1..(FullSize - 1)
                                  \/ quiet[f] >= StabilityPolls
         /\ \A s \in Replica \ {r} : ready'[s] = ready[s] /\ tracked'[s] = tracked[s]
         /\ UNCHANGED <<sent, orphan, up, late, faults>>
<1> DEFINE found == {f \in Present : IsReady(f, Seen(r, f))}
           list == {[file |-> f, meta |-> HasCompanion(f)] : f \in found}
           sights == [f \in File |-> IF f \in StillTracked(found) THEN Seen(r, f) ELSE Untracked]
           pauses == [f \in File |-> IF folder[f].size \in 1..(FullSize - 1)
                                          /\ quiet[f] < StabilityPolls
                                     THEN quiet[f] + 1 ELSE quiet[f]]
<1>1. /\ ready' = [ready EXCEPT ![r] = list] /\ tracked' = [tracked EXCEPT ![r] = sights]
      /\ quiet' = pauses
      /\ up[r] = "up" /\ leader[r] /\ Unoccupied(r)
      /\ UNCHANGED <<folder, work, sent, orphan, up, late, faults>>
  BY DEF Poll, folderVars
<1>2. found \subseteq File /\ \A f \in found : folder[f].size > 0 /\ Stable(Seen(r, f))
  BY DEF Present, IsReady
<1>3. \A f \in File : HasCompanion(f) \in BOOLEAN
  BY DEF HasCompanion
<1>4. list \in SUBSET Found
  BY <1>2, <1>3 DEF Found
<1>5. sights \in [File -> Sight]
  BY SeenType, NothingTracked
<1>6. pauses \in [File -> Nat]
  BY DEF DropType
<1>7. ASSUME NEW e \in list
      PROVE  /\ e \in Found /\ folder[e.file].size > 0
             /\ Seen(r, e.file).stable >= StabilityPolls
             /\ e.meta = HasCompanion(e.file) /\ sights[e.file] = Untracked
  <2>1. PICK f \in found : e = [file |-> f, meta |-> HasCompanion(f)]
    OBVIOUS
  <2>2. e.file = f /\ e.meta = HasCompanion(f) /\ f \in File
    BY <1>2, <2>1
  <2>3. sights[f] = Untracked
    BY <2>2 DEF StillTracked
  <2> HIDE DEF found, list, sights
  <2>4. QED
    BY <1>2, <1>4, <2>2, <2>3 DEF Stable
<1>8. \A d, e \in list : d.file = e.file => d = e
  OBVIOUS
<1>9. \A f \in File : sights[f] = Untracked \/ (sights[f] = Seen(r, f) /\ folder[f].size > 0)
  BY DEF StillTracked, Present
<1>10. \A f \in File : \/ pauses[f] = quiet[f] + 1
                       \/ /\ pauses[f] = quiet[f]
                          /\ \/ folder[f].size \notin 1..(FullSize - 1)
                             \/ quiet[f] >= StabilityPolls
  <2>1. \A f \in File : quiet[f] \in Nat
    BY DEF DropType
  <2>2. QED
    BY <2>1
<1> HIDE DEF list, sights, pauses
<1>11. /\ ready'[r] = list /\ tracked'[r] = sights
       /\ \A s \in Replica \ {r} : ready'[s] = ready[s] /\ tracked'[s] = tracked[s]
  BY <1>1 DEF DropType
<1>12. DropType'
  BY <1>1, <1>4, <1>5, <1>6 DEF DropType
<1>13. QED
  BY <1>1, <1>7, <1>8, <1>9, <1>10, <1>11, <1>12

LEMMA ReadDoes ==
  ASSUME DropType, NEW r \in Replica, NEW e \in ready[r], Read(r, e)
  PROVE  /\ DropType'
         /\ work[r] = NoWork /\ e \in Found
         /\ ready'[r] = ready[r] \ {e}
         /\ \/ work'[r] = NoWork /\ folder[e.file].size = 0
            \/ /\ folder[e.file].size > 0 /\ work'[r] \in Claims
               /\ work'[r].file = e.file /\ work'[r].doc = folder[e.file].doc
               /\ work'[r].meta = e.meta /\ work'[r].at = "unlink"
         /\ \A s \in Replica \ {r} : ready'[s] = ready[s] /\ work'[s] = work[s]
         /\ UNCHANGED <<folder, sent, tracked, quiet, orphan, up, late, faults>>
<1> DEFINE claim == [file |-> e.file, doc |-> folder[e.file].doc, meta |-> e.meta,
                     at |-> "unlink"]
<1>1. /\ ready' = [ready EXCEPT ![r] = @ \ {e}] /\ work[r] = NoWork
      /\ IF folder[e.file].size = 0 THEN work' = work ELSE work' = [work EXCEPT ![r] = claim]
      /\ UNCHANGED <<folder, sent, tracked, quiet, orphan, up, late, faults>>
  BY DEF Read, folderVars, history
<1>2. e \in Found
  BY DEF DropType
<1>3. folder[e.file].size \in Nat /\ folder[e.file].doc \in Nat
  BY <1>2 DEF DropType, FolderEntry, Found
<1>4. claim \in Claims
  BY <1>2, <1>3 DEF Claims, Found
<1>5. claim.file = e.file /\ claim.doc = folder[e.file].doc /\ claim.meta = e.meta
      /\ claim.at = "unlink"
  OBVIOUS
<1> HIDE DEF claim
<1>6. DropType' /\ ready'[r] = ready[r] \ {e}
  <2>1. work' = work \/ work' = [work EXCEPT ![r] = claim]
    BY <1>1
  <2>2. work' \in [Replica -> Claims \cup {NoWork}]
    BY <1>4, <2>1 DEF DropType
  <2>3. ready' \in [Replica -> SUBSET Found] /\ ready'[r] = ready[r] \ {e}
    BY <1>1 DEF DropType
  <2>4. QED
    BY <1>1, <2>2, <2>3 DEF DropType
<1>7. CASE folder[e.file].size = 0
  BY <1>1, <1>2, <1>6, <1>7 DEF DropType
<1>8. CASE folder[e.file].size # 0
  <2>1. work'[r] = claim
    BY <1>1, <1>8 DEF DropType
  <2>2. QED
    BY <1>1, <1>2, <1>3, <1>4, <1>5, <1>6, <1>8, <2>1 DEF DropType
<1>9. QED
  BY <1>7, <1>8

LEMMA UnlinkDoes ==
  ASSUME DropType, NEW r \in Replica, UnlinkSource(r)
  PROVE  LET f == work[r].file IN
         /\ DropType'
         /\ work[r] \in Claims /\ work[r].at = "unlink" /\ f \in File
         /\ folder[f].doc = work[r].doc => folder'[f].size = 0
         /\ folder'[f].size = folder[f].size \/ folder'[f].size = 0
         /\ folder'[f].doc = folder[f].doc /\ folder'[f].companion = folder[f].companion
         /\ \A g \in File \ {f} : folder'[g] = folder[g]
         /\ \A g \in File : folder'[g].size > 0 => quiet'[g] = quiet[g]
         /\ IF work[r].meta
            THEN /\ work'[r] \in Claims /\ work'[r].file = f /\ work'[r].doc = work[r].doc
                 /\ work'[r].meta /\ work'[r].at = "companion"
            ELSE work'[r] = NoWork
         /\ \A s \in Replica \ {r} : work'[s] = work[s]
         /\ UNCHANGED <<sent, tracked, ready, orphan, up, late, faults>>
<1> DEFINE f == work[r].file
<1>1. /\ work[r].at = "unlink"
      /\ folder' = IF folder[f].doc = work[r].doc THEN [folder EXCEPT ![f].size = 0] ELSE folder
      /\ quiet' = [g \in File |-> IF folder'[g].size = 0 THEN 0 ELSE quiet[g]]
      /\ work' = [work EXCEPT ![r] = IF @.meta THEN [@ EXCEPT !.at = "companion"] ELSE NoWork]
      /\ UNCHANGED <<sent, tracked, ready, orphan, up, late, faults>>
  BY DEF UnlinkSource
<1>2. work[r] \in Claims
  BY <1>1, Idle DEF DropType
<1>3. f \in File /\ folder[f] \in FolderEntry
  BY <1>2 DEF Claims, DropType
<1>4. /\ folder' \in [File -> FolderEntry]
      /\ folder[f].doc = work[r].doc => folder'[f].size = 0
      /\ folder'[f].size = folder[f].size \/ folder'[f].size = 0
      /\ folder'[f].doc = folder[f].doc /\ folder'[f].companion = folder[f].companion
      /\ \A g \in File \ {f} : folder'[g] = folder[g]
  <2>1. CASE folder[f].doc = work[r].doc
    <3>1. folder' = [folder EXCEPT ![f].size = 0]
      BY <1>1, <2>1
    <3> HIDE DEF f
    <3>2. QED
      BY <1>3, <3>1 DEF DropType, FolderEntry
  <2>2. CASE folder[f].doc # work[r].doc
    BY <1>1, <1>3, <2>2 DEF DropType
  <2>3. QED
    BY <2>1, <2>2
<1>5. quiet' \in [File -> Nat] /\ \A g \in File : folder'[g].size > 0 => quiet'[g] = quiet[g]
  BY <1>1, <1>4 DEF DropType, FolderEntry
<1>6. /\ IF work[r].meta
         THEN /\ work'[r] \in Claims /\ work'[r].file = f /\ work'[r].doc = work[r].doc
              /\ work'[r].meta /\ work'[r].at = "companion"
         ELSE work'[r] = NoWork
      /\ \A s \in Replica \ {r} : work'[s] = work[s]
      /\ work' \in [Replica -> Claims \cup {NoWork}]
  <2> DEFINE next == [work[r] EXCEPT !.at = "companion"]
  <2>1. next \in Claims /\ next.file = f /\ next.doc = work[r].doc /\ next.meta = work[r].meta
        /\ next.at = "companion"
    BY <1>2 DEF Claims
  <2>2. work' = [work EXCEPT ![r] = IF work[r].meta THEN next ELSE NoWork]
    BY <1>1
  <2> HIDE DEF next, f
  <2>3. QED
    BY <2>1, <2>2 DEF DropType
<1>7. DropType'
  BY <1>1, <1>4, <1>5, <1>6 DEF DropType
<1> HIDE DEF f
<1>8. QED
  BY <1>1, <1>2, <1>3, <1>4, <1>5, <1>6, <1>7 DEF f

LEMMA TakeDoes ==
  ASSUME DropType, NEW r \in Replica, TakeCompanion(r)
  PROVE  LET f == work[r].file IN
         /\ DropType'
         /\ work[r] \in Claims /\ work[r].at = "companion" /\ f \in File
         /\ folder'[f].companion = 0
         /\ folder'[f].size = folder[f].size /\ folder'[f].doc = folder[f].doc
         /\ \A g \in File \ {f} : folder'[g] = folder[g]
         /\ work'[r] = NoWork
         /\ \A s \in Replica \ {r} : work'[s] = work[s]
         /\ UNCHANGED <<sent, tracked, ready, quiet, orphan, up, late, faults>>
<1> DEFINE f == work[r].file
<1>1. /\ work[r].at = "companion"
      /\ folder' = [folder EXCEPT ![f].companion = 0]
      /\ work' = [work EXCEPT ![r] = NoWork]
      /\ UNCHANGED <<sent, tracked, ready, quiet, orphan, up, late, faults>>
  BY DEF TakeCompanion, history
<1>2. work[r] \in Claims
  BY <1>1, Idle DEF DropType
<1>3. f \in File /\ folder[f] \in FolderEntry
  BY <1>2 DEF Claims, DropType
<1> HIDE DEF f
<1>4. /\ folder' \in [File -> FolderEntry] /\ folder'[f].companion = 0
      /\ folder'[f].size = folder[f].size /\ folder'[f].doc = folder[f].doc
      /\ \A g \in File \ {f} : folder'[g] = folder[g]
  BY <1>1, <1>3 DEF DropType, FolderEntry
<1>5. DropType'
  BY <1>1, <1>4 DEF DropType
<1>6. work'[r] = NoWork /\ \A s \in Replica \ {r} : work'[s] = work[s]
  BY <1>1 DEF DropType
<1>7. QED
  BY <1>1, <1>2, <1>3, <1>4, <1>5, <1>6 DEF f

LEMMA FailDoes ==
  ASSUME DropType, NEW r \in Replica, ClaimFails(r)
  PROVE  /\ DropType'
         /\ work'[r] = NoWork /\ faults' # faults
         /\ \A s \in Replica \ {r} : work'[s] = work[s]
         /\ orphan \subseteq orphan'
         /\ work[r].at = "companion" => work[r].file \in orphan'
         /\ UNCHANGED <<folder, sent, tracked, ready, quiet, up, late>>
<1>1. /\ work' = [work EXCEPT ![r] = NoWork]
      /\ orphan' = IF work[r].at = "companion" THEN orphan \cup {work[r].file} ELSE orphan
      /\ UNCHANGED <<folder, sent, tracked, ready, quiet, up, late>>
  BY DEF ClaimFails, folderVars
<1>2. faults' \in Nat /\ faults' # faults
  BY FaultCounts DEF ClaimFails
<1>3. QED
  BY <1>1, <1>2 DEF DropType

Tracks(r) == \E f \in File : tracked[r][f] # Untracked
Alive(r) == up[r] \in {"up", "draining"}

\* A process that ends forgets; nothing else is touched.
LEMMA EndsDoes ==
  ASSUME DropType, ElectionType, NEW r \in Replica, Ends(r)
  PROVE  /\ tracked' \in [Replica -> [File -> Sight]] /\ ~Tracks(r)'
         /\ \A s \in Replica \ {r} : tracked'[s] = tracked[s]
         /\ up' = [up EXCEPT ![r] = "down"]
<1>1. /\ tracked' = [tracked EXCEPT ![r] = [f \in File |-> Untracked]]
      /\ up' = [up EXCEPT ![r] = "down"]
  BY DEF Ends
<1>2. tracked'[r] = [f \in File |-> Untracked]
  BY <1>1 DEF DropType
<1>3. QED
  BY <1>1, <1>2, NothingTracked DEF DropType, Tracks

LEMMA CrashDoes ==
  ASSUME DropType, ElectionType, NEW r \in Replica, Crash(r)
  PROVE  /\ DropType'
         /\ faults' # faults /\ work'[r] = NoWork /\ ready'[r] = {} /\ ~Tracks(r)'
         /\ up'[r] = "down"
         /\ \A s \in Replica \ {r} : /\ work'[s] = work[s] /\ ready'[s] = ready[s]
                                     /\ tracked'[s] = tracked[s] /\ up'[s] = up[s]
         /\ orphan \subseteq orphan'
         /\ work[r].at = "companion" => work[r].file \in orphan'
         /\ UNCHANGED <<folder, sent, quiet, late>>
<1>1. /\ Ends(r) /\ ready' = [ready EXCEPT ![r] = {}] /\ work' = [work EXCEPT ![r] = NoWork]
      /\ orphan' = IF work[r].at = "companion" THEN orphan \cup {work[r].file} ELSE orphan
      /\ UNCHANGED <<folder, sent, quiet, late>> /\ Fault
  BY DEF Crash, folderVars
<1>2. /\ tracked' \in [Replica -> [File -> Sight]] /\ ~Tracks(r)'
      /\ \A s \in Replica \ {r} : tracked'[s] = tracked[s]
      /\ up' = [up EXCEPT ![r] = "down"]
  BY <1>1, EndsDoes
<1>3. up'[r] = "down" /\ \A s \in Replica \ {r} : up'[s] = up[s]
  BY <1>2 DEF ElectionType
<1>4. faults' \in Nat /\ faults' # faults
  BY <1>1, FaultCounts
<1>5. QED
  BY <1>1, <1>2, <1>3, <1>4 DEF DropType

\* The steps of the election and of time.
Elsewhere(r) ==
  Tick(r) \/ Put(r) \/ TickFails(r) \/ StopElection(r) \/ Released(r) \/ Signal(r) \/ Start(r)

Apart ==
  /\ DropType'
  /\ \A s \in Replica : \/ tracked'[s] = tracked[s] /\ (up'[s] = "down" => up[s] = "down")
                        \/ ~Tracks(s)'
  /\ \A s \in Replica : Alive(s)' => Alive(s) \/ up[s] = "down"
  /\ late => late'
  /\ UNCHANGED <<folder, sent, ready, work, quiet, orphan>>

LEMMA ElsewhereDoes ==
  ASSUME DropType, ElectionType, NEW r \in Replica, Elsewhere(r)
  PROVE  Apart
<1>1. /\ UNCHANGED <<folder, sent, ready, work, quiet, orphan>>
      /\ late' = late \/ late' = TRUE
  BY DEF Elsewhere, Tick, Put, TickFails, StopElection, Released, Signal, Start,
         folderVars, watchVars, history
<1>2. faults' \in Nat
  <2>1. Fault \/ faults' = faults
    BY DEF Elsewhere, Tick, Put, TickFails, StopElection, Released, Signal, Start
  <2>2. QED
    BY <2>1, FaultCounts DEF DropType
<1>3. CASE Ends(r)
  <2>1. /\ tracked' \in [Replica -> [File -> Sight]] /\ ~Tracks(r)'
        /\ \A s \in Replica \ {r} : tracked'[s] = tracked[s]
        /\ up' = [up EXCEPT ![r] = "down"]
    BY <1>3, EndsDoes
  <2>2. up'[r] = "down" /\ \A s \in Replica \ {r} : up'[s] = up[s]
    BY <2>1 DEF ElectionType
  <2>3. QED
    BY <1>1, <1>2, <2>1, <2>2 DEF DropType, Alive, Apart
<1>4. CASE ~Ends(r)
  <2>1. tracked' = tracked
    BY <1>4 DEF Elsewhere, Tick, Put, TickFails, StopElection, Released, Signal, Start,
                watchVars
  <2>2. \/ up' = up
        \/ up[r] = "up" /\ up' = [up EXCEPT ![r] = "draining"]
        \/ up[r] = "draining" /\ up' = [up EXCEPT ![r] = "releasing"]
        \/ up[r] = "down" /\ up' = [up EXCEPT ![r] = "up"]
    BY <1>4 DEF Elsewhere, Tick, Put, TickFails, StopElection, Released, Signal, Start
  <2>3. \A s \in Replica : /\ Alive(s)' => Alive(s) \/ up[s] = "down"
                           /\ up'[s] = "down" => up[s] = "down"
    BY <2>2 DEF Alive, ElectionType
  <2>4. QED
    BY <1>1, <1>2, <2>1, <2>3 DEF DropType, Apart
<1>5. QED
  BY <1>3, <1>4

LEMMA ClockDoes ==
  ASSUME DropType, Clock
  PROVE  Apart
<1>1. /\ UNCHANGED <<folder, sent, ready, work, quiet, orphan, tracked, up>>
      /\ late' = late \/ late' = TRUE
      /\ Fault \/ faults' = faults
  BY DEF Clock, folderVars, watchVars, history
<1>2. faults' \in Nat
  BY <1>1, FaultCounts DEF DropType
<1>3. QED
  BY <1>1, <1>2 DEF DropType, Apart, Alive

\* The steps, by what they do to the drop folder.
LEMMA Steps ==
  ASSUME Next
  PROVE  \/ \E f \in File : Drop(f) \/ Grow(f) \/ \E doc \in 1..MaxDrops : SendCompanion(f, doc)
         \/ \E r \in Replica : \/ Poll(r) \/ (\E e \in ready[r] : Read(r, e))
                               \/ UnlinkSource(r) \/ TakeCompanion(r) \/ ClaimFails(r)
                               \/ Crash(r) \/ Elsewhere(r)
         \/ Clock
BY DEF Next, Election, Claim, Elsewhere

\* The size of a file is remembered only by who holds the lease, unless a
\* deadline was missed: whoever stands by for a failed request has not lost it.
TrackInv ==
  \A r \in Replica :
    /\ up[r] = "down" => ~Tracks(r)
    /\ ~late /\ Alive(r) /\ Tracks(r) => lease.holder = r /\ lease.age <= Duration

LEMMA LeaseKept ==
  ASSUME ElectionInv, Next, ~late', ~late, NEW v \in Replica, Alive(v),
         lease.holder = v, lease.age <= Duration
  PROVE  lease'.holder = v /\ lease'.age <= Duration
<1>1. CASE lease' = lease
  BY <1>1
<1>2. CASE Clock
  <2>1. lease.age # Duration /\ lease' = [lease EXCEPT !.age = Older(lease.age)]
    BY <1>2 DEF Clock, Overdue, Running, Alive
  <2>2. lease.age \in Nat /\ lease.age < Duration
    BY SMTT(30), <2>1 DEF ElectionInv, ElectionType
  <2>3. Older(lease.age) <= Duration
    BY <2>2 DEF Older
  <2>4. QED
    BY <2>1, <2>3 DEF ElectionInv, ElectionType
<1>3. ASSUME NEW s \in Replica, Serve(s), lease' # lease,
             \/ call[s].kind \in Requests
             \/ up[s] = "releasing"
      PROVE  lease'.holder = v /\ lease'.age <= Duration
  <2>1. /\ call[s].fresh
        /\ lease' = [holder |-> IF call[s].kind = "release" THEN NoReplica ELSE s,
                     age |-> call[s].age]
    BY <1>3 DEF Serve, Accepts
  <2>2. call[s] # NoCall
    BY <2>1 DEF NoCall
  <2>3. call[s].age <= Duration
    BY <2>2 DEF ElectionInv, InTime
  <2>4. ~Expired(lease.age) /\ lease # NoLease
    BY DEF Expired, NoLease, ElectionInv, ElectionType
  <2>5. call[s].kind \in Requests \cup {"release"}
    BY <1>3 DEF ElectionInv, Sound
  <2>6. call[s].kind \in {"renew", "release"}
    BY <2>1, <2>4, <2>5 DEF ElectionInv, Sound, Requests
  <2>7. s = v
    BY <2>1, <2>6 DEF ElectionInv, Sound
  <2>8. call[s].kind # "release"
    BY <1>3, <2>7 DEF Alive, Requests
  <2>9. QED
    BY <2>1, <2>3, <2>7, <2>8
<1>4. lease' = lease \/ Clock \/ \E s \in Replica :
         Serve(s) /\ (call[s].kind \in Requests \/ up[s] = "releasing")
  BY DEF Next, Drop, Grow, SendCompanion, Election, Tick, Put, StopElection, Released, TickFails,
         Poll, Claim, Read, UnlinkSource, TakeCompanion, ClaimFails, Signal, Crash, Start,
         leaseVars, Requests
<1>5. QED
  BY <1>1, <1>2, <1>3, <1>4

LEMMA TypeStep == DropType /\ ElectionType /\ [Next]_vars => DropType'
<1>1. ASSUME DropType, UNCHANGED vars PROVE DropType'
  BY <1>1 DEF DropType, vars
<1>2. ASSUME DropType, ElectionType, Next PROVE DropType'
  BY <1>2, Steps, DropDoes, GrowDoes, SendDoes, PollDoes, ReadDoes, UnlinkDoes, TakeDoes,
     FailDoes, CrashDoes, ElsewhereDoes, ClockDoes DEF Apart
<1>3. QED
  BY <1>1, <1>2

\* Nothing takes a missed deadline back.
LEMMA LateStays ==
  ASSUME [Next]_vars, late
  PROVE  late'
BY DEF Next, vars, Drop, Grow, SendCompanion, Election, Tick, Put, StopElection, Released,
       TickFails, Poll, Claim, Read, UnlinkSource, TakeCompanion, ClaimFails, Signal, Crash,
       Start, Clock

LEMMA TrackStep == ElectionInv /\ DropType /\ TrackInv /\ [Next]_vars => TrackInv'
<1>1. ASSUME TrackInv, UNCHANGED vars PROVE TrackInv'
  BY <1>1 DEF TrackInv, Tracks, Alive, vars
<1>2. ASSUME ElectionInv, DropType, TrackInv, Next, NEW v \in Replica
      PROVE  /\ (up[v] = "down" => ~Tracks(v))'
             /\ (~late /\ Alive(v) /\ Tracks(v) => lease.holder = v /\ lease.age <= Duration)'
  <2>1. \/ /\ tracked'[v] = tracked[v] /\ (up'[v] = "down" => up[v] = "down")
           /\ Alive(v)' => Alive(v) \/ up[v] = "down"
        \/ ~Tracks(v)'
        \/ Poll(v) /\ up'[v] = "up" /\ lease' = lease
    <3>1. ASSUME NEW f \in File,
                 Drop(f) \/ Grow(f) \/ \E doc \in 1..MaxDrops : SendCompanion(f, doc)
          PROVE  tracked' = tracked /\ up' = up
      BY <3>1 DEF Drop, Grow, SendCompanion, watchVars
    <3>2. ASSUME NEW r \in Replica, Poll(r)
          PROVE  /\ up' = up /\ up[r] = "up" /\ lease' = lease
                 /\ \A s \in Replica \ {r} : tracked'[s] = tracked[s]
      BY <1>2, <3>2, PollDoes DEF Poll, leaseVars
    <3>3. ASSUME NEW r \in Replica,
                 \/ (\E e \in ready[r] : Read(r, e)) \/ UnlinkSource(r) \/ TakeCompanion(r)
                 \/ ClaimFails(r)
          PROVE  tracked' = tracked /\ up' = up
      BY <3>3 DEF Read, UnlinkSource, TakeCompanion, ClaimFails
    <3>4. ASSUME NEW r \in Replica, Crash(r)
          PROVE  /\ ~Tracks(r)'
                 /\ \A s \in Replica \ {r} : tracked'[s] = tracked[s] /\ up'[s] = up[s]
      BY <1>2, <3>4, CrashDoes DEF ElectionInv
    <3>5. (Clock \/ \E r \in Replica : Elsewhere(r)) => Apart
      BY <1>2, ClockDoes, ElsewhereDoes DEF ElectionInv
    <3>6. QED
      BY <1>2, <3>1, <3>2, <3>3, <3>4, <3>5, Steps DEF Apart, Alive
  <2>2. CASE ~Tracks(v)'
    BY <2>2
  <2>3. CASE Poll(v) /\ up'[v] = "up" /\ lease' = lease
    <3>1. leader[v] /\ up[v] = "up" /\ late' = late
      BY <2>3 DEF Poll
    <3>2. ~late => lease.holder = v /\ lease.age <= Duration
      BY <1>2, <3>1 DEF ElectionInv, InTime, Needs
    <3>3. QED
      BY <2>3, <3>1, <3>2
  <2>4. CASE /\ tracked'[v] = tracked[v] /\ (up'[v] = "down" => up[v] = "down")
             /\ Alive(v)' => Alive(v) \/ up[v] = "down"
    <3>1. Tracks(v)' <=> Tracks(v)
      BY <2>4 DEF Tracks
    <3>2. up'[v] = "down" => ~Tracks(v)'
      BY <1>2, <2>4, <3>1 DEF TrackInv
    <3>3. ASSUME ~late', Alive(v)', Tracks(v)' PROVE lease'.holder = v /\ lease'.age <= Duration
      <4>1. ~late /\ Tracks(v)
        BY <1>2, <3>1, <3>3, LateStays
      <4>2. Alive(v) /\ lease.holder = v /\ lease.age <= Duration
        BY <1>2, <2>4, <3>3, <4>1 DEF TrackInv
      <4>3. QED
        BY <1>2, <3>3, <4>1, <4>2, LeaseKept
    <3>4. QED
      BY <3>2, <3>3
  <2>5. QED
    BY <2>1, <2>2, <2>3, <2>4
<1>3. QED
  BY <1>1, <1>2 DEF TrackInv

\* A list names a file once; what is on it, or being claimed, is not tracked.
ListAt(r) ==
  /\ work[r] # NoWork => tracked[r][work[r].file] = Untracked
  /\ work[r].at = "companion" => work[r].meta
  /\ \A e \in ready[r] : /\ tracked[r][e.file] = Untracked
                         /\ work[r] # NoWork => e.file # work[r].file
  /\ \A d, e \in ready[r] : d.file = e.file => d = e
ListInv == \A r \in Replica : ListAt(r)

LEMMA ListFrame ==
  ASSUME DropType, ListInv, NEW v \in Replica, ready'[v] = ready[v], work'[v] = work[v],
         tracked'[v] = tracked[v] \/ ~Tracks(v)'
  PROVE  ListAt(v)'
<1>1. /\ \A e \in ready[v] : e.file \in File
      /\ work[v] # NoWork => work[v].file \in File
  BY DEF DropType, Found, Claims
<1>2. CASE tracked'[v] = tracked[v]
  BY <1>2 DEF ListInv, ListAt
<1>3. CASE ~Tracks(v)'
  BY <1>1, <1>3 DEF ListInv, ListAt, Tracks
<1>4. QED
  BY <1>2, <1>3

LEMMA ListStep == ElectionInv /\ DropType /\ ListInv /\ [Next]_vars => ListInv'
<1>1. ASSUME DropType, ListInv, UNCHANGED vars PROVE ListInv'
  BY <1>1, ListFrame DEF ListInv, vars
<1>2. ASSUME ElectionInv, DropType, ListInv, NEW f \in File,
             Drop(f) \/ Grow(f) \/ \E doc \in 1..MaxDrops : SendCompanion(f, doc)
      PROVE  ListInv'
  <2>1. UNCHANGED <<ready, work, tracked>>
    BY <1>2 DEF Drop, Grow, SendCompanion, watchVars
  <2>2. QED
    BY <1>2, <2>1, ListFrame DEF ListInv
<1>3. ASSUME ElectionInv, DropType, ListInv, NEW r \in Replica, Poll(r) PROVE ListInv'
  <2>1. ListAt(r)'
    <3>1. work'[r] = NoWork
      BY <1>3, PollDoes DEF Unoccupied
    <3>2. QED
      BY <1>3, <3>1, PollDoes, Idle DEF ListAt
  <2>2. ASSUME NEW v \in Replica, v # r PROVE ListAt(v)'
    BY <1>3, <2>2, PollDoes, ListFrame
  <2>3. QED
    BY <2>1, <2>2 DEF ListInv
<1>4. ASSUME ElectionInv, DropType, ListInv, NEW r \in Replica, NEW e \in ready[r], Read(r, e)
      PROVE  ListInv'
  <2>1. ListAt(r)'
    BY <1>4, ReadDoes, Idle DEF ListInv, ListAt
  <2>2. ASSUME NEW v \in Replica, v # r PROVE ListAt(v)'
    BY <1>4, <2>2, ReadDoes, ListFrame
  <2>3. QED
    BY <2>1, <2>2 DEF ListInv
<1>5. ASSUME ElectionInv, DropType, ListInv, NEW r \in Replica, UnlinkSource(r) PROVE ListInv'
  <2>1. /\ ready' = ready /\ tracked' = tracked /\ work[r] \in Claims
        /\ \/ work'[r] = NoWork
           \/ work'[r] \in Claims /\ work'[r].file = work[r].file /\ work'[r].meta
        /\ \A s \in Replica \ {r} : work'[s] = work[s]
    BY <1>5, UnlinkDoes
  <2>2. ListAt(r)'
    BY <1>5, <2>1, Idle DEF ListInv, ListAt
  <2>3. ASSUME NEW v \in Replica, v # r PROVE ListAt(v)'
    BY <1>5, <2>1, <2>3, ListFrame
  <2>4. QED
    BY <2>2, <2>3 DEF ListInv
<1>6. ASSUME ElectionInv, DropType, ListInv, NEW r \in Replica,
             TakeCompanion(r) \/ ClaimFails(r) \/ Crash(r)
      PROVE  ListInv'
  <2>1. /\ work'[r] = NoWork
        /\ tracked'[r] = tracked[r] \/ ~Tracks(r)'
        /\ ready'[r] = ready[r] \/ ready'[r] = {}
        /\ \A s \in Replica \ {r} : /\ work'[s] = work[s] /\ ready'[s] = ready[s]
                                    /\ tracked'[s] = tracked[s]
    BY <1>6, TakeDoes, FailDoes, CrashDoes DEF ElectionInv
  <2>2. ListAt(r)'
    <3>1. \A e \in ready[r] : e.file \in File
      BY <1>6 DEF DropType, Found
    <3>2. QED
      BY <1>6, <2>1, <3>1, Idle DEF ListInv, ListAt, Tracks
  <2>3. ASSUME NEW v \in Replica, v # r PROVE ListAt(v)'
    BY <1>6, <2>1, <2>3, ListFrame
  <2>4. QED
    BY <2>2, <2>3 DEF ListInv
<1>7. ASSUME ElectionInv, DropType, ListInv, Apart PROVE ListInv'
  BY <1>7, ListFrame DEF ListInv, Apart
<1>8. ASSUME ElectionInv, DropType, ListInv, Next PROVE ListInv'
  BY <1>2, <1>3, <1>4, <1>5, <1>6, <1>7, <1>8, Steps, ElsewhereDoes, ClockDoes DEF ElectionInv
<1>9. QED
  BY <1>1, <1>8

-----------------------------------------------------------------------------
(* What the holder of the lease found is still there.                       *)

\* Without a missed deadline nobody but one replica claims, leads or tracks.
LEMMA Alone ==
  ASSUME ElectionInv, TrackInv, DropType, ~late, NEW r \in Replica,
         ~Unoccupied(r) \/ (leader[r] /\ up[r] = "up"),
         NEW v \in Replica, v # r
  PROVE  /\ ready[v] = {} /\ work[v] = NoWork
         /\ Alive(v) => \A f \in File : tracked[v][f] = Untracked
<1>1. lease.holder = r
  BY DEF ElectionInv, InTime, Needs
<1>2. Unoccupied(v) /\ ~ (Alive(v) /\ Tracks(v))
  BY <1>1 DEF ElectionInv, InTime, Needs, TrackInv
<1>3. QED
  BY <1>2 DEF Unoccupied, Tracks

\* A file on a list is there and, half-written, has paused; one being claimed
\* is the one that was read; what is remembered of a file is no more than
\* there is of it, and no longer than it has paused.
SizeAt(r) ==
  /\ \A e \in ready[r] :
       /\ folder[e.file].size > 0
       /\ folder[e.file].size < FullSize => quiet[e.file] >= StabilityPolls
  /\ work[r].at = "unlink" =>
       folder[work[r].file].size > 0 /\ folder[work[r].file].doc = work[r].doc
  /\ work[r].at = "companion" =>
       /\ folder[work[r].file].size = 0 \/ folder[work[r].file].doc # work[r].doc
       /\ work[r].doc <= folder[work[r].file].doc
  /\ Alive(r) => \A f \in File :
       /\ tracked[r][f].size <= folder[f].size
       /\ (tracked[r][f].size = folder[f].size /\ folder[f].size \in 1..(FullSize - 1))
            => tracked[r][f].stable <= quiet[f]
SizeInv == ~late => \A r \in Replica : SizeAt(r)

Watched == ElectionInv /\ DropType /\ TrackInv /\ ListInv

LEMMA WorkType ==
  ASSUME DropType, NEW r \in Replica
  PROVE  /\ work[r].at # "idle" => work[r] \in Claims /\ work[r].file \in File
         /\ work[r].at \in {"unlink", "companion"} => work[r] # NoWork
         /\ work[r] # NoWork => work[r].at \in {"unlink", "companion"} /\ work[r] \in Claims
         /\ work[r] \in Claims => work[r].doc \in Nat
         /\ \A e \in ready[r] : e \in Found /\ e.file \in File
         /\ \A f \in File : folder[f] \in FolderEntry /\ tracked[r][f] \in Sight /\ quiet[f] \in Nat
BY Idle DEF DropType, Claims, Found

LEMMA SizeFrame ==
  ASSUME Watched, NEW v \in Replica, SizeAt(v),
         ready'[v] = ready[v] \/ ready'[v] = {},
         work'[v] = work[v] \/ work'[v] = NoWork,
         \/ /\ tracked'[v] = tracked[v]
            /\ Alive(v)' => Alive(v) \/ ~Tracks(v)
         \/ ~Tracks(v)',
         \A f \in File : /\ folder'[f].size = folder[f].size /\ folder'[f].doc = folder[f].doc
                         /\ quiet'[f] \in Nat /\ quiet'[f] >= quiet[f]
  PROVE  SizeAt(v)'
<1>1. DropType
  BY DEF Watched
<1>2. \A f \in File : /\ folder[f].size \in Nat /\ quiet[f] \in Nat /\ tracked[v][f].stable \in Nat
                      /\ tracked[v][f].size \in Nat
  BY <1>1, WorkType DEF FolderEntry, Sight
<1>3. /\ \A e \in ready'[v] : e \in ready[v] /\ e.file \in File
      /\ work'[v].at \in {"unlink", "companion"} => work'[v] = work[v] /\ work[v].file \in File
  BY <1>1, WorkType, Idle
<1>4. \A e \in ready'[v] :
        /\ folder'[e.file].size > 0
        /\ folder'[e.file].size < FullSize => quiet'[e.file] >= StabilityPolls
  BY <1>2, <1>3 DEF SizeAt
<1>5. /\ work'[v].at = "unlink" =>
           folder'[work'[v].file].size > 0 /\ folder'[work'[v].file].doc = work'[v].doc
      /\ work'[v].at = "companion" =>
           /\ folder'[work'[v].file].size = 0 \/ folder'[work'[v].file].doc # work'[v].doc
           /\ work'[v].doc <= folder'[work'[v].file].doc
  BY <1>3 DEF SizeAt
<1>6. ASSUME Alive(v)', NEW f \in File
      PROVE  /\ tracked'[v][f].size <= folder'[f].size
             /\ (tracked'[v][f].size = folder'[f].size /\ folder'[f].size \in 1..(FullSize - 1))
                  => tracked'[v][f].stable <= quiet'[f]
  <2>1. CASE tracked'[v] = tracked[v] /\ Alive(v)
    BY <1>2, <2>1 DEF SizeAt
  <2>2. CASE tracked'[v][f] = Untracked
    BY <1>2, <2>2, NothingTracked
  <2>3. QED
    BY <1>6, <2>1, <2>2 DEF Tracks
<1>7. QED
  BY <1>4, <1>5, <1>6 DEF SizeAt

\* Whoever has nothing to claim and remembers nothing.
LEMMA SizeOfNone ==
  ASSUME DropType', NEW v \in Replica, ready'[v] = {}, work'[v] = NoWork,
         Alive(v)' => \A f \in File : tracked'[v][f] = Untracked
  PROVE  SizeAt(v)'
<1>1. \A f \in File : folder'[f].size \in Nat
  BY DEF DropType, FolderEntry
<1>2. Untracked.size = 0
  BY NothingTracked
<1>3. \A f \in File : Alive(v)' => /\ tracked'[v][f].size <= folder'[f].size
                                   /\ tracked'[v][f].size = folder'[f].size
                                        => folder'[f].size \notin 1..(FullSize - 1)
  BY <1>1, <1>2
<1>4. QED
  BY <1>3, Idle DEF SizeAt

\* Everywhere but at the replica that polls or unlinks nothing is to be seen to.
LEMMA SizeElsewhere ==
  ASSUME Watched, ~late, DropType', up' = up, NEW r \in Replica,
         ~Unoccupied(r) \/ (leader[r] /\ up[r] = "up"),
         NEW v \in Replica, v # r,
         ready'[v] = ready[v], work'[v] = work[v], tracked'[v] = tracked[v]
  PROVE  SizeAt(v)'
<1>1. /\ ready[v] = {} /\ work[v] = NoWork
      /\ Alive(v) => \A f \in File : tracked[v][f] = Untracked
  BY Alone DEF Watched
<1>2. Alive(v)' <=> Alive(v)
  BY DEF Alive
<1>3. QED
  BY <1>1, <1>2, SizeOfNone

LEMMA SizeOfDrop ==
  ASSUME Watched, NEW f \in File, Drop(f), NEW v \in Replica, SizeAt(v)
  PROVE  SizeAt(v)'
<1>1. /\ DropType /\ folder[f].size = 0 /\ folder'[f].size = 1
      /\ folder'[f].doc = folder[f].doc + 1
      /\ \A g \in File \ {f} : folder'[g] = folder[g] /\ quiet'[g] = quiet[g]
      /\ UNCHANGED <<tracked, ready, work, up>>
  BY DropDoes DEF Watched
<1>2. \A e \in ready[v] : e.file \in File /\ e.file # f
  BY <1>1, WorkType DEF SizeAt
<1>3. work[v].at = "unlink" => work[v].file \in File /\ work[v].file # f
  BY <1>1, WorkType DEF SizeAt
<1>4. work[v].at = "companion" =>
        /\ folder'[work[v].file].size = 0 \/ folder'[work[v].file].doc # work[v].doc
        /\ work[v].doc <= folder'[work[v].file].doc
  <2>1. SUFFICES ASSUME work[v].at = "companion"
                 PROVE  /\ \/ folder'[work[v].file].size = 0
                           \/ folder'[work[v].file].doc # work[v].doc
                        /\ work[v].doc <= folder'[work[v].file].doc
    OBVIOUS
  <2>2. work[v].file \in File /\ work[v].doc \in Nat /\ work[v].doc <= folder[work[v].file].doc
    BY <1>1, <2>1, WorkType DEF SizeAt
  <2>3. CASE work[v].file = f
    <3>1. folder[f].doc \in Nat
      BY <1>1, WorkType DEF FolderEntry
    <3>2. QED
      BY <1>1, <2>2, <2>3, <3>1
  <2>4. CASE work[v].file # f
    BY <1>1, <2>1, <2>2, <2>4 DEF SizeAt
  <2>5. QED
    BY <2>3, <2>4
<1>5. ASSUME Alive(v)', NEW g \in File
      PROVE  /\ tracked'[v][g].size <= folder'[g].size
             /\ (tracked'[v][g].size = folder'[g].size /\ folder'[g].size \in 1..(FullSize - 1))
                  => tracked'[v][g].stable <= quiet'[g]
  <2>1. Alive(v)
    BY <1>1, <1>5 DEF Alive
  <2>2. tracked[v][g].size \in Nat
    BY <1>1, WorkType DEF Sight
  <2>3. CASE g = f
    <3>1. tracked[v][f].size = 0
      BY <1>1, <2>1, <2>2, <2>3 DEF SizeAt
    <3>2. QED
      BY <1>1, <2>3, <3>1
  <2>4. CASE g # f
    BY <1>1, <2>1, <2>4 DEF SizeAt
  <2>5. QED
    BY <2>3, <2>4
<1>6. QED
  BY <1>1, <1>2, <1>3, <1>4, <1>5 DEF SizeAt

LEMMA SizeOfGrow ==
  ASSUME Watched, NEW f \in File, Grow(f), NEW v \in Replica, SizeAt(v)
  PROVE  SizeAt(v)'
<1>1. /\ DropType /\ DropType' /\ folder[f].size > 0 /\ folder[f].size < FullSize
      /\ folder'[f].size = folder[f].size + 1 /\ folder'[f].doc = folder[f].doc
      /\ quiet[f] >= StabilityPolls => quiet'[f] = quiet[f]
      /\ \A g \in File \ {f} : folder'[g] = folder[g] /\ quiet'[g] = quiet[g]
      /\ UNCHANGED <<tracked, ready, work, up>>
  BY GrowDoes DEF Watched
<1>2. /\ \A g \in File : folder[g].size \in Nat /\ tracked[v][g].size \in Nat
      /\ \A e \in ready[v] : e.file \in File
      /\ work[v].at \in {"unlink", "companion"} => work[v].file \in File
  BY <1>1, WorkType DEF FolderEntry, Sight
<1>3. \A e \in ready'[v] :
        /\ folder'[e.file].size > 0
        /\ folder'[e.file].size < FullSize => quiet'[e.file] >= StabilityPolls
  <2>1. ASSUME NEW e \in ready[v], e.file = f
        PROVE  folder'[f].size > 0 /\ quiet'[f] >= StabilityPolls
    BY <1>1, <1>2, <2>1 DEF SizeAt
  <2>2. ASSUME NEW e \in ready[v], e.file # f
        PROVE  /\ folder'[e.file].size > 0
               /\ folder'[e.file].size < FullSize => quiet'[e.file] >= StabilityPolls
    BY <1>1, <1>2, <2>2 DEF SizeAt
  <2>3. QED
    BY <1>1, <2>1, <2>2
<1>4. work'[v].at = "unlink" =>
        folder'[work'[v].file].size > 0 /\ folder'[work'[v].file].doc = work'[v].doc
  BY <1>1, <1>2 DEF SizeAt
<1>5. work'[v].at = "companion" =>
        /\ folder'[work'[v].file].size = 0 \/ folder'[work'[v].file].doc # work'[v].doc
        /\ work'[v].doc <= folder'[work'[v].file].doc
  BY <1>1, <1>2 DEF SizeAt
<1>6. ASSUME Alive(v)', NEW g \in File
      PROVE  /\ tracked'[v][g].size <= folder'[g].size
             /\ (tracked'[v][g].size = folder'[g].size /\ folder'[g].size \in 1..(FullSize - 1))
                  => tracked'[v][g].stable <= quiet'[g]
  <2>1. Alive(v)
    BY <1>1, <1>6 DEF Alive
  <2>2. CASE g = f
    BY <1>1, <1>2, <2>1, <2>2 DEF SizeAt
  <2>3. CASE g # f
    BY <1>1, <2>1, <2>3 DEF SizeAt
  <2>4. QED
    BY <2>2, <2>3
<1>7. QED
  BY <1>3, <1>4, <1>5, <1>6 DEF SizeAt

\* The lists of the poll that finds a file, and what it goes on tracking.
LEMMA SizeOfPoll ==
  ASSUME Watched, NEW r \in Replica, Poll(r), SizeAt(r)
  PROVE  SizeAt(r)'
<1>1. DropType /\ DropType'
  BY PollDoes DEF Watched
<1>2. /\ up[r] = "up" /\ work'[r] = NoWork /\ folder' = folder
      /\ \A e \in ready'[r] : /\ e \in Found /\ folder[e.file].size > 0
                              /\ Seen(r, e.file).stable >= StabilityPolls
      /\ \A f \in File : \/ tracked'[r][f] = Untracked
                         \/ tracked'[r][f] = Seen(r, f) /\ folder[f].size > 0
      /\ \A f \in File : \/ quiet'[f] = quiet[f] + 1
                         \/ /\ quiet'[f] = quiet[f]
                            /\ \/ folder[f].size \notin 1..(FullSize - 1)
                               \/ quiet[f] >= StabilityPolls
  BY <1>1, PollDoes DEF Unoccupied
<1>3. Alive(r)
  BY <1>2 DEF Alive
<1>4. ASSUME NEW f \in File, folder[f].size \in 1..(FullSize - 1)
      PROVE  Seen(r, f).stable <= quiet'[f]
  <2>1. /\ Seen(r, f).stable \in {1, tracked[r][f].stable, tracked[r][f].stable + 1}
        /\ tracked[r][f].size # folder[f].size => Seen(r, f).stable = 1
        /\ tracked[r][f].stable >= StabilityPolls /\ tracked[r][f].size = folder[f].size
              => Seen(r, f).stable = tracked[r][f].stable
    BY <1>1, SeenType
  <2>2. tracked[r][f].size = folder[f].size => tracked[r][f].stable <= quiet[f]
    BY <1>3, <1>4 DEF SizeAt
  <2>3. tracked[r][f].stable \in Nat /\ quiet[f] \in Nat
    BY <1>1, WorkType DEF Sight
  <2>4. QED
    BY <1>2, <1>4, <2>1, <2>2, <2>3
<1>5. \A e \in ready'[r] :
        /\ folder'[e.file].size > 0
        /\ folder'[e.file].size < FullSize => quiet'[e.file] >= StabilityPolls
  <2>1. SUFFICES ASSUME NEW e \in ready'[r], folder[e.file].size < FullSize
                 PROVE  quiet'[e.file] >= StabilityPolls
    BY <1>2
  <2>2. e.file \in File /\ folder[e.file].size \in 1..(FullSize - 1)
    BY <1>1, <1>2, <2>1, WorkType DEF Found, FolderEntry
  <2>3. Seen(r, e.file).stable \in Nat /\ quiet'[e.file] \in Nat
    BY <1>1, <2>2, SeenType DEF Sight, DropType
  <2>4. QED
    BY <1>2, <1>4, <2>1, <2>2, <2>3
<1>6. \A f \in File :
        /\ tracked'[r][f].size <= folder'[f].size
        /\ (tracked'[r][f].size = folder'[f].size /\ folder'[f].size \in 1..(FullSize - 1))
             => tracked'[r][f].stable <= quiet'[f]
  <2>1. SUFFICES ASSUME NEW f \in File
                 PROVE  /\ tracked'[r][f].size <= folder[f].size
                        /\ (tracked'[r][f].size = folder[f].size
                              /\ folder[f].size \in 1..(FullSize - 1))
                             => tracked'[r][f].stable <= quiet'[f]
    BY <1>2
  <2>2. folder[f].size \in Nat
    BY <1>1, WorkType DEF FolderEntry
  <2>3. CASE tracked'[r][f] = Untracked
    BY <2>2, <2>3, NothingTracked
  <2>4. CASE tracked'[r][f] = Seen(r, f)
    BY <1>1, <1>4, <2>2, <2>4, SeenType
  <2>5. QED
    BY <1>2, <2>3, <2>4
<1>7. QED
  BY <1>2, <1>5, <1>6, Idle DEF SizeAt

LEMMA SizeOfRead ==
  ASSUME Watched, NEW r \in Replica, NEW e \in ready[r], Read(r, e), SizeAt(r)
  PROVE  SizeAt(r)'
<1>1. DropType /\ DropType'
  BY ReadDoes DEF Watched
<1>2. /\ ready'[r] \subseteq ready[r]
      /\ work'[r] = NoWork \/ /\ folder[work'[r].file].size > 0
                              /\ work'[r].doc = folder[work'[r].file].doc
                              /\ work'[r].at = "unlink"
      /\ UNCHANGED <<folder, tracked, quiet, up>>
  BY <1>1, ReadDoes
<1>3. Alive(r)' <=> Alive(r)
  BY <1>2 DEF Alive
<1>4. QED
  BY <1>2, <1>3, Idle DEF SizeAt

LEMMA SizeOfUnlink ==
  ASSUME Watched, NEW r \in Replica, UnlinkSource(r), SizeAt(r)
  PROVE  SizeAt(r)'
<1> DEFINE f == work[r].file
<1>1. DropType /\ DropType'
  BY UnlinkDoes DEF Watched
<1>2. /\ work[r] \in Claims /\ work[r].at = "unlink" /\ f \in File
      /\ folder[f].doc = work[r].doc => folder'[f].size = 0
      /\ folder'[f].doc = folder[f].doc
      /\ \A g \in File \ {f} : folder'[g] = folder[g]
      /\ \A g \in File : folder'[g].size > 0 => quiet'[g] = quiet[g]
      /\ \/ work'[r] = NoWork
         \/ work'[r].file = f /\ work'[r].doc = work[r].doc /\ work'[r].at = "companion"
      /\ UNCHANGED <<tracked, ready, up>>
  BY <1>1, UnlinkDoes
<1>3. /\ folder[f].doc = work[r].doc /\ folder'[f].size = 0
      /\ tracked[r][f] = Untracked
      /\ \A e \in ready[r] : e.file \in File /\ e.file # f
  BY <1>1, <1>2, WorkType, Idle DEF SizeAt, Watched, ListInv, ListAt
<1> HIDE DEF f
<1>4. \A e \in ready'[r] :
        /\ folder'[e.file].size > 0
        /\ folder'[e.file].size < FullSize => quiet'[e.file] >= StabilityPolls
  <2>1. ASSUME NEW e \in ready[r]
        PROVE  /\ e.file \in File /\ folder'[e.file] = folder[e.file]
               /\ folder[e.file].size > 0
               /\ folder[e.file].size < FullSize => quiet[e.file] >= StabilityPolls
    BY <1>2, <1>3 DEF SizeAt
  <2>2. QED
    BY <1>2, <2>1
<1>5. /\ work'[r].at # "unlink"
      /\ work'[r].at = "companion" => /\ folder'[work'[r].file].size = 0
                                      /\ work'[r].doc <= folder'[work'[r].file].doc
  <2>1. folder[f].doc \in Nat
    BY <1>1, <1>2, WorkType DEF FolderEntry
  <2>2. QED
    BY <1>2, <1>3, <2>1, Idle
<1>6. ASSUME Alive(r)', NEW g \in File
      PROVE  /\ tracked'[r][g].size <= folder'[g].size
             /\ (tracked'[r][g].size = folder'[g].size /\ folder'[g].size \in 1..(FullSize - 1))
                  => tracked'[r][g].stable <= quiet'[g]
  <2>1. Alive(r)
    BY <1>2, <1>6 DEF Alive
  <2>2. CASE g = f
    BY <1>2, <1>3, <2>2, NothingTracked
  <2>3. CASE g # f
    <3>1. folder'[g] = folder[g] /\ folder[g].size \in Nat
      BY <1>1, <1>2, <2>3, WorkType DEF FolderEntry
    <3>2. QED
      BY <1>2, <2>1, <3>1 DEF SizeAt
  <2>4. QED
    BY <2>2, <2>3
<1>7. QED
  BY <1>4, <1>5, <1>6 DEF SizeAt

\* A claim that goes on or ends, and whatever does not touch the folder.
LEMMA SizeOfRest ==
  ASSUME Watched, NEW v \in Replica, SizeAt(v),
         \/ \E f \in File : \E doc \in 1..MaxDrops : SendCompanion(f, doc)
         \/ \E r \in Replica : TakeCompanion(r) \/ ClaimFails(r) \/ Crash(r)
         \/ Apart
  PROVE  SizeAt(v)'
<1>1. DropType /\ ElectionType /\ \A f \in File : quiet[f] \in Nat
  BY WorkType DEF Watched, ElectionInv
<1>2. ASSUME NEW f \in File, NEW doc \in 1..MaxDrops, SendCompanion(f, doc) PROVE SizeAt(v)'
  <2>1. /\ \A g \in File : folder'[g].size = folder[g].size /\ folder'[g].doc = folder[g].doc
        /\ UNCHANGED <<quiet, tracked, ready, work, up>>
    BY <1>1, <1>2, SendDoes
  <2>2. QED
    BY <1>1, <2>1, SizeFrame DEF Alive
<1>3. ASSUME NEW r \in Replica, TakeCompanion(r) PROVE SizeAt(v)'
  <2>1. /\ \A g \in File : folder'[g].size = folder[g].size /\ folder'[g].doc = folder[g].doc
        /\ work'[v] = work[v] \/ work'[v] = NoWork
        /\ UNCHANGED <<quiet, tracked, ready, up>>
    BY <1>1, <1>3, TakeDoes
  <2>2. QED
    BY <1>1, <2>1, SizeFrame DEF Alive
<1>4. ASSUME NEW r \in Replica, ClaimFails(r) PROVE SizeAt(v)'
  <2>1. /\ work'[v] = work[v] \/ work'[v] = NoWork
        /\ UNCHANGED <<folder, quiet, tracked, ready, up>>
    BY <1>1, <1>4, FailDoes
  <2>2. QED
    BY <1>1, <2>1, SizeFrame DEF Alive
<1>5. ASSUME NEW r \in Replica, Crash(r) PROVE SizeAt(v)'
  <2>1. /\ work'[v] = work[v] \/ work'[v] = NoWork
        /\ ready'[v] = ready[v] \/ ready'[v] = {}
        /\ (tracked'[v] = tracked[v] /\ up'[v] = up[v]) \/ ~Tracks(v)'
        /\ UNCHANGED <<folder, quiet>>
    BY <1>1, <1>5, CrashDoes
  <2>2. QED
    BY <1>1, <2>1, SizeFrame DEF Alive
<1>6. ASSUME Apart PROVE SizeAt(v)'
  <2>1. /\ UNCHANGED <<folder, ready, work, quiet>>
        /\ tracked'[v] = tracked[v] \/ ~Tracks(v)'
        /\ Alive(v)' => Alive(v) \/ ~Tracks(v)
    BY <1>6 DEF Apart, Watched, TrackInv
  <2>2. QED
    BY <1>1, <2>1, SizeFrame
<1>7. QED
  BY <1>2, <1>3, <1>4, <1>5, <1>6

LEMMA SizeStep == Watched /\ SizeInv /\ [Next]_vars => SizeInv'
<1>1. ASSUME Watched, SizeInv, UNCHANGED vars PROVE SizeInv'
  BY <1>1 DEF SizeInv, SizeAt, Alive, vars
<1>2. ASSUME Watched, SizeInv, Next, ~late', NEW v \in Replica PROVE SizeAt(v)'
  <2>1. ~late /\ DropType /\ ElectionType /\ DropType'
    BY <1>2, LateStays, TypeStep DEF Watched, ElectionInv
  <2>2. \A s \in Replica : SizeAt(s)
    BY <1>2, <2>1 DEF SizeInv
  <2>3. ASSUME NEW r \in Replica, Poll(r) PROVE SizeAt(v)'
    <3>1. /\ leader[r] /\ up[r] = "up" /\ up' = up /\ work' = work
          /\ \A s \in Replica \ {r} : ready'[s] = ready[s] /\ tracked'[s] = tracked[s]
      BY <2>1, <2>3, PollDoes
    <3>2. CASE v = r
      BY <1>2, <2>2, <2>3, <3>2, SizeOfPoll
    <3>3. CASE v # r
      BY <1>2, <2>1, <3>1, <3>3, SizeElsewhere
    <3>4. QED
      BY <3>2, <3>3
  <2>4. ASSUME NEW r \in Replica, NEW e \in ready[r], Read(r, e) PROVE SizeAt(v)'
    <3>1. /\ ~Unoccupied(r) /\ up' = up /\ tracked' = tracked
          /\ \A s \in Replica \ {r} : ready'[s] = ready[s] /\ work'[s] = work[s]
      BY <2>1, <2>4, ReadDoes DEF Unoccupied
    <3>2. CASE v = r
      BY <1>2, <2>2, <2>4, <3>2, SizeOfRead
    <3>3. CASE v # r
      BY <1>2, <2>1, <3>1, <3>3, SizeElsewhere
    <3>4. QED
      BY <3>2, <3>3
  <2>5. ASSUME NEW r \in Replica, UnlinkSource(r) PROVE SizeAt(v)'
    <3>1. /\ ~Unoccupied(r) /\ up' = up /\ tracked' = tracked /\ ready' = ready
          /\ \A s \in Replica \ {r} : work'[s] = work[s]
      BY <2>1, <2>5, UnlinkDoes, Idle DEF Unoccupied
    <3>2. CASE v = r
      BY <1>2, <2>2, <2>5, <3>2, SizeOfUnlink
    <3>3. CASE v # r
      BY <1>2, <2>1, <3>1, <3>3, SizeElsewhere
    <3>4. QED
      BY <3>2, <3>3
  <2>6. Clock \/ (\E r \in Replica : Elsewhere(r)) => Apart
    BY <2>1, ClockDoes, ElsewhereDoes
  <2>7. QED
    BY <1>2, <2>2, <2>3, <2>4, <2>5, <2>6, SizeOfDrop, SizeOfGrow, SizeOfRest, Steps
<1>3. QED
  BY <1>1, <1>2 DEF SizeInv

LEMMA WatchedStart == Init => Watched /\ SizeInv
<1>1. SUFFICES ASSUME Init PROVE Watched /\ SizeInv
  OBVIOUS
<1>2. /\ \A f \in File : folder[f] = [doc |-> 0, size |-> 0, companion |-> 0]
      /\ \A r \in Replica : /\ ready[r] = {} /\ work[r] = NoWork
                            /\ \A f \in File : tracked[r][f] = Untracked
  BY <1>1 DEF Init
<1>3. DropType
  BY <1>1, NothingTracked DEF Init, DropType, FolderEntry
<1>4. TrackInv /\ ListInv
  BY <1>2, Idle DEF TrackInv, ListInv, ListAt, Tracks
<1>5. SizeInv
  BY <1>2, NothingTracked, Idle DEF SizeInv, SizeAt
<1>6. QED
  BY <1>1, <1>3, <1>4, <1>5, ElectionStart DEF Watched

LEMMA WatchedAlways == Spec => [](Watched /\ SizeInv)
<1>1. Watched /\ SizeInv /\ [Next]_vars => (Watched /\ SizeInv)'
  BY ElectionStep, TypeStep, TrackStep, ListStep, SizeStep DEF Watched, ElectionInv
<1>2. QED
  BY <1>1, WatchedStart, PTL DEF Spec

\* Only a claim's read begins work.
LEMMA WorkBegins ==
  ASSUME Watched, [Next]_vars, NEW r \in Replica, work[r] = NoWork, work'[r] # NoWork
  PROVE  \E e \in ready[r] : Read(r, e)
<1>1. DropType /\ ElectionType
  BY DEF Watched, ElectionInv
<1>2. work' # work
  OBVIOUS
<1>3. Next
  BY <1>2 DEF vars
<1>4. ~Apart
  BY <1>2 DEF Apart
<1>5. ~ \E f \in File : Drop(f) \/ Grow(f) \/ \E doc \in 1..MaxDrops : SendCompanion(f, doc)
  BY <1>2 DEF Drop, Grow, SendCompanion, watchVars
<1>6. PICK s \in Replica : \/ Poll(s) \/ (\E e \in ready[s] : Read(s, e))
                           \/ UnlinkSource(s) \/ TakeCompanion(s) \/ ClaimFails(s) \/ Crash(s)
  BY <1>1, <1>3, <1>4, <1>5, Steps, ClockDoes, ElsewhereDoes
<1>7. ~ (Poll(s) \/ TakeCompanion(s) \/ ClaimFails(s) \/ Crash(s))
  BY <1>1, <1>2, PollDoes, TakeDoes, FailDoes, CrashDoes
<1>8. ~UnlinkSource(s)
  <2>1. UnlinkSource(s) => /\ work[s].at = "unlink"
                           /\ \A v \in Replica \ {s} : work'[v] = work[v]
    BY <1>1, UnlinkDoes
  <2>2. QED
    BY <2>1, Idle
<1>9. CASE \E e \in ready[s] : Read(s, e)
  <2>1. s = r
    BY <1>1, <1>9, ReadDoes
  <2>2. QED
    BY <1>9, <2>1
<1>10. QED
  BY <1>6, <1>7, <1>8, <1>9

\* A document that is read half-written had paused for StabilityPolls polls,
\* whoever watched in between: the list of a replica holds only sizes that
\* were seen that often, and another replica starts from its own sight.
THEOREM HalfWrittenPaused == Spec => HalfWrittenOnlyAfterPause
<1>1. ASSUME Watched, SizeInv, [Next]_vars, NEW r \in Replica,
             work[r] = NoWork, work'[r] # NoWork, folder[work'[r].file].size < FullSize
      PROVE  quiet[work'[r].file] >= StabilityPolls \/ late
  <2>1. PICK e \in ready[r] : Read(r, e)
    BY <1>1, WorkBegins
  <2>2. work'[r].file = e.file
    BY <1>1, <2>1, ReadDoes DEF Watched
  <2>3. QED
    BY <1>1, <2>2 DEF SizeInv, SizeAt
<1>2. Watched /\ SizeInv /\ [Next]_vars
        => [\A r \in Replica :
              (work[r] = NoWork /\ work'[r] # NoWork /\ folder[work'[r].file].size < FullSize)
                => quiet[work'[r].file] >= StabilityPolls \/ late]_vars
  BY <1>1
<1>3. QED
  BY <1>2, WatchedAlways, PTL DEF Spec, HalfWrittenOnlyAfterPause

-----------------------------------------------------------------------------
(* The companion in the folder belongs to the document it is taken with.    *)

SentInv == \A f \in File : sent[f] \subseteq 1..folder[f].doc

\* The companion there came for the document that is there, or is about to be
\* taken by the claim it came for; a document whose companion came still has
\* it; and a claim, or an entry of a list, knows whether one came.
OfItsDocument(f) ==
  folder[f].companion # 0 =>
    /\ folder[f].companion \in sent[f]
    /\ \/ folder[f].companion = folder[f].doc /\ folder[f].size > 0
       \/ \E r \in Replica : /\ work[r].at = "companion" /\ work[r].file = f
                             /\ work[r].doc = folder[f].companion
StillThere(f) ==
  folder[f].size > 0 /\ folder[f].doc \in sent[f] => folder[f].companion = folder[f].doc
KnownToClaim(f) ==
  \A r \in Replica :
    work[r] # NoWork /\ work[r].file = f =>
      /\ work[r].meta <=> work[r].doc \in sent[f]
      /\ work[r].meta => folder[f].companion = work[r].doc
KnownToList(f) ==
  \A r \in Replica : \A e \in ready[r] :
    e.file = f => /\ e.meta <=> folder[f].doc \in sent[f]
                  /\ e.meta => folder[f].companion = folder[f].doc
Kept(f) == OfItsDocument(f) /\ StillThere(f) /\ KnownToClaim(f) /\ KnownToList(f)
CompanionInv == SentInv /\ (~late => \A f \in File \ orphan : Kept(f))

Sized == Watched /\ SizeInv /\ SentInv /\ ~late

\* Unless something is claimed or found anew, what holds of a file stays so.
LEMMA KeptFrame ==
  ASSUME NEW f \in File, Kept(f), folder'[f] = folder[f], sent'[f] = sent[f],
         \A v \in Replica :
           /\ ready'[v] \subseteq ready[v]
           /\ work'[v] = work[v] \/ work'[v] = NoWork
           /\ work[v].at = "companion" /\ work[v].file = f => work'[v] = work[v]
  PROVE  Kept(f)'
<1>1. OfItsDocument(f)'
  BY DEF Kept, OfItsDocument
<1>2. StillThere(f)'
  BY DEF Kept, StillThere
<1>3. KnownToClaim(f)'
  BY DEF Kept, KnownToClaim
<1>4. KnownToList(f)'
  BY DEF Kept, KnownToList
<1>5. QED
  BY <1>1, <1>2, <1>3, <1>4 DEF Kept

LEMMA KeptDrop ==
  ASSUME Sized, NEW f \in File, Drop(f), Kept(f)
  PROVE  Kept(f)'
<1>1. /\ DropType /\ folder[f].size = 0
      /\ folder'[f].doc = folder[f].doc + 1 /\ folder'[f].companion = folder[f].companion
      /\ UNCHANGED <<sent, ready, work>>
  BY DropDoes DEF Sized, Watched
<1>2. \A v \in Replica : \A e \in ready[v] : e.file # f
  BY <1>1 DEF Sized, SizeInv, SizeAt
<1>3. folder[f].doc \in Nat /\ folder'[f].doc \notin sent[f]
  <2>1. folder[f].doc \in Nat
    BY <1>1 DEF DropType, FolderEntry
  <2>2. sent[f] \subseteq 1..folder[f].doc
    BY DEF Sized, SentInv
  <2>3. QED
    BY <1>1, <2>1, <2>2
<1>4. OfItsDocument(f)'
  BY <1>1 DEF Kept, OfItsDocument
<1>5. StillThere(f)'
  BY <1>1, <1>3 DEF StillThere
<1>6. KnownToClaim(f)'
  BY <1>1 DEF Kept, KnownToClaim
<1>7. KnownToList(f)'
  BY <1>1, <1>2 DEF KnownToList
<1>8. QED
  BY <1>4, <1>5, <1>6, <1>7 DEF Kept

LEMMA KeptGrow ==
  ASSUME Sized, NEW f \in File, Grow(f), Kept(f)
  PROVE  Kept(f)'
<1>1. /\ folder[f].size > 0 /\ folder[f].size \in Nat
      /\ folder'[f].size = folder[f].size + 1 /\ folder'[f].doc = folder[f].doc
      /\ folder'[f].companion = folder[f].companion
      /\ UNCHANGED <<sent, ready, work>>
  BY GrowDoes DEF Sized, Watched, DropType, FolderEntry
<1>2. OfItsDocument(f)'
  BY <1>1 DEF Kept, OfItsDocument
<1>3. StillThere(f)'
  BY <1>1 DEF Kept, StillThere
<1>4. KnownToClaim(f)'
  BY <1>1 DEF Kept, KnownToClaim
<1>5. KnownToList(f)'
  BY <1>1 DEF Kept, KnownToList
<1>6. QED
  BY <1>2, <1>3, <1>4, <1>5 DEF Kept

\* A companion that is awaited comes before anybody listed or claimed its
\* document.
LEMMA KeptSend ==
  ASSUME Sized, NEW f \in File, NEW doc \in 1..MaxDrops, SendCompanion(f, doc), Kept(f),
         f \notin orphan'
  PROVE  Kept(f)'
<1>1. /\ DropType /\ doc \notin sent[f] /\ Awaited(f, doc)
      /\ folder'[f].size = folder[f].size /\ folder'[f].doc = folder[f].doc
      /\ folder'[f].companion = doc /\ sent'[f] = sent[f] \cup {doc}
      /\ UNCHANGED <<ready, work>>
  BY SendDoes DEF Sized, Watched
<1>2. folder[f].doc = doc /\ folder[f].size > 0
  BY <1>1 DEF Awaited
<1>3. \A v \in Replica : \A e \in ready[v] : e.file # f
  BY <1>1, <1>2 DEF Awaited, Kept, KnownToList
<1>4. \A v \in Replica : work[v] # NoWork => work[v].file # f
  <2>1. \A v \in Replica : work[v] # NoWork => work[v].at # "idle"
    BY <1>1, WorkType
  <2>2. QED
    BY <1>1, <1>2, <2>1 DEF Awaited, Kept, KnownToClaim
<1>5. OfItsDocument(f)'
  BY <1>1, <1>2 DEF OfItsDocument
<1>6. StillThere(f)'
  BY <1>1, <1>2 DEF StillThere
<1>7. KnownToClaim(f)' /\ KnownToList(f)'
  BY <1>1, <1>3, <1>4 DEF KnownToClaim, KnownToList
<1>8. QED
  BY <1>5, <1>6, <1>7 DEF Kept

\* A poll finds the companion of the document it finds: nobody is about to
\* take an earlier one.
LEMMA KeptPoll ==
  ASSUME Sized, NEW r \in Replica, Poll(r), NEW f \in File, Kept(f)
  PROVE  Kept(f)'
<1>1. /\ DropType /\ leader[r] /\ up[r] = "up" /\ Unoccupied(r)
      /\ UNCHANGED <<folder, sent, work>>
      /\ \A e \in ready'[r] : folder[e.file].size > 0 /\ e.meta = HasCompanion(e.file)
      /\ \A s \in Replica \ {r} : ready'[s] = ready[s]
  BY PollDoes DEF Sized, Watched
<1>2. \A v \in Replica : work[v] = NoWork
  BY <1>1, Alone DEF Sized, Watched, Unoccupied
<1>3. OfItsDocument(f)' /\ StillThere(f)' /\ KnownToClaim(f)'
  BY <1>1 DEF Kept, OfItsDocument, StillThere, KnownToClaim
<1>4. ASSUME NEW e \in ready'[r], e.file = f
      PROVE  /\ e.meta <=> folder[f].doc \in sent[f]
             /\ e.meta => folder[f].companion = folder[f].doc
  <2>1. e.meta <=> folder[f].companion # 0
    BY <1>1, <1>4 DEF HasCompanion
  <2>2. folder[f].companion # 0
          => folder[f].doc \in sent[f] /\ folder[f].companion = folder[f].doc
    BY <1>2, Idle DEF Kept, OfItsDocument
  <2>3. folder[f].doc \in sent[f]
          => folder[f].companion = folder[f].doc /\ folder[f].doc # 0
    BY <1>1, <1>4 DEF Kept, StillThere, Sized, SentInv
  <2>4. QED
    BY <2>1, <2>2, <2>3
<1>5. KnownToList(f)'
  BY <1>1, <1>4 DEF Kept, KnownToList
<1>6. QED
  BY <1>3, <1>5 DEF Kept

LEMMA KeptRead ==
  ASSUME Sized, NEW r \in Replica, NEW e \in ready[r], Read(r, e), NEW f \in File, Kept(f)
  PROVE  Kept(f)'
<1>1. /\ work[r] = NoWork /\ ready'[r] \subseteq ready[r]
      /\ UNCHANGED <<folder, sent>>
      /\ \/ work'[r] = NoWork
         \/ /\ work'[r].file = e.file /\ work'[r].doc = folder[e.file].doc
            /\ work'[r].meta = e.meta
      /\ \A s \in Replica \ {r} : ready'[s] = ready[s] /\ work'[s] = work[s]
  BY ReadDoes DEF Sized, Watched
<1>2. OfItsDocument(f)'
  BY <1>1, Idle DEF Kept, OfItsDocument
<1>3. StillThere(f)' /\ KnownToList(f)'
  BY <1>1 DEF Kept, StillThere, KnownToList
<1>4. KnownToClaim(f)'
  BY <1>1 DEF Kept, KnownToClaim, KnownToList
<1>5. QED
  BY <1>2, <1>3, <1>4 DEF Kept

\* The source goes: its companion, when it came, is taken next.
LEMMA KeptUnlink ==
  ASSUME Sized, NEW r \in Replica, UnlinkSource(r), NEW f \in File, Kept(f)
  PROVE  Kept(f)'
<1> DEFINE g == work[r].file
<1>1. /\ DropType /\ work[r] \in Claims /\ work[r].at = "unlink" /\ g \in File
      /\ folder[g].doc = work[r].doc => folder'[g].size = 0
      /\ folder'[g].doc = folder[g].doc /\ folder'[g].companion = folder[g].companion
      /\ \A h \in File \ {g} : folder'[h] = folder[h]
      /\ IF work[r].meta
         THEN /\ work'[r].file = g /\ work'[r].doc = work[r].doc
              /\ work'[r].meta /\ work'[r].at = "companion"
         ELSE work'[r] = NoWork
      /\ \A s \in Replica \ {r} : work'[s] = work[s]
      /\ UNCHANGED <<sent, ready>>
  BY UnlinkDoes DEF Sized, Watched
<1>2. work[r] # NoWork /\ folder[g].doc = work[r].doc /\ folder'[g].size = 0
  BY <1>1, WorkType DEF Sized, SizeInv, SizeAt
<1> HIDE DEF g
<1>3. \A s \in Replica \ {r} : work[s] = NoWork
  BY <1>2, Alone DEF Sized, Watched, Unoccupied
<1>4. folder'[f].doc = folder[f].doc /\ folder'[f].companion = folder[f].companion
  BY <1>1
<1>5. OfItsDocument(f)'
  <2>1. CASE f # g
    <3>1. \A s \in Replica : ~ (work[s].at = "companion" /\ work[s].file = f)
      BY <1>1, <1>3, Idle
    <3>2. QED
      BY <1>1, <2>1, <3>1 DEF Kept, OfItsDocument
  <2>2. CASE f = g
    <3>1. SUFFICES ASSUME folder[f].companion # 0
                   PROVE  /\ folder[f].companion \in sent[f] /\ work'[r].at = "companion"
                          /\ work'[r].file = f /\ work'[r].doc = folder[f].companion
      BY <1>1, <1>4 DEF OfItsDocument
    <3>2. folder[f].companion \in sent[f] /\ folder[f].companion = folder[f].doc
      <4>1. \A s \in Replica : work[s].at # "companion"
        BY <1>1, <1>3, Idle
      <4>2. QED
        BY <3>1, <4>1 DEF Kept, OfItsDocument
    <3>3. work[r].meta
      BY <1>2, <2>2, <3>2 DEF Kept, KnownToClaim, g
    <3>4. QED
      BY <1>1, <1>2, <2>2, <3>2, <3>3
  <2>3. QED
    BY <2>1, <2>2
<1>6. StillThere(f)'
  BY <1>1, <1>2 DEF Kept, StillThere
<1>7. KnownToClaim(f)'
  <2>1. ASSUME work'[r] # NoWork, work'[r].file = f
        PROVE  /\ work'[r].meta <=> work'[r].doc \in sent[f]
               /\ work'[r].meta => folder[f].companion = work'[r].doc
    <3>1. work[r].meta /\ f = g /\ work'[r].meta /\ work'[r].doc = work[r].doc
      BY <1>1, <2>1
    <3>2. QED
      BY <1>2, <3>1 DEF Kept, KnownToClaim, g
  <2>2. QED
    BY <1>1, <1>3, <1>4, <2>1 DEF KnownToClaim
<1>8. KnownToList(f)'
  BY <1>1, <1>4 DEF Kept, KnownToList
<1>9. QED
  BY <1>5, <1>6, <1>7, <1>8 DEF Kept

\* The companion goes with its claim: the document it came for is gone, and
\* no other waits for it.
LEMMA KeptTake ==
  ASSUME Sized, NEW r \in Replica, TakeCompanion(r), NEW f \in File, Kept(f)
  PROVE  Kept(f)'
<1> DEFINE g == work[r].file
<1>1. /\ DropType /\ work[r].at = "companion" /\ g \in File
      /\ folder'[g].companion = 0
      /\ folder'[g].size = folder[g].size /\ folder'[g].doc = folder[g].doc
      /\ \A h \in File \ {g} : folder'[h] = folder[h]
      /\ work'[r] = NoWork /\ \A s \in Replica \ {r} : work'[s] = work[s]
      /\ UNCHANGED <<sent, ready>>
  BY TakeDoes DEF Sized, Watched
<1>2. /\ work[r] # NoWork /\ work[r].meta
      /\ folder[g].size = 0 \/ folder[g].doc # work[r].doc
      /\ \A e \in ready[r] : e.file # g
  BY <1>1, WorkType DEF Sized, SizeInv, SizeAt, Watched, ListInv, ListAt
<1> HIDE DEF g
<1>3. \A s \in Replica \ {r} : work[s] = NoWork /\ ready[s] = {}
  BY <1>2, Alone DEF Sized, Watched, Unoccupied
<1>4. CASE f # g
  <2>1. \A v \in Replica : /\ work'[v] = work[v] \/ work'[v] = NoWork
                           /\ work[v].file = f => work'[v] = work[v]
    BY <1>1, <1>3, <1>4 DEF g
  <2>2. QED
    BY <1>1, <1>4, <2>1, KeptFrame
<1>5. CASE f = g
  <2>1. ~ (folder[f].size > 0 /\ folder[f].doc \in sent[f])
    <3>1. folder[f].companion = work[r].doc
      BY <1>2, <1>5 DEF Kept, KnownToClaim, g
    <3>2. QED
      BY <1>2, <1>5, <3>1 DEF Kept, StillThere
  <2>2. OfItsDocument(f)' /\ StillThere(f)'
    BY <1>1, <1>5, <2>1 DEF OfItsDocument, StillThere
  <2>3. KnownToClaim(f)' /\ KnownToList(f)'
    BY <1>1, <1>2, <1>3, <1>5 DEF KnownToClaim, KnownToList
  <2>4. QED
    BY <2>2, <2>3 DEF Kept
<1>6. QED
  BY <1>4, <1>5

LEMMA SentStep == DropType /\ ElectionType /\ SentInv /\ [Next]_vars => SentInv'
<1>1. ASSUME SentInv, UNCHANGED vars PROVE SentInv'
  BY <1>1 DEF SentInv, vars
<1>2. ASSUME DropType, SentInv, NEW f \in File, Drop(f) PROVE SentInv'
  <2>1. /\ folder'[f].doc = folder[f].doc + 1 /\ folder[f].doc \in Nat /\ sent' = sent
        /\ \A g \in File \ {f} : folder'[g] = folder[g]
    BY <1>2, DropDoes DEF DropType, FolderEntry
  <2>2. QED
    BY <1>2, <2>1 DEF SentInv
<1>3. ASSUME DropType, SentInv, NEW f \in File, NEW doc \in 1..MaxDrops, SendCompanion(f, doc)
      PROVE  SentInv'
  <2>1. /\ doc \in 1..folder[f].doc /\ sent'[f] = sent[f] \cup {doc}
        /\ \A g \in File : folder'[g].doc = folder[g].doc
        /\ \A g \in File \ {f} : sent'[g] = sent[g]
    BY <1>3, SendDoes DEF SendCompanion
  <2>2. QED
    BY <1>3, <2>1 DEF SentInv
<1>4. ASSUME SentInv, sent' = sent, \A g \in File : folder'[g].doc = folder[g].doc
      PROVE  SentInv'
  BY <1>4 DEF SentInv
<1>5. ASSUME DropType, SentInv, NEW r \in Replica, UnlinkSource(r) \/ TakeCompanion(r)
      PROVE  SentInv'
  <2>1. sent' = sent /\ \A g \in File : folder'[g].doc = folder[g].doc
    BY <1>5, UnlinkDoes, TakeDoes
  <2>2. QED
    BY <1>4, <1>5, <2>1
<1>6. ASSUME DropType, SentInv, NEW f \in File, Grow(f) PROVE SentInv'
  BY <1>4, <1>6, GrowDoes
<1>7. ASSUME DropType, SentInv, NEW r \in Replica,
             Poll(r) \/ (\E e \in ready[r] : Read(r, e)) \/ ClaimFails(r)
      PROVE  SentInv'
  BY <1>4, <1>7, PollDoes, ReadDoes, FailDoes
<1>8. ASSUME DropType, ElectionType, SentInv, NEW r \in Replica, Crash(r) PROVE SentInv'
  BY <1>4, <1>8, CrashDoes
<1>9. ASSUME DropType, ElectionType, SentInv, Next PROVE SentInv'
  BY <1>2, <1>3, <1>4, <1>5, <1>6, <1>7, <1>8, <1>9, ClockDoes, ElsewhereDoes, Steps DEF Apart
<1>10. QED
  BY <1>1, <1>9

LEMMA CompanionStep == Watched /\ SizeInv /\ CompanionInv /\ [Next]_vars => CompanionInv'
<1>1. ASSUME CompanionInv, UNCHANGED vars PROVE CompanionInv'
  BY <1>1 DEF CompanionInv, SentInv, Kept, OfItsDocument, StillThere, KnownToClaim, KnownToList,
              vars
<1>2. ASSUME Watched, SizeInv, CompanionInv, Next, ~late', NEW f \in File, f \notin orphan'
      PROVE  Kept(f)'
  <2>1. Sized /\ DropType /\ ElectionType
    BY <1>2, LateStays DEF Sized, CompanionInv, Watched, ElectionInv
  <2>2. orphan \subseteq orphan'
    <3>1. ASSUME NEW g \in File,
                 Drop(g) \/ Grow(g) \/ \E doc \in 1..MaxDrops : SendCompanion(g, doc)
          PROVE  orphan \subseteq orphan'
      BY <2>1, <3>1, DropDoes, GrowDoes, SendDoes
    <3>2. ASSUME NEW r \in Replica,
                 \/ Poll(r) \/ (\E e \in ready[r] : Read(r, e)) \/ UnlinkSource(r)
                 \/ TakeCompanion(r) \/ ClaimFails(r) \/ Crash(r)
          PROVE  orphan \subseteq orphan'
      BY <2>1, <3>2, PollDoes, ReadDoes, UnlinkDoes, TakeDoes, FailDoes, CrashDoes
    <3>3. QED
      BY <1>2, <2>1, <3>1, <3>2, Steps, ClockDoes, ElsewhereDoes DEF Apart
  <2>3. Kept(f)
    BY <1>2, <2>1, <2>2 DEF CompanionInv, Sized
  <2>4. ASSUME NEW g \in File, g # f,
               Drop(g) \/ Grow(g) \/ \E doc \in 1..MaxDrops : SendCompanion(g, doc)
        PROVE  Kept(f)'
    <3>1. folder'[f] = folder[f] /\ sent'[f] = sent[f] /\ UNCHANGED <<ready, work>>
      BY <2>1, <2>4, DropDoes, GrowDoes, SendDoes
    <3>2. QED
      BY <2>3, <3>1, KeptFrame
  <2>5. ASSUME Drop(f) \/ Grow(f) \/ \E doc \in 1..MaxDrops : SendCompanion(f, doc)
        PROVE  Kept(f)'
    BY <1>2, <2>1, <2>3, <2>5, KeptDrop, KeptGrow, KeptSend
  <2>6. ASSUME NEW r \in Replica,
               Poll(r) \/ (\E e \in ready[r] : Read(r, e)) \/ UnlinkSource(r) \/ TakeCompanion(r)
        PROVE  Kept(f)'
    BY <2>1, <2>3, <2>6, KeptPoll, KeptRead, KeptUnlink, KeptTake
  <2>7. ASSUME NEW r \in Replica, ClaimFails(r) \/ Crash(r)
        PROVE  Kept(f)'
    <3>1. /\ UNCHANGED <<folder, sent>>
          /\ ready'[r] \subseteq ready[r]
          /\ work'[r] = NoWork
          /\ work[r].at = "companion" => work[r].file \in orphan'
          /\ \A s \in Replica \ {r} : work'[s] = work[s] /\ ready'[s] = ready[s]
      BY <2>1, <2>7, FailDoes, CrashDoes
    <3>2. QED
      BY <1>2, <2>3, <3>1, KeptFrame
  <2>8. ASSUME Apart PROVE Kept(f)'
    BY <2>3, <2>8, KeptFrame DEF Apart
  <2>9. QED
    BY <1>2, <2>1, <2>4, <2>5, <2>6, <2>7, <2>8, Steps, ClockDoes, ElsewhereDoes
<1>3. ASSUME Watched, CompanionInv, Next PROVE SentInv'
  BY <1>3, SentStep DEF Watched, ElectionInv, CompanionInv
<1>4. QED
  BY <1>1, <1>2, <1>3 DEF CompanionInv

LEMMA CompanionStart == Init => CompanionInv
<1>1. SUFFICES ASSUME Init PROVE CompanionInv
  OBVIOUS
<1>2. /\ \A f \in File : folder[f] = [doc |-> 0, size |-> 0, companion |-> 0] /\ sent[f] = {}
      /\ \A r \in Replica : ready[r] = {} /\ work[r] = NoWork
  BY <1>1 DEF Init
<1>3. QED
  BY <1>2 DEF CompanionInv, SentInv, Kept, OfItsDocument, StillThere, KnownToClaim, KnownToList

LEMMA CompanionAlways == Spec => [](Watched /\ SizeInv /\ CompanionInv)
<1>1. CompanionInv /\ Watched /\ SizeInv /\ [Next]_vars => CompanionInv'
  BY CompanionStep
<1>2. QED
  BY <1>1, CompanionStart, WatchedAlways, PTL DEF Spec

\* Only these steps end a claim.
LEMMA WorkEnds ==
  ASSUME Watched, [Next]_vars, NEW r \in Replica, work[r] # NoWork, work'[r] = NoWork
  PROVE  UnlinkSource(r) \/ TakeCompanion(r) \/ ClaimFails(r) \/ Crash(r)
<1>1. DropType /\ ElectionType
  BY DEF Watched, ElectionInv
<1>2. work' # work
  OBVIOUS
<1>3. Next
  BY <1>2 DEF vars
<1>4. ~Apart
  BY <1>2 DEF Apart
<1>5. ~ \E f \in File : Drop(f) \/ Grow(f) \/ \E doc \in 1..MaxDrops : SendCompanion(f, doc)
  BY <1>2 DEF Drop, Grow, SendCompanion, watchVars
<1>6. PICK s \in Replica : \/ Poll(s) \/ (\E e \in ready[s] : Read(s, e))
                           \/ UnlinkSource(s) \/ TakeCompanion(s) \/ ClaimFails(s) \/ Crash(s)
  BY <1>1, <1>3, <1>4, <1>5, Steps, ClockDoes, ElsewhereDoes
<1>7. ~ (Poll(s) \/ \E e \in ready[s] : Read(s, e))
  BY <1>1, PollDoes, ReadDoes
<1>8. s = r
  BY <1>1, <1>6, <1>7, UnlinkDoes, TakeDoes, FailDoes, CrashDoes
<1>9. QED
  BY <1>6, <1>7, <1>8

\* A document goes with the companion that came for it and with no other,
\* whatever was sent, listed and claimed under its name before and after.
THEOREM CompanionGoesAlong == Spec => CompanionWithItsDocument
<1>1. ASSUME Watched, SizeInv, CompanionInv, [Next]_vars, NEW r \in Replica,
             work[r] # NoWork, work'[r] = NoWork, faults' = faults,
             work[r].file \notin orphan, ~late
      PROVE  (IF work[r].at = "companion" THEN folder[work[r].file].companion ELSE 0)
               = (IF work[r].doc \in sent[work[r].file] THEN work[r].doc ELSE 0)
  <2>1. DropType /\ ElectionType
    BY <1>1 DEF Watched, ElectionInv
  <2>2. UnlinkSource(r) \/ TakeCompanion(r)
    BY <1>1, <2>1, WorkEnds, FailDoes, CrashDoes
  <2>3. work[r].file \in File
    BY <1>1, <2>1, WorkType
  <2>4. /\ work[r].meta <=> work[r].doc \in sent[work[r].file]
        /\ work[r].meta => folder[work[r].file].companion = work[r].doc
    BY <1>1, <2>3 DEF CompanionInv, Kept, KnownToClaim
  <2>5. CASE UnlinkSource(r)
    <3>1. work[r].at = "unlink" /\ ~work[r].meta
      BY <1>1, <2>1, <2>5, UnlinkDoes, Idle
    <3>2. QED
      BY <2>4, <3>1
  <2>6. CASE TakeCompanion(r)
    <3>1. work[r].at = "companion" /\ work[r].meta
      BY <1>1, <2>1, <2>6, TakeDoes DEF Watched, ListInv, ListAt
    <3>2. QED
      BY <2>4, <3>1
  <2>7. QED
    BY <2>2, <2>5, <2>6
<1>2. Watched /\ SizeInv /\ CompanionInv /\ [Next]_vars
        => [\A r \in Replica :
              LET f == work[r].file
              IN (work[r] # NoWork /\ work'[r] = NoWork /\ faults' = faults /\ f \notin orphan
                  /\ ~late)
                   => (IF work[r].at = "companion" THEN folder[f].companion ELSE 0)
                        = (IF work[r].doc \in sent[f] THEN work[r].doc ELSE 0)]_vars
  BY <1>1
<1>3. QED
  BY <1>2, CompanionAlways, PTL DEF Spec, CompanionWithItsDocument
===============================================================================
