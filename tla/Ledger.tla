-------------------------------- MODULE Ledger --------------------------------
(***************************************************************************)
(* What the audit trail (src/dlpduck/audit.py) promises a reader: a chain  *)
(* of events that grows at its end only, each event numbered after the one *)
(* before it and naming its hash, from which retention takes prefixes, but *)
(* nothing behind the event it recorded in the anchor.  A write that was   *)
(* cut short may take the last event with it, and retention that finds     *)
(* nothing to record leaves a gap.  AuditTrail implements this.            *)
(***************************************************************************)
EXTENDS Naturals

VARIABLES chain,    \* the readable events, as records [seq, prev, hash]
          anchor,   \* the trim checkpoint, a record [seq, hash]
          gap       \* retention went on without a record of what it takes

Nothing == [seq |-> 0, hash |-> 0]     \* the end of a trail without events

\* What the next event is chained to.
End(e) == e \in chain /\ \A f \in chain : f.seq <= e.seq
Tip == IF chain = {} THEN anchor
       ELSE LET e == CHOOSE e \in chain : End(e) IN [seq |-> e.seq, hash |-> e.hash]

Init == chain = {} /\ anchor = Nothing /\ gap = FALSE

\* One event goes to the end of the chain.  It is linked to that end, unless
\* a gap has swallowed it: then its number and its hash are new all the same.
Extend == /\ \E e \in chain' :
               /\ chain' = chain \cup {e}
               /\ e.seq > Tip.seq /\ \A f \in chain : f.hash # e.hash
               /\ \/ gap /\ chain = {}
                  \/ e.seq = Tip.seq + 1 /\ e.prev = Tip.hash
          /\ UNCHANGED <<anchor, gap>>

\* Retention records an event up to which it may cut.
Seal == /\ \E e \in chain :
             /\ e.seq > anchor.seq
             /\ anchor' = [seq |-> e.seq, hash |-> e.hash]
        /\ UNCHANGED <<chain, gap>>

\* Retention has nothing to record.
Skip == gap' = TRUE /\ UNCHANGED <<chain, anchor>>

\* Retention removes a prefix, up to the anchor if there is no gap.
Trim == /\ chain' \subseteq chain
        /\ \A e \in chain', f \in chain \ chain' : f.seq < e.seq
        /\ gap \/ \A f \in chain \ chain' : f.seq <= anchor.seq
        /\ UNCHANGED <<anchor, gap>>

\* The last event is lost to a write that was cut short.
Tear == /\ \E e \in chain : End(e) /\ e.seq > anchor.seq /\ chain' = chain \ {e}
        /\ UNCHANGED <<anchor, gap>>

Next == Extend \/ Seal \/ Skip \/ Trim \/ Tear

Spec == Init /\ [][Next]_<<chain, anchor, gap>>
=============================================================================
