--------------------------------- MODULE Spool ---------------------------------
(***************************************************************************)
(* A sink's events on their way to a collector: the live delivery of a     *)
(* SpoolingSink (src/dlpduck/plugins/sinks.py), the spool it falls back to *)
(* and the drains of replay-sink (src/dlpduck/plugins/spool.py,            *)
(* src/dlpduck/cli.py).  No lock is held: the daemon, the console and any  *)
(* number of drains work on one directory.                                 *)
(***************************************************************************)
EXTENDS Integers

CONSTANTS Job,         \* jobs, each with one event for the sink
          Drain,       \* processes running replay-sink
          NoEvent,     \* no event
          MaxFaults    \* bound: lost answers, crashes, entries that rot

ASSUME SpoolAssumption == MaxFaults \in Nat

VARIABLES emit,    \* where each job's delivery stands
          event,   \* the payload build() made
          stamp,   \* time.time() as append() read it for the job's entry
          clock,   \* the next of those times
          entries, \* the spool's *.json files: of which job, named at which time
          rotten,  \* those of them that cannot be parsed
          aside,   \* the *.json.corrupt files
          got,     \* how often the collector has received each job's event
          drain,   \* each drain: pc, what is left of its list, the list as it was
          faults

deliveryVars == <<emit, event, stamp, clock>>
spoolVars == <<emit, event, stamp, clock, entries, rotten, aside, got, drain, faults>>

Fault == faults < MaxFaults /\ faults' = faults + 1
Idle == [pc |-> "idle", list |-> {}, listed |-> {}]

SpoolInit ==
  /\ emit = [j \in Job |-> "none"] /\ event = [j \in Job |-> NoEvent]
  /\ stamp = [j \in Job |-> 0] /\ clock = 1
  /\ entries = {} /\ rotten = {} /\ aside = {}
  /\ got = [j \in Job |-> 0]
  /\ drain = [d \in Drain |-> Idle] /\ faults = 0

EmitAt(j, from, to) == emit[j] = from /\ emit' = [emit EXCEPT ![j] = to]

-----------------------------------------------------------------------------
(* SpoolingSink.run().                                                      *)

\* The collector takes the payload; takes it and its answer is lost; or does
\* not take it.  Only the first is a delivery for the code.
Receives(j) == got' = [got EXCEPT ![j] = @ + 1]
Answered(j) == Receives(j) /\ UNCHANGED faults
AnswerLost(j) == Receives(j) /\ Fault
NotTaken == UNCHANGED <<got, faults>>

Deliver(j) ==
  /\ EmitAt(j, "deliver", "mark") /\ Answered(j)
  /\ UNCHANGED <<event, stamp, clock, entries, rotten, aside, drain>>

DeliverFails(j) ==
  /\ EmitAt(j, "deliver", "name")
  /\ AnswerLost(j) \/ NotTaken
  /\ UNCHANGED <<event, stamp, clock, entries, rotten, aside, drain>>

\* Spool.append(): the name is taken first, the entry is there after the
\* rename of write_atomically().
NameEntry(j) ==
  /\ EmitAt(j, "name", "write")
  /\ stamp' = [stamp EXCEPT ![j] = clock] /\ clock' = clock + 1
  /\ UNCHANGED <<event, entries, rotten, aside, got, drain, faults>>

WriteEntry(j) ==
  /\ EmitAt(j, "write", "mark")
  /\ entries' = entries \union {[job |-> j, at |-> stamp[j]]}
  /\ UNCHANGED <<event, stamp, clock, rotten, aside, got, drain, faults>>

\* commit() records that the emit phase has ended.
Emitted(j) ==
  /\ EmitAt(j, "mark", "done")
  /\ UNCHANGED <<event, stamp, clock, entries, rotten, aside, got, drain, faults>>

\* The process stops between the checkpoints around the emit phase.
EmitCrash(j) ==
  /\ \E from \in {"deliver", "name", "write", "mark"} : EmitAt(j, from, "uncertain")
  /\ Fault
  /\ UNCHANGED <<event, stamp, clock, entries, rotten, aside, got, drain>>

\* An operator confirms a possible second delivery; commit() runs the emit
\* phase once more.
Confirm(j) ==
  /\ EmitAt(j, "uncertain", "deliver")
  /\ UNCHANGED <<event, stamp, clock, entries, rotten, aside, got, drain, faults>>

-----------------------------------------------------------------------------
(* Spool.drain().                                                           *)

\* pending() sorts the names, which begin with the time.
Oldest(list) == CHOOSE e \in list : \A f \in list : e.at <= f.at
Current(d) == Oldest(drain[d].list)

Becomes(d, pc) == drain' = [drain EXCEPT ![d].pc = pc]
\* The drain returns, or an exception leaves it.
Ends(d) == drain' = [drain EXCEPT ![d] = Idle]
NextEntry(d) ==
  drain' = [drain EXCEPT ![d].pc = "read", ![d].list = @ \ {Oldest(@)}]

List(d) ==
  /\ drain[d].pc = "idle" /\ entries # {}
  /\ drain' = [drain EXCEPT ![d] = [pc |-> "read", list |-> entries, listed |-> entries]]
  /\ UNCHANGED <<deliveryVars, entries, rotten, aside, got, faults>>

\* Variant: the entry is removed before it is delivered.
ReadEntryTaking(d) ==
  /\ drain[d].pc = "read" /\ drain[d].list # {}
  /\ Becomes(d, IF Current(d) \in entries \ rotten THEN "deliver" ELSE "aside")
  /\ entries' = entries \ ({Current(d)} \ rotten)
  /\ UNCHANGED <<deliveryVars, rotten, aside, got, faults>>

ReadEntry(d) ==
  /\ drain[d].pc = "read" /\ drain[d].list # {}
  /\ Becomes(d, IF Current(d) \in entries \ rotten THEN "deliver" ELSE "aside")
  /\ UNCHANGED <<deliveryVars, entries, rotten, aside, got, faults>>

\* An entry another drain has removed cannot be renamed either: os.replace()
\* raises and this drain is over.
SetAside(d) ==
  /\ drain[d].pc = "aside"
  /\ \/ /\ Current(d) \in entries
        /\ entries' = entries \ {Current(d)} /\ aside' = aside \union {Current(d)}
        /\ NextEntry(d)
     \/ /\ Current(d) \notin entries
        /\ Ends(d) /\ UNCHANGED <<entries, aside>>
  /\ UNCHANGED <<deliveryVars, rotten, got, faults>>

Replay(d) ==
  /\ drain[d].pc = "deliver"
  /\ Answered(Current(d).job) /\ Becomes(d, "unlink")
  /\ UNCHANGED <<deliveryVars, entries, rotten, aside>>

\* Variant: the drain passes over an entry it cannot deliver.
ReplayFailsOnward(d) ==
  /\ drain[d].pc = "deliver"
  /\ AnswerLost(Current(d).job) \/ NotTaken
  /\ NextEntry(d)
  /\ UNCHANGED <<deliveryVars, entries, rotten, aside>>

\* The first failure stops the drain.
ReplayFails(d) ==
  /\ drain[d].pc = "deliver"
  /\ AnswerLost(Current(d).job) \/ NotTaken
  /\ Ends(d)
  /\ UNCHANGED <<deliveryVars, entries, rotten, aside>>

Unlink(d) ==
  /\ drain[d].pc = "unlink"
  /\ \/ /\ Current(d) \in entries
        /\ entries' = entries \ {Current(d)} /\ NextEntry(d)
     \/ /\ Current(d) \notin entries
        /\ Ends(d) /\ UNCHANGED entries
  /\ UNCHANGED <<deliveryVars, rotten, aside, got, faults>>

Drained(d) ==
  /\ drain[d].pc = "read" /\ drain[d].list = {}
  /\ Ends(d)
  /\ UNCHANGED <<deliveryVars, entries, rotten, aside, got, faults>>

DrainCrash(d) ==
  /\ drain[d].pc # "idle" /\ Ends(d) /\ Fault
  /\ UNCHANGED <<deliveryVars, entries, rotten, aside, got>>

\* A file of the spool becomes unreadable.
Rot(e) ==
  /\ e \in entries \ rotten /\ Fault
  /\ rotten' = rotten \union {e}
  /\ UNCHANGED <<deliveryVars, entries, aside, got, drain>>

SpoolNext ==
  \/ \E j \in Job : \/ Deliver(j) \/ DeliverFails(j) \/ NameEntry(j)
                    \/ WriteEntry(j) \/ Emitted(j) \/ EmitCrash(j) \/ Confirm(j)
  \/ \E e \in entries : Rot(e)
  \/ \E d \in Drain : \/ List(d) \/ ReadEntry(d) \/ SetAside(d) \/ Replay(d)
                      \/ ReplayFails(d) \/ Unlink(d) \/ Drained(d) \/ DrainCrash(d)

-----------------------------------------------------------------------------
\* An event whose emit phase has ended has reached the collector or is on the
\* disk, whoever drains meanwhile and wherever a drain stops: an entry is
\* removed after its delivery (Spool.drain()).
SpoolLosesNothing ==
  \A j \in Job : emit[j] = "done" =>
    got[j] > 0 \/ \E e \in entries \union aside : e.job = j

\* When a drain has delivered an entry, every older entry of its list has
\* reached the collector or was set aside: events of the spool do not overtake
\* each other in a drain (Spool.drain(): the first failure stops it).
SpoolInOrder ==
  \A d \in Drain : drain[d].pc = "unlink" =>
    \A e \in drain[d].listed :
      e.at < Current(d).at => got[e.job] > 0 \/ e \in aside
===============================================================================
