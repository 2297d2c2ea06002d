------------------------------- MODULE Scheduler -------------------------------
(***************************************************************************)
(* The scheduler the emulated OLT's loop runs on                           *)
(* (crates/epon-olt/src/sched.rs): a heap ordered by (at, seq), in which   *)
(* an event is re-armed or cancelled by moving its generation on, never by *)
(* touching the heap.  An entry whose generation is stale is dropped when  *)
(* it surfaces in pop_due.                                                 *)
(*                                                                         *)
(* The heap is the set of its entries: a heap differs from that set only   *)
(* in how fast it finds its least element, and seq makes entries distinct. *)
(* An event missing from the generations list reads as generation 0.       *)
(***************************************************************************)
EXTENDS Naturals, FiniteSets

CONSTANTS Event, Instant, NoEvent,
          MaxArmings     \* bound: armings a run makes between clears, and one cancel more

ASSUME SchedulerAssumption ==
    /\ Instant \subseteq Nat
    /\ MaxArmings \in Nat
    /\ NoEvent \notin [event : Event, at : Instant]

VARIABLES heap,         \* set of Entry
          generations,  \* current generation per event
          next_seq,
          result        \* what the last pop_due returned

vars == <<heap, generations, next_seq, result>>

Entry == [at : Instant, seq : Nat, generation : Nat, event : Event]

\* impl Ord for Entry.
Before(a, b) == a.at < b.at \/ (a.at = b.at /\ a.seq < b.seq)

\* An entry is live while its event's generation has not moved on.
Live(e) == e.generation = generations[e.event]

LiveEntries == {e \in heap : Live(e)}

TypeOK ==
    /\ heap \in SUBSET Entry
    /\ generations \in [Event -> Nat]
    /\ next_seq \in Nat
    /\ result \in [event : Event, at : Instant] \cup {NoEvent}

Init ==
    /\ heap = {}
    /\ generations = [e \in Event |-> 0]
    /\ next_seq = 0
    /\ result = NoEvent

ArmWithoutNewGeneration(event, at) ==
    /\ next_seq < MaxArmings
    /\ heap' = heap \cup {[at |-> at, seq |-> next_seq,
                           generation |-> generations[event], event |-> event]}
    /\ next_seq' = next_seq + 1
    /\ UNCHANGED <<generations, result>>

arm_at(event, at) ==
    /\ next_seq < MaxArmings
    /\ generations' = [generations EXCEPT ![event] = @ + 1]
    /\ heap' = heap \cup {[at |-> at, seq |-> next_seq,
                           generation |-> generations[event] + 1,
                           event |-> event]}
    /\ next_seq' = next_seq + 1
    /\ UNCHANGED result

cancel(event) ==
    /\ generations[event] <= MaxArmings
    /\ generations' = [generations EXCEPT ![event] = @ + 1]
    /\ UNCHANGED <<heap, next_seq, result>>

\* Entries surface in order until a live one is found or the next is not due.
\* Everything that surfaced, the stale entries included, has left the heap.
pop_due(now) ==
    \/ \E e \in LiveEntries :
         /\ e.at <= now
         /\ \A f \in LiveEntries \ {e} : Before(e, f)
         /\ heap' = {f \in heap : Before(e, f)}
         /\ result' = [event |-> e.event, at |-> e.at]
         /\ UNCHANGED <<generations, next_seq>>
    \/ /\ \A e \in LiveEntries : e.at > now
       /\ heap' = {f \in heap : f.at > now}
       /\ result' = NoEvent
       /\ UNCHANGED <<generations, next_seq>>

ClearGenerationsOnly ==
    /\ generations' = [e \in Event |-> 0]
    /\ next_seq' = 0
    /\ UNCHANGED <<heap, result>>

clear ==
    /\ heap' = {}
    /\ generations' = [e \in Event |-> 0]
    /\ next_seq' = 0
    /\ UNCHANGED result

Next ==
    \/ \E event \in Event : cancel(event) \/ \E at \in Instant : arm_at(event, at)
    \/ \E now \in Instant : pop_due(now)
    \/ clear

Spec == Init /\ [][Next]_vars

--------------------------------------------------------------------------------
\* The queries.

is_armed(event) == \E e \in heap : e.event = event /\ Live(e)

\* The least instant among the event's live entries; only asked when armed.
due_at(event) ==
    CHOOSE at \in {e.at : e \in {f \in LiveEntries : f.event = event}} :
        \A e \in {f \in LiveEntries : f.event = event} : at <= e.at

--------------------------------------------------------------------------------
\* Properties.

\* "Each distinct value is its own timer: arming one that is already armed
\* replaces it rather than adding a second firing" (sched.rs): however events
\* are armed, cancelled, popped and cleared, no event has two live entries.
OneLiveEntryPerEvent ==
    \A e, f \in LiveEntries : e.event = f.event => e = f

\* What makes the lazy deletion safe: no entry left in the heap carries a
\* generation its event has yet to reach, so no later arming or cancel can
\* bring a dead entry back to life.
NoEntryFromTheFuture ==
    \A e \in heap : e.generation <= generations[e.event]

\* Arming order is total: entries are told apart by seq, and every seq was
\* handed out since the last clear.
SeqsDistinct ==
    /\ \A e \in heap : e.seq < next_seq
    /\ \A e, f \in heap : e.seq = f.seq => e = f

\* The invariant the proofs are by induction on.
GenerationsDistinct ==
    \A e, f \in heap : e.event = f.event /\ e.generation = f.generation => e = f

IInv == /\ TypeOK
        /\ NoEntryFromTheFuture
        /\ GenerationsDistinct
        /\ SeqsDistinct

\* The lazy heap implements the table of armings: its live entries are the
\* armings, and every operation on it is the table's operation of that name.
Table == INSTANCE TimerTable WITH
            table <- {[event |-> e.event, at |-> e.at, order |-> e.seq] : e \in LiveEntries},
            order <- next_seq

ImplementsTable == Table!Spec
===============================================================================
