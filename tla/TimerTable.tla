------------------------------ MODULE TimerTable ------------------------------
(***************************************************************************)
(* What the event scheduler promises its caller: a table holding at most   *)
(* one arming per event.  Arming an event again replaces its arming, a     *)
(* cancelled event does not fire, and popping returns the arming due       *)
(* first, ties in arming order, once, with the instant it was armed for.   *)
(* crates/epon-olt/src/sched.rs is shown to implement it by module         *)
(* Scheduler.                                                              *)
(***************************************************************************)
EXTENDS Naturals

CONSTANTS Event,    \* the kinds of event a caller arms
          Instant,  \* the instants an event can be armed for
          NoEvent   \* what a pop that finds nothing due returns

VARIABLES table,    \* the armings, each [event, at, order]
          order,    \* arming order, breaks ties between equal instants
          result    \* what the last pop returned

vars == <<table, order, result>>

Arming == [event : Event, at : Instant, order : Nat]

\* a is due before b: at an earlier instant, or at the same one but armed first.
DueBefore(a, b) == a.at < b.at \/ (a.at = b.at /\ a.order < b.order)

Init == table = {} /\ order = 0 /\ result = NoEvent

Arm(e, at) ==
    /\ table' = {a \in table : a.event # e}
                  \cup {[event |-> e, at |-> at, order |-> order]}
    /\ order' = order + 1
    /\ UNCHANGED result

Cancel(e) ==
    /\ table' = {a \in table : a.event # e}
    /\ UNCHANGED <<order, result>>

\* The earliest arming due at or before now is returned and leaves the table.
PopDue(now) ==
    \E a \in table :
        /\ a.at <= now
        /\ \A b \in table \ {a} : DueBefore(a, b)
        /\ table' = table \ {a}
        /\ result' = [event |-> a.event, at |-> a.at]
        /\ UNCHANGED order

PopNothing(now) ==
    /\ \A a \in table : a.at > now
    /\ result' = NoEvent
    /\ UNCHANGED <<table, order>>

Clear == table' = {} /\ order' = 0 /\ UNCHANGED result

Next ==
    \/ \E e \in Event : Cancel(e) \/ \E at \in Instant : Arm(e, at)
    \/ \E now \in Instant : PopDue(now) \/ PopNothing(now)
    \/ Clear

Spec == Init /\ [][Next]_vars
===============================================================================
