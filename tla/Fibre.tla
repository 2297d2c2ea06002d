---------------------------------- MODULE Fibre ----------------------------------
(***************************************************************************)
(* One direction of the link (crates/epon-olt/src/fibre.rs): a frame is    *)
(* clocked out, travels, and lands in a queue of finite depth.  Time is in *)
(* whatever unit the user counts in; the draw of the jitter generator and  *)
(* the time a frame of some length takes to clock out are parameters, any  *)
(* value up to Jitter and MaxSerialization.                                *)
(***************************************************************************)
EXTENDS Naturals, Sequences

CONSTANTS FibreDepth, Propagation, Jitter, MaxSerialization

ASSUME FibreAssumption ==
    /\ FibreDepth \in Nat /\ Propagation \in Nat
    /\ Jitter \in Nat /\ MaxSerialization \in Nat

Later(a, b) == IF a >= b THEN a ELSE b

\* A slip: the jitter may put a frame ahead of one sent before it.
ArrivalReordered(last_arrival, at, jitter, serialization) ==
    at + Propagation + jitter + serialization

\* A slip: a frame starts to cross when the one ahead has landed.
ArrivalAfterPrevious(last_arrival, at, jitter, serialization) ==
    Later(at, last_arrival) + Propagation + jitter + serialization

\* When a frame sent at some instant lands: never ahead of the frame sent before.
arrival(last_arrival, at, jitter, serialization) ==
    Later(at + Propagation + jitter + serialization, last_arrival)

\* A slip: one frame more than the depth is let in.
FullTooLate(queue) == Len(queue) > FibreDepth

is_full(queue) == Len(queue) >= FibreDepth

InFlight(frame, on) == [arrives_at |-> on, frame |-> frame]

has_arrived(queue, now) == queue # <<>> /\ Head(queue).arrives_at <= now
===============================================================================
