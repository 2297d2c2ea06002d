-------------------------------- MODULE FibreLine --------------------------------
(***************************************************************************)
(* A fibre between an end that sends and an end that polls.  The sender's  *)
(* instants run up to now and never back (the peer stamps a frame with the *)
(* instant of the event that produced it, inside the tick that carries it  *)
(* out); the poller takes frames when it gets round to it; the link may go *)
(* down at any time.                                                       *)
(***************************************************************************)
EXTENDS Fibre

CONSTANTS MaxTime, MaxSent     \* bounds

ASSUME LineAssumption == MaxTime \in Nat /\ MaxSent \in Nat

VARIABLES
    queue, last_arrival, sent, delivered, dropped_full,
    now,
    at,         \* the instant the sender last sent at
    cleared,    \* history: frames that were on the line when it went dark
    landed      \* history: the frame taken last, as it was on the line

line_vars == <<queue, last_arrival, sent, delivered, dropped_full, now, at, cleared, landed>>

\* A frame is its number in the order of sending and the instant it was sent.
Frame == [id : Nat, at : Nat]
OnTheLine == [arrives_at : Nat, frame : Frame]
NoFrame == InFlight([id |-> 0, at |-> 0], Propagation)

LineTypeOK ==
    /\ queue \in Seq(OnTheLine)
    /\ last_arrival \in Nat /\ sent \in Nat /\ delivered \in Nat /\ dropped_full \in Nat
    /\ now \in Nat /\ at \in Nat /\ cleared \in Nat
    /\ landed \in OnTheLine

line_Init ==
    /\ queue = <<>>
    /\ last_arrival = 0 /\ sent = 0 /\ delivered = 0 /\ dropped_full = 0
    /\ now = 0 /\ at = 0 /\ cleared = 0
    /\ landed = NoFrame

Tick ==
    /\ now < MaxTime
    /\ now' = now + 1
    /\ UNCHANGED <<queue, last_arrival, sent, delivered, dropped_full, at, cleared, landed>>

send(t, jitter, serialization) ==
    /\ sent < MaxSent
    /\ sent' = sent + 1
    /\ at' = t
    /\ IF is_full(queue)
       THEN /\ dropped_full' = dropped_full + 1
            /\ UNCHANGED <<queue, last_arrival>>
       ELSE /\ last_arrival' = arrival(last_arrival, t, jitter, serialization)
            /\ queue' = Append(queue, InFlight([id |-> sent + 1, at |-> t], last_arrival'))
            /\ UNCHANGED dropped_full
    /\ UNCHANGED <<delivered, now, cleared, landed>>

pop_arrived ==
    /\ has_arrived(queue, now)
    /\ queue' = Tail(queue)
    /\ delivered' = delivered + 1
    /\ landed' = Head(queue)
    /\ UNCHANGED <<last_arrival, sent, dropped_full, now, at, cleared>>

clear_line ==
    /\ queue' = <<>>
    /\ last_arrival' = 0
    /\ cleared' = cleared + Len(queue)
    /\ UNCHANGED <<sent, delivered, dropped_full, now, at, landed>>

line_Next ==
    \/ Tick \/ pop_arrived \/ clear_line
    \/ \E t \in at..now, jitter \in 0..Jitter, serialization \in 0..MaxSerialization :
          send(t, jitter, serialization)

LineSpec == line_Init /\ [][line_Next]_line_vars

--------------------------------------------------------------------------------
\* "Order is preserved": whatever the jitter draws, the line holds its frames in the
\* order they were sent in, which is the order they land in, behind all that landed.
OrderPreserved ==
    /\ \A i, j \in DOMAIN queue : i < j =>
          /\ queue[i].frame.id < queue[j].frame.id
          /\ queue[i].arrives_at <= queue[j].arrives_at
    /\ \A i \in DOMAIN queue : landed.frame.id < queue[i].frame.id

\* What the far end observes differs from what the sender decided by the crossing
\* and by nothing else: waiting for the frame ahead never makes a frame later than
\* its own worst case, also after the line was dark.
Slowest == Propagation + Jitter + MaxSerialization
InTime(f) == f.arrives_at \in (f.frame.at + Propagation)..(f.frame.at + Slowest)
CrossingTime == (\A i \in DOMAIN queue : InTime(queue[i])) /\ InTime(landed)

\* Every frame handed to the line was delivered, dropped for want of room, lost with
\* the link, or is still on the line; and the line holds no more than its depth.
EveryFrameAccountedFor ==
    /\ sent = delivered + dropped_full + cleared + Len(queue)
    /\ Len(queue) <= FibreDepth

\* The numbers on the line are those handed out so far, and the line remembers the
\* arrival of the last frame on it: what makes the rest inductive.
Bounds ==
    /\ at <= now
    /\ landed.frame.id <= sent
    /\ \A i \in DOMAIN queue : queue[i].frame.id <= sent /\ queue[i].arrives_at <= last_arrival
    /\ last_arrival <= at + Slowest

LineInv == LineTypeOK /\ OrderPreserved /\ CrossingTime /\ EveryFrameAccountedFor /\ Bounds
===============================================================================
