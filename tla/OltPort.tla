--------------------------------- MODULE OltPort ---------------------------------
(***************************************************************************)
(* The downstream end of the emulated OLT (src/soc/olt/mod.rs and its part *)
(* of PeripheralBank::tick): link state with its deferred rise, the fibre  *)
(* into the receive mailbox, the per-queue bitmaps the firmware polls, the *)
(* read port, the arrival counters of the MAC and the guard that is        *)
(* cleared behind the firmware's back.                                     *)
(*                                                                         *)
(* The peer is left open: in a tick it may send a frame for any queue,     *)
(* whatever its protocol state (module Peer says which it does send).  The *)
(* firmware is left open too: it reads words and issues read commands in   *)
(* any order.  Classifier and EtherType fallback both just name a queue.   *)
(***************************************************************************)
EXTENDS Fibre, FiniteSetsExt

CONSTANTS
    Slot,            \* mailbox queues
    MailboxDepth,
    LinkUpDelay,     \* ticks before the link first rises
    GuardDelay,      \* ticks from a frame consumed to the guard cleared
    Words,           \* words a frame is read out as
    MaxTicks, MaxFrames, MaxFlaps   \* bounds

ASSUME PortAssumption ==
    /\ MailboxDepth \in Nat \ {0} /\ LinkUpDelay \in Nat \ {0}
    /\ GuardDelay \in Nat \ {0} /\ Words \in Nat \ {0}
    /\ MaxTicks \in Nat /\ MaxFrames \in Nat /\ MaxFlaps \in Nat

VARIABLES
    wire_now,
    link_up, link_change_pending, link_up_delay,
    downstream, last_arrival,       \* the fibre to this end
    mailbox_pending,                \* Slot -> frames waiting
    mailbox_fifo,                   \* words of the frame being read out
    mailbox_bitmap,                 \* queues with a frame waiting
    llid_store,                     \* the MAC's copy of it, which the firmware polls
    frame_consumed,
    guard_clear_countdown,
    queue_arrivals,                 \* the MAC's counters: Slot -> frames landed
    sent, flaps,                    \* history: frames sent, sessions ended so far
    taken,                          \* history: Slot -> the frame last read from it
    handed,                         \* history: Slot -> frames read or lost since the reset
    told_down,                      \* history: the last explicit instruction was down
    since_consumed,                 \* history: ticks since a frame was read out
    guard_dirty, guard_cleared      \* history: a clear is owed; the last step cleared it

guard   == <<since_consumed, guard_dirty, guard_cleared>>
line    == <<downstream, last_arrival>>
mailbox == <<mailbox_pending, mailbox_fifo, mailbox_bitmap, frame_consumed>>
vars == <<wire_now, link_up, link_change_pending, link_up_delay, line, mailbox, llid_store,
          guard_clear_countdown, queue_arrivals, sent, flaps, taken, handed, told_down,
          guard>>

\* A frame is its number, the queue it will go to and the session it was sent in.
Frame == [id : Nat, slot : Slot, session : Nat]
Word  == [id : Nat, n : 1..Words, session : Nat]

\* A slip: the last frame of a queue is not announced.
RefreshTooLow(pending) == {s \in Slot : Len(pending[s]) > 1}

refresh_bitmap(pending) == {s \in Slot : pending[s] # <<>>}
has_any_pending(pending) == \E s \in Slot : pending[s] # <<>>

\* The places of the mailbox in which a frame waits.
Waiting(pending) == UNION {{s} \X DOMAIN pending[s] : s \in Slot}
total_pending_count(pending) == Cardinality(Waiting(pending))

TypeOK ==
    /\ wire_now \in 0..MaxTicks
    /\ link_up \in BOOLEAN /\ link_change_pending \in BOOLEAN
    /\ link_up_delay \in 0..LinkUpDelay
    /\ downstream \in Seq([arrives_at : Nat, frame : Frame]) /\ last_arrival \in Nat
    /\ mailbox_pending \in [Slot -> Seq(Frame)] /\ mailbox_fifo \in Seq(Word)
    /\ mailbox_bitmap \subseteq Slot /\ llid_store \subseteq Slot
    /\ frame_consumed \in BOOLEAN
    /\ guard_clear_countdown \in 0..(GuardDelay - 1)
    /\ queue_arrivals \in [Slot -> Nat] /\ handed \in [Slot -> Nat] /\ taken \in [Slot -> Nat]
    /\ sent \in 0..MaxFrames /\ flaps \in 0..MaxFlaps /\ told_down \in BOOLEAN
    /\ since_consumed \in 0..GuardDelay /\ guard_dirty \in BOOLEAN /\ guard_cleared \in BOOLEAN

Init ==
    /\ wire_now = 0
    /\ link_up = FALSE /\ link_change_pending = FALSE /\ link_up_delay = LinkUpDelay
    /\ downstream = <<>> /\ last_arrival = 0
    /\ mailbox_pending = [s \in Slot |-> <<>>] /\ mailbox_fifo = <<>>
    /\ mailbox_bitmap = {} /\ llid_store = {}
    /\ frame_consumed = FALSE /\ guard_clear_countdown = 0
    /\ queue_arrivals = [s \in Slot |-> 0] /\ handed = [s \in Slot |-> 0]
    /\ taken = [s \in Slot |-> 0]
    /\ sent = 0 /\ flaps = 0 /\ told_down = FALSE
    /\ since_consumed = GuardDelay /\ guard_dirty = FALSE /\ guard_cleared = FALSE

--------------------------------------------------------------------------------
\* The fibre after the frames of out, a sequence of at most one queue, were sent.
NewFrame(slot) == [id |-> sent + 1, slot |-> slot, session |-> flaps]
LastArrival(out, at) == IF out = <<>> \/ is_full(downstream) THEN last_arrival
                        ELSE arrival(last_arrival, at, 0, 0)
Line(out, at) == IF out = <<>> \/ is_full(downstream) THEN downstream
                 ELSE Append(downstream, InFlight(NewFrame(out[1]), LastArrival(out, at)))

\* load_frames_into_mailbox: how many frames at the head of the line have landed and
\* find room, and the queues with them.
Loaded(q, now) ==
    Max({n \in 0..Len(q) : /\ total_pending_count(mailbox_pending) + n <= MailboxDepth
                           /\ \A i \in 1..n : q[i].arrives_at <= now})

\* Those of them that go to one queue, in the order they landed.
LandedFor(q, n, s) == {k \in 1..n : q[k].frame.slot = s}
Nth(K, j) == CHOOSE k \in K : Cardinality({i \in K : i <= k}) = j
Arrivals(q, n, s) ==
    [j \in 1..Cardinality(LandedFor(q, n, s)) |-> q[Nth(LandedFor(q, n, s), j)].frame]

\* A slip: a consumed frame starts no countdown of its own.
CountdownWhenIdle(pending) ==
    IF ~has_any_pending(pending) /\ mailbox_fifo = <<>> /\ guard_clear_countdown = 0
    THEN GuardDelay ELSE guard_clear_countdown

\* The guard struct: a countdown starts behind a consumed frame or an idle mailbox,
\* unless one is running, and its end clears the struct.
Countdown(pending) ==
    IF (frame_consumed \/ (~has_any_pending(pending) /\ mailbox_fifo = <<>>))
          /\ guard_clear_countdown = 0
    THEN GuardDelay ELSE guard_clear_countdown

\* A slip: what landed stays on the fibre as well.
UnloadedTwice(q, n) == q

\* What stays on the fibre.
Unloaded(q, n) == SubSeq(q, n + 1, Len(q))

\* Olt::tick and what PeripheralBank::tick does for the OLT after it: the deferred rise of the
\* link, the peer's frame out (if any), the mailbox, the counters and copies in the
\* MAC, the link-change edge, the guard.
tick(out, at) ==
    LET q     == Line(out, at)
        n     == Loaded(q, wire_now + 1)
        count == Countdown(mailbox_pending')
    IN /\ wire_now < MaxTicks
       /\ wire_now' = wire_now + 1
       /\ link_up_delay' = IF link_up_delay > 0 THEN link_up_delay - 1 ELSE 0
       /\ link_up' = (link_up \/ link_up_delay = 1)
       /\ link_change_pending' = FALSE
       /\ sent' = sent + Len(out)
       /\ last_arrival' = LastArrival(out, at)
       /\ downstream' = Unloaded(q, n)
       /\ mailbox_pending' = [s \in Slot |-> mailbox_pending[s] \o Arrivals(q, n, s)]
       /\ mailbox_bitmap' = refresh_bitmap(mailbox_pending')
       /\ llid_store' = mailbox_bitmap'
       /\ queue_arrivals' = [s \in Slot |-> queue_arrivals[s] + Len(Arrivals(q, n, s))]
       /\ frame_consumed' = FALSE
       /\ guard_clear_countdown' = IF count > 0 THEN count - 1 ELSE 0
       /\ guard_cleared' = (count = 1)
       /\ guard_dirty' = (guard_dirty /\ ~guard_cleared')
       /\ since_consumed' = IF since_consumed < GuardDelay THEN since_consumed + 1 ELSE GuardDelay
       /\ UNCHANGED <<mailbox_fifo, flaps, taken, handed, told_down>>

--------------------------------------------------------------------------------
\* The firmware's side: it reads the data port, and asks for a frame of a queue.

read_data ==
    /\ mailbox_fifo # <<>>
    /\ mailbox_fifo' = Tail(mailbox_fifo)
    /\ frame_consumed' = (frame_consumed \/ mailbox_fifo' = <<>>)
    /\ guard_dirty' = (guard_dirty \/ mailbox_fifo' = <<>>)
    /\ since_consumed' = IF mailbox_fifo' = <<>> THEN 0 ELSE since_consumed
    /\ guard_cleared' = FALSE
    /\ UNCHANGED <<wire_now, link_up, link_change_pending, link_up_delay, line,
                   mailbox_pending, mailbox_bitmap, llid_store, guard_clear_countdown,
                   queue_arrivals, sent, flaps, taken, handed, told_down>>

WordsOf(frame) == [n \in 1..Words |-> [id |-> frame.id, n |-> n, session |-> frame.session]]

ReadOut(slot) == IF mailbox_pending[slot] = <<>> THEN <<>>
                 ELSE WordsOf(Head(mailbox_pending[slot]))

\* A read command throws away what is left of the frame before it, also when the queue
\* it names is empty; the bank copies the new bitmap to the MAC at once.
write_cmd(slot) ==
    /\ mailbox_fifo' = ReadOut(slot)
    /\ mailbox_pending' = [mailbox_pending EXCEPT ![slot] = IF @ = <<>> THEN @ ELSE Tail(@)]
    /\ taken' = [taken EXCEPT ![slot] = IF mailbox_pending[slot] = <<>> THEN @
                                        ELSE Head(mailbox_pending[slot]).id]
    /\ handed' = [handed EXCEPT ![slot] = IF mailbox_pending[slot] = <<>> THEN @ ELSE @ + 1]
    /\ mailbox_bitmap' = refresh_bitmap(mailbox_pending')
    /\ llid_store' = mailbox_bitmap'
    /\ guard_cleared' = FALSE
    /\ UNCHANGED <<wire_now, link_up, link_change_pending, link_up_delay, line,
                   frame_consumed, guard_clear_countdown, queue_arrivals, sent, flaps,
                   told_down, since_consumed, guard_dirty>>
--------------------------------------------------------------------------------
\* The host's side: explicit link instructions, injected frames, resets.

\* A slip: the words being read out survive the link.
FifoKept == mailbox_fifo

\* Link down empties the mailbox and what is being read out of it.
FifoDark == <<>>

\* An instruction that changes nothing returns early; the deferred rise goes on.
set_link_up(up) ==
    /\ told_down' = ~up
    /\ guard_cleared' = FALSE
    /\ IF link_up = up
       THEN UNCHANGED <<link_up, link_change_pending, line, mailbox, flaps, handed>>
       ELSE /\ link_up' = up
            /\ link_change_pending' = TRUE
            /\ IF up THEN UNCHANGED <<line, mailbox, flaps, handed>>
               ELSE /\ flaps < MaxFlaps /\ flaps' = flaps + 1
                    /\ downstream' = <<>> /\ last_arrival' = 0
                    /\ handed' = [s \in Slot |-> handed[s] + Len(mailbox_pending[s])]
                    /\ mailbox_pending' = [s \in Slot |-> <<>>]
                    /\ mailbox_fifo' = FifoDark
                    /\ mailbox_bitmap' = refresh_bitmap(mailbox_pending')
                    /\ UNCHANGED frame_consumed
    /\ UNCHANGED <<wire_now, link_up_delay, llid_store, guard_clear_countdown, queue_arrivals,
                   sent, taken, since_consumed, guard_dirty>>

\* inject_raw_frame, send_extended and request_attribute carry a frame out at once.
carry_downstream(slot) ==
    /\ sent < MaxFrames
    /\ sent' = sent + 1
    /\ last_arrival' = LastArrival(<<slot>>, wire_now)
    /\ downstream' = Line(<<slot>>, wire_now)
    /\ guard_cleared' = FALSE
    /\ UNCHANGED <<wire_now, link_up, link_change_pending, link_up_delay, mailbox, llid_store,
                   guard_clear_countdown, queue_arrivals, flaps, taken, handed, told_down,
                   since_consumed, guard_dirty>>

\* Reset of the bank: the session and the MAC's copies go, a line that is up or about to
\* come up rises again after the delay; the running guard countdown stays.
reset_cold ==
    /\ flaps < MaxFlaps /\ flaps' = flaps + 1
    /\ link_up_delay' = IF link_up \/ link_up_delay > 0 THEN LinkUpDelay ELSE 0
    /\ wire_now' = 0
    /\ link_up' = FALSE /\ link_change_pending' = FALSE
    /\ downstream' = <<>> /\ last_arrival' = 0
    /\ mailbox_pending' = [s \in Slot |-> <<>>] /\ mailbox_fifo' = <<>>
    /\ mailbox_bitmap' = {} /\ llid_store' = {} /\ frame_consumed' = FALSE
    /\ queue_arrivals' = [s \in Slot |-> 0] /\ handed' = [s \in Slot |-> 0]
    /\ guard_dirty' = FALSE /\ guard_cleared' = FALSE /\ since_consumed' = GuardDelay
    /\ UNCHANGED <<guard_clear_countdown, sent, taken, told_down>>

Next ==
    \/ \E at \in {wire_now, wire_now + 1} : tick(<<>>, at)
    \/ \E slot \in Slot, at \in {wire_now, wire_now + 1} : sent < MaxFrames /\ tick(<<slot>>, at)
    \/ read_data
    \/ \E slot \in Slot : write_cmd(slot) \/ carry_downstream(slot)
    \/ \E up \in BOOLEAN : set_link_up(up)
    \/ reset_cold

Spec == Init /\ [][Next]_vars

--------------------------------------------------------------------------------
\* "A frame on a dark fibre does not arrive later, it is gone": no part of a frame sent
\* in an earlier session is on the line, in a queue or in the read port.
NothingOutlivesItsSession ==
    /\ \A i \in DOMAIN downstream : downstream[i].frame.session = flaps
    /\ \A s \in Slot : \A i \in DOMAIN mailbox_pending[s] : mailbox_pending[s][i].session = flaps
    /\ \A i \in DOMAIN mailbox_fifo : mailbox_fifo[i].session = flaps

\* Each queue hands out every frame at most once and in the order it was sent, across
\* fibre, mailbox and read port.
QueuesKeepOrder ==
    /\ \A s \in Slot :
          /\ \A i \in DOMAIN mailbox_pending[s] : taken[s] < mailbox_pending[s][i].id
          /\ \A i, j \in DOMAIN mailbox_pending[s] :
                i < j => mailbox_pending[s][i].id < mailbox_pending[s][j].id
    /\ \A j \in DOMAIN downstream : LET f == downstream[j].frame IN
          /\ taken[f.slot] < f.id
          /\ \A i \in DOMAIN mailbox_pending[f.slot] : mailbox_pending[f.slot][i].id < f.id
          /\ \A i \in DOMAIN downstream : i < j => downstream[i].frame.id < f.id

\* The words in the read port are the end of one frame, so a reader that drains the port
\* never mixes two, whatever it was reading when it asked for the next.
PortHoldsOneFrame ==
    \A i \in DOMAIN mailbox_fifo :
        /\ mailbox_fifo[i].id = mailbox_fifo[1].id
        /\ mailbox_fifo[i].n = Words - Len(mailbox_fifo) + i

\* The copy of the bitmap the firmware polls shows every queue that has a frame, also
\* right after a read; it may show one too many only from a link-down to the next tick.
FramesAreAnnounced ==
    /\ mailbox_bitmap = {s \in Slot : mailbox_pending[s] # <<>>}
    /\ mailbox_bitmap \subseteq llid_store
    /\ llid_store # mailbox_bitmap => link_change_pending

\* What does not fit stays on the fibre, and every frame that landed is counted once:
\* the MAC's counter is what was read or lost with the link and what is still waiting.
MailboxBounded ==
    /\ total_pending_count(mailbox_pending) <= MailboxDepth
    /\ \A s \in Slot : queue_arrivals[s] = handed[s] + Len(mailbox_pending[s])

\* A frame is kept whole, in its place and in the count, wherever it is between the line
\* and the firmware.
FramesAreKept == TypeOK /\ QueuesKeepOrder /\ PortHoldsOneFrame /\ MailboxBounded

\* A frame read to its end has a clear of the guard ahead of it, whatever the countdown
\* was doing when it was read.
GuardClearIsOwed == guard_dirty => frame_consumed \/ guard_clear_countdown > 0

\* Statements the code does not keep.

\* reset_cold: "Live means up now or armed to come up; an explicit down stays down"
\* (src/soc/olt/mod.rs).
ExplicitDownStaysDown == told_down => ~link_up

\* PeripheralBank::tick: "The 3-tick delay ensures the firmware's store to 0x7E3CA has executed
\* before the D-cache invalidation discards it" (src/soc/bank.rs).
GuardClearWaits == guard_cleared => since_consumed >= GuardDelay
===============================================================================
