----------------------------- MODULE WireTime_proofs -----------------------------
(***************************************************************************)
(* What everything on link time rests on, the event scheduler and the      *)
(* fibre.                                                                  *)
(*                                                                         *)
(* The fibre keeps order, crossing time and accounts, for every depth,     *)
(* delay and jitter: one lemma per action that changes the line.           *)
(*                                                                         *)
(* The scheduler, for any events, instants and number of armings: IInv     *)
(* says that a generation is used by one entry of an event and never       *)
(* exceeds the event's own; from it follow both that lazy deletion leaves  *)
(* at most one live entry per event and that every operation is the        *)
(* abstract table's.                                                       *)
(***************************************************************************)
EXTENDS FibreLine, Scheduler, TLAPS


\* The slowest crossing is a delay, no shorter than the propagation.
LEMMA SlowestDelay == Slowest \in Nat /\ Propagation \in Nat /\ Propagation <= Slowest
BY FibreAssumption DEF FibreAssumption, Slowest

\* Where the elements of a longer queue come from.
LEMMA Appended ==
    ASSUME NEW S, NEW q \in Seq(S), NEW x \in S
    PROVE  /\ Append(q, x) \in Seq(S) /\ Len(Append(q, x)) = Len(q) + 1
           /\ \A i \in DOMAIN Append(q, x) :
                 \/ i \in DOMAIN q /\ i \in Nat /\ i <= Len(q) /\ Append(q, x)[i] = q[i]
                 \/ i \in Nat /\ i = Len(q) + 1 /\ Append(q, x)[i] = x
OBVIOUS

\* Where the elements of a shorter queue come from.
LEMMA Taken ==
    ASSUME NEW S, NEW q \in Seq(S), q # <<>>
    PROVE  /\ Tail(q) \in Seq(S) /\ Len(Tail(q)) = Len(q) - 1 /\ Len(q) \in Nat /\ Len(q) >= 1
           /\ Head(q) = q[1] /\ 1 \in DOMAIN q /\ q[1] \in S
           /\ \A i \in DOMAIN Tail(q) :
                 i \in Nat /\ 1 <= i /\ i + 1 \in DOMAIN q /\ Tail(q)[i] = q[i + 1]
OBVIOUS

\* A frame on the line is made of numbers.
LEMMA Numbers ==
    ASSUME NEW f \in OnTheLine
    PROVE  f.arrives_at \in Nat /\ f.frame.id \in Nat /\ f.frame.at \in Nat
BY DEF OnTheLine, Frame

\* The empty line.
LEMMA InitInv == line_Init => LineInv
<1> SUFFICES ASSUME line_Init PROVE LineInv
    OBVIOUS
<1>1. LineTypeOK
      BY SlowestDelay DEF line_Init, LineTypeOK, OnTheLine, Frame, NoFrame, InFlight
<1>2. InTime(landed) /\ landed.frame.id = 0
      BY SlowestDelay DEF line_Init, NoFrame, InFlight, InTime
<1>3. OrderPreserved /\ CrossingTime
      BY <1>2 DEF line_Init, OrderPreserved, CrossingTime
<1>4. EveryFrameAccountedFor
      BY FibreAssumption DEF FibreAssumption, line_Init, EveryFrameAccountedFor
<1>5. Bounds
      BY <1>2, SlowestDelay DEF line_Init, Bounds
<1> QED BY <1>1, <1>3, <1>4, <1>5 DEF LineInv

\* When a frame lands: no earlier than what was sent before it, and within its own
\* worst case, because what was sent before it was sent no later.
LEMMA Arrival ==
    ASSUME NEW l \in Nat, NEW a \in Nat, NEW t \in Nat, a <= t, l <= a + Slowest,
           NEW jitter \in 0..Jitter, NEW serialization \in 0..MaxSerialization
    PROVE  /\ arrival(l, t, jitter, serialization) \in Nat
           /\ l <= arrival(l, t, jitter, serialization)
           /\ t + Propagation <= arrival(l, t, jitter, serialization)
           /\ arrival(l, t, jitter, serialization) <= t + Slowest
BY FibreAssumption DEF FibreAssumption, arrival, Later, Slowest

\* A frame the line has no room for changes two counters.
LEMMA RefusedInv ==
    ASSUME LineInv, NEW t \in at..now, NEW jitter, NEW serialization,
           send(t, jitter, serialization), is_full(queue)
    PROVE  LineInv'
<1>1. /\ sent' = sent + 1 /\ at' = t /\ dropped_full' = dropped_full + 1
      /\ UNCHANGED <<queue, last_arrival, delivered, now, cleared, landed>>
      BY DEF send
<1>2. LineTypeOK'
      BY <1>1 DEF LineInv, LineTypeOK
<1>3. OrderPreserved' /\ CrossingTime'
      BY <1>1 DEF LineInv, OrderPreserved, CrossingTime, InTime
<1>4. EveryFrameAccountedFor'
      BY <1>1 DEF LineInv, LineTypeOK, EveryFrameAccountedFor
<1>5. Bounds'
  <2>1. \A i \in DOMAIN queue : queue[i].frame.id \in Nat
        BY Numbers DEF LineInv, LineTypeOK
  <2>2. landed.frame.id \in Nat
        BY Numbers DEF LineInv, LineTypeOK
  <2> QED BY <1>1, <2>1, <2>2, SlowestDelay DEF LineInv, LineTypeOK, Bounds
<1> QED BY <1>2, <1>3, <1>4, <1>5 DEF LineInv

\* A frame put on the line lands last.
LEMMA CarriedInv ==
    ASSUME LineInv, NEW t \in at..now,
           NEW jitter \in 0..Jitter, NEW serialization \in 0..MaxSerialization,
           send(t, jitter, serialization), ~is_full(queue)
    PROVE  LineInv'
<1> DEFINE on  == arrival(last_arrival, t, jitter, serialization)
           new == InFlight([id |-> sent + 1, at |-> t], on)
<1>1. /\ sent' = sent + 1 /\ at' = t /\ last_arrival' = on /\ queue' = Append(queue, new)
      /\ UNCHANGED <<dropped_full, delivered, now, cleared, landed>>
      BY DEF send
<1>2. t \in Nat /\ at <= t /\ t <= now
      BY DEF LineInv, LineTypeOK
<1>3. on \in Nat /\ last_arrival <= on /\ t + Propagation <= on /\ on <= t + Slowest
      BY <1>2, Arrival DEF LineInv, LineTypeOK, Bounds
<1> HIDE DEF on
<1>4. new \in OnTheLine /\ new.arrives_at = on /\ new.frame.id = sent + 1 /\ new.frame.at = t
      BY <1>2, <1>3 DEF InFlight, OnTheLine, Frame, LineInv, LineTypeOK
<1> HIDE DEF new
<1>5. /\ queue' \in Seq(OnTheLine) /\ Len(queue') = Len(queue) + 1
      /\ \A i \in DOMAIN queue' :
            \/ i \in DOMAIN queue /\ i \in Nat /\ i <= Len(queue) /\ queue'[i] = queue[i]
            \/ i \in Nat /\ i = Len(queue) + 1 /\ queue'[i] = new
      BY <1>1, <1>4, Appended DEF LineInv, LineTypeOK
<1>6. LineTypeOK'
      BY <1>1, <1>2, <1>3, <1>5 DEF LineInv, LineTypeOK
<1>7. \A i \in DOMAIN queue : /\ queue[i].frame.id \in Nat /\ queue[i].arrives_at \in Nat
                              /\ queue[i].frame.id <= sent /\ queue[i].arrives_at <= last_arrival
      BY Numbers DEF LineInv, LineTypeOK, Bounds
<1>8. OrderPreserved'
  <2>1. ASSUME NEW i \in DOMAIN queue', NEW j \in DOMAIN queue', i < j
        PROVE  queue'[i].frame.id < queue'[j].frame.id /\ queue'[i].arrives_at <= queue'[j].arrives_at
    <3>1. Len(queue) \in Nat
          BY DEF LineInv, LineTypeOK
    <3>2. i \in DOMAIN queue /\ queue'[i] = queue[i]
          BY <1>5, <2>1, <3>1
    <3>3. CASE j \in DOMAIN queue /\ queue'[j] = queue[j]
          BY <2>1, <3>2, <3>3 DEF LineInv, OrderPreserved
    <3>4. CASE queue'[j] = new
      <4>1. queue[i].frame.id < sent + 1
            BY <1>7, <3>2 DEF LineInv, LineTypeOK
      <4>2. queue[i].arrives_at <= on
            BY <1>3, <1>7, <3>2 DEF LineInv, LineTypeOK
      <4> QED BY <1>4, <3>2, <3>4, <4>1, <4>2
    <3> QED BY <1>5, <3>3, <3>4
  <2>2. ASSUME NEW i \in DOMAIN queue' PROVE landed'.frame.id < queue'[i].frame.id
    <3>1. CASE i \in DOMAIN queue /\ queue'[i] = queue[i]
          BY <1>1, <3>1 DEF LineInv, OrderPreserved
    <3>2. CASE queue'[i] = new
      <4>1. landed.frame.id \in Nat /\ landed.frame.id <= sent /\ sent \in Nat
            BY Numbers DEF LineInv, LineTypeOK, Bounds
      <4>2. landed.frame.id < sent + 1
            BY <4>1
      <4> QED BY <1>1, <1>4, <3>2, <4>2
    <3> QED BY <1>5, <3>1, <3>2
  <2> QED BY <2>1, <2>2 DEF OrderPreserved
<1>9. CrossingTime'
  <2>1. InTime(new)
        BY <1>2, <1>3, <1>4, SlowestDelay DEF InTime
  <2>2. InTime(landed) /\ \A i \in DOMAIN queue : InTime(queue[i])
        BY DEF LineInv, CrossingTime
  <2>3. \A i \in DOMAIN queue' : InTime(queue'[i])
        BY <1>5, <2>1, <2>2
  <2> QED BY <1>1, <2>2, <2>3 DEF CrossingTime, InTime
<1>10. EveryFrameAccountedFor'
  <2>1. Len(queue) \in Nat /\ Len(queue) < FibreDepth
        BY FibreAssumption DEF FibreAssumption, is_full, LineInv, LineTypeOK
  <2>2. Len(queue') <= FibreDepth
        BY <1>5, <2>1, FibreAssumption DEF FibreAssumption
  <2>3. sent' = delivered' + dropped_full' + cleared' + Len(queue')
        BY <1>1, <1>5, <2>1 DEF LineInv, LineTypeOK, EveryFrameAccountedFor
  <2> QED BY <2>2, <2>3 DEF EveryFrameAccountedFor
<1>11. Bounds'
  <2>1. \A i \in DOMAIN queue' : queue'[i].frame.id <= sent + 1 /\ queue'[i].arrives_at <= on
    <3> TAKE i \in DOMAIN queue'
    <3>1. CASE i \in DOMAIN queue /\ queue'[i] = queue[i]
          BY <1>3, <1>7, <3>1 DEF LineInv, LineTypeOK
    <3>2. CASE queue'[i] = new
          BY <1>3, <1>4, <3>2 DEF LineInv, LineTypeOK
    <3> QED BY <1>5, <3>1, <3>2
  <2>2. landed.frame.id <= sent + 1
        BY Numbers DEF LineInv, LineTypeOK, Bounds
  <2> QED BY <1>1, <1>2, <1>3, <2>1, <2>2 DEF Bounds
<1> QED BY <1>6, <1>8, <1>9, <1>10, <1>11 DEF LineInv

\* The frame taken is the one at the head; what is behind it moves up.
LEMMA PopInv == ASSUME LineInv, pop_arrived PROVE LineInv'
<1>1. /\ queue' = Tail(queue) /\ delivered' = delivered + 1 /\ landed' = Head(queue)
      /\ UNCHANGED <<last_arrival, sent, dropped_full, now, at, cleared>>
      BY DEF pop_arrived
<1>2. queue \in Seq(OnTheLine) /\ queue # <<>>
      BY DEF pop_arrived, has_arrived, LineInv, LineTypeOK
<1>3. /\ queue' \in Seq(OnTheLine) /\ Len(queue') = Len(queue) - 1
      /\ Len(queue) \in Nat /\ Len(queue) >= 1
      /\ landed' = queue[1] /\ 1 \in DOMAIN queue /\ queue[1] \in OnTheLine
      /\ \A i \in DOMAIN queue' :
            i \in Nat /\ 1 <= i /\ i + 1 \in DOMAIN queue /\ queue'[i] = queue[i + 1]
      BY <1>1, <1>2, Taken
<1>4. LineTypeOK'
      BY <1>1, <1>3 DEF LineInv, LineTypeOK
<1>5. OrderPreserved'
  <2>1. ASSUME NEW i \in DOMAIN queue', NEW j \in DOMAIN queue', i < j
        PROVE  queue'[i].frame.id < queue'[j].frame.id /\ queue'[i].arrives_at <= queue'[j].arrives_at
    <3>1. i + 1 < j + 1
          BY <1>3, <2>1
    <3> QED BY <1>3, <3>1 DEF LineInv, OrderPreserved
  <2>2. ASSUME NEW i \in DOMAIN queue' PROVE landed'.frame.id < queue'[i].frame.id
    <3>1. 1 < i + 1
          BY <1>3, <2>2
    <3> QED BY <1>3, <3>1 DEF LineInv, OrderPreserved
  <2> QED BY <2>1, <2>2 DEF OrderPreserved
<1>6. CrossingTime'
  <2>1. \A i \in DOMAIN queue : InTime(queue[i])
        BY DEF LineInv, CrossingTime
  <2>2. InTime(queue[1]) /\ \A i \in DOMAIN queue' : InTime(queue'[i])
        BY <1>3, <2>1
  <2> QED BY <1>3, <2>2 DEF CrossingTime, InTime
<1>7. EveryFrameAccountedFor'
  <2>1. Len(queue') <= FibreDepth
        BY <1>3, FibreAssumption DEF FibreAssumption, LineInv, EveryFrameAccountedFor
  <2>2. sent' = delivered' + dropped_full' + cleared' + Len(queue')
        BY <1>1, <1>3 DEF LineInv, LineTypeOK, EveryFrameAccountedFor
  <2> QED BY <2>1, <2>2 DEF EveryFrameAccountedFor
<1>8. Bounds'
      BY <1>1, <1>3 DEF LineInv, Bounds
<1> QED BY <1>4, <1>5, <1>6, <1>7, <1>8 DEF LineInv

\* A dark line is an empty line, and what was on it is accounted for as lost.
LEMMA ClearInv == ASSUME LineInv, clear_line PROVE LineInv'
<1>1. /\ queue' = <<>> /\ last_arrival' = 0 /\ cleared' = cleared + Len(queue)
      /\ UNCHANGED <<sent, delivered, dropped_full, now, at, landed>>
      BY DEF clear_line
<1>2. Len(queue) \in Nat
      BY DEF LineInv, LineTypeOK
<1>3. LineTypeOK'
      BY <1>1, <1>2 DEF LineInv, LineTypeOK
<1>4. OrderPreserved' /\ CrossingTime'
      BY <1>1 DEF LineInv, OrderPreserved, CrossingTime, InTime
<1>5. EveryFrameAccountedFor'
      BY <1>1, <1>2, FibreAssumption DEF FibreAssumption, LineInv, LineTypeOK, EveryFrameAccountedFor
<1>6. Bounds'
      BY <1>1, SlowestDelay DEF LineInv, LineTypeOK, Bounds
<1> QED BY <1>3, <1>4, <1>5, <1>6 DEF LineInv

\* The invariant holds in every state the line can reach, for every depth, delay,
\* jitter and number of frames (fibre.rs send, pop_arrived, clear).
THEOREM LineInvariance == LineSpec => []LineInv
<1>1. LineInv /\ [line_Next]_line_vars => LineInv'
  <2> SUFFICES ASSUME LineInv, [line_Next]_line_vars PROVE LineInv'
      OBVIOUS
  <2>1. CASE Tick
        BY <2>1 DEF Tick, LineInv, LineTypeOK, OrderPreserved, CrossingTime, InTime,
                    EveryFrameAccountedFor, Bounds
  <2>2. CASE pop_arrived
        BY <2>2, PopInv
  <2>3. CASE clear_line
        BY <2>3, ClearInv
  <2>4. ASSUME NEW t \in at..now, NEW jitter \in 0..Jitter,
               NEW serialization \in 0..MaxSerialization, send(t, jitter, serialization)
        PROVE  LineInv'
        BY <2>4, RefusedInv, CarriedInv
  <2>5. CASE UNCHANGED line_vars
        BY <2>5 DEF line_vars, LineInv, LineTypeOK, OrderPreserved, CrossingTime, InTime,
                    EveryFrameAccountedFor, Bounds
  <2> QED BY <2>1, <2>2, <2>3, <2>4, <2>5 DEF line_Next
<1> QED BY <1>1, InitInv, PTL DEF LineSpec

\* A fibre does not reorder, whatever the jitter draws.
THEOREM FibreKeepsOrder == LineSpec => []OrderPreserved
<1>1. LineInv => OrderPreserved
      BY DEF LineInv
<1> QED BY <1>1, LineInvariance, PTL

\* No frame is early, and none later than its own worst case.
THEOREM FibreCrossingBounded == LineSpec => []CrossingTime
<1>1. LineInv => CrossingTime
      BY DEF LineInv
<1> QED BY <1>1, LineInvariance, PTL

\* Frames are neither lost without a count nor made up.
THEOREM FibreLedger == LineSpec => []EveryFrameAccountedFor
<1>1. LineInv => EveryFrameAccountedFor
      BY DEF LineInv
<1> QED BY <1>1, LineInvariance, PTL

--------------------------------------------------------------------------------
\* The scheduler.

USE SchedulerAssumption

\* The scheduler starts with the empty heap, which satisfies the invariant.
LEMMA InitEstablishesIInv == Init => IInv
BY DEF Init, IInv, TypeOK, NoEntryFromTheFuture, GenerationsDistinct, SeqsDistinct

\* Every operation of sched.rs preserves the invariant.
LEMMA NextPreservesIInv == IInv /\ [Next]_vars => IInv'
<1> SUFFICES ASSUME IInv, [Next]_vars PROVE IInv'
    OBVIOUS
<1> USE DEF IInv
<1>1. CASE \E event \in Event : cancel(event)
  <2>1. PICK event \in Event : cancel(event)
        BY <1>1
  <2>2. TypeOK'
        BY <2>1 DEF cancel, TypeOK
  <2>3. NoEntryFromTheFuture' /\ GenerationsDistinct' /\ SeqsDistinct'
        BY <2>1 DEF cancel, TypeOK, Entry, NoEntryFromTheFuture,
                    GenerationsDistinct, SeqsDistinct
  <2> QED BY <2>2, <2>3
<1>2. CASE \E event \in Event, when \in Instant : arm_at(event, when)
  <2>1. PICK event \in Event, when \in Instant : arm_at(event, when)
        BY <1>2
  <2> DEFINE new == [at |-> when, seq |-> next_seq,
                     generation |-> generations[event] + 1, event |-> event]
  <2>2. new \in Entry /\ heap' = heap \cup {new}
        BY <2>1 DEF arm_at, TypeOK, Entry
  <2>3. TypeOK'
        BY <2>1, <2>2 DEF arm_at, TypeOK
  <2>4. NoEntryFromTheFuture'
        BY <2>1, <2>2 DEF arm_at, TypeOK, Entry, NoEntryFromTheFuture
  <2>5. GenerationsDistinct'
    <3>1. \A e \in heap : e.event = event => e.generation # generations[event] + 1
          BY DEF TypeOK, Entry, NoEntryFromTheFuture
    <3> QED BY <2>2, <3>1 DEF GenerationsDistinct
  <2>6. SeqsDistinct'
    <3>1. \A e \in heap : e.seq # next_seq
          BY DEF TypeOK, Entry, SeqsDistinct
    <3>2. next_seq' = next_seq + 1
          BY <2>1 DEF arm_at
    <3> QED BY <2>2, <3>1, <3>2 DEF SeqsDistinct, TypeOK, Entry
  <2> QED BY <2>3, <2>4, <2>5, <2>6
<1>3. CASE \E until \in Instant : pop_due(until)
  <2>1. heap' \subseteq heap /\ UNCHANGED <<generations, next_seq>>
        BY <1>3 DEF pop_due
  <2>2. result' \in [event : Event, at : Instant] \cup {NoEvent}
        BY <1>3 DEF pop_due, LiveEntries, TypeOK, Entry
  <2> QED BY <2>1, <2>2 DEF TypeOK, NoEntryFromTheFuture, GenerationsDistinct, SeqsDistinct
<1>4. CASE clear
      BY <1>4 DEF clear, TypeOK, NoEntryFromTheFuture, GenerationsDistinct, SeqsDistinct
<1>5. CASE UNCHANGED vars
      BY <1>5 DEF vars, TypeOK, NoEntryFromTheFuture, GenerationsDistinct, SeqsDistinct
<1> QED BY <1>1, <1>2, <1>3, <1>4, <1>5 DEF Next

\* The invariant holds in every reachable state of the scheduler.
THEOREM Invariance == Spec => []IInv
BY InitEstablishesIInv, NextPreservesIInv, PTL DEF Spec

\* No event of the scheduler ever has two live entries, so it cannot fire twice
\* for one arming, nor fire for an arming that was replaced.
THEOREM OneFiringPerArming == Spec => []OneLiveEntryPerEvent
<1>1. IInv => OneLiveEntryPerEvent
      BY DEF IInv, GenerationsDistinct, OneLiveEntryPerEvent, LiveEntries, Live
<1> QED BY <1>1, Invariance, PTL

--------------------------------------------------------------------------------
\* Refinement: the heap with generations implements the table of armings.

\* The arming an entry stands for.
ArmingOf(e) == [event |-> e.event, at |-> e.at, order |-> e.seq]

\* The table the heap stands for.
TableOf == {ArmingOf(e) : e \in LiveEntries}

\* The initial heap stands for the empty table.
LEMMA InitRefines == Init => Table!Init
BY DEF Init, Table!Init, LiveEntries

\* cancel moves the generation on, which removes exactly that event's arming.
LEMMA CancelRefines ==
    ASSUME IInv, NEW event \in Event, cancel(event)
    PROVE  Table!Cancel(event)
<1>1. LiveEntries' = {e \in LiveEntries : e.event # event}
      BY DEF cancel, LiveEntries, Live, IInv, TypeOK, Entry, NoEntryFromTheFuture
<1>2. TableOf' = {a \in TableOf : a.event # event}
      BY <1>1 DEF TableOf, ArmingOf
<1> QED BY <1>2 DEF Table!Cancel, TableOf, ArmingOf, cancel

\* arm_at replaces the event's arming, whatever stale entries it left behind.
LEMMA ArmRefines ==
    ASSUME IInv, NEW event \in Event, NEW when \in Instant, arm_at(event, when)
    PROVE  Table!Arm(event, when)
<1> DEFINE new == [at |-> when, seq |-> next_seq,
                   generation |-> generations[event] + 1, event |-> event]
<1>1. LiveEntries' = {e \in LiveEntries : e.event # event} \cup {new}
      BY DEF arm_at, LiveEntries, Live, IInv, TypeOK, Entry, NoEntryFromTheFuture
<1>2. TableOf' = {a \in TableOf : a.event # event} \cup {ArmingOf(new)}
  <2>1. \A S : {ArmingOf(e) : e \in S \cup {new}} = {ArmingOf(e) : e \in S} \cup {ArmingOf(new)}
        OBVIOUS
  <2>2. {ArmingOf(e) : e \in {f \in LiveEntries : f.event # event}}
          = {a \in TableOf : a.event # event}
        BY DEF TableOf, ArmingOf
  <2> QED BY <1>1, <2>1, <2>2 DEF TableOf
<1> QED BY <1>2 DEF Table!Arm, TableOf, ArmingOf, arm_at

\* pop_due drops stale entries and returns the arming due first, or nothing.
LEMMA PopRefines ==
    ASSUME IInv, NEW until \in Instant, pop_due(until)
    PROVE  Table!PopDue(until) \/ Table!PopNothing(until)
<1>1. CASE \E e \in LiveEntries :
             /\ e.at <= until
             /\ \A f \in LiveEntries \ {e} : Before(e, f)
             /\ heap' = {f \in heap : Before(e, f)}
             /\ result' = [event |-> e.event, at |-> e.at]
             /\ UNCHANGED <<generations, next_seq>>
  <2>1. PICK e \in LiveEntries :
             /\ e.at <= until
             /\ \A f \in LiveEntries \ {e} : Before(e, f)
             /\ heap' = {f \in heap : Before(e, f)}
             /\ result' = [event |-> e.event, at |-> e.at]
             /\ UNCHANGED <<generations, next_seq>>
        BY <1>1
  <2>2. ~ Before(e, e)
    <3>1. e.at \in Nat /\ e.seq \in Nat
          BY DEF LiveEntries, IInv, TypeOK, Entry, SchedulerAssumption
    <3> QED BY <3>1 DEF Before
  <2>3. LiveEntries' = LiveEntries \ {e}
        BY <2>1, <2>2 DEF LiveEntries, Live
  <2>4. \A f \in LiveEntries : ArmingOf(f) = ArmingOf(e) => f = e
        BY DEF ArmingOf, LiveEntries, IInv, SeqsDistinct
  <2>5. TableOf' = TableOf \ {ArmingOf(e)}
        BY <2>3, <2>4 DEF TableOf, ArmingOf
  <2>6. \A b \in TableOf \ {ArmingOf(e)} : Table!DueBefore(ArmingOf(e), b)
        BY <2>1 DEF TableOf, ArmingOf, Table!DueBefore, Before
  <2>7. ArmingOf(e) \in TableOf /\ ArmingOf(e).at <= until
        BY <2>1 DEF TableOf, ArmingOf
  <2>8. result' = [event |-> ArmingOf(e).event, at |-> ArmingOf(e).at]
        BY <2>1 DEF ArmingOf
  <2>9. Table!PopDue(until)
        BY <2>1, <2>5, <2>6, <2>7, <2>8 DEF Table!PopDue, TableOf, ArmingOf
  <2> QED BY <2>9
<1>2. CASE /\ \A e \in LiveEntries : e.at > until
           /\ heap' = {f \in heap : f.at > until}
           /\ result' = NoEvent
           /\ UNCHANGED <<generations, next_seq>>
  <2>1. LiveEntries' = LiveEntries
        BY <1>2 DEF LiveEntries, Live
  <2>2. TableOf' = TableOf
        BY <2>1 DEF TableOf
  <2>3. \A a \in TableOf : a.at > until
        BY <1>2 DEF TableOf, ArmingOf
  <2>4. Table!PopNothing(until)
        BY <1>2, <2>2, <2>3 DEF Table!PopNothing, TableOf, ArmingOf
  <2> QED BY <2>4
<1> QED BY <1>1, <1>2 DEF pop_due

\* Every step of the scheduler is a step of the table, or changes nothing in it.
LEMMA NextRefines == IInv /\ [Next]_vars => [Table!Next]_(Table!vars)
<1> SUFFICES ASSUME IInv, [Next]_vars PROVE [Table!Next]_(Table!vars)
    OBVIOUS
<1>1. ASSUME NEW event \in Event, cancel(event) PROVE Table!Next
      BY <1>1, CancelRefines DEF Table!Next
<1>2. ASSUME NEW event \in Event, NEW when \in Instant, arm_at(event, when)
      PROVE  Table!Next
      BY <1>2, ArmRefines DEF Table!Next
<1>3. ASSUME NEW until \in Instant, pop_due(until) PROVE Table!Next
      BY <1>3, PopRefines DEF Table!Next
<1>4. CASE clear
  <2>1. Table!Clear
        BY <1>4 DEF clear, Table!Clear, LiveEntries
  <2> QED BY <2>1 DEF Table!Next
<1>5. CASE UNCHANGED vars
      BY <1>5 DEF vars, Table!vars, LiveEntries, Live
<1> QED BY <1>1, <1>2, <1>3, <1>4, <1>5 DEF Next

\* The scheduler of sched.rs implements the table of armings: a cancelled or
\* replaced arming never fires, and pops come in due order, ties as armed.
THEOREM Refinement == Spec => ImplementsTable
<1>1. Spec => Table!Spec
      BY InitRefines, NextRefines, Invariance, PTL DEF Spec, Table!Spec
<1> QED BY <1>1 DEF ImplementsTable
===============================================================================
