----------------------------- MODULE OltPort_proofs -----------------------------
(***************************************************************************)
(* Proofs about OltPort, for any queues, depths, delays and number of      *)
(* words in a frame: a frame is kept whole, in order and counted once from *)
(* the fibre to the firmware, nothing outlives its session, the firmware   *)
(* is told of every queue that holds a frame, and the guard is cleared.    *)
(*                                                                         *)
(* Order needs two facts more than it says: no number on its way or        *)
(* already taken is above the last one sent, so that the next frame comes  *)
(* behind all of them, and the frames waiting are finitely many, so that   *)
(* each that lands adds one to their count.                                *)
(***************************************************************************)
EXTENDS OltPort, FiniteSetTheorems, SequenceTheorems, WellFoundedInduction, TLAPS

Flying == [arrives_at : Nat, frame : Frame]

\* Order in a mailbox p, while the first k frames of q have left the fibre for it.
Ordered(p, q, k) ==
    /\ \A s \in Slot :
          /\ \A i \in DOMAIN p[s] : taken[s] < p[s][i].id
          /\ \A i, j \in DOMAIN p[s] : i < j => p[s][i].id < p[s][j].id
    /\ \A j \in DOMAIN q : k < j =>
          /\ taken[q[j].frame.slot] < q[j].frame.id
          /\ \A i \in DOMAIN p[q[j].frame.slot] : p[q[j].frame.slot][i].id < q[j].frame.id
          /\ \A i \in DOMAIN q : i < j => q[i].frame.id < q[j].frame.id

\* The frames of a mailbox and of a line are of one session and were all sent.
OfSession(p, session, last) ==
    \A s \in Slot : \A i \in DOMAIN p[s] : p[s][i].session = session /\ p[s][i].id <= last
LineOfSession(q, session, last) ==
    \A j \in DOMAIN q : q[j].frame.session = session /\ q[j].frame.id <= last

\* The parts of the state without frames.
Counters ==
    /\ wire_now \in 0..MaxTicks
    /\ link_up \in BOOLEAN /\ link_change_pending \in BOOLEAN
    /\ link_up_delay \in 0..LinkUpDelay
    /\ mailbox_bitmap \subseteq Slot /\ llid_store \subseteq Slot
    /\ frame_consumed \in BOOLEAN
    /\ guard_clear_countdown \in 0..(GuardDelay - 1)
    /\ sent \in 0..MaxFrames /\ flaps \in 0..MaxFlaps /\ told_down \in BOOLEAN
    /\ since_consumed \in 0..GuardDelay /\ guard_dirty \in BOOLEAN /\ guard_cleared \in BOOLEAN

\* The fibre and the mailbox.
Frames ==
    /\ downstream \in Seq(Flying) /\ last_arrival \in Nat
    /\ mailbox_pending \in [Slot -> Seq(Frame)]
    /\ queue_arrivals \in [Slot -> Nat] /\ handed \in [Slot -> Nat] /\ taken \in [Slot -> Nat]
    /\ IsFiniteSet(Waiting(mailbox_pending))
    /\ MailboxBounded
    /\ Ordered(mailbox_pending, downstream, 0)
    /\ OfSession(mailbox_pending, flaps, sent) /\ LineOfSession(downstream, flaps, sent)
    /\ \A s \in Slot : taken[s] <= sent

\* The read port.
Port ==
    /\ mailbox_fifo \in Seq(Word)
    /\ PortHoldsOneFrame
    /\ \A i \in DOMAIN mailbox_fifo : mailbox_fifo[i].session = flaps

PortInv == Counters /\ Frames /\ Port /\ FramesAreAnnounced /\ GuardClearIsOwed

--------------------------------------------------------------------------------
\* Numbers, finite sets and the recursion.

\* A set of numbers has a least one.
LEMMA LeastExists ==
    ASSUME NEW S, S \subseteq Nat, S # {} PROVE \E x \in S : \A y \in S : x <= y
<1> DEFINE R == OpToRel(<, Nat)
<1>1. IsWellFoundedOn(R, Nat)
      BY NatLessThanWellFounded
<1>2. \A x, y \in Nat : x < y => <<x, y>> \in R
      BY DEF OpToRel
<1> HIDE DEF R
<1>3. PICK x \in S : \A y \in S : <<y, x>> \notin R
      BY <1>1, WFMin
<1>4. ASSUME NEW y \in S PROVE x <= y
  <2>1. x \in Nat /\ y \in Nat /\ ~(y < x)
        BY <1>2, <1>3
  <2> QED BY <2>1
<1> QED BY <1>4

\* What holds of 0 and goes from each number to the next holds up to n: no number up
\* to n is the first for which it fails.
LEMMA NoFirstFailure ==
    ASSUME NEW n \in Nat, NEW Holds, 0 \in Holds,
           \A k \in 0..n : k # 0 /\ k - 1 \in Holds => k \in Holds
    PROVE  0..n \subseteq Holds
<1> DEFINE Failures == (0..n) \ Holds
<1>1. SUFFICES ASSUME Failures # {} PROVE FALSE
      OBVIOUS
<1>2. Failures \subseteq Nat
      OBVIOUS
<1>3. PICK k \in Failures : \A y \in Failures : k <= y
  <2> HIDE DEF Failures
  <2> QED BY <1>1, <1>2, LeastExists
<1>4. k \in 0..n /\ k # 0
      BY <1>3
<1>5. k - 1 \in 0..n /\ ~(k <= k - 1)
      BY <1>4
<1>6. k - 1 \notin Failures
  <2> HIDE DEF Failures
  <2> QED BY <1>3, <1>5
<1> QED BY <1>3, <1>4, <1>5, <1>6

\* Numbers up to n are finitely many.
LEMMA PartOfInterval ==
    ASSUME NEW n \in Nat, NEW K \in SUBSET (1..n)
    PROVE  IsFiniteSet(K) /\ Cardinality(K) \in Nat
<1>1. IsFiniteSet(1..n)
  <2>1. 1 \in Int /\ n \in Int
        OBVIOUS
  <2> QED BY <2>1, FS_Interval
<1>2. IsFiniteSet(K)
      BY <1>1, FS_Subset
<1> QED BY <1>2, FS_CardinalityType

\* The k-th number of a finite set is one of its members, with k members up to it.
LEMMA NthExists ==
    ASSUME NEW n \in Nat, NEW K \in SUBSET (1..n), NEW j \in 1..Cardinality(K)
    PROVE  \E k \in K : Cardinality({i \in K : i <= k}) = j
<1> DEFINE Found(J, c) == \E k \in J : Cardinality({i \in J : i <= k}) = c
           Holds == {m \in Nat : \A J \in SUBSET (1..m) : \A c \in 1..Cardinality(J) : Found(J, c)}
<1>1. 0 \in Holds
  <2>1. ASSUME NEW J \in SUBSET (1..0) PROVE 1..Cardinality(J) = {}
    <3>1. J = {}
          OBVIOUS
    <3>2. Cardinality(J) = 0
          BY <3>1, FS_EmptySet
    <3> QED BY <3>2
  <2> QED BY <2>1
<1>2. ASSUME NEW m \in 0..n, m # 0, m - 1 \in Holds PROVE m \in Holds
  <2>1. m \in Nat /\ m - 1 \in Nat
        BY <1>2
  <2>2. ASSUME NEW J \in SUBSET (1..m), NEW c \in 1..Cardinality(J) PROVE Found(J, c)
    <3>1. CASE m \notin J
      <4>1. J \in SUBSET (1..(m - 1))
            BY <2>1, <3>1
      <4> QED BY <1>2, <4>1
    <3>2. CASE m \in J
      <4> DEFINE I == J \ {m}
      <4>1. IsFiniteSet(J) /\ Cardinality(J) \in Nat
            BY <2>1, PartOfInterval
      <4>2. Cardinality(I) = Cardinality(J) - 1
            BY <3>2, <4>1, FS_RemoveElement
      <4>3. CASE c = Cardinality(J)
        <5>1. \A i \in J : i \in 1..m /\ i <= m
              BY <2>1
        <5>2. {i \in J : i <= m} = J
              BY <5>1
        <5> QED BY <3>2, <4>3, <5>2
      <4>4. CASE c # Cardinality(J)
        <5>1. c \in 1..Cardinality(I)
              BY <4>1, <4>2, <4>4
        <5>2. I \in SUBSET (1..(m - 1))
              BY <2>1
        <5> HIDE DEF I
        <5>3. PICK k \in I : Cardinality({i \in I : i <= k}) = c
              BY <1>2, <5>1, <5>2
        <5>4. k \in J /\ {i \in J : i <= k} = {i \in I : i <= k}
              BY <2>1, <5>2, <5>3 DEF I
        <5> QED BY <5>3, <5>4
      <4> QED BY <4>3, <4>4
    <3> QED BY <3>1, <3>2
  <2> QED BY <2>1, <2>2
<1> HIDE DEF Holds
<1>3. n \in 0..n /\ 0..n \subseteq Holds
      BY <1>1, <1>2, NoFirstFailure
<1> QED BY <1>3 DEF Holds

\* So Nth is what it says, and a later one is a larger one.
LEMMA NthIs ==
    ASSUME NEW n \in Nat, NEW K \in SUBSET (1..n)
    PROVE  /\ \A j \in 1..Cardinality(K) : Nth(K, j) \in K
           /\ \A i, j \in 1..Cardinality(K) : i < j => Nth(K, i) < Nth(K, j)
<1> DEFINE Upto(k) == {i \in K : i <= k}
<1>1. ASSUME NEW j \in 1..Cardinality(K) PROVE Nth(K, j) \in K /\ Cardinality(Upto(Nth(K, j))) = j
  <2>1. \E k \in K : Cardinality({i \in K : i <= k}) = j
        BY NthExists
  <2> QED BY <2>1 DEF Nth
<1>2. IsFiniteSet(K)
      BY PartOfInterval
<1>3. ASSUME NEW i \in 1..Cardinality(K), NEW j \in 1..Cardinality(K), i < j
      PROVE  Nth(K, i) < Nth(K, j)
  <2>1. Nth(K, i) \in 1..n /\ Nth(K, j) \in 1..n
        BY <1>1
  <2> SUFFICES ASSUME Nth(K, j) <= Nth(K, i) PROVE FALSE
      BY <2>1
  <2>2. Upto(Nth(K, j)) \in SUBSET Upto(Nth(K, i)) /\ Upto(Nth(K, i)) \in SUBSET K
    <3>1. \A x \in K : x \in Nat /\ (x <= Nth(K, j) => x <= Nth(K, i))
          BY <2>1
    <3> QED BY <3>1
  <2> HIDE DEF Upto
  <2>3. IsFiniteSet(Upto(Nth(K, i)))
        BY <1>2, <2>2, FS_Subset
  <2>6. Cardinality(Upto(Nth(K, j))) <= Cardinality(Upto(Nth(K, i)))
        BY <2>2, <2>3, FS_Subset
  <2>4. j <= i
        BY <1>1, <2>6
  <2>5. i \in Nat /\ j \in Nat
        BY PartOfInterval
  <2> QED BY <1>3, <2>4, <2>5
<1> QED BY <1>1, <1>3

--------------------------------------------------------------------------------
\* Frames that land.

\* The frames of a line that go to a queue, in the order of the line.
LEMMA ArrivalsAre ==
    ASSUME NEW q \in Seq(Flying), NEW n \in 0..Len(q), NEW s \in Slot
    PROVE  LET a == Arrivals(q, n, s)
               K == LandedFor(q, n, s)
           IN /\ a \in Seq(Frame) /\ Len(a) = Cardinality(K) /\ Cardinality(K) \in Nat
              /\ \A j \in 1..Len(a) : /\ Nth(K, j) \in 1..n /\ a[j] = q[Nth(K, j)].frame
                                      /\ q[Nth(K, j)].frame.slot = s
              /\ \A i, j \in 1..Len(a) : i < j => Nth(K, i) < Nth(K, j)
<1> DEFINE K == LandedFor(q, n, s)
           a == Arrivals(q, n, s)
<1>1. n \in Nat /\ K \in SUBSET (1..n)
      BY DEF LandedFor
<1>2. IsFiniteSet(K) /\ Cardinality(K) \in Nat
      BY <1>1, PartOfInterval
<1>3. /\ \A j \in 1..Cardinality(K) : Nth(K, j) \in K
      /\ \A i, j \in 1..Cardinality(K) : i < j => Nth(K, i) < Nth(K, j)
      BY <1>1, NthIs
<1>4. \A k \in K : k \in 1..n /\ k \in 1..Len(q) /\ q[k].frame.slot = s
      BY <1>1 DEF LandedFor
<1>5. a = [j \in 1..Cardinality(K) |-> q[Nth(K, j)].frame]
      BY DEF Arrivals
<1> HIDE DEF K, a
<1>6. \A j \in 1..Cardinality(K) : q[Nth(K, j)].frame \in Frame
  <2> TAKE j \in 1..Cardinality(K)
  <2>1. q[Nth(K, j)] \in Flying
        BY <1>3, <1>4, ElementOfSeq
  <2> QED BY <2>1 DEF Flying
<1>7. a \in Seq(Frame) /\ Len(a) = Cardinality(K)
      BY <1>2, <1>5, <1>6
<1> QED BY <1>2, <1>3, <1>4, <1>5, <1>7 DEF K, a

\* What a queue holds when frames have landed behind those that waited.
LEMMA Behind ==
    ASSUME NEW p \in Seq(Frame), NEW a \in Seq(Frame)
    PROVE  /\ p \o a \in Seq(Frame) /\ Len(p \o a) = Len(p) + Len(a)
           /\ Len(p) \in Nat /\ Len(a) \in Nat
           /\ DOMAIN (p \o a) = 1..(Len(p) + Len(a)) /\ DOMAIN p = 1..Len(p)
           /\ \A i \in 1..(Len(p) + Len(a)) :
                 \/ i \in 1..Len(p) /\ (p \o a)[i] = p[i]
                 \/ /\ i \notin 1..Len(p) /\ i - Len(p) \in 1..Len(a)
                    /\ (p \o a)[i] = a[i - Len(p)]
<1>1. /\ p \o a \in Seq(Frame) /\ Len(p \o a) = Len(p) + Len(a)
      /\ Len(p) \in Nat /\ Len(a) \in Nat
      /\ DOMAIN p = 1..Len(p) /\ DOMAIN (p \o a) = 1..Len(p \o a)
      BY ConcatProperties
<1>2. ASSUME NEW i \in 1..(Len(p) + Len(a))
      PROVE  \/ i \in 1..Len(p) /\ (p \o a)[i] = p[i]
             \/ /\ i \notin 1..Len(p) /\ i - Len(p) \in 1..Len(a)
                /\ (p \o a)[i] = a[i - Len(p)]
      BY <1>1, ConcatProperties
<1> QED BY <1>1, <1>2
\* The mailbox once the first n frames of q have landed.
Landed(p, q, n) == [s \in Slot |-> p[s] \o Arrivals(q, n, s)]

\* Where a frame of a filled queue comes from: it waited, or it was on the line.
ComesFrom(p, q, n, s) ==
    LET r == Landed(p, q, n)
        K == LandedFor(q, n, s)
    IN /\ Len(p[s]) \in Nat /\ Len(Arrivals(q, n, s)) \in Nat
       /\ Len(Arrivals(q, n, s)) = Cardinality(K)
       /\ Len(r[s]) = Len(p[s]) + Len(Arrivals(q, n, s))
       /\ DOMAIN r[s] = 1..Len(r[s]) /\ DOMAIN p[s] = 1..Len(p[s])
       /\ \A i \in 1..Len(r[s]) :
             \/ i \in 1..Len(p[s]) /\ r[s][i] = p[s][i]
             \/ /\ i \notin 1..Len(p[s]) /\ i - Len(p[s]) \in 1..Cardinality(K)
                /\ Nth(K, i - Len(p[s])) \in 1..n
                /\ r[s][i] = q[Nth(K, i - Len(p[s]))].frame
                /\ r[s][i].slot = s
       /\ \A i, j \in 1..Cardinality(K) : i < j => Nth(K, i) < Nth(K, j)

\* That is where they come from.
LEMMA WhereFrom ==
    ASSUME NEW p \in [Slot -> Seq(Frame)], NEW q \in Seq(Flying), NEW n \in 0..Len(q)
    PROVE  /\ Landed(p, q, n) \in [Slot -> Seq(Frame)]
           /\ \A s \in Slot : ComesFrom(p, q, n, s)
<1> DEFINE r == Landed(p, q, n)
<1>1. ASSUME NEW s \in Slot PROVE ComesFrom(p, q, n, s) /\ r[s] \in Seq(Frame)
  <2> DEFINE K == LandedFor(q, n, s)
             a == Arrivals(q, n, s)
  <2>1. /\ a \in Seq(Frame) /\ Len(a) = Cardinality(K) /\ Cardinality(K) \in Nat
        /\ \A j \in 1..Len(a) : /\ Nth(K, j) \in 1..n /\ a[j] = q[Nth(K, j)].frame
                                /\ q[Nth(K, j)].frame.slot = s
        /\ \A i, j \in 1..Len(a) : i < j => Nth(K, i) < Nth(K, j)
        BY ArrivalsAre
  <2>2. p[s] \in Seq(Frame) /\ r[s] = p[s] \o a
        BY DEF Landed
  <2> HIDE DEF K, a, r
  <2>3. /\ p[s] \o a \in Seq(Frame) /\ Len(p[s] \o a) = Len(p[s]) + Len(a)
        /\ Len(p[s]) \in Nat /\ Len(a) \in Nat
        /\ DOMAIN (p[s] \o a) = 1..(Len(p[s]) + Len(a)) /\ DOMAIN p[s] = 1..Len(p[s])
        /\ \A i \in 1..(Len(p[s]) + Len(a)) :
              \/ i \in 1..Len(p[s]) /\ (p[s] \o a)[i] = p[s][i]
              \/ /\ i \notin 1..Len(p[s]) /\ i - Len(p[s]) \in 1..Len(a)
                 /\ (p[s] \o a)[i] = a[i - Len(p[s])]
        BY <2>1, <2>2, Behind
  <2> QED BY <2>1, <2>2, <2>3 DEF K, a, r, ComesFrom
<1>2. r \in [Slot -> Seq(Frame)]
  <2>1. \A s \in Slot : r[s] = p[s] \o Arrivals(q, n, s)
        BY DEF Landed
  <2>2. r = [s \in Slot |-> r[s]]
        BY DEF Landed
  <2> HIDE DEF r
  <2> QED BY <1>1, <2>2
<1> QED BY <1>1, <1>2

\* Landing keeps the order and the session.
LEMMA LandingInOrder ==
    ASSUME NEW p \in [Slot -> Seq(Frame)], NEW q \in Seq(Flying), NEW n \in 0..Len(q),
           Ordered(p, q, 0), NEW session, NEW last,
           OfSession(p, session, last), LineOfSession(q, session, last)
    PROVE  Ordered(Landed(p, q, n), q, n) /\ OfSession(Landed(p, q, n), session, last)
<1> DEFINE r == Landed(p, q, n)
           K(s) == LandedFor(q, n, s)
<1>1. ASSUME NEW s \in Slot
      PROVE
         /\ Len(p[s]) \in Nat
         /\ DOMAIN r[s] = 1..Len(r[s]) /\ DOMAIN p[s] = 1..Len(p[s])
         /\ \A i \in 1..Len(r[s]) :
               \/ i \in 1..Len(p[s]) /\ r[s][i] = p[s][i]
               \/ /\ i \notin 1..Len(p[s]) /\ i - Len(p[s]) \in 1..Cardinality(K(s))
                  /\ Nth(K(s), i - Len(p[s])) \in 1..n
                  /\ r[s][i] = q[Nth(K(s), i - Len(p[s]))].frame /\ r[s][i].slot = s
         /\ \A i, j \in 1..Cardinality(K(s)) : i < j => Nth(K(s), i) < Nth(K(s), j)
  <2>1. ComesFrom(p, q, n, s)
        BY WhereFrom
  <2> QED BY <2>1 DEF ComesFrom
<1>2. /\ DOMAIN q = 1..Len(q) /\ Len(q) \in Nat /\ n \in Nat
      /\ \A k \in 1..n : k \in DOMAIN q /\ 0 < k
      BY LenProperties
<1> HIDE DEF r, K
<1>3. /\ \A s \in Slot : \A i \in 1..Len(p[s]) : taken[s] < p[s][i].id
      /\ \A s \in Slot : \A i, j \in 1..Len(p[s]) : i < j => p[s][i].id < p[s][j].id
      /\ \A j \in DOMAIN q : 0 < j =>
            /\ taken[q[j].frame.slot] < q[j].frame.id
            /\ \A i \in DOMAIN p[q[j].frame.slot] : p[q[j].frame.slot][i].id < q[j].frame.id
            /\ \A i \in DOMAIN q : i < j => q[i].frame.id < q[j].frame.id
      BY <1>1 DEF Ordered
<1>4. ASSUME NEW s \in Slot, NEW i \in 1..Len(r[s])
      PROVE  taken[s] < r[s][i].id /\ r[s][i].session = session /\ r[s][i].id <= last
  <2>1. CASE i \in 1..Len(p[s]) /\ r[s][i] = p[s][i]
        BY <1>1, <1>3, <2>1 DEF OfSession
  <2>2. ASSUME NEW k \in 1..n, r[s][i] = q[k].frame, r[s][i].slot = s
        PROVE  taken[s] < r[s][i].id /\ r[s][i].session = session /\ r[s][i].id <= last
        BY <1>2, <1>3, <2>2 DEF LineOfSession
  <2> QED BY <1>1, <2>1, <2>2
<1>5. ASSUME NEW s \in Slot, NEW i \in 1..Len(r[s]), NEW j \in 1..Len(r[s]), i < j
      PROVE  r[s][i].id < r[s][j].id
  <2>1. i \in Nat /\ j \in Nat
        OBVIOUS
  <2>2. CASE j \in 1..Len(p[s])
    <3>1. i \in 1..Len(p[s])
          BY <1>1, <1>5, <2>1, <2>2
    <3>2. r[s][i] = p[s][i] /\ r[s][j] = p[s][j]
          BY <1>1, <2>2, <3>1
    <3> QED BY <1>3, <1>5, <2>2, <3>1, <3>2
  <2>3. CASE j \notin 1..Len(p[s])
    <3> DEFINE l == Nth(K(s), j - Len(p[s]))
    <3>1. /\ j - Len(p[s]) \in 1..Cardinality(K(s)) /\ l \in 1..n
          /\ r[s][j] = q[l].frame /\ q[l].frame.slot = s
          BY <1>1, <2>3
    <3>2. CASE i \in 1..Len(p[s])
      <4>1. r[s][i] = p[s][i]
            BY <1>1, <3>2
      <4>2. l \in DOMAIN q /\ 0 < l
            BY <1>2, <3>1
      <4> HIDE DEF l
      <4>3. \A m \in DOMAIN p[s] : p[s][m].id < q[l].frame.id
            BY <1>3, <3>1, <4>2
      <4> QED BY <1>1, <3>1, <3>2, <4>1, <4>3
    <3>3. CASE i \notin 1..Len(p[s])
      <4> DEFINE k == Nth(K(s), i - Len(p[s]))
      <4>1. /\ i - Len(p[s]) \in 1..Cardinality(K(s)) /\ k \in 1..n /\ r[s][i] = q[k].frame
            BY <1>1, <3>3
      <4>2. i - Len(p[s]) < j - Len(p[s])
            BY <1>1, <1>5, <2>1
      <4>3. k < l
            BY <1>1, <3>1, <4>1, <4>2
      <4>4. k \in DOMAIN q /\ l \in DOMAIN q /\ 0 < l
            BY <1>2, <3>1, <4>1
      <4> HIDE DEF k, l
      <4> QED BY <1>3, <3>1, <4>1, <4>3, <4>4
    <3> QED BY <3>2, <3>3
  <2> QED BY <2>2, <2>3
<1>6. ASSUME NEW j \in DOMAIN q, n < j
      PROVE  /\ taken[q[j].frame.slot] < q[j].frame.id
             /\ \A i \in DOMAIN r[q[j].frame.slot] : r[q[j].frame.slot][i].id < q[j].frame.id
             /\ \A i \in DOMAIN q : i < j => q[i].frame.id < q[j].frame.id
  <2> DEFINE s == q[j].frame.slot
  <2>1. 0 < j /\ j \in Nat
        BY <1>2, <1>6
  <2>2. s \in Slot
    <3>1. q[j] \in Flying
          BY <1>2, ElementOfSeq
    <3> QED BY <3>1 DEF Flying, Frame
  <2>4. /\ taken[s] < q[j].frame.id
        /\ \A i \in DOMAIN p[s] : p[s][i].id < q[j].frame.id
        /\ \A i \in DOMAIN q : i < j => q[i].frame.id < q[j].frame.id
        BY <1>3, <2>1
  <2>5. DOMAIN r[s] = 1..Len(r[s]) /\ DOMAIN p[s] = 1..Len(p[s])
        BY <1>1, <2>2
  <2>3. ASSUME NEW i \in 1..Len(r[s]) PROVE r[s][i].id < q[j].frame.id
    <3>1. CASE i \in 1..Len(p[s]) /\ r[s][i] = p[s][i]
          BY <2>4, <2>5, <3>1
    <3>2. ASSUME NEW k \in 1..n, r[s][i] = q[k].frame
          PROVE  r[s][i].id < q[j].frame.id
      <4>1. k \in DOMAIN q /\ k < j
            BY <1>2, <1>6, <2>1
      <4> QED BY <2>4, <3>2, <4>1
    <3> HIDE DEF s
    <3> QED BY <1>1, <2>2, <3>1, <3>2
  <2> QED BY <2>3, <2>4, <2>5
<1>7. \A s \in Slot : DOMAIN r[s] = 1..Len(r[s])
      BY <1>1
<1>8. Ordered(r, q, n)
      BY <1>4, <1>5, <1>6, <1>7 DEF Ordered
<1>9. OfSession(r, session, last)
      BY <1>4, <1>7 DEF OfSession
<1> QED BY <1>8, <1>9 DEF r
\* A place in a mailbox is a queue and a position.
LEMMA PlaceIs ==
    ASSUME NEW p, NEW w
    PROVE  w \in Waiting(p) <=> \E s \in Slot : \E i \in DOMAIN p[s] : w = <<s, i>>
BY DEF Waiting

\* Every frame that lands takes one place, so that the count of those waiting grows by
\* no more than the number that landed.
LEMMA LandingCounted ==
    ASSUME NEW p \in [Slot -> Seq(Frame)], NEW q \in Seq(Flying), NEW n \in 0..Len(q),
           IsFiniteSet(Waiting(p))
    PROVE  LET r == Landed(p, q, n)
           IN /\ IsFiniteSet(Waiting(r))
              /\ total_pending_count(r) <= total_pending_count(p) + n
              /\ total_pending_count(r) \in Nat /\ total_pending_count(p) \in Nat
<1> DEFINE r == Landed(p, q, n)
           New == Waiting(r) \ Waiting(p)
           place(w) == Nth(LandedFor(q, n, w[1]), w[2] - Len(p[w[1]]))
           g == [w \in New |-> place(w)]
<1>1. ASSUME NEW w \in New
      PROVE  /\ w = <<w[1], w[2]>> /\ w[1] \in Slot /\ w[2] \in Nat /\ Len(p[w[1]]) \in Nat
             /\ w[2] - Len(p[w[1]]) \in 1..Cardinality(LandedFor(q, n, w[1]))
             /\ g[w] = place(w) /\ place(w) \in 1..n /\ q[place(w)].frame.slot = w[1]
  <2>1. PICK s \in Slot : \E i \in DOMAIN r[s] : w = <<s, i>>
        BY PlaceIs
  <2>2. PICK i \in DOMAIN r[s] : w = <<s, i>>
        BY <2>1
  <2>3. w[1] = s /\ w[2] = i /\ s \in Slot
        BY <2>1, <2>2
  <2>4. ComesFrom(p, q, n, s)
        BY <2>3, WhereFrom
  <2>5. i \notin DOMAIN p[s]
        BY <2>2, <2>3, PlaceIs
  <2> HIDE DEF r
  <2>6. /\ DOMAIN r[s] = 1..Len(r[s]) /\ DOMAIN p[s] = 1..Len(p[s]) /\ Len(p[s]) \in Nat
        /\ i - Len(p[s]) \in 1..Cardinality(LandedFor(q, n, s))
        /\ Nth(LandedFor(q, n, s), i - Len(p[s])) \in 1..n
        /\ q[Nth(LandedFor(q, n, s), i - Len(p[s]))].frame.slot = s
        BY <2>2, <2>4, <2>5 DEF ComesFrom, r
  <2>7. i \in Nat
        BY <2>2, <2>6
  <2> QED BY <2>2, <2>3, <2>6, <2>7
<1>2. ASSUME NEW v \in New, NEW w \in New, place(v) = place(w) PROVE v = w
  <2>1. v[1] = w[1]
        BY <1>1, <1>2
  <2> DEFINE s == v[1]
             K == LandedFor(q, n, s)
             i == v[2] - Len(p[s])
             j == w[2] - Len(p[s])
  <2>2. /\ i \in 1..Cardinality(K) /\ j \in 1..Cardinality(K) /\ s \in Slot
        /\ Nth(K, i) = Nth(K, j) /\ Nth(K, i) \in 1..n
        /\ v[2] \in Nat /\ w[2] \in Nat /\ Len(p[s]) \in Nat
        BY <1>1, <1>2, <2>1
  <2>3. \A a, b \in 1..Cardinality(K) : a < b => Nth(K, a) < Nth(K, b)
    <3>1. ComesFrom(p, q, n, s)
          BY <2>2, WhereFrom
    <3> QED BY <3>1 DEF ComesFrom
  <2> HIDE DEF K
  <2>4. ~(i < j) /\ ~(j < i)
    <3> HIDE DEF i, j
    <3>1. Nth(K, i) \in Nat
          BY <2>2
    <3>2. ~(Nth(K, i) < Nth(K, j)) /\ ~(Nth(K, j) < Nth(K, i))
          BY <2>2, <3>1
    <3> QED BY <2>2, <2>3, <3>2
  <2>5. v[2] = w[2]
        BY <2>2, <2>4
  <2> QED BY <1>1, <2>1, <2>5
<1>3. g \in Injection(New, 1..n)
  <2> HIDE DEF New, place
  <2>1. g \in [New -> 1..n]
        BY <1>1
  <2>2. \A v, w \in New : g[v] = g[w] => v = w
        BY <1>1, <1>2
  <2> HIDE DEF g
  <2> QED BY <2>1, <2>2 DEF Injection, IsInjective
<1>4. n \in Nat
      BY LenProperties
<1>5. IsFiniteSet(1..n) /\ Cardinality(1..n) = n
  <2>1. 1 \in Int /\ n \in Int
        BY <1>4
  <2> QED BY <1>4, <2>1, FS_Interval
<1> HIDE DEF g, New, r, place
<1>6. IsFiniteSet(New) /\ Cardinality(New) <= n /\ Cardinality(New) \in Nat
      BY <1>3, <1>5, FS_Injection, FS_CardinalityType
<1>7. /\ IsFiniteSet(Waiting(p) \cup New)
      /\ Cardinality(Waiting(p) \cup New)
            = Cardinality(Waiting(p)) + Cardinality(New) - Cardinality(Waiting(p) \cap New)
      /\ Cardinality(Waiting(p) \cap New) \in Nat /\ Cardinality(Waiting(p)) \in Nat
  <2>1. Waiting(p) \cap New \in SUBSET New
        OBVIOUS
  <2> QED BY <1>6, <2>1, FS_Union, FS_Subset, FS_CardinalityType
<1>8. Waiting(r) \in SUBSET (Waiting(p) \cup New)
      BY DEF New
<1>9. IsFiniteSet(Waiting(r)) /\ Cardinality(Waiting(r)) <= Cardinality(Waiting(p) \cup New)
      /\ Cardinality(Waiting(r)) \in Nat
      BY <1>7, <1>8, FS_Subset, FS_CardinalityType
<1>10. Cardinality(Waiting(p) \cup New) <= Cardinality(Waiting(p)) + n
       BY <1>4, <1>6, <1>7
<1>11. Cardinality(Waiting(p) \cup New) \in Nat
       BY <1>7, FS_CardinalityType
<1>12. Cardinality(Waiting(r)) <= Cardinality(Waiting(p)) + n
       BY <1>4, <1>7, <1>9, <1>10, <1>11
<1> QED BY <1>7, <1>9, <1>12 DEF total_pending_count, r

\* What stays on the fibre keeps its order behind what landed.
LEMMA UnloadedInOrder ==
    ASSUME NEW r, NEW q \in Seq(Flying), NEW n \in 0..Len(q), Ordered(r, q, n),
           NEW session, NEW last, LineOfSession(q, session, last)
    PROVE  /\ Unloaded(q, n) \in Seq(Flying) /\ Ordered(r, Unloaded(q, n), 0)
           /\ LineOfSession(Unloaded(q, n), session, last)
<1> DEFINE u == Unloaded(q, n)
<1>1. Len(q) \in Nat /\ n \in Nat /\ DOMAIN q = 1..Len(q) /\ n + 1 \in Int /\ Len(q) \in Int
      BY LenProperties
<1>2. \A i \in (n + 1)..Len(q) : q[i] \in Flying
      BY <1>1, ElementOfSeq
<1>3. /\ u \in Seq(Flying) /\ Len(u) = (IF n + 1 <= Len(q) THEN Len(q) - (n + 1) + 1 ELSE 0)
      /\ \A i \in 1..(Len(q) - (n + 1) + 1) : u[i] = q[(n + 1) + i - 1]
      BY <1>1, <1>2, SubSeqProperties DEF Unloaded
<1> HIDE DEF u
<1>4. Len(u) = Len(q) - n /\ DOMAIN u = 1..(Len(q) - n)
  <2>2. n <= Len(q)
        BY <1>1
  <2>1. Len(u) = Len(q) - n
    <3>1. CASE n + 1 <= Len(q)
          BY <1>1, <1>3, <3>1
    <3>2. CASE ~(n + 1 <= Len(q))
      <4> DEFINE l == Len(q)
      <4>0. l \in Nat /\ n \in Nat /\ n <= l /\ ~(n + 1 <= l)
            BY <1>1, <2>2, <3>2
      <4> HIDE DEF l
      <4>3. l = n
            BY <4>0
      <4>1. Len(q) - n = 0
            BY <4>0, <4>3 DEF l
      <4>2. Len(u) = 0
            BY <1>3, <3>2
      <4> QED BY <4>1, <4>2
    <3> QED BY <3>1, <3>2
  <2> QED BY <1>3, <2>1, LenProperties
<1>5. ASSUME NEW i \in DOMAIN u
      PROVE  u[i] = q[n + i] /\ n + i \in DOMAIN q /\ n < n + i /\ i \in Nat
  <2>1. i \in 1..(Len(q) - n) /\ i \in Nat
        BY <1>1, <1>4
  <2>2. Len(q) - (n + 1) + 1 = Len(q) - n /\ (n + 1) + i - 1 = n + i
        BY <1>1, <2>1
  <2>3. u[i] = q[n + i]
        BY <1>3, <2>1, <2>2
  <2> QED BY <1>1, <2>1, <2>3
<1>6. LineOfSession(u, session, last)
      BY <1>5 DEF LineOfSession
<1>7. Ordered(r, u, 0)
  <2>1. ASSUME NEW j \in DOMAIN u
        PROVE  /\ taken[u[j].frame.slot] < u[j].frame.id
               /\ \A i \in DOMAIN r[u[j].frame.slot] : r[u[j].frame.slot][i].id < u[j].frame.id
        BY <1>5 DEF Ordered
  <2>2. ASSUME NEW j \in DOMAIN u, NEW i \in DOMAIN u, i < j
        PROVE  u[i].frame.id < u[j].frame.id
    <3>1. n + i < n + j
          BY <1>1, <1>5, <2>2
    <3> QED BY <1>5, <3>1 DEF Ordered
  <2> QED BY <2>1, <2>2 DEF Ordered
<1> QED BY <1>3, <1>6, <1>7 DEF u
--------------------------------------------------------------------------------
\* Steps.

\* What the peer or the host sends: nothing, or one frame for some queue.
Outputs == {<<>>} \cup {<<s>> : s \in Slot}

\* A frame that is sent comes behind all that were sent before, or is dropped.
LEMMA LineGood ==
    ASSUME Frames, Counters, NEW out \in Outputs, NEW at \in Nat
    PROVE  /\ Line(out, at) \in Seq(Flying) /\ LastArrival(out, at) \in Nat
           /\ Len(out) \in 0..1
           /\ Ordered(mailbox_pending, Line(out, at), 0)
           /\ LineOfSession(Line(out, at), flaps, sent + Len(out))
           /\ OfSession(mailbox_pending, flaps, sent + Len(out))
<1> DEFINE q == Line(out, at)
           f == NewFrame(out[1])
           e == InFlight(f, LastArrival(out, at))
<1>1. /\ downstream \in Seq(Flying) /\ mailbox_pending \in [Slot -> Seq(Frame)]
      /\ sent \in Nat /\ flaps \in Nat /\ last_arrival \in Nat
      /\ DOMAIN downstream = 1..Len(downstream) /\ Len(downstream) \in Nat
      BY LenProperties DEF Frames, Counters
<1>2. LastArrival(out, at) \in Nat
      BY <1>1, FibreAssumption DEF LastArrival, arrival, Later
<1>3. Len(out) \in 0..1 /\ (out # <<>> => out[1] \in Slot /\ Len(out) = 1)
      BY DEF Outputs
<1>4. \A s \in Slot : DOMAIN mailbox_pending[s] = 1..Len(mailbox_pending[s])
                      /\ \A i \in DOMAIN mailbox_pending[s] : mailbox_pending[s][i].id \in Nat
  <2> TAKE s \in Slot
  <2>1. \A i \in 1..Len(mailbox_pending[s]) : mailbox_pending[s][i] \in Frame
        BY <1>1, ElementOfSeq
  <2> QED BY <1>1, <2>1, LenProperties DEF Frame
<1>5. \A j \in DOMAIN downstream : downstream[j].frame.id \in Nat
  <2>1. \A j \in DOMAIN downstream : downstream[j] \in Flying
        BY <1>1, ElementOfSeq
  <2> QED BY <2>1 DEF Flying, Frame
<1>6. OfSession(mailbox_pending, flaps, sent + Len(out))
      BY <1>1, <1>3, <1>4 DEF Frames, OfSession
<1>7. CASE q = downstream
  <2>1. LineOfSession(q, flaps, sent + Len(out))
        BY <1>1, <1>3, <1>5, <1>7 DEF Frames, LineOfSession
  <2> QED BY <1>1, <1>2, <1>3, <1>6, <1>7, <2>1 DEF Frames
<1>8. CASE out # <<>> /\ q = Append(downstream, e)
  <2>1. f.id = sent + 1 /\ f.slot = out[1] /\ f.session = flaps /\ f \in Frame
        BY <1>1, <1>3, <1>8 DEF NewFrame, Frame
  <2>2. e \in Flying /\ e.frame = f
        BY <1>2, <2>1 DEF InFlight, Flying
  <2> HIDE DEF e, f, q
  <2>3. /\ q \in Seq(Flying) /\ DOMAIN q = 1..(Len(downstream) + 1)
        /\ q[Len(downstream) + 1] = e
        /\ \A j \in DOMAIN downstream : q[j] = downstream[j]
        BY <1>1, <1>8, <2>2
  <2>4. \A j \in DOMAIN q : j \in DOMAIN downstream \/ j = Len(downstream) + 1
        BY <1>1, <2>3
  <2>5. LineOfSession(q, flaps, sent + Len(out))
        BY <1>1, <1>3, <1>5, <1>8, <2>1, <2>2, <2>3, <2>4 DEF Frames, LineOfSession
  <2>6. Ordered(mailbox_pending, q, 0)
    <3>1. ASSUME NEW s \in Slot
          PROVE  /\ \A i \in DOMAIN mailbox_pending[s] : taken[s] < mailbox_pending[s][i].id
                 /\ \A i, j \in DOMAIN mailbox_pending[s] :
                       i < j => mailbox_pending[s][i].id < mailbox_pending[s][j].id
          BY DEF Frames, Ordered
    <3>2. ASSUME NEW j \in DOMAIN downstream, 0 < j
          PROVE  /\ taken[q[j].frame.slot] < q[j].frame.id
                 /\ \A i \in DOMAIN mailbox_pending[q[j].frame.slot] :
                        mailbox_pending[q[j].frame.slot][i].id < q[j].frame.id
          BY <2>3, <3>2 DEF Frames, Ordered
    <3>3. ASSUME NEW j \in DOMAIN downstream, 0 < j, NEW i \in DOMAIN q, i < j
          PROVE  q[i].frame.id < q[j].frame.id
      <4>1. i \in DOMAIN downstream
            BY <1>1, <2>3, <2>4, <3>3
      <4> QED BY <2>3, <3>3, <4>1 DEF Frames, Ordered
    <3>4. ASSUME NEW j, j = Len(downstream) + 1
          PROVE  /\ taken[q[j].frame.slot] < q[j].frame.id
                 /\ \A i \in DOMAIN mailbox_pending[q[j].frame.slot] :
                        mailbox_pending[q[j].frame.slot][i].id < q[j].frame.id
                 /\ \A i \in DOMAIN q : i < j => q[i].frame.id < q[j].frame.id
      <4>1. q[j].frame = f /\ f.id = sent + 1 /\ f.slot \in Slot
            BY <1>3, <1>8, <2>1, <2>2, <2>3, <3>4
      <4>2. taken[f.slot] \in Nat /\ taken[f.slot] <= sent
            BY <4>1 DEF Frames
      <4>3. \A i \in DOMAIN mailbox_pending[f.slot] : mailbox_pending[f.slot][i].id <= sent
            BY <4>1 DEF Frames, OfSession
      <4>4. \A i \in DOMAIN downstream : downstream[i].frame.id <= sent
            BY DEF Frames, LineOfSession
      <4>5. \A i \in DOMAIN q : i < j => i \in DOMAIN downstream
            BY <1>1, <2>3, <2>4, <3>4
      <4> QED BY <1>1, <1>4, <1>5, <2>3, <4>1, <4>2, <4>3, <4>4, <4>5
    <3> QED BY <2>4, <3>1, <3>2, <3>3, <3>4 DEF Ordered
  <2> QED BY <1>2, <1>3, <1>6, <2>3, <2>5, <2>6 DEF q
<1> QED BY <1>7, <1>8 DEF Line

\* What lands fits.
LEMMA LoadedFits ==
    ASSUME Frames, NEW q \in Seq(Flying), NEW now
    PROVE  /\ Loaded(q, now) \in 0..Len(q)
           /\ total_pending_count(mailbox_pending) + Loaded(q, now) <= MailboxDepth
<1> DEFINE N == {n \in 0..Len(q) : /\ total_pending_count(mailbox_pending) + n <= MailboxDepth
                                   /\ \A i \in 1..n : q[i].arrives_at <= now}
           T == {Len(q) - n : n \in N}
<1>1. Len(q) \in Nat /\ total_pending_count(mailbox_pending) \in Nat
      /\ total_pending_count(mailbox_pending) <= MailboxDepth
      BY LenProperties, FS_CardinalityType DEF Frames, MailboxBounded, total_pending_count
<1>2. 0 \in N
      BY <1>1
<1>3. T \subseteq Nat /\ T # {}
  <2>1. \A n \in N : Len(q) - n \in Nat
        BY <1>1
  <2> QED BY <1>2, <2>1
<1>4. PICK t \in T : \A y \in T : t <= y
  <2> HIDE DEF T
  <2> QED BY <1>3, LeastExists
<1>5. PICK n \in N : t = Len(q) - n
      BY <1>4
<1>6. \A m \in N : n >= m
  <2> TAKE m \in N
  <2>1. Len(q) - n <= Len(q) - m
        BY <1>4, <1>5
  <2>2. n \in Nat /\ m \in Nat
        OBVIOUS
  <2> HIDE DEF N
  <2> QED BY <1>1, <2>1, <2>2
<1>7. Max(N) \in N
  <2> HIDE DEF N
  <2> QED BY <1>5, <1>6 DEF Max
<1>8. Loaded(q, now) = Max(N)
      BY DEF Loaded
<1> QED BY <1>7, <1>8
\* A tick keeps every frame: what it sends goes to the end of the line, what has landed
\* and fits goes to the end of its queue, the rest stays.
LEMMA TickKeepsFrames ==
    ASSUME PortInv, NEW out \in Outputs, NEW at \in Nat, tick(out, at) PROVE Frames'
<1> DEFINE q == Line(out, at)
           n == Loaded(q, wire_now + 1)
           r == Landed(mailbox_pending, q, n)
           u == Unloaded(q, n)
           last == sent + Len(out)
<1>1. /\ q \in Seq(Flying) /\ LastArrival(out, at) \in Nat
      /\ Ordered(mailbox_pending, q, 0) /\ LineOfSession(q, flaps, last)
      /\ OfSession(mailbox_pending, flaps, last) /\ Len(out) \in 0..1
      BY LineGood DEF PortInv
<1>2. /\ last_arrival' = LastArrival(out, at) /\ downstream' = u /\ mailbox_pending' = r
      /\ queue_arrivals' = [s \in Slot |-> queue_arrivals[s] + Len(Arrivals(q, n, s))]
      /\ sent' = last /\ UNCHANGED <<flaps, taken, handed>>
      BY DEF tick, Landed
<1>3. mailbox_pending \in [Slot -> Seq(Frame)] /\ IsFiniteSet(Waiting(mailbox_pending))
      /\ queue_arrivals \in [Slot -> Nat] /\ handed \in [Slot -> Nat] /\ taken \in [Slot -> Nat]
      /\ \A s \in Slot : taken[s] <= sent /\ queue_arrivals[s] = handed[s] + Len(mailbox_pending[s])
      /\ sent \in Nat
      BY DEF PortInv, Frames, MailboxBounded, Counters
<1> HIDE DEF q
<1>4. n \in 0..Len(q) /\ total_pending_count(mailbox_pending) + n <= MailboxDepth
      BY <1>1, LoadedFits DEF PortInv
<1> HIDE DEF n
<1>5. r \in [Slot -> Seq(Frame)] /\ \A s \in Slot : ComesFrom(mailbox_pending, q, n, s)
      BY <1>1, <1>3, <1>4, WhereFrom
<1>6. Ordered(r, q, n) /\ OfSession(r, flaps, last)
      BY <1>1, <1>3, <1>4, LandingInOrder
<1>7. /\ IsFiniteSet(Waiting(r))
      /\ total_pending_count(r) <= total_pending_count(mailbox_pending) + n
      /\ total_pending_count(r) \in Nat /\ total_pending_count(mailbox_pending) \in Nat
      BY <1>1, <1>3, <1>4, LandingCounted
<1>8. u \in Seq(Flying) /\ Ordered(r, u, 0) /\ LineOfSession(u, flaps, last)
      BY <1>1, <1>4, <1>6, UnloadedInOrder
<1>9. \A s \in Slot : /\ Len(r[s]) = Len(mailbox_pending[s]) + Len(Arrivals(q, n, s))
                      /\ Len(Arrivals(q, n, s)) \in Nat /\ Len(mailbox_pending[s]) \in Nat
      BY <1>5 DEF ComesFrom
<1> HIDE DEF r, u
<1>10. queue_arrivals' \in [Slot -> Nat]
       /\ \A s \in Slot : queue_arrivals'[s] = handed[s] + Len(r[s])
  <2>1. ASSUME NEW s \in Slot
        PROVE  /\ queue_arrivals[s] + Len(Arrivals(q, n, s)) \in Nat
               /\ queue_arrivals[s] + Len(Arrivals(q, n, s)) = handed[s] + Len(r[s])
        BY <1>3, <1>9
  <2> QED BY <1>2, <2>1
<1>11. total_pending_count(r) <= MailboxDepth
  <2>1. n \in Nat /\ MailboxDepth \in Nat
        BY <1>1, <1>4, PortAssumption, LenProperties
  <2> QED BY <1>4, <1>7, <2>1
<1>12. MailboxBounded'
       BY <1>2, <1>10, <1>11 DEF MailboxBounded, total_pending_count, Waiting
<1>13. Ordered(mailbox_pending, downstream, 0)'
       BY <1>2, <1>8 DEF Ordered
<1>14. OfSession(mailbox_pending, flaps, sent)' /\ LineOfSession(downstream, flaps, sent)'
       BY <1>2, <1>6, <1>8 DEF OfSession, LineOfSession
<1>15. IsFiniteSet(Waiting(mailbox_pending))'
       BY <1>2, <1>7 DEF Waiting
<1>16. \A s \in Slot : taken'[s] <= sent'
  <2> DEFINE l == Len(out)
  <2>5. sent \in Nat
        BY DEF PortInv, Counters
  <2>6. l \in 0..1
        BY <1>1
  <2>2. sent \in Nat /\ l \in 0..1
        BY <2>5, <2>6
  <2> HIDE DEF l
  <2>3. sent + l \in Nat /\ sent <= sent + l
        BY <2>2
  <2>1. last \in Nat /\ sent <= last
        BY <2>3 DEF l
  <2>4. \A s \in Slot : taken[s] \in Nat /\ taken[s] <= sent
        BY <1>3
  <2> HIDE DEF last
  <2> QED BY <1>2, <2>1, <2>2, <2>4
<1> QED BY <1>1, <1>2, <1>3, <1>5, <1>8, <1>10, <1>12, <1>13, <1>14, <1>15, <1>16 DEF Frames

\* A frame sent outside a tick.
LEMMA CarryKeepsFrames ==
    ASSUME PortInv, NEW slot \in Slot, carry_downstream(slot) PROVE Frames'
<1> DEFINE out == <<slot>>
           q == Line(out, wire_now)
<1>1. out \in Outputs /\ wire_now \in Nat /\ Len(out) = 1
      BY DEF Outputs, PortInv, Counters
<1> HIDE DEF out
<1>2. /\ q \in Seq(Flying) /\ LastArrival(out, wire_now) \in Nat
      /\ Ordered(mailbox_pending, q, 0) /\ LineOfSession(q, flaps, sent + 1)
      /\ OfSession(mailbox_pending, flaps, sent + 1)
      BY <1>1, LineGood DEF PortInv
<1>3. /\ last_arrival' = LastArrival(out, wire_now) /\ downstream' = q
      /\ sent' = sent + 1
      /\ UNCHANGED <<mailbox_pending, queue_arrivals, flaps, taken, handed>>
      BY DEF carry_downstream, out, mailbox
<1> HIDE DEF q
<1>4. Ordered(mailbox_pending, downstream, 0)'
      BY <1>2, <1>3 DEF Ordered
<1>5. OfSession(mailbox_pending, flaps, sent)' /\ LineOfSession(downstream, flaps, sent)'
      BY <1>2, <1>3 DEF OfSession, LineOfSession
<1>6. MailboxBounded' /\ IsFiniteSet(Waiting(mailbox_pending))'
      BY <1>3 DEF PortInv, Frames, MailboxBounded, total_pending_count, Waiting
<1>7. \A s \in Slot : taken'[s] <= sent'
  <2>1. \A s \in Slot : taken[s] \in Nat /\ taken[s] <= sent
        BY DEF PortInv, Frames
  <2> QED BY <1>3, <2>1 DEF PortInv, Counters
<1> QED BY <1>2, <1>3, <1>4, <1>5, <1>6, <1>7 DEF PortInv, Frames

\* A read command takes the frame at the head of a queue, or nothing.
LEMMA ReadKeepsFrames ==
    ASSUME PortInv, NEW slot \in Slot, write_cmd(slot) PROVE Frames'
<1>1. /\ mailbox_pending' = [mailbox_pending EXCEPT ![slot] = IF @ = <<>> THEN @ ELSE Tail(@)]
      /\ taken' = [taken EXCEPT ![slot] = IF mailbox_pending[slot] = <<>> THEN @
                                          ELSE Head(mailbox_pending[slot]).id]
      /\ handed' = [handed EXCEPT ![slot] = IF mailbox_pending[slot] = <<>> THEN @ ELSE @ + 1]
      /\ UNCHANGED <<downstream, last_arrival, queue_arrivals, sent, flaps>>
      BY DEF write_cmd, line
<1>2. /\ mailbox_pending \in [Slot -> Seq(Frame)] /\ taken \in [Slot -> Nat]
      /\ handed \in [Slot -> Nat] /\ queue_arrivals \in [Slot -> Nat]
      /\ \A s \in Slot : taken[s] <= sent
      BY DEF PortInv, Frames
<1>3. CASE mailbox_pending[slot] = <<>>
  <2>1. mailbox_pending' = mailbox_pending /\ taken' = taken /\ handed' = handed
        BY <1>1, <1>2, <1>3
  <2>2. Ordered(mailbox_pending, downstream, 0)'
        BY <1>1, <2>1 DEF PortInv, Frames, Ordered
  <2>3. OfSession(mailbox_pending, flaps, sent)' /\ LineOfSession(downstream, flaps, sent)'
        BY <1>1, <2>1 DEF PortInv, Frames, OfSession, LineOfSession
  <2>4. MailboxBounded' /\ IsFiniteSet(Waiting(mailbox_pending))'
    <3>1. Waiting(mailbox_pending)' = Waiting(mailbox_pending)
          BY <2>1 DEF Waiting
    <3>2. IsFiniteSet(Waiting(mailbox_pending)) /\ MailboxBounded
          BY DEF PortInv, Frames
    <3> QED BY <1>1, <2>1, <3>1, <3>2 DEF MailboxBounded, total_pending_count
  <2> QED BY <1>1, <1>2, <2>1, <2>2, <2>3, <2>4 DEF PortInv, Frames
<1>4. CASE mailbox_pending[slot] # <<>>
  <2> DEFINE h == mailbox_pending[slot]
             t == Tail(h)
  <2>1. /\ h \in Seq(Frame) /\ Len(h) \in Nat /\ Len(h) # 0 /\ DOMAIN h = 1..Len(h)
        /\ Head(h) = h[1] /\ 1 \in DOMAIN h
        BY <1>2, <1>4, EmptySeq, LenProperties
  <2>2. /\ t \in Seq(Frame) /\ Len(t) = Len(h) - 1 /\ DOMAIN t = 1..(Len(h) - 1)
        /\ \A i \in 1..(Len(h) - 1) : t[i] = h[i + 1] /\ i + 1 \in DOMAIN h /\ 1 < i + 1
        BY <1>4, <2>1
  <2> HIDE DEF h, t
  <2>3. /\ mailbox_pending' = [mailbox_pending EXCEPT ![slot] = t]
        /\ taken' = [taken EXCEPT ![slot] = h[1].id]
        /\ handed' = [handed EXCEPT ![slot] = @ + 1]
        BY <1>1, <1>4, <2>1 DEF h, t
  <2>4. h[1].id \in Nat /\ \A i \in DOMAIN h : h[i] \in Frame
    <3>1. \A i \in DOMAIN h : h[i] \in Frame
          BY <2>1, ElementOfSeq
    <3>2. h[1] \in Frame
          BY <2>1, <3>1
    <3>3. h[1].id \in Nat
          BY <3>2 DEF Frame
    <3> QED BY <3>1, <3>3
  <2>5. /\ mailbox_pending' \in [Slot -> Seq(Frame)] /\ taken' \in [Slot -> Nat]
        /\ handed' \in [Slot -> Nat]
        /\ \A s \in Slot : s # slot => /\ mailbox_pending'[s] = mailbox_pending[s]
                                       /\ taken'[s] = taken[s] /\ handed'[s] = handed[s]
        /\ mailbox_pending'[slot] = t /\ taken'[slot] = h[1].id /\ handed'[slot] = handed[slot] + 1
        BY <1>2, <2>2, <2>3, <2>4
  <2>6. Waiting(mailbox_pending)' \in SUBSET Waiting(mailbox_pending)
    <3>1. Waiting(mailbox_pending)' = UNION {{s} \X DOMAIN mailbox_pending'[s] : s \in Slot}
          BY DEF Waiting
    <3>2. \A s \in Slot : DOMAIN mailbox_pending'[s] \subseteq DOMAIN mailbox_pending[s]
      <4>1. DOMAIN t \subseteq DOMAIN h
            BY <2>1, <2>2
      <4> QED BY <2>5, <4>1 DEF h
    <3> QED BY <3>1, <3>2 DEF Waiting
  <2>7. /\ IsFiniteSet(Waiting(mailbox_pending))'
        /\ total_pending_count(mailbox_pending)' <= MailboxDepth
    <3>1. IsFiniteSet(Waiting(mailbox_pending)) /\ Cardinality(Waiting(mailbox_pending)) <= MailboxDepth
          BY DEF PortInv, Frames, MailboxBounded, total_pending_count
    <3>2. /\ IsFiniteSet(Waiting(mailbox_pending)')
          /\ Cardinality(Waiting(mailbox_pending)') <= Cardinality(Waiting(mailbox_pending))
          /\ Cardinality(Waiting(mailbox_pending)') \in Nat
          /\ Cardinality(Waiting(mailbox_pending)) \in Nat
          BY <2>6, <3>1, FS_Subset, FS_CardinalityType
    <3> QED BY <3>1, <3>2, PortAssumption DEF total_pending_count
  <2>8. \A s \in Slot : queue_arrivals'[s] = handed'[s] + Len(mailbox_pending'[s])
    <3> TAKE s \in Slot
    <3>1. queue_arrivals[s] = handed[s] + Len(mailbox_pending[s]) /\ handed[s] \in Nat
          BY DEF PortInv, Frames, MailboxBounded
    <3>2. CASE s = slot
          BY <1>1, <2>1, <2>2, <2>5, <3>1, <3>2 DEF h
    <3>3. CASE s # slot
          BY <1>1, <2>5, <3>1, <3>3
    <3> QED BY <3>2, <3>3
  <2>9. MailboxBounded'
        BY <2>7, <2>8 DEF MailboxBounded
  <2>10. /\ \A i \in DOMAIN h : h[i].session = flaps /\ h[i].id <= sent
         /\ \A i, j \in DOMAIN h : i < j => h[i].id < h[j].id
         /\ \A j \in DOMAIN downstream : 0 < j /\ downstream[j].frame.slot = slot =>
                \A i \in DOMAIN h : h[i].id < downstream[j].frame.id
         BY DEF PortInv, Frames, OfSession, Ordered, h
  <2>11. OfSession(mailbox_pending, flaps, sent)' /\ LineOfSession(downstream, flaps, sent)'
    <3>1. \A s \in Slot : \A i \in DOMAIN mailbox_pending'[s] :
              mailbox_pending'[s][i].session = flaps /\ mailbox_pending'[s][i].id <= sent
      <4> TAKE s \in Slot
      <4>1. CASE s = slot
        <5>1. \A i \in DOMAIN t : t[i].session = flaps /\ t[i].id <= sent
              BY <2>2, <2>10
        <5> QED BY <2>5, <4>1, <5>1
      <4>2. CASE s # slot
            BY <2>5, <4>2 DEF PortInv, Frames, OfSession
      <4> QED BY <4>1, <4>2
    <3> QED BY <1>1, <3>1 DEF PortInv, Frames, OfSession, LineOfSession
  <2>12. \A s \in Slot : taken'[s] <= sent'
         BY <1>1, <1>2, <2>1, <2>5, <2>10
  <2>13. Ordered(mailbox_pending, downstream, 0)'
    <3>1. ASSUME NEW s \in Slot
          PROVE  /\ \A i \in DOMAIN mailbox_pending'[s] : taken'[s] < mailbox_pending'[s][i].id
                 /\ \A i, j \in DOMAIN mailbox_pending'[s] :
                       i < j => mailbox_pending'[s][i].id < mailbox_pending'[s][j].id
      <4>1. CASE s # slot
            BY <2>5, <4>1 DEF PortInv, Frames, Ordered
      <4>2. CASE s = slot
        <5>1. \A i \in DOMAIN t : h[1].id < t[i].id
              BY <2>1, <2>2, <2>10
        <5>2. \A i, j \in DOMAIN t : i < j => t[i].id < t[j].id
          <6> TAKE i, j \in DOMAIN t
          <6>1. i \in Nat /\ j \in Nat /\ (i < j => i + 1 < j + 1)
                BY <2>2
          <6> QED BY <2>2, <2>10, <6>1
        <5> QED BY <2>5, <4>2, <5>1, <5>2
      <4> QED BY <4>1, <4>2
    <3>2. ASSUME NEW j \in DOMAIN downstream, 0 < j
          PROVE  /\ taken'[downstream[j].frame.slot] < downstream[j].frame.id
                 /\ \A i \in DOMAIN mailbox_pending'[downstream[j].frame.slot] :
                        mailbox_pending'[downstream[j].frame.slot][i].id < downstream[j].frame.id
      <4> DEFINE s == downstream[j].frame.slot
      <4>1. s \in Slot
        <5>1. downstream[j] \in Flying
              BY ElementOfSeq DEF PortInv, Frames
        <5> QED BY <5>1 DEF Flying, Frame
      <4>2. CASE s # slot
            BY <2>5, <3>2, <4>1, <4>2 DEF PortInv, Frames, Ordered
      <4>3. CASE s = slot
        <5>1. \A i \in DOMAIN h : h[i].id < downstream[j].frame.id
              BY <2>10, <3>2, <4>3
        <5>2. \A i \in DOMAIN t : t[i].id < downstream[j].frame.id
              BY <2>2, <5>1
        <5> QED BY <2>1, <2>5, <4>3, <5>1, <5>2
      <4> QED BY <4>2, <4>3
    <3>3. \A j \in DOMAIN downstream : 0 < j =>
              \A i \in DOMAIN downstream : i < j => downstream[i].frame.id < downstream[j].frame.id
          BY DEF PortInv, Frames, Ordered
    <3> QED BY <1>1, <3>1, <3>2, <3>3 DEF Ordered
  <2> QED BY <1>1, <2>5, <2>7, <2>9, <2>11, <2>12, <2>13 DEF PortInv, Frames
<1> QED BY <1>3, <1>4
\* A step that touches neither the fibre nor the mailbox.
LEMMA FramesStay ==
    ASSUME Frames,
           UNCHANGED <<downstream, last_arrival, mailbox_pending, queue_arrivals, handed, taken,
                       flaps, sent>>
    PROVE  Frames'
<1>1. Waiting(mailbox_pending)' = Waiting(mailbox_pending)
      BY DEF Waiting
<1>2. MailboxBounded' /\ IsFiniteSet(Waiting(mailbox_pending))'
      BY <1>1 DEF Frames, MailboxBounded, total_pending_count
<1>3. Ordered(mailbox_pending, downstream, 0)'
      BY DEF Frames, Ordered
<1>4. OfSession(mailbox_pending, flaps, sent)' /\ LineOfSession(downstream, flaps, sent)'
      BY DEF Frames, OfSession, LineOfSession
<1> QED BY <1>2, <1>3, <1>4 DEF Frames

\* A step that empties both, if what was waiting is counted as lost.
LEMMA EmptiedKeepsFrames ==
    ASSUME Frames, downstream' = <<>>, last_arrival' = 0,
           mailbox_pending' = [s \in Slot |-> <<>>],
           UNCHANGED <<sent, taken>>,
           handed' \in [Slot -> Nat], queue_arrivals' \in [Slot -> Nat],
           \A s \in Slot : queue_arrivals'[s] = handed'[s]
    PROVE  Frames'
<1>1. mailbox_pending' \in [Slot -> Seq(Frame)] /\ downstream' \in Seq(Flying)
      /\ \A s \in Slot : mailbox_pending'[s] = <<>>
      OBVIOUS
<1>2. DOMAIN <<>> = {} /\ Len(<<>>) = 0
      OBVIOUS
<1>3. Waiting(mailbox_pending)' = {}
      BY <1>1, <1>2 DEF Waiting
<1>4. IsFiniteSet(Waiting(mailbox_pending))' /\ total_pending_count(mailbox_pending)' = 0
      BY <1>3, FS_EmptySet DEF total_pending_count
<1>5. MailboxBounded'
  <2>1. \A s \in Slot : queue_arrivals'[s] = handed'[s] + Len(mailbox_pending'[s])
        BY <1>1, <1>2
  <2> QED BY <1>4, <2>1, PortAssumption DEF MailboxBounded
<1>6. Ordered(mailbox_pending, downstream, 0)'
      BY <1>1, <1>2 DEF Ordered
<1>7. OfSession(mailbox_pending, flaps, sent)' /\ LineOfSession(downstream, flaps, sent)'
      BY <1>1, <1>2 DEF OfSession, LineOfSession
<1> QED BY <1>1, <1>4, <1>5, <1>6, <1>7 DEF Frames

\* An instruction about the link: down loses what is under way and counts what waited.
LEMMA LinkKeepsFrames ==
    ASSUME PortInv, NEW up \in BOOLEAN, set_link_up(up) PROVE Frames'
<1>1. CASE UNCHANGED <<line, mailbox, flaps, handed>>
      BY <1>1, FramesStay DEF set_link_up, line, mailbox, PortInv
<1>2. CASE ~UNCHANGED <<line, mailbox, flaps, handed>>
  <2>1. /\ downstream' = <<>> /\ last_arrival' = 0
        /\ handed' = [s \in Slot |-> handed[s] + Len(mailbox_pending[s])]
        /\ mailbox_pending' = [s \in Slot |-> <<>>]
        /\ UNCHANGED <<queue_arrivals, sent, taken>>
        BY <1>2 DEF set_link_up
  <2>2. Frames
        BY DEF PortInv
  <2>3. \A s \in Slot : /\ queue_arrivals[s] = handed[s] + Len(mailbox_pending[s])
                        /\ handed[s] + Len(mailbox_pending[s]) \in Nat
    <3> TAKE s \in Slot
    <3>1. queue_arrivals[s] = handed[s] + Len(mailbox_pending[s]) /\ queue_arrivals[s] \in Nat
          BY <2>2 DEF Frames, MailboxBounded
    <3> QED BY <3>1
  <2>4. /\ handed' \in [Slot -> Nat] /\ queue_arrivals' \in [Slot -> Nat]
        /\ \A s \in Slot : queue_arrivals'[s] = handed'[s]
        BY <2>1, <2>2, <2>3 DEF Frames
  <2> QED BY <2>1, <2>2, <2>4, EmptiedKeepsFrames
<1> QED BY <1>1, <1>2

\* The actions, with what a tick sends named.
LEMMA Actions ==
    ASSUME Counters, Next
    PROVE  \/ \E out \in Outputs, at \in Nat : tick(out, at) /\ sent + Len(out) <= MaxFrames
           \/ read_data
           \/ \E slot \in Slot : write_cmd(slot) \/ carry_downstream(slot)
           \/ \E up \in BOOLEAN : set_link_up(up)
           \/ reset_cold
<1>1. wire_now \in Nat /\ wire_now + 1 \in Nat /\ sent \in 0..MaxFrames /\ MaxFrames \in Nat
      BY PortAssumption DEF Counters
<1>2. ASSUME NEW at \in {wire_now, wire_now + 1}, tick(<<>>, at)
      PROVE  \E out \in Outputs, a \in Nat : tick(out, a) /\ sent + Len(out) <= MaxFrames
  <2>1. <<>> \in Outputs /\ at \in Nat /\ sent + Len(<<>>) <= MaxFrames
        BY <1>1 DEF Outputs
  <2> QED BY <1>2, <2>1
<1>3. ASSUME NEW at \in {wire_now, wire_now + 1}, NEW slot \in Slot, sent < MaxFrames, tick(<<slot>>, at)
      PROVE  \E out \in Outputs, a \in Nat : tick(out, a) /\ sent + Len(out) <= MaxFrames
  <2>1. <<slot>> \in Outputs /\ at \in Nat
        BY <1>1 DEF Outputs
  <2>2. sent + Len(<<slot>>) <= MaxFrames
        BY <1>1, <1>3
  <2> QED BY <1>3, <2>1, <2>2
<1> QED BY <1>2, <1>3 DEF Next

\* Every step keeps the frames.
LEMMA StepKeepsFrames ==
    ASSUME PortInv, [Next]_vars PROVE Frames'
<1>1. CASE UNCHANGED vars
      BY <1>1, FramesStay DEF vars, line, mailbox, PortInv
<1>2. ASSUME NEW out \in Outputs, NEW at \in Nat, tick(out, at) PROVE Frames'
      BY <1>2, TickKeepsFrames
<1>3. CASE read_data
      BY <1>3, FramesStay DEF read_data, line, PortInv
<1>4. ASSUME NEW slot \in Slot, write_cmd(slot) \/ carry_downstream(slot) PROVE Frames'
      BY <1>4, ReadKeepsFrames, CarryKeepsFrames
<1>5. ASSUME NEW up \in BOOLEAN, set_link_up(up) PROVE Frames'
      BY <1>5, LinkKeepsFrames
<1>6. CASE reset_cold
  <2>1. /\ handed' \in [Slot -> Nat] /\ queue_arrivals' \in [Slot -> Nat]
        /\ \A s \in Slot : queue_arrivals'[s] = handed'[s]
        BY <1>6 DEF reset_cold
  <2>2. Frames
        BY DEF PortInv
  <2> QED BY <1>6, <2>1, <2>2, EmptiedKeepsFrames DEF reset_cold
<1>7. CASE Next
      BY <1>2, <1>3, <1>4, <1>5, <1>6, <1>7, Actions DEF PortInv
<1> QED BY <1>1, <1>7

\* Every step keeps the rest of the state within its bounds.
LEMMA StepKeepsCounters ==
    ASSUME PortInv, [Next]_vars PROVE Counters'
<1> USE PortAssumption
<1>1. CASE UNCHANGED vars
      BY <1>1 DEF vars, mailbox, guard, PortInv, Counters
<1>2. ASSUME NEW out \in Outputs, NEW at \in Nat, tick(out, at), sent + Len(out) <= MaxFrames
      PROVE  Counters'
  <2>1. /\ wire_now \in 0..MaxTicks /\ link_up_delay \in 0..LinkUpDelay
        /\ guard_clear_countdown \in 0..(GuardDelay - 1)
        /\ sent \in 0..MaxFrames /\ since_consumed \in 0..GuardDelay
        BY DEF PortInv, Counters
  <2>2. wire_now' \in 0..MaxTicks /\ link_up_delay' \in 0..LinkUpDelay
        /\ since_consumed' \in 0..GuardDelay
        BY <1>2, <2>1 DEF tick
  <2>3. sent' \in 0..MaxFrames
    <3> DEFINE l == Len(out)
    <3>1. l \in 0..1
          BY DEF Outputs
    <3>2. sent' = sent + l /\ sent + l <= MaxFrames
          BY <1>2 DEF tick
    <3> HIDE DEF l
    <3> QED BY <2>1, <3>1, <3>2
  <2>4. guard_clear_countdown' \in 0..(GuardDelay - 1)
    <3> DEFINE count == Countdown(mailbox_pending')
    <3>1. count \in 0..GuardDelay
          BY <2>1 DEF Countdown
    <3>2. guard_clear_countdown' = IF count > 0 THEN count - 1 ELSE 0
          BY <1>2 DEF tick
    <3> HIDE DEF count
    <3> QED BY <3>1, <3>2
  <2>5. /\ link_up' \in BOOLEAN /\ link_change_pending' \in BOOLEAN
        /\ frame_consumed' \in BOOLEAN /\ told_down' \in BOOLEAN
        /\ guard_dirty' \in BOOLEAN /\ guard_cleared' \in BOOLEAN
        BY <1>2 DEF tick, PortInv, Counters
  <2>6. mailbox_bitmap' \subseteq Slot /\ llid_store' \subseteq Slot /\ flaps' \in 0..MaxFlaps
        BY <1>2 DEF tick, PortInv, Counters, refresh_bitmap
  <2> QED BY <2>2, <2>3, <2>4, <2>5, <2>6 DEF Counters
<1>3. CASE read_data
  <2>1. since_consumed' \in 0..GuardDelay
        BY <1>3 DEF read_data, PortInv, Counters
  <2>2. frame_consumed' \in BOOLEAN /\ guard_dirty' \in BOOLEAN /\ guard_cleared' \in BOOLEAN
        BY <1>3 DEF read_data
  <2> QED BY <1>3, <2>1, <2>2 DEF read_data, PortInv, Counters
<1>4. ASSUME NEW slot \in Slot, write_cmd(slot) PROVE Counters'
  <2>1. mailbox_bitmap' \subseteq Slot /\ llid_store' \subseteq Slot
        BY <1>4 DEF write_cmd, refresh_bitmap
  <2> QED BY <1>4, <2>1 DEF write_cmd, PortInv, Counters
<1>5. ASSUME NEW slot \in Slot, carry_downstream(slot) PROVE Counters'
  <2>1. sent' \in 0..MaxFrames
        BY <1>5 DEF carry_downstream, PortInv, Counters
  <2> QED BY <1>5, <2>1 DEF carry_downstream, mailbox, PortInv, Counters
<1>6. ASSUME NEW up \in BOOLEAN, set_link_up(up) PROVE Counters'
  <2>1. flaps' \in 0..MaxFlaps
        BY <1>6 DEF set_link_up, PortInv, Counters
  <2>2. mailbox_bitmap' \subseteq Slot
        BY <1>6 DEF set_link_up, refresh_bitmap, mailbox, PortInv, Counters
  <2>3. /\ link_up' \in BOOLEAN /\ link_change_pending' \in BOOLEAN /\ told_down' \in BOOLEAN
        /\ frame_consumed' \in BOOLEAN /\ guard_cleared' \in BOOLEAN
        BY <1>6 DEF set_link_up, mailbox, PortInv, Counters
  <2> QED BY <1>6, <2>1, <2>2, <2>3 DEF set_link_up, PortInv, Counters
<1>7. CASE reset_cold
  <2>1. flaps' \in 0..MaxFlaps /\ link_up_delay' \in 0..LinkUpDelay /\ wire_now' \in 0..MaxTicks
        /\ since_consumed' \in 0..GuardDelay
        BY <1>7 DEF reset_cold, PortInv, Counters
  <2> QED BY <1>7, <2>1 DEF reset_cold, PortInv, Counters
<1>8. CASE Next
      BY <1>2, <1>3, <1>4, <1>5, <1>6, <1>7, <1>8, Actions DEF PortInv
<1> QED BY <1>1, <1>8
\* A read port that is empty, or as it was, needs no more said.
LEMMA PortStays ==
    ASSUME Port, mailbox_fifo' = <<>> \/ UNCHANGED <<mailbox_fifo, flaps>> PROVE Port'
<1>1. CASE mailbox_fifo' = <<>>
  <2>1. mailbox_fifo' \in Seq(Word) /\ DOMAIN mailbox_fifo' = {}
        BY <1>1
  <2> QED BY <2>1 DEF Port, PortHoldsOneFrame
<1>2. CASE UNCHANGED <<mailbox_fifo, flaps>>
      BY <1>2 DEF Port, PortHoldsOneFrame
<1> QED BY <1>1, <1>2

\* Reading a word leaves the rest of the same frame.
LEMMA ReadKeepsPort ==
    ASSUME Port, read_data PROVE Port'
<1> DEFINE f == mailbox_fifo
           t == Tail(f)
<1>1. /\ f \in Seq(Word) /\ f # <<>> /\ f' = t /\ flaps' = flaps
      /\ \A i \in DOMAIN f : f[i].id = f[1].id
      /\ \A i \in DOMAIN f : f[i].n = Words - Len(f) + i
      /\ \A i \in DOMAIN f : f[i].session = flaps
      BY DEF Port, PortHoldsOneFrame, read_data
<1>2. Len(f) \in Nat /\ Len(f) # 0 /\ DOMAIN f = 1..Len(f)
      BY <1>1, EmptySeq, LenProperties
<1> HIDE DEF f
<1>3. /\ t \in Seq(Word) /\ Len(t) = Len(f) - 1 /\ DOMAIN t = 1..(Len(f) - 1)
      /\ \A i \in 1..(Len(f) - 1) : t[i] = f[i + 1]
      BY <1>1, <1>2
<1> HIDE DEF t
<1>4. ASSUME NEW i \in DOMAIN t
      PROVE  /\ t[i].id = t[1].id /\ t[i].n = Words - Len(t) + i /\ t[i].session = flaps
  <2>1. i \in Nat /\ 1 \in DOMAIN t /\ i + 1 \in DOMAIN f /\ 1 + 1 \in DOMAIN f
        BY <1>2, <1>3
  <2>2. t[i] = f[i + 1] /\ t[1] = f[1 + 1]
        BY <1>3, <2>1
  <2>3. Words - Len(f) + (i + 1) = Words - Len(t) + i
        BY <1>2, <1>3, <2>1, PortAssumption
  <2> QED BY <1>1, <2>1, <2>2, <2>3
<1>5. t \in Seq(Word) /\ f' = t /\ flaps' = flaps
      BY <1>1, <1>3
<1> QED BY <1>4, <1>5 DEF Port, PortHoldsOneFrame, f

\* A read command fills the port with the words of one frame of this session, or none.
LEMMA CommandKeepsPort ==
    ASSUME Frames, Port, NEW slot \in Slot, write_cmd(slot) PROVE Port'
<1> DEFINE h == mailbox_pending[slot]
<1>1. mailbox_fifo' = ReadOut(slot) /\ flaps' = flaps
      BY DEF write_cmd
<1>2. CASE h = <<>>
      BY <1>1, <1>2, PortStays DEF ReadOut
<1>3. CASE h # <<>>
  <2>1. h \in Seq(Frame)
        BY DEF Frames
  <2>2. Head(h) \in Frame /\ Head(h) = h[1] /\ 1 \in DOMAIN h
        BY <1>3, <2>1, EmptySeq, LenProperties, ElementOfSeq
  <2>3. Head(h).session = flaps
        BY <2>2 DEF Frames, OfSession
  <2> DEFINE f == Head(h)
             w == WordsOf(f)
  <2>4. f.id \in Nat /\ f.session \in Nat /\ f.session = flaps
        BY <2>2, <2>3 DEF Frame
  <2>5. mailbox_fifo' = w
        BY <1>1, <1>3 DEF ReadOut
  <2> HIDE DEF f
  <2>6. /\ \A n \in 1..Words : /\ w[n] = [id |-> f.id, n |-> n, session |-> f.session]
                               /\ w[n] \in Word
        /\ w = [n \in 1..Words |-> w[n]]
        BY <2>4 DEF WordsOf, Word
  <2> HIDE DEF w
  <2>7. Words \in Nat /\ 1 \in 1..Words
        BY PortAssumption
  <2>8. w \in Seq(Word) /\ DOMAIN w = 1..Words /\ Len(w) = Words
        BY <2>6, <2>7
  <2>9. \A n \in 1..Words : w[n].id = f.id /\ w[n].n = n /\ w[n].session = flaps
        BY <2>4, <2>6
  <2>10. \A n \in 1..Words : n = Words - Len(w) + n
         BY <2>7, <2>8
  <2> QED BY <1>1, <2>5, <2>7, <2>8, <2>9, <2>10 DEF Port, PortHoldsOneFrame
<1> QED BY <1>2, <1>3

\* Every step keeps the read port to one frame of this session.
LEMMA StepKeepsPort ==
    ASSUME PortInv, [Next]_vars PROVE Port'
<1>1. Frames /\ Port /\ Counters
      BY DEF PortInv
<1>2. CASE UNCHANGED vars
      BY <1>1, <1>2, PortStays DEF vars, mailbox
<1>3. ASSUME NEW out \in Outputs, NEW at \in Nat, tick(out, at) PROVE Port'
      BY <1>1, <1>3, PortStays DEF tick
<1>4. CASE read_data
      BY <1>1, <1>4, ReadKeepsPort
<1>5. ASSUME NEW slot \in Slot, write_cmd(slot) PROVE Port'
      BY <1>1, <1>5, CommandKeepsPort
<1>6. ASSUME NEW slot \in Slot, carry_downstream(slot) PROVE Port'
      BY <1>1, <1>6, PortStays DEF carry_downstream, mailbox
<1>7. ASSUME NEW up \in BOOLEAN, set_link_up(up) PROVE Port'
      BY <1>1, <1>7, PortStays DEF set_link_up, mailbox, FifoDark
<1>8. CASE reset_cold
      BY <1>1, <1>8, PortStays DEF reset_cold
<1>9. CASE Next
      BY <1>1, <1>3, <1>4, <1>5, <1>6, <1>7, <1>8, <1>9, Actions
<1> QED BY <1>2, <1>9

\* A copied bitmap is the mailbox's own until a link-down empties it, and that shows as a
\* pending link change until the next tick copies again.
LEMMA StepKeepsAnnounced ==
    ASSUME PortInv, [Next]_vars PROVE FramesAreAnnounced'
<1>1. /\ mailbox_bitmap = {s \in Slot : mailbox_pending[s] # <<>>}
      /\ mailbox_bitmap \subseteq llid_store
      /\ llid_store # mailbox_bitmap => link_change_pending
      BY DEF PortInv, FramesAreAnnounced
<1>2. CASE UNCHANGED vars
      BY <1>1, <1>2 DEF vars, mailbox, FramesAreAnnounced
<1>3. ASSUME NEW out \in Outputs, NEW at \in Nat, tick(out, at) PROVE FramesAreAnnounced'
  <2>1. mailbox_bitmap' = refresh_bitmap(mailbox_pending') /\ llid_store' = mailbox_bitmap'
        BY <1>3 DEF tick
  <2> QED BY <2>1 DEF FramesAreAnnounced, refresh_bitmap
<1>4. CASE read_data
      BY <1>1, <1>4 DEF read_data, FramesAreAnnounced
<1>5. ASSUME NEW slot \in Slot, write_cmd(slot) PROVE FramesAreAnnounced'
  <2>1. mailbox_bitmap' = refresh_bitmap(mailbox_pending') /\ llid_store' = mailbox_bitmap'
        BY <1>5 DEF write_cmd
  <2> QED BY <2>1 DEF FramesAreAnnounced, refresh_bitmap
<1>6. ASSUME NEW slot \in Slot, carry_downstream(slot) PROVE FramesAreAnnounced'
      BY <1>1, <1>6 DEF carry_downstream, mailbox, FramesAreAnnounced
<1>7. ASSUME NEW up \in BOOLEAN, set_link_up(up) PROVE FramesAreAnnounced'
  <2>1. CASE link_up = up
        BY <1>1, <1>7, <2>1 DEF set_link_up, mailbox, FramesAreAnnounced
  <2>2. CASE link_up # up /\ up
        BY <1>1, <1>7, <2>2 DEF set_link_up, mailbox, FramesAreAnnounced
  <2>3. CASE link_up # up /\ ~up
    <3>1. /\ mailbox_pending' = [s \in Slot |-> <<>>]
          /\ mailbox_bitmap' = refresh_bitmap(mailbox_pending')
          /\ link_change_pending' = TRUE
          BY <1>7, <2>3 DEF set_link_up
    <3>2. mailbox_bitmap' = {}
          BY <3>1 DEF refresh_bitmap
    <3> QED BY <3>1, <3>2 DEF FramesAreAnnounced, refresh_bitmap
  <2> QED BY <2>1, <2>2, <2>3
<1>8. CASE reset_cold
      BY <1>8 DEF reset_cold, FramesAreAnnounced
<1>9. CASE Next
      BY <1>3, <1>4, <1>5, <1>6, <1>7, <1>8, <1>9, Actions DEF PortInv
<1> QED BY <1>2, <1>9

\* A frame read out is either seen by the next tick or has a countdown running for it.
LEMMA StepKeepsGuard ==
    ASSUME PortInv, [Next]_vars PROVE GuardClearIsOwed'
<1>1. /\ guard_dirty => frame_consumed \/ guard_clear_countdown > 0
      /\ guard_clear_countdown \in 0..(GuardDelay - 1) /\ GuardDelay \in Nat \ {0}
      BY PortAssumption DEF PortInv, GuardClearIsOwed, Counters
<1>2. CASE UNCHANGED vars
      BY <1>1, <1>2 DEF vars, mailbox, guard, GuardClearIsOwed
<1>3. ASSUME NEW out \in Outputs, NEW at \in Nat, tick(out, at) PROVE GuardClearIsOwed'
  <2> DEFINE count == Countdown(mailbox_pending')
  <2>1. /\ guard_clear_countdown' = (IF count > 0 THEN count - 1 ELSE 0)
        /\ guard_cleared' = (count = 1)
        /\ guard_dirty' = (guard_dirty /\ ~guard_cleared')
        BY <1>3 DEF tick
  <2>2. SUFFICES ASSUME guard_dirty' PROVE guard_clear_countdown' > 0
        BY DEF GuardClearIsOwed
  <2>3. guard_dirty /\ ~(count = 1)
        BY <2>1, <2>2
  <2>4. frame_consumed \/ guard_clear_countdown > 0
        BY <1>1, <2>3
  <2>5. count \in Nat /\ count > 0
        BY <1>1, <2>4 DEF Countdown
  <2> HIDE DEF count
  <2> QED BY <2>1, <2>3, <2>5
<1>4. CASE read_data
      BY <1>1, <1>4 DEF read_data, GuardClearIsOwed
<1>5. ASSUME NEW slot \in Slot, write_cmd(slot) \/ carry_downstream(slot) PROVE GuardClearIsOwed'
      BY <1>1, <1>5 DEF write_cmd, carry_downstream, mailbox, GuardClearIsOwed
<1>6. ASSUME NEW up \in BOOLEAN, set_link_up(up) PROVE GuardClearIsOwed'
      BY <1>1, <1>6 DEF set_link_up, mailbox, GuardClearIsOwed
<1>7. CASE reset_cold
      BY <1>7 DEF reset_cold, GuardClearIsOwed
<1>8. CASE Next
      BY <1>3, <1>4, <1>5, <1>6, <1>7, <1>8, Actions DEF PortInv
<1> QED BY <1>2, <1>8

--------------------------------------------------------------------------------
\* Theorems.

\* The port starts with nothing under way, nothing waiting and nothing owed.
LEMMA PortStarts == Init => PortInv
<1> SUFFICES ASSUME Init PROVE PortInv
    OBVIOUS
<1> USE PortAssumption
<1>1. Counters
  <2>1. /\ wire_now \in 0..MaxTicks /\ sent \in 0..MaxFrames /\ flaps \in 0..MaxFlaps
        /\ link_up_delay \in 0..LinkUpDelay
        /\ guard_clear_countdown \in 0..(GuardDelay - 1) /\ since_consumed \in 0..GuardDelay
        BY DEF Init
  <2>2. /\ link_up \in BOOLEAN /\ link_change_pending \in BOOLEAN
        /\ frame_consumed \in BOOLEAN /\ told_down \in BOOLEAN
        /\ guard_dirty \in BOOLEAN /\ guard_cleared \in BOOLEAN
        BY DEF Init
  <2>3. mailbox_bitmap \subseteq Slot /\ llid_store \subseteq Slot
        BY DEF Init
  <2> QED BY <2>1, <2>2, <2>3 DEF Counters
<1>2. DOMAIN <<>> = {} /\ Len(<<>>) = 0
      OBVIOUS
<1>3. /\ mailbox_pending \in [Slot -> Seq(Frame)] /\ downstream \in Seq(Flying)
      /\ mailbox_fifo \in Seq(Word) /\ last_arrival \in Nat
      /\ \A s \in Slot : mailbox_pending[s] = <<>>
      /\ downstream = <<>> /\ mailbox_fifo = <<>>
      BY DEF Init
<1>4. Waiting(mailbox_pending) = {}
      BY <1>2, <1>3 DEF Waiting
<1>5. IsFiniteSet(Waiting(mailbox_pending)) /\ total_pending_count(mailbox_pending) = 0
      BY <1>4, FS_EmptySet DEF total_pending_count
<1>6. /\ queue_arrivals \in [Slot -> Nat] /\ handed \in [Slot -> Nat] /\ taken \in [Slot -> Nat]
      /\ \A s \in Slot : queue_arrivals[s] = handed[s] + Len(mailbox_pending[s]) /\ taken[s] <= sent
      BY <1>2, <1>3 DEF Init
<1>7. MailboxBounded
      BY <1>5, <1>6 DEF MailboxBounded
<1>8. /\ Ordered(mailbox_pending, downstream, 0)
      /\ OfSession(mailbox_pending, flaps, sent) /\ LineOfSession(downstream, flaps, sent)
      BY <1>2, <1>3 DEF Ordered, OfSession, LineOfSession
<1>9. Frames
      BY <1>3, <1>5, <1>6, <1>7, <1>8 DEF Frames
<1>10. Port
       BY <1>2, <1>3 DEF Port, PortHoldsOneFrame
<1>11. FramesAreAnnounced
       BY DEF Init, FramesAreAnnounced
<1>12. GuardClearIsOwed
       BY DEF Init, GuardClearIsOwed
<1> QED BY <1>1, <1>9, <1>10, <1>11, <1>12 DEF PortInv

\* The inductive invariant: order, session, count and announcement of all frames between
\* the fibre and the firmware, and the clear that is owed for one read to its end.
THEOREM PortInvariance == Spec => []PortInv
<1>1. PortInv /\ [Next]_vars => PortInv'
  <2> SUFFICES ASSUME PortInv, [Next]_vars PROVE PortInv'
      OBVIOUS
  <2> QED BY StepKeepsCounters, StepKeepsFrames, StepKeepsPort, StepKeepsAnnounced,
             StepKeepsGuard DEF PortInv
<1> QED BY <1>1, PortStarts, PTL DEF Spec

\* A frame is kept whole, in its place and in the count, wherever it is between the line
\* and the firmware (Mailbox::load, write_cmd and read_data of src/soc/olt/mod.rs).
THEOREM EveryFrameIsKept == Spec => []FramesAreKept
<1>1. ASSUME PortInv PROVE FramesAreKept
  <2>1. TypeOK
        BY <1>1 DEF PortInv, Counters, Frames, Port, Flying, TypeOK
  <2>2. \A j \in DOMAIN downstream : 0 < j
    <3>1. downstream \in Seq(Flying)
          BY <1>1 DEF PortInv, Frames
    <3> QED BY <3>1, LenProperties
  <2>3. QueuesKeepOrder
        BY <1>1, <2>2 DEF PortInv, Frames, Ordered, QueuesKeepOrder
  <2> QED BY <1>1, <2>1, <2>3 DEF PortInv, Frames, Port, FramesAreKept
<1> QED BY <1>1, PortInvariance, PTL

\* "A frame on a dark fibre does not arrive later, it is gone": nothing of an earlier
\* session is on the line, in a queue or in the read port.
THEOREM SessionsAreSeparate == Spec => []NothingOutlivesItsSession
<1>1. ASSUME PortInv PROVE NothingOutlivesItsSession
      BY <1>1 DEF PortInv, Frames, Port, OfSession, LineOfSession, NothingOutlivesItsSession
<1> QED BY <1>1, PortInvariance, PTL

\* The copy of the bitmap that the firmware polls shows every queue that has a frame.
THEOREM FirmwareIsTold == Spec => []FramesAreAnnounced
<1>1. PortInv => FramesAreAnnounced
      BY DEF PortInv
<1> QED BY <1>1, PortInvariance, PTL

\* A frame read to its end has a clear of the guard ahead of it (PeripheralBank::tick).
THEOREM GuardIsCleared == Spec => []GuardClearIsOwed
<1>1. PortInv => GuardClearIsOwed
      BY DEF PortInv
<1> QED BY <1>1, PortInvariance, PTL
================================================================================
