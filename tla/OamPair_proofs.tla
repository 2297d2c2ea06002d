------------------------------ MODULE OamPair_proofs ------------------------------
(***************************************************************************)
(* Two ends of OAM discovery, for every number of PDUs to evaluate, every  *)
(* depth of the lines and any number of restarts: what an end claims, in   *)
(* its state and in the words on its line, is backed by what it heard, and *)
(* a restart undoes the claim at the other end.  The operators of          *)
(* OamDiscovery are dealt with first, each by one lemma about the record   *)
(* it returns.                                                             *)
(***************************************************************************)
EXTENDS OamPair, FiniteSetTheorems, TLAPS

\* What an end knows of the other, and whether its state says no more than that.
Backed(d) == \/ d.peer_described_itself
             \/ d.state = "LocalEvaluating" /\ d.peer = NoPeer
Heard(d) == d.state = "Converged" => d.peer = [local_evaluating |-> FALSE, local_stable |-> TRUE]

\* d2 is d some steps on, without a restart in between.
Onward(d, d2) == /\ d.peer_described_itself => d2.peer_described_itself
                 /\ d2.state = "LocalEvaluating" => d.state = "LocalEvaluating"

\* The lines never carry an end that claims to be stable and evaluating at once, nor a
\* link fault: what a converged end heard last is a claim of stability because of that.
GoodWord(f) == f.local_evaluating = ~f.local_stable /\ ~f.link_fault
WellFormed == \A e \in End : \A i \in DOMAIN line[e] : GoodWord(line[e][i])

\* The newest n words of line l against their sender d.
LineBacked(d, l, n) ==
    \A i \in DOMAIN l : i > Len(l) - n =>
        /\ ClaimsToHaveHeard(l[i]) => d.peer_described_itself
        /\ l[i].local_stable => d.state # "LocalEvaluating"
        /\ l[i].local_stable => \A j \in DOMAIN l : j > i => l[j].local_stable

\* Once a word of this life was heard, none of an earlier one is left on the line.
HeardLast == \A e \in End : life[e].heard => life[e].out = Len(line[e])

\* While an end evaluates, whoever heard it in this life last heard it evaluate.
Believed == \A e \in End : discovery[e].state = "LocalEvaluating" /\ life[e].heard =>
                               ~discovery[Other(e)].peer.local_stable

PairInv ==
    /\ TypeOK /\ WellFormed /\ HeardLast /\ Believed
    /\ \A e \in End : /\ Backed(discovery[e]) /\ Heard(discovery[e])
                      /\ LineBacked(discovery[e], line[e], life[e].out)

Word(f) == [local_evaluating |-> f.local_evaluating, local_stable |-> f.local_stable]

--------------------------------------------------------------------------------
\* The other end exists.
LEMMA OtherEnd == ASSUME NEW e \in End PROVE Other(e) \in End /\ Other(e) # e
<1>1. \E o \in End : o # e
  <2>1. SUFFICES ASSUME End = {e} PROVE FALSE
        OBVIOUS
  <2>2. Cardinality({e}) = 1
        BY FS_Singleton
  <2> QED BY <2>1, <2>2, OamPairAssumption DEF OamPairAssumption
<1> QED BY <1>1 DEF Other

LEMMA OtherOther == ASSUME NEW e \in End PROVE Other(Other(e)) = e
<1>1. IsFiniteSet(End \ {e}) /\ Cardinality(End \ {e}) = 1
      BY FS_RemoveElement, OamPairAssumption DEF OamPairAssumption
<1>2. PICK x : End \ {e} = {x}
      BY <1>1, FS_Singleton
<1>3. Other(e) = x
      BY <1>2, OtherEnd
<1>4. Other(x) = e
      BY <1>2, OtherEnd
<1> QED BY <1>3, <1>4

\* The flags an end sends are flags, contradict themselves in nothing, and say no more
\* than the end has heard.
LEMMA FlagsSent ==
    ASSUME NEW d \in Discovery, Backed(d)
    PROVE  /\ flags(d) \in Flags /\ GoodWord(flags(d))
           /\ ClaimsToHaveHeard(flags(d)) => d.peer_described_itself
           /\ flags(d).local_stable <=> d.state # "LocalEvaluating"
<1>1. flags(d) \in Flags
      BY DEF flags, Flags, Discovery
<1>2. /\ flags(d).local_evaluating = (d.state = "LocalEvaluating")
      /\ flags(d).local_stable = (d.state # "LocalEvaluating")
      /\ flags(d).link_fault = FALSE
      /\ flags(d).remote_evaluating = d.peer.local_evaluating
      /\ flags(d).remote_stable = d.peer.local_stable
      BY DEF flags
<1>3. GoodWord(flags(d))
      BY <1>2 DEF GoodWord
<1>4. flags(d).local_stable <=> d.state # "LocalEvaluating"
      BY <1>2
<1>5. ASSUME ~d.peer_described_itself PROVE ~ClaimsToHaveHeard(flags(d))
  <2>1. d.state = "LocalEvaluating" /\ d.peer = NoPeer
        BY <1>5 DEF Backed
  <2>2. ~d.peer.local_evaluating /\ ~d.peer.local_stable
        BY <2>1 DEF NoPeer
  <2> QED BY <1>2, <2>1, <2>2 DEF ClaimsToHaveHeard
<1> QED BY <1>1, <1>3, <1>4, <1>5

\* Entering a state touches the state and the count and nothing else (Discovery::enter).
LEMMA Entered ==
    ASSUME NEW d \in Discovery, NEW s \in DiscoveryState
    PROVE  /\ enter(d, s) \in Discovery
           /\ enter(d, s).state = s
           /\ enter(d, s).peer = d.peer
           /\ enter(d, s).peer_described_itself = d.peer_described_itself
<1>1. CASE d.state = s
      BY <1>1 DEF enter
<1>2. CASE d.state # s
  <2> DEFINE r == [d EXCEPT !.state = s, !.sent = 0]
  <2>1. 0 \in 0..EvaluatingPdus
        BY EvaluatingPdusAssumption DEF EvaluatingPdusAssumption
  <2>2. r \in Discovery
        BY <2>1 DEF Discovery
  <2>3. r.state = s /\ r.peer = d.peer
        BY DEF Discovery
  <2>4. r.peer_described_itself = d.peer_described_itself
        BY DEF Discovery
  <2>5. enter(d, s) = r
        BY <1>2 DEF enter
  <2> QED BY <2>2, <2>3, <2>4, <2>5
<1> QED BY <1>1, <1>2

\* A machine that settles has evidence, and keeps what it heard (settle_if_evaluated).
LEMMA Settled ==
    ASSUME NEW d \in Discovery, Backed(d)
    PROVE  /\ settle_if_evaluated(d) \in Discovery /\ Backed(settle_if_evaluated(d))
           /\ settle_if_evaluated(d).peer = d.peer
           /\ settle_if_evaluated(d).peer_described_itself = d.peer_described_itself
           /\ settle_if_evaluated(d).state = "Converged" => d.state = "Converged"
           /\ settle_if_evaluated(d).state = "LocalEvaluating" => d.state = "LocalEvaluating"
<1>1. CASE d.state = "LocalEvaluating" /\ d.peer_described_itself /\ d.sent >= EvaluatingPdus
  <2>1. settle_if_evaluated(d) = enter(d, "LocalStable")
        BY <1>1 DEF settle_if_evaluated
  <2>2. "LocalStable" \in DiscoveryState
        BY DEF DiscoveryState
  <2>3. /\ settle_if_evaluated(d) \in Discovery
        /\ settle_if_evaluated(d).state = "LocalStable"
        /\ settle_if_evaluated(d).peer = d.peer
        /\ settle_if_evaluated(d).peer_described_itself = d.peer_described_itself
        BY <2>1, <2>2, Entered
  <2> QED BY <1>1, <2>3 DEF Backed
<1>2. CASE ~(d.state = "LocalEvaluating" /\ d.peer_described_itself /\ d.sent >= EvaluatingPdus)
      BY <1>2 DEF settle_if_evaluated
<1> QED BY <1>1, <1>2

\* Sending keeps the claims within what was heard (Discovery::on_sent).
LEMMA Sent ==
    ASSUME NEW d \in Discovery, Backed(d), Heard(d)
    PROVE  /\ on_sent(d) \in Discovery /\ Backed(on_sent(d)) /\ Heard(on_sent(d))
           /\ Onward(d, on_sent(d)) /\ on_sent(d).peer = d.peer
<1> DEFINE c == [d EXCEPT !.sent = IF @ < EvaluatingPdus THEN @ + 1 ELSE @]
<1>1. c \in Discovery /\ c.state = d.state /\ c.peer = d.peer
      /\ c.peer_described_itself = d.peer_described_itself
      BY EvaluatingPdusAssumption DEF EvaluatingPdusAssumption, Discovery
<1>2. Backed(c)
      BY <1>1 DEF Backed
<1>3. on_sent(d) = settle_if_evaluated(c)
      BY DEF on_sent
<1> HIDE DEF c
<1> QED BY <1>1, <1>2, <1>3, Settled DEF Heard, Onward

\* The last word heard decides whether the machine is converged (Discovery::on_peer_flags).
LEMMA Converging ==
    ASSUME NEW d \in Discovery, NEW f \in Flags, d.peer_described_itself, d.peer = Word(f),
           GoodWord(f)
    PROVE  /\ Converge(d, f) \in Discovery /\ Heard(Converge(d, f))
           /\ Onward(d, Converge(d, f)) /\ Converge(d, f).peer = d.peer
<1>1. d.state \in DiscoveryState /\ f.local_evaluating \in BOOLEAN /\ f.local_stable \in BOOLEAN
      BY DEF Discovery, Flags
<1>2. CASE d.state = "Converged" /\ f.local_evaluating
  <2>0. "LocalStable" \in DiscoveryState
        BY DEF DiscoveryState
  <2>1. PICK c : c = enter(d, "LocalStable")
        OBVIOUS
  <2>2. /\ c \in Discovery /\ c.state = "LocalStable" /\ c.peer = d.peer
        /\ c.peer_described_itself = d.peer_described_itself
        BY <2>0, <2>1, Entered
  <2>3. Heard(c) /\ Onward(d, c)
        BY <1>2, <2>2 DEF Onward, Heard
  <2> QED BY <1>2, <2>1, <2>2, <2>3 DEF Converge
<1>3. CASE d.state = "Converged" /\ ~f.local_evaluating
  <2>1. Converge(d, f) = d
        BY <1>3 DEF Converge
  <2> QED BY <1>1, <1>3, <2>1 DEF Heard, Word, GoodWord, Onward
<1>4. CASE d.state = "LocalStable" /\ f.local_stable
  <2>0. "Converged" \in DiscoveryState
        BY DEF DiscoveryState
  <2>1. PICK c : c = enter(d, "Converged")
        OBVIOUS
  <2>2. /\ c \in Discovery /\ c.state = "Converged" /\ c.peer = d.peer
        /\ c.peer_described_itself = d.peer_described_itself
        BY <2>0, <2>1, Entered
  <2>3. f.local_evaluating = FALSE /\ f.local_stable = TRUE
        BY <1>1, <1>4 DEF GoodWord
  <2>4. Heard(c) /\ Onward(d, c)
        BY <1>4, <2>2, <2>3 DEF Onward, Heard, Word
  <2> QED BY <1>4, <2>1, <2>2, <2>4 DEF Converge
<1>5. CASE (d.state = "LocalStable" /\ ~f.local_stable) \/ d.state = "LocalEvaluating"
  <2>1. Converge(d, f) = d
        BY <1>5 DEF Converge
  <2> QED BY <1>5, <2>1 DEF Heard, Onward
<1> QED BY <1>1, <1>2, <1>3, <1>4, <1>5 DEF DiscoveryState

\* Hearing a word that reports no link fault: the machine goes on, and what it holds of
\* the other end is what the word says.
LEMMA Informed ==
    ASSUME NEW d \in Discovery, NEW f \in Flags, Backed(d), GoodWord(f)
    PROVE  /\ on_peer_information(d, f) \in Discovery
           /\ Backed(on_peer_information(d, f)) /\ Heard(on_peer_information(d, f))
           /\ Onward(d, on_peer_information(d, f))
           /\ on_peer_information(d, f).peer = Word(f)
<1> DEFINE k == [d EXCEPT !.peer_described_itself = TRUE]
           p == [k EXCEPT !.peer = Word(f)]
<1>1. p \in Discovery /\ p.peer = Word(f) /\ p.peer_described_itself /\ p.state = d.state
      BY DEF Discovery, Word, Flags
<1>2. Backed(p) /\ Onward(d, p)
      BY <1>1 DEF Backed, Onward
<1>3. on_peer_information(d, f) = Converge(settle_if_evaluated(p), f)
      BY DEF on_peer_information, on_peer_flags, Word, GoodWord
<1> HIDE DEF p
<1>4. PICK q : q = settle_if_evaluated(p)
      OBVIOUS
<1>5. q \in Discovery /\ q.peer = Word(f) /\ q.peer_described_itself /\ Onward(p, q)
      BY <1>1, <1>2, <1>4, Settled DEF Onward
<1>6. PICK c : c = Converge(q, f)
      OBVIOUS
<1>7. /\ c \in Discovery /\ Heard(c) /\ Onward(q, c) /\ c.peer = Word(f)
      BY <1>5, <1>6, Converging
<1>8. Backed(c) /\ Onward(d, c)
      BY <1>2, <1>5, <1>7 DEF Backed, Onward
<1> QED BY <1>3, <1>4, <1>6, <1>7, <1>8

--------------------------------------------------------------------------------
\* What was said stays backed as its sender goes on.
LEMMA StillBacked ==
    ASSUME NEW d, NEW d2, NEW l, NEW n, LineBacked(d, l, n), Onward(d, d2)
    PROVE  LineBacked(d2, l, n)
BY DEF LineBacked, Onward

\* A word sent says what its sender is.
LEMMA SaidIsBacked ==
    ASSUME NEW d \in Discovery, NEW l \in Seq(Flags), NEW n \in Nat, Backed(d),
           LineBacked(d, l, n)
    PROVE  LineBacked(d, Append(l, flags(d)), n + 1)
<1>1. PICK w : w = flags(d)
      OBVIOUS
<1>2. PICK m : m = Append(l, w)
      OBVIOUS
<1>3. /\ w \in Flags /\ (ClaimsToHaveHeard(w) => d.peer_described_itself)
      /\ w.local_stable <=> d.state # "LocalEvaluating"
      BY <1>1, FlagsSent
<1>4. /\ Len(l) \in Nat /\ Len(m) = Len(l) + 1 /\ DOMAIN m = 1..(Len(l) + 1)
      /\ m[Len(l) + 1] = w /\ \A i \in 1..Len(l) : m[i] = l[i]
      BY <1>2, <1>3
<1>5. SUFFICES ASSUME NEW i \in DOMAIN m, i > Len(m) - (n + 1)
               PROVE  /\ ClaimsToHaveHeard(m[i]) => d.peer_described_itself
                      /\ m[i].local_stable => d.state # "LocalEvaluating"
                      /\ m[i].local_stable => \A j \in DOMAIN m : j > i => m[j].local_stable
      BY <1>1, <1>2 DEF LineBacked
<1>6. CASE i = Len(l) + 1
  <2>1. m[i] = w /\ \A j \in DOMAIN m : ~(j > i)
        BY <1>4, <1>6
  <2>2. m[i].local_stable => \A j \in DOMAIN m : j > i => m[j].local_stable
        BY <2>1
  <2>3. ClaimsToHaveHeard(m[i]) => d.peer_described_itself
        BY <1>3, <2>1
  <2>4. m[i].local_stable => d.state # "LocalEvaluating"
        BY <1>3, <2>1
  <2> QED BY <2>2, <2>3, <2>4
<1>7. CASE i \in 1..Len(l)
  <2>1. i \in DOMAIN l /\ i > Len(l) - n /\ m[i] = l[i]
        BY <1>4, <1>5, <1>7
  <2>2. /\ ClaimsToHaveHeard(m[i]) => d.peer_described_itself
        /\ m[i].local_stable => d.state # "LocalEvaluating"
        /\ m[i].local_stable => \A j \in DOMAIN l : j > i => l[j].local_stable
        BY <2>1 DEF LineBacked
  <2>3. ASSUME m[i].local_stable, NEW j \in DOMAIN m, j > i PROVE m[j].local_stable
    <3>1. CASE j = Len(l) + 1
          BY <1>3, <1>4, <2>2, <2>3, <3>1
    <3>2. CASE j \in 1..Len(l)
          BY <1>4, <2>2, <2>3, <3>2
    <3> QED BY <1>4, <3>1, <3>2
  <2> QED BY <2>2, <2>3
<1> QED BY <1>4, <1>6, <1>7

\* Taking the oldest word off the line leaves the newest ones as they are.
LEMMA RestIsBacked ==
    ASSUME NEW d, NEW l \in Seq(Flags), l # <<>>, NEW n \in Nat, n <= Len(l),
           NEW k \in Nat, k <= n, k < Len(l), LineBacked(d, l, n)
    PROVE  LineBacked(d, Tail(l), k)
<1>1. PICK m : m = Tail(l)
      OBVIOUS
<1>2. /\ Len(l) \in Nat /\ Len(m) = Len(l) - 1 /\ DOMAIN m = 1..(Len(l) - 1)
      /\ \A i \in DOMAIN m : i + 1 \in DOMAIN l /\ m[i] = l[i + 1]
      BY <1>1
<1>3. SUFFICES ASSUME NEW i \in DOMAIN m, i > Len(m) - k
               PROVE  /\ ClaimsToHaveHeard(m[i]) => d.peer_described_itself
                      /\ m[i].local_stable => d.state # "LocalEvaluating"
                      /\ m[i].local_stable => \A j \in DOMAIN m : j > i => m[j].local_stable
      BY <1>1 DEF LineBacked
<1>4. i + 1 \in DOMAIN l /\ i + 1 > Len(l) - n /\ m[i] = l[i + 1]
      BY <1>2, <1>3
<1>5. /\ ClaimsToHaveHeard(m[i]) => d.peer_described_itself
      /\ m[i].local_stable => d.state # "LocalEvaluating"
      /\ m[i].local_stable => \A j \in DOMAIN l : j > i + 1 => l[j].local_stable
      BY <1>4 DEF LineBacked
<1>6. ASSUME m[i].local_stable, NEW j \in DOMAIN m, j > i PROVE m[j].local_stable
  <2>1. j + 1 \in DOMAIN l /\ j + 1 > i + 1 /\ m[j] = l[j + 1]
        BY <1>2, <1>6
  <2> QED BY <1>5, <1>6, <2>1
<1> QED BY <1>5, <1>6

--------------------------------------------------------------------------------
\* An end that starts knows nothing and claims nothing.
LEMMA Fresh ==
    /\ DefaultDiscovery \in Discovery /\ Backed(DefaultDiscovery) /\ Heard(DefaultDiscovery)
    /\ ~DefaultDiscovery.peer.local_stable
BY EvaluatingPdusAssumption DEF EvaluatingPdusAssumption, DefaultDiscovery, NoPeer,
   Discovery, DiscoveryState, Backed, Heard

LEMMA PairInit == Init => PairInv
<1> SUFFICES ASSUME Init PROVE PairInv
    OBVIOUS
<1>1. TypeOK
      BY Fresh, OamPairAssumption DEF OamPairAssumption, Init, TypeOK, Unheard
<1>2. WellFormed /\ HeardLast /\ Believed
      BY DEF Init, WellFormed, HeardLast, Believed, Unheard
<1>3. ASSUME NEW e \in End
      PROVE  /\ Backed(discovery[e]) /\ Heard(discovery[e])
             /\ LineBacked(discovery[e], line[e], life[e].out)
      BY Fresh DEF Init, LineBacked
<1> QED BY <1>1, <1>2, <1>3 DEF PairInv

\* A keepalive says what its sender is, and is dropped by a full line.
LEMMA KeepaliveInv == ASSUME PairInv, NEW e \in End, Keepalive(e) PROVE PairInv'
<1>1. /\ discovery \in [End -> Discovery] /\ line \in [End -> Seq(Flags)]
      /\ life \in [End -> [out : 0..Depth, heard : BOOLEAN]] /\ Depth \in Nat
      /\ restarts \in 0..MaxRestarts
      /\ \A o \in End : /\ Backed(discovery[o]) /\ Heard(discovery[o])
                        /\ Len(line[o]) <= Depth /\ life[o].out <= Len(line[o])
                        /\ LineBacked(discovery[o], line[o], life[o].out)
      BY OamPairAssumption DEF OamPairAssumption, PairInv, TypeOK
<1>2. PICK d : d = on_sent(discovery[e])
      OBVIOUS
<1>3. discovery' = [discovery EXCEPT ![e] = d] /\ restarts' = restarts
      BY <1>2 DEF Keepalive
<1>4. /\ d \in Discovery /\ Backed(d) /\ Heard(d) /\ Onward(discovery[e], d)
      /\ d.peer = discovery[e].peer
      BY <1>1, <1>2, Sent
<1>5. /\ discovery' \in [End -> Discovery]
      /\ \A o \in End : Backed(discovery'[o]) /\ Heard(discovery'[o])
      BY <1>1, <1>3, <1>4
<1>6. /\ line' \in [End -> Seq(Flags)] /\ life' \in [End -> [out : 0..Depth, heard : BOOLEAN]]
      /\ \A o \in End : Len(line'[o]) <= Depth /\ life'[o].out <= Len(line'[o])
      /\ WellFormed' /\ HeardLast'
      /\ \A o \in End : life'[o].heard = life[o].heard
      /\ \A o \in End : LineBacked(discovery[o], line'[o], life'[o].out)
  <2>1. CASE line' = line /\ life' = life
        BY <1>1, <2>1 DEF PairInv, WellFormed, HeardLast
  <2>2. CASE /\ Len(line[e]) < Depth
             /\ line' = [line EXCEPT ![e] = Append(line[e], flags(discovery[e]))]
             /\ life' = [life EXCEPT ![e].out = life[e].out + 1]
    <3>1. PICK w, m : w = flags(discovery[e]) /\ m = Append(line[e], w)
          OBVIOUS
    <3>2. w \in Flags /\ GoodWord(w)
          BY <1>1, <3>1, FlagsSent
    <3>3. /\ m \in Seq(Flags) /\ Len(m) = Len(line[e]) + 1 /\ Len(m) <= Depth
          /\ \A i \in DOMAIN m : (i \in DOMAIN line[e] /\ m[i] = line[e][i]) \/ m[i] = w
          BY <1>1, <2>2, <3>1, <3>2
    <3>4. PICK f : f = [life[e] EXCEPT !.out = life[e].out + 1]
          OBVIOUS
    <3>5. /\ f \in [out : 0..Depth, heard : BOOLEAN] /\ f.out = life[e].out + 1
          /\ f.heard = life[e].heard /\ f.out <= Len(m)
      <4>1. /\ life[e].out \in Nat /\ Len(line[e]) \in Nat /\ life[e].out <= Len(line[e])
            /\ Len(line[e]) + 1 <= Depth /\ life[e] \in [out : 0..Depth, heard : BOOLEAN]
            BY <1>1, <3>3
      <4>2. PICK a : a = life[e].out + 1
            OBVIOUS
      <4>3. a \in 0..Depth /\ a <= Len(m)
            BY <1>1, <3>3, <4>1, <4>2
      <4>4. f = [life[e] EXCEPT !.out = a]
            BY <3>4, <4>2
      <4>5. f \in [out : 0..Depth, heard : BOOLEAN] /\ f.out = a
            BY <4>1, <4>3, <4>4
      <4>6. f.heard = life[e].heard
            BY <4>1, <4>4
      <4> QED BY <4>2, <4>3, <4>5, <4>6
    <3>6. line' = [line EXCEPT ![e] = m] /\ life' = [life EXCEPT ![e] = f]
          BY <1>1, <2>2, <3>1, <3>4
    <3>7. LineBacked(discovery[e], m, f.out)
          BY <1>1, <3>1, <3>5, SaidIsBacked
    <3>8. WellFormed'
          BY <1>1, <3>2, <3>3, <3>6 DEF PairInv, WellFormed
    <3>9. HeardLast'
          BY <1>1, <3>3, <3>5, <3>6 DEF PairInv, HeardLast
    <3> QED BY <1>1, <3>3, <3>5, <3>6, <3>7, <3>8, <3>9
  <2> QED BY <2>1, <2>2 DEF Keepalive
<1>7. TypeOK'
      BY <1>1, <1>3, <1>5, <1>6 DEF TypeOK
<1>8. \A o \in End : LineBacked(discovery'[o], line'[o], life'[o].out)
      BY <1>1, <1>3, <1>4, <1>6, StillBacked
<1>9. Believed'
  <2>1. \A o \in End : discovery'[o].peer = discovery[o].peer
        BY <1>1, <1>3, <1>4
  <2>2. \A o \in End : discovery'[o].state = "LocalEvaluating" => discovery[o].state = "LocalEvaluating"
        BY <1>1, <1>3, <1>4 DEF Onward
  <2> QED BY <1>6, <2>1, <2>2, OtherEnd DEF PairInv, Believed
<1> QED BY <1>5, <1>6, <1>7, <1>8, <1>9 DEF PairInv

\* An end hears the oldest word on the line to it.
LEMMA OnOamInv == ASSUME PairInv, NEW e \in End, on_oam(e) PROVE PairInv'
<1>0. PICK o : o = Other(e)
      OBVIOUS
<1>1. /\ discovery \in [End -> Discovery] /\ line \in [End -> Seq(Flags)]
      /\ life \in [End -> [out : 0..Depth, heard : BOOLEAN]] /\ Depth \in Nat
      /\ restarts \in 0..MaxRestarts
      /\ \A x \in End : /\ Backed(discovery[x]) /\ Heard(discovery[x])
                        /\ Len(line[x]) <= Depth /\ life[x].out <= Len(line[x])
                        /\ LineBacked(discovery[x], line[x], life[x].out)
      /\ o \in End /\ o # e /\ Other(o) = e
      BY <1>0, OtherEnd, OtherOther, OamPairAssumption DEF OamPairAssumption, PairInv, TypeOK
<1>2. PICK f : f = Head(line[o])
      OBVIOUS
<1>3. PICK d : d = on_peer_information(discovery[e], f)
      OBVIOUS
<1>4. PICK m : m = Tail(line[o])
      OBVIOUS
<1>5. /\ line[o] # <<>> /\ discovery' = [discovery EXCEPT ![e] = d]
      /\ line' = [line EXCEPT ![o] = m] /\ restarts' = restarts
      BY <1>0, <1>2, <1>3, <1>4 DEF on_oam
<1>6. f \in Flags /\ GoodWord(f) /\ f = line[o][1] /\ 1 \in DOMAIN line[o]
      BY <1>1, <1>2, <1>5 DEF PairInv, WellFormed
<1>7. /\ d \in Discovery /\ Backed(d) /\ Heard(d) /\ Onward(discovery[e], d)
      /\ d.peer.local_stable = f.local_stable
  <2>1. /\ d \in Discovery /\ Backed(d) /\ Heard(d) /\ Onward(discovery[e], d)
        /\ d.peer = Word(f)
        BY <1>1, <1>3, <1>6, Informed
  <2>2. Word(f).local_stable = f.local_stable
        BY DEF Word
  <2> QED BY <2>1, <2>2
<1>8. /\ discovery' \in [End -> Discovery]
      /\ \A x \in End : Backed(discovery'[x]) /\ Heard(discovery'[x])
      BY <1>1, <1>5, <1>7
<1>9. /\ m \in Seq(Flags) /\ Len(m) = Len(line[o]) - 1 /\ Len(line[o]) \in Nat \ {0}
      /\ \A i \in DOMAIN m : i + 1 \in DOMAIN line[o] /\ m[i] = line[o][i + 1]
      BY <1>1, <1>4, <1>5
<1>10. PICK k : k = life'[o]
      OBVIOUS
<1>11. /\ k \in [out : 0..Depth, heard : BOOLEAN] /\ life' = [life EXCEPT ![o] = k]
       /\ k.out <= Len(m) /\ k.out <= life[o].out /\ (k.heard => k.out = Len(m))
       /\ k.heard /\ discovery[o].state = "LocalEvaluating" => ~f.local_stable
  <2>1. CASE life[o].out < Len(line[o])
    <3>1. life' = life /\ k = life[o]
          BY <1>0, <1>10, <2>1 DEF on_oam, HeadIsOld
    <3>2. ~k.heard
          BY <1>1, <2>1, <3>1 DEF PairInv, HeardLast
    <3> QED BY <1>1, <1>9, <2>1, <3>1, <3>2
  <2>2. CASE ~(life[o].out < Len(line[o]))
    <3>1. life[o].out = Len(line[o])
          BY <1>1, <1>9, <2>2
    <3>2. life' = [life EXCEPT ![o] = [out |-> life[o].out - 1, heard |-> TRUE]]
          BY <1>0, <2>2 DEF on_oam, HeadIsOld
    <3>3. k = [out |-> Len(m), heard |-> TRUE]
          BY <1>1, <1>9, <1>10, <3>1, <3>2
    <3>4. Len(m) \in 0..Depth
          BY <1>1, <1>9
    <3>5. f.local_stable => discovery[o].state # "LocalEvaluating"
      <4>1. LineBacked(discovery[o], line[o], Len(line[o]))
            BY <1>1, <3>1
      <4>2. 1 > Len(line[o]) - Len(line[o])
            BY <1>9
      <4> QED BY <1>6, <4>1, <4>2 DEF LineBacked
    <3> QED BY <1>1, <1>9, <3>1, <3>2, <3>3, <3>4, <3>5
  <2> QED BY <2>1, <2>2
<1>12. LineBacked(discovery[o], m, k.out)
  <2>1. k.out \in Nat /\ life[o].out \in Nat /\ k.out < Len(line[o])
        BY <1>1, <1>9, <1>11
  <2> QED BY <1>1, <1>4, <1>5, <1>11, <2>1, RestIsBacked
<1>13. TypeOK'
  <2>1. line' \in [End -> Seq(Flags)] /\ \A x \in End : Len(line'[x]) <= Depth
        BY <1>1, <1>5, <1>9
  <2>2. /\ life' \in [End -> [out : 0..Depth, heard : BOOLEAN]]
        /\ \A x \in End : life'[x].out <= Len(line'[x])
        BY <1>1, <1>5, <1>11
  <2> QED BY <1>1, <1>5, <1>8, <2>1, <2>2 DEF TypeOK
<1>14. WellFormed'
      BY <1>1, <1>5, <1>9 DEF PairInv, WellFormed
<1>15. HeardLast'
      BY <1>1, <1>5, <1>11 DEF PairInv, HeardLast
<1>16. Believed'
  <2>1. SUFFICES ASSUME NEW x \in End, discovery'[x].state = "LocalEvaluating", life'[x].heard
                 PROVE  ~discovery'[Other(x)].peer.local_stable
        BY DEF Believed
  <2>2. discovery[x].state = "LocalEvaluating"
        BY <1>1, <1>5, <1>7, <2>1 DEF Onward
  <2>3. CASE x = o
        BY <1>1, <1>5, <1>7, <1>11, <2>1, <2>2, <2>3
  <2>4. CASE x # o
    <3>1. life[x].heard
          BY <1>1, <1>11, <2>1, <2>4
    <3>2. ~discovery[Other(x)].peer.local_stable
          BY <2>2, <3>1 DEF PairInv, Believed
    <3>3. Other(x) # e
          BY <1>1, <2>4, OtherOther
    <3> QED BY <1>1, <1>5, <3>2, <3>3, OtherEnd
  <2> QED BY <2>3, <2>4
<1>17. ASSUME NEW x \in End PROVE LineBacked(discovery'[x], line'[x], life'[x].out)
  <2>1. CASE x = o
        BY <1>1, <1>5, <1>11, <1>12, <2>1
  <2>2. CASE x # o
    <3>1. line'[x] = line[x] /\ life'[x] = life[x] /\ Onward(discovery[x], discovery'[x])
          BY <1>1, <1>5, <1>7, <1>11, <2>2 DEF Onward
    <3> QED BY <1>1, <3>1, StillBacked
  <2> QED BY <2>1, <2>2
<1> QED BY <1>8, <1>13, <1>14, <1>15, <1>16, <1>17 DEF PairInv

\* An end that starts over claims nothing, and nothing it said before counts.
LEMMA RestartInv == ASSUME PairInv, NEW e \in End, Restart(e) PROVE PairInv'
<1>1. /\ discovery \in [End -> Discovery] /\ line \in [End -> Seq(Flags)]
      /\ life \in [End -> [out : 0..Depth, heard : BOOLEAN]] /\ Depth \in Nat
      /\ \A x \in End : /\ Backed(discovery[x]) /\ Heard(discovery[x])
                        /\ Len(line[x]) \in Nat /\ life[x].out <= Len(line[x])
                        /\ LineBacked(discovery[x], line[x], life[x].out)
      BY OamPairAssumption DEF OamPairAssumption, PairInv, TypeOK
<1>2. /\ discovery' = [discovery EXCEPT ![e] = DefaultDiscovery]
      /\ life' = [life EXCEPT ![e] = Unheard] /\ line' = line
      BY DEF Restart
<1>3. /\ discovery' \in [End -> Discovery]
      /\ \A x \in End : Backed(discovery'[x]) /\ Heard(discovery'[x])
      BY <1>1, <1>2, Fresh
<1>4. /\ life' \in [End -> [out : 0..Depth, heard : BOOLEAN]]
      /\ \A x \in End : life'[x].out <= Len(line'[x])
      BY <1>1, <1>2 DEF Unheard
<1>5. TypeOK'
      BY <1>2, <1>3, <1>4, OamPairAssumption DEF OamPairAssumption, TypeOK, Restart, PairInv
<1>6. WellFormed' /\ HeardLast'
      BY <1>1, <1>2 DEF PairInv, WellFormed, HeardLast, Unheard
<1>7. Believed'
  <2>1. SUFFICES ASSUME NEW x \in End, discovery'[x].state = "LocalEvaluating", life'[x].heard
                 PROVE  ~discovery'[Other(x)].peer.local_stable
        BY DEF Believed
  <2>2. x # e /\ discovery'[x] = discovery[x] /\ life[x].heard
        BY <1>1, <1>2, <2>1 DEF Unheard
  <2>3. ~discovery[Other(x)].peer.local_stable
        BY <2>1, <2>2 DEF PairInv, Believed
  <2> QED BY <1>1, <1>2, <2>3, Fresh, OtherEnd
<1>8. ASSUME NEW x \in End PROVE LineBacked(discovery'[x], line'[x], life'[x].out)
  <2>1. CASE x = e
    <3>1. life'[x].out = 0
          BY <1>1, <1>2, <2>1 DEF Unheard
    <3> QED BY <1>1, <1>2, <3>1 DEF LineBacked
  <2>2. CASE x # e
        BY <1>1, <1>2, <2>2
  <2> QED BY <2>1, <2>2
<1> QED BY <1>3, <1>5, <1>6, <1>7, <1>8 DEF PairInv

\* The inductive invariant, for any EVALUATING_PDUS, any depth and any restarts.
THEOREM PairInvariance == Spec => []PairInv
<1>1. PairInv /\ [Next]_vars => PairInv'
  <2> SUFFICES ASSUME PairInv, [Next]_vars PROVE PairInv'
      OBVIOUS
  <2>1. ASSUME NEW e \in End, Keepalive(e) \/ on_oam(e) \/ Restart(e) PROVE PairInv'
        BY <2>1, KeepaliveInv, OnOamInv, RestartInv
  <2>2. CASE UNCHANGED vars
        BY <2>2 DEF vars, PairInv, TypeOK, WellFormed, HeardLast, Believed
  <2> QED BY <2>1, <2>2 DEF Next
<1> QED BY <1>1, PairInit, PTL DEF Spec

\* What the invariant says of the claims: of an end in its state and on its line, and of
\* what the other end makes of them after a restart.
LEMMA BackedWords == ASSUME PairInv PROVE WordsAreBacked
<1>1. TypeOK
      BY DEF PairInv
<1>2. EvidenceBeforeStability
  <2>1. SUFFICES ASSUME NEW e \in End, ~discovery[e].peer_described_itself
                 PROVE  /\ discovery[e].state = "LocalEvaluating"
                        /\ \A i \in Current(e) : ~ClaimsToHaveHeard(line[e][i])
        BY DEF EvidenceBeforeStability
  <2>2. Backed(discovery[e]) /\ LineBacked(discovery[e], line[e], life[e].out)
        BY DEF PairInv
  <2> QED BY <2>1, <2>2 DEF Backed, LineBacked, Current
<1>3. ClaimsStand
  <2>1. SUFFICES ASSUME NEW e \in End, NEW i \in Current(e), line[e][i].local_stable
                 PROVE  /\ discovery[e].state # "LocalEvaluating"
                        /\ \A j \in Current(e) : j > i => line[e][j].local_stable
        BY DEF ClaimsStand
  <2>2. LineBacked(discovery[e], line[e], life[e].out)
        BY DEF PairInv
  <2> QED BY <2>1, <2>2 DEF LineBacked, Current
<1>4. RestartIsHeard
  <2>1. SUFFICES ASSUME NEW e \in End, discovery[e].state = "LocalEvaluating", life[e].heard
                 PROVE  discovery[Other(e)].state # "Converged"
        BY DEF RestartIsHeard
  <2>2. ~discovery[Other(e)].peer.local_stable
        BY <2>1 DEF PairInv, Believed
  <2>3. Heard(discovery[Other(e)])
        BY OtherEnd DEF PairInv
  <2> QED BY <2>2, <2>3 DEF Heard
<1> QED BY <1>1, <1>2, <1>3, <1>4 DEF WordsAreBacked

\* "Stability is claimed against evidence": no end claims more, in its state or on its
\* line, than it has heard since it last restarted, and an end that restarted is not
\* taken for stable once a word of its new life arrived (oam.rs settle_if_evaluated,
\* on_peer_flags).
THEOREM ClaimsAreBacked == Spec => []WordsAreBacked
BY PairInvariance, BackedWords, PTL

\* An end is converged only on the other's last word (oam.rs on_peer_flags).
THEOREM ConvergenceIsCurrent == Spec => []ConvergedOnLastWord
<1>1. PairInv => ConvergedOnLastWord
      BY DEF PairInv, Heard, ConvergedOnLastWord
<1> QED BY <1>1, PairInvariance, PTL
===============================================================================
