----------------------------- MODULE CpuCore_proofs -----------------------------
(***************************************************************************)
(* Proofs about CpuCore, for a program of any size, any number of nested   *)
(* calls and any timer settings: the core stays in a state it can go on    *)
(* from, a taken branch lands, and a handler never uses up an iteration of *)
(* the loop it interrupted.                                                *)
(*                                                                         *)
(* ContextIntact alone is not inductive: when a handler returns, the       *)
(* status of its own entry is what the core goes on with, and it has to    *)
(* say that the level below is still active and its loop still off.        *)
(* Nested says that of every saved status but the outermost.  A step is a  *)
(* composition of functions on the core's state, and every one of them is  *)
(* shown to keep Good.                                                     *)
(***************************************************************************)
EXTENDS CpuCore, FiniteSetTheorems, SequenceTheorems, WellFoundedInduction, TLAPS

\* A handler that interrupted another was entered with that one's level active
\* and with loops off.
Nested(c) ==
    \A n, m \in DOMAIN c.frames :
        m < n => c.frames[n].status.a[c.frames[m].level] /\ c.frames[n].status.l

\* Loops are off in a handler.
LoopsOff(c) == c.frames # <<>> => c.l

Good(c) ==
    /\ c \in Core
    /\ Len(c.shadow_call_stack) <= StackDepth /\ Len(c.frames) <= 2
    /\ Intact(c) /\ Nested(c) /\ LoopsOff(c)

\* A core that still runs has not recognised its spin.
Unrecognised(c) == c.halted \/ c.spin < TightLoop

CoreInv == Good(cpu) /\ Unrecognised(cpu)

\* What an interrupt saved, and what it reads when it returns.
SameContext(c, d) ==
    /\ d.frames = c.frames /\ d.ilink = c.ilink /\ d.status = c.status
    /\ d.a = c.a /\ d.l = c.l

\* What the steps around an instruction leave alone.
Steady(c, d) ==
    /\ SameContext(c, d)
    /\ d.pc = c.pc /\ d.delay = c.delay /\ d.lp_count = c.lp_count /\ d.rebooted = c.rebooted

--------------------------------------------------------------------------------
\* Numbers.

\* A set of numbers has a least one, so Min is what it says.
LEMMA LeastExists ==
    ASSUME NEW S, S \subseteq Nat, S # {} PROVE Min(S) \in S /\ \A y \in S : Min(S) <= y
<1> DEFINE R == OpToRel(<, Nat)
<1>1. IsWellFoundedOn(R, Nat)
      BY NatLessThanWellFounded
<1>2. \A x, y \in Nat : x < y => <<x, y>> \in R
      BY DEF OpToRel
<1> HIDE DEF R
<1>3. PICK x \in S : \A y \in S : <<y, x>> \notin R
      BY <1>1, WFMin
<1>4. ASSUME NEW y \in S PROVE x <= y
  <2>1. x \in Nat /\ y \in Nat /\ ~(y < x)
        BY <1>2, <1>3
  <2> QED BY <2>1
<1> QED BY <1>4 DEF Min

\* Finitely many numbers have an upper bound.
LEMMA BoundOfList ==
    ASSUME NEW n \in Nat, NEW f \in [1..n -> Nat] PROVE \E b \in Nat : \A i \in 1..n : f[i] <= b
<1> DEFINE Unbounded == {j \in 0..n : ~\E b \in Nat : \A i \in 1..j : f[i] <= b}
<1>1. SUFFICES ASSUME Unbounded # {} PROVE FALSE
  <2>1. n \in 0..n
        OBVIOUS
  <2> QED BY <2>1
<1>2. PICK k \in Unbounded : \A y \in Unbounded : k <= y
  <2>1. Unbounded \subseteq Nat
        OBVIOUS
  <2> HIDE DEF Unbounded
  <2> QED BY <1>1, <2>1, LeastExists
<1>3. k \in 0..n /\ k # 0
      BY <1>2
<1>4. k - 1 \in 0..n /\ k - 1 \notin Unbounded
  <2>1. k - 1 \in 0..n /\ ~(k <= k - 1)
        BY <1>3
  <2> HIDE DEF Unbounded
  <2> QED BY <1>2, <2>1
<1>5. PICK b \in Nat : \A i \in 1..(k - 1) : f[i] <= b
      BY <1>4
<1>6. f[k] \in Nat /\ b \in Nat
      BY <1>3, <1>5
<1>7. PICK d \in Nat : b <= d /\ f[k] <= d
  <2>1. b + f[k] \in Nat /\ b <= b + f[k] /\ f[k] <= b + f[k]
        BY <1>6
  <2> QED BY <2>1
<1>8. \A i \in 1..k : f[i] <= d
  <2> TAKE i \in 1..k
  <2>1. f[i] \in Nat
        BY <1>3
  <2>2. i = k \/ i \in 1..(k - 1)
        BY <1>3
  <2> QED BY <1>5, <1>6, <1>7, <2>1, <2>2
<1> QED BY <1>2, <1>7, <1>8

\* A finite set of numbers has an upper bound.
LEMMA BoundExists ==
    ASSUME NEW S, S \subseteq Nat, IsFiniteSet(S) PROVE \E b \in Nat : \A x \in S : x <= b
<1>1. PICK n \in Nat : ExistsSurjection(1..n, S)
      BY FS_NatSurjection
<1>2. PICK f \in [1..n -> S] : \A x \in S : \E i \in 1..n : f[i] = x
      BY <1>1 DEF ExistsSurjection, Surjection
<1>3. f \in [1..n -> Nat]
      BY <1>2
<1>4. PICK b \in Nat : \A i \in 1..n : f[i] <= b
      BY <1>1, <1>3, BoundOfList
<1> QED BY <1>2, <1>4

\* A finite, nonempty set of numbers has a greatest one, so Max is what it says.
LEMMA GreatestExists ==
    ASSUME NEW S, S \subseteq Nat, IsFiniteSet(S), S # {} PROVE Max(S) \in S
<1> DEFINE B == {b \in Nat : \A x \in S : x <= b}
           u == Min(B)
<1>1. B # {} /\ B \subseteq Nat
      BY BoundExists
<1>2. u \in B /\ \A b \in B : u <= b
  <2> HIDE DEF B
  <2> QED BY <1>1, LeastExists
<1>3. u \in S
  <2> SUFFICES ASSUME u \notin S PROVE FALSE
      OBVIOUS
  <2>1. PICK x \in S : TRUE
        OBVIOUS
  <2>2. u \in Nat /\ x \in Nat /\ x <= u /\ x # u
        BY <1>2
  <2>3. u - 1 \in B
        BY <1>2, <2>2
  <2> QED BY <1>2, <2>2, <2>3
<1>4. \A x \in S : u >= x
      BY <1>2
<1> QED BY <1>3, <1>4 DEF Max

\* The address behind an address is one.
LEMMA FollowingIsAddress == ASSUME NEW c \in Core PROVE following(c) \in Address
<1>1. c.pc \in Nat /\ c.pc + 1 \in Nat
      BY DEF Core, Address
<1>2. Size \in Nat \ {0}
      BY CpuCoreAssumption
<1>3. (c.pc + 1) % Size \in 0..(Size - 1)
      BY <1>1, <1>2
<1> QED BY <1>3 DEF following, Address

\* The bound on a count is a number.
LEMMA CeilingIsNat == Ceiling \in Nat
<1> DEFINE L == {s.limit : s \in Settings}
<1>1. L \subseteq Nat
      BY CpuCoreAssumption
<1>2. [s \in Settings |-> s.limit] \in Surjection(Settings, L)
      BY DEF Surjection
<1>3. IsFiniteSet(L)
      BY <1>2, CpuCoreAssumption, FS_Surjection
<1> HIDE DEF L
<1>4. IsFiniteSet(L \cup {1}) /\ L \cup {1} \subseteq Nat /\ L \cup {1} # {}
      BY <1>1, <1>3, FS_AddElement
<1>5. Max(L \cup {1}) \in L \cup {1}
      BY <1>4, GreatestExists
<1>6. Max(L \cup {1}) \in Nat
      BY <1>4, <1>5
<1> QED BY <1>6 DEF Ceiling, L

--------------------------------------------------------------------------------
\* What an interrupt saved, and executing an instruction.

\* A change of other fields disturbs no context.
LEMMA ContextKept ==
    ASSUME NEW c, NEW d, Good(c), d \in Core, SameContext(c, d),
           Len(d.shadow_call_stack) <= StackDepth
    PROVE  Good(d)
BY DEF Good, Intact, Nested, LoopsOff, SameContext

\* What is left of a stack, and what was on top of it.
LEMMA FrontIsSeq ==
    ASSUME NEW S, NEW s \in Seq(S), s # <<>>
    PROVE  /\ Front(s) \in Seq(S) /\ Len(Front(s)) = Len(s) - 1
           /\ \A n \in 1..(Len(s) - 1) : Front(s)[n] = s[n]
           /\ Len(s) \in 1..Len(s) /\ Last(s) = s[Len(s)] /\ Last(s) \in S
<1>1. Len(s) \in Nat /\ Len(s) # 0
      BY EmptySeq
<1>2. Len(s) \in 1..Len(s) /\ s[Len(s)] \in S
      BY <1>1, ElementOfSeq
<1>3. 1 \in 1..(Len(s) + 1) /\ Len(s) - 1 \in 0..Len(s) /\ \A n \in 1..(Len(s) - 1) : n \in 1..Len(s)
      BY <1>1
<1>4. SubSeq(s, 1, Len(s) - 1) = [n \in 1..(Len(s) - 1) |-> s[n]]
      BY <1>1, SMTT(20)
<1>5. [n \in 1..(Len(s) - 1) |-> s[n]] \in Seq(S) /\ Len([n \in 1..(Len(s) - 1) |-> s[n]]) = Len(s) - 1
      BY <1>1, <1>3, ElementOfSeq
<1> QED BY <1>2, <1>3, <1>4, <1>5 DEF Front, Last

\* An instruction carries what its kind needs.
LEMMA OfInstruction ==
    ASSUME NEW i \in Instructions
    PROVE  /\ i.op \in {"Nop", "Brk", "Branch", "Call", "Return", "ReturnFromInterrupt", "Flag",
                        "Sleep", "Loop", "LoopCount", "Timer", "ClearCount"}
           /\ i.op \in {"Branch", "Call"} => i.to \in Address
           /\ i.op \in {"Flag", "Sleep"} => i.e \in [Level -> BOOLEAN]
           /\ i.op = "Loop" => i.to \in Address
           /\ i.op = "LoopCount" => i.n \in Nat
           /\ i.op \in {"Timer", "ClearCount"} => i.t \in TimerId
           /\ i.op = "Timer" => i.set \in [limit : Nat, ie : BOOLEAN, w : BOOLEAN, nh : BOOLEAN]
<1>1. i.op \in {"Nop", "Brk", "Branch", "Call", "Return", "ReturnFromInterrupt", "Flag",
                "Sleep", "Loop", "LoopCount", "Timer", "ClearCount"}
      BY DEF Instructions
<1>2. i.op \in {"Branch", "Call"} => i.to \in Address
      BY DEF Instructions
<1>3. i.op \in {"Flag", "Sleep"} => i.e \in [Level -> BOOLEAN]
  <2>1. i.op \in {"Flag", "Sleep"} => i.e \in Masks
        BY DEF Instructions
  <2> QED BY <2>1, CpuCoreAssumption DEF Level
<1>4. i.op = "Loop" => i.to \in Address
      BY DEF Instructions
<1>5. i.op = "LoopCount" => i.n \in Nat
  <2>1. i.op = "LoopCount" => i.n \in Iterations
        BY DEF Instructions
  <2> QED BY <2>1, CpuCoreAssumption
<1>6. i.op \in {"Timer", "ClearCount"} => i.t \in TimerId
      BY DEF Instructions
<1>7. i.op = "Timer" => i.set \in Settings
      BY DEF Instructions
<1> QED BY <1>1, <1>2, <1>3, <1>4, <1>5, <1>6, <1>7, CpuCoreAssumption

\* A return gives back the context of what was interrupted.
LEMMA ReturnGood ==
    ASSUME NEW c, Good(c), NEW s, c.frames # <<>>, s = c.status[Last(c.frames).level]
    PROVE  Good([c EXCEPT !.e = s.e, !.a = s.a, !.l = s.l, !.frames = Front(@)])
<1> DEFINE d == [c EXCEPT !.e = s.e, !.a = s.a, !.l = s.l, !.frames = Front(@)]
<1> DEFINE top == Len(c.frames)
<1>1. /\ c \in Core /\ c.frames \in Seq(Frame) /\ c.status \in [Level -> Status]
      /\ Len(c.frames) <= 2 /\ Len(c.shadow_call_stack) <= StackDepth
      BY DEF Good, Core
<1>2. /\ Front(c.frames) \in Seq(Frame) /\ Len(Front(c.frames)) = top - 1
      /\ \A n \in 1..(top - 1) : Front(c.frames)[n] = c.frames[n]
      /\ top \in 1..top /\ Last(c.frames) = c.frames[top] /\ Last(c.frames) \in Frame
      BY <1>1, FrontIsSeq
<1>3. Last(c.frames).level \in Level
      BY <1>2 DEF Frame
<1>4. s \in Status /\ s = c.frames[top].status
      BY <1>1, <1>2, <1>3 DEF Good, Intact
<1>5. d \in Core
      BY <1>1, <1>2, <1>4 DEF Core, Status
<1>6. /\ d.frames = Front(c.frames) /\ d.ilink = c.ilink /\ d.status = c.status
      /\ d.a = s.a /\ d.l = s.l /\ d.shadow_call_stack = c.shadow_call_stack
      BY <1>1 DEF Core
<1> HIDE DEF d
<1>7. Len(c.frames) \in Nat /\ Len(d.frames) = top - 1 /\ DOMAIN d.frames = 1..(top - 1)
      /\ DOMAIN c.frames = 1..top
      BY <1>1, <1>2, <1>6
<1>8. \A n \in 1..(top - 1) : n \in 1..top /\ n < top /\ d.frames[n] = c.frames[n]
      BY <1>2, <1>6, <1>7
<1>9. \A n \in 1..(top - 1) : s.a[c.frames[n].level] /\ s.l
  <2>1. \A m, n \in DOMAIN c.frames :
            n < m => c.frames[m].status.a[c.frames[n].level] /\ c.frames[m].status.l
        BY DEF Good, Nested
  <2>2. top \in DOMAIN c.frames
        BY <1>2, <1>7
  <2> HIDE DEF top
  <2>3. ASSUME NEW n \in 1..(top - 1) PROVE s.a[c.frames[n].level] /\ s.l
    <3>1. n \in DOMAIN c.frames /\ n < top
          BY <1>7, <1>8
    <3>2. c.frames[top].status.a[c.frames[n].level] /\ c.frames[top].status.l
          BY <2>1, <2>2, <3>1
    <3> QED BY <1>4, <3>2
  <2> QED BY <2>3
<1>10. Intact(d)
       BY <1>6, <1>7, <1>8, <1>9 DEF Good, Intact
<1>11. Nested(d)
       BY <1>6, <1>7, <1>8 DEF Good, Nested
<1>12. LoopsOff(d)
  <2> SUFFICES ASSUME d.frames # <<>> PROVE s.l
      BY <1>6 DEF LoopsOff
  <2>1. top - 1 # 0
        BY <1>2, <1>6, <1>7
  <2>2. top - 1 \in 1..(top - 1)
        BY <1>2, <1>7, <2>1
  <2> QED BY <1>9, <2>2
<1> QED BY <1>1, <1>5, <1>6, <1>7, <1>10, <1>11, <1>12 DEF Good, d
\* The registers an instruction writes leave the core good; a loop's count in a
\* handler, and the frames behind a branch, stay as they were.
LEMMA RegistersGood ==
    ASSUME NEW c, Good(c), NEW i \in Instructions, Allowed(c, i)
    PROVE  LET d == Registers(c, i)
           IN /\ Good(d)
              /\ d.rebooted = c.rebooted /\ d.spin = c.spin
              /\ c.frames # <<>> => d.lp_count = c.lp_count
              /\ c.delay # NoDelay => d.frames = c.frames
<1> DEFINE d == Registers(c, i)
<1>1. c \in Core /\ c.frames \in Seq(Frame) /\ Len(c.shadow_call_stack) <= StackDepth
      BY DEF Good, Core
<1>2. following(c) \in Address
      BY <1>1, FollowingIsAddress
<1>3. CASE i.op \in {"Flag", "Sleep", "Brk", "LoopCount", "Timer", "ClearCount", "Nop", "Branch"}
  <2>1. \/ i.op = "Flag" /\ d = [c EXCEPT !.e = i.e]
        \/ i.op = "Sleep" /\ d = [c EXCEPT !.sleeping = TRUE, !.e = IF i.operand THEN i.e ELSE @]
        \/ i.op = "Brk" /\ d = [c EXCEPT !.halted = TRUE]
        \/ i.op = "LoopCount" /\ d = [c EXCEPT !.lp_count = i.n]
        \/ i.op = "Timer" /\ d = [c EXCEPT !.timer[i.t] = [count |-> @.count, limit |-> i.set.limit,
                                            ie |-> i.set.ie, w |-> i.set.w, nh |-> i.set.nh]]
        \/ i.op = "ClearCount" /\ d = [c EXCEPT !.timer[i.t].count = 0]
        \/ d = c
        BY <1>3 DEF Registers
  <2>2. /\ d \in Core /\ SameContext(c, d) /\ d.rebooted = c.rebooted /\ d.spin = c.spin
        /\ d.lp_count = c.lp_count \/ i.op = "LoopCount"
        /\ d.shadow_call_stack = c.shadow_call_stack
    <3> HIDE DEF d
    <3>1. CASE i.op = "Flag" /\ d = [c EXCEPT !.e = i.e]
          BY <1>1, <3>1, OfInstruction DEF Core, SameContext
    <3>2. CASE i.op = "Sleep" /\ d = [c EXCEPT !.sleeping = TRUE, !.e = IF i.operand THEN i.e ELSE @]
          BY <1>1, <3>2, OfInstruction DEF Core, SameContext
    <3>3. CASE i.op = "Brk" /\ d = [c EXCEPT !.halted = TRUE]
          BY <1>1, <3>3 DEF Core, SameContext
    <3>4. CASE i.op = "LoopCount" /\ d = [c EXCEPT !.lp_count = i.n]
          BY <1>1, <3>4, OfInstruction DEF Core, SameContext
    <3>5. CASE i.op = "Timer" /\ d = [c EXCEPT !.timer[i.t] =
                  [count |-> @.count, limit |-> i.set.limit, ie |-> i.set.ie, w |-> i.set.w, nh |-> i.set.nh]]
          BY <1>1, <3>5, OfInstruction DEF Core, SameContext
    <3>6. CASE i.op = "ClearCount" /\ d = [c EXCEPT !.timer[i.t].count = 0]
      <4> DEFINE Timers == [TimerId -> [count : Nat, limit : Nat, ie : BOOLEAN, w : BOOLEAN, nh : BOOLEAN]]
                 cleared == [c.timer EXCEPT ![i.t] = [@ EXCEPT !.count = 0]]
      <4>1. i.t \in TimerId /\ c.timer \in Timers
            BY <1>1, <3>6, OfInstruction DEF Core
      <4>2. cleared \in Timers
            BY <4>1
      <4>3. d = [c EXCEPT !.timer = cleared]
            BY <3>6
      <4> HIDE DEF cleared
      <4> QED BY <1>1, <4>2, <4>3 DEF Core, SameContext
    <3>7. CASE d = c
          BY <1>1, <3>7 DEF SameContext
    <3> QED BY <2>1, <3>1, <3>2, <3>3, <3>4, <3>5, <3>6, <3>7
  <2>3. i.op = "LoopCount" => c.frames = <<>>
        BY DEF Allowed
  <2> HIDE DEF d
  <2>4. Good(d)
        BY <1>1, <2>2, ContextKept
  <2> QED BY <2>2, <2>3, <2>4 DEF d, SameContext
<1>4. CASE i.op = "Loop"
  <2>1. c.frames = <<>> /\ c.delay = NoDelay
        BY <1>4 DEF Allowed
  <2>2. d = [c EXCEPT !.l = FALSE, !.lp_start = following(c), !.lp_end = i.to]
        BY <1>4 DEF Registers
  <2>3. d \in Core /\ d.frames = <<>> /\ d.shadow_call_stack = c.shadow_call_stack
        /\ d.rebooted = c.rebooted /\ d.spin = c.spin
        BY <1>1, <1>2, <1>4, <2>1, <2>2, OfInstruction DEF Core
  <2> HIDE DEF d
  <2>4. Good(d)
        BY <1>1, <2>1, <2>3 DEF Good, Intact, Nested, LoopsOff
  <2> QED BY <2>1, <2>3, <2>4 DEF d
<1>5. CASE i.op \in {"Return", "Call"}
  <2>1. i.op = "Return" => c.calls # <<>>
        BY DEF Allowed
  <2>2. c.calls \in Seq(Address)
        BY <1>1 DEF Core
  <2>3. i.op = "Return" => Front(c.calls) \in Seq(Address)
        BY <2>1, <2>2, FrontIsSeq
  <2>4. Append(c.calls, following(c)) \in Seq(Address)
        BY <1>2, <2>2
  <2>5. \/ i.op = "Return" /\ d = [c EXCEPT !.calls = Front(@)]
        \/ d = [c EXCEPT !.blink = following(c), !.calls = Append(@, following(c))]
        \/ d = c
        BY <1>5 DEF Registers
  <2>6. /\ d \in Core /\ SameContext(c, d) /\ d.rebooted = c.rebooted /\ d.spin = c.spin
        /\ d.lp_count = c.lp_count /\ d.shadow_call_stack = c.shadow_call_stack
    <3> HIDE DEF d
    <3>1. CASE i.op = "Return" /\ d = [c EXCEPT !.calls = Front(@)]
          BY <1>1, <2>3, <3>1 DEF Core, SameContext
    <3>2. CASE d = [c EXCEPT !.blink = following(c), !.calls = Append(@, following(c))]
          BY <1>1, <1>2, <2>4, <3>2 DEF Core, SameContext
    <3>3. CASE d = c
          BY <1>1, <3>3 DEF SameContext
    <3> QED BY <2>5, <3>1, <3>2, <3>3
  <2> HIDE DEF d
  <2>7. Good(d)
        BY <1>1, <2>6, ContextKept
  <2> QED BY <2>6, <2>7 DEF d, SameContext
<1>6. CASE i.op = "ReturnFromInterrupt"
  <2>1. c.frames # <<>> /\ c.delay = NoDelay
    <3>1. c.frames # <<>>
          BY <1>6 DEF Allowed
    <3>2. c.delay # NoDelay => i.op \notin Transfers
          BY DEF Allowed
    <3>3. i.op \in Transfers
          BY <1>6 DEF Transfers
    <3> QED BY <3>1, <3>2, <3>3
  <2> DEFINE s == c.status[Last(c.frames).level]
  <2>2. d = [c EXCEPT !.e = s.e, !.a = s.a, !.l = s.l, !.frames = Front(@)]
        BY <1>6 DEF Registers
  <2>3. d.rebooted = c.rebooted /\ d.spin = c.spin /\ d.lp_count = c.lp_count
        BY <1>1, <2>2 DEF Core
  <2> HIDE DEF d, s
  <2>4. Good([c EXCEPT !.e = s.e, !.a = s.a, !.l = s.l, !.frames = Front(@)])
        BY <2>1, ReturnGood DEF s
  <2>5. Good(d)
        BY <2>2, <2>4
  <2> QED BY <2>1, <2>3, <2>5 DEF d
<1> QED BY <1>3, <1>4, <1>5, <1>6, OfInstruction
\* Leaving a loop with its last pass happens outside handlers only.
LEMMA LeavesLoopGood ==
    ASSUME NEW c, Good(c)
    PROVE  LET d == LeavesLoop(c)
           IN /\ Good(d) /\ SameContext(c, d)
              /\ d.delay = c.delay /\ d.rebooted = c.rebooted /\ d.spin = c.spin
              /\ d.calls = c.calls /\ d.blink = c.blink
              /\ c.frames # <<>> => d.lp_count = c.lp_count
<1> DEFINE d == LeavesLoop(c)
<1>1. c \in Core /\ Len(c.shadow_call_stack) <= StackDepth
      BY DEF Good
<1>2. d = c \/ (~c.l /\ d = [c EXCEPT !.lp_count = 0])
      BY DEF LeavesLoop
<1>3. c.frames # <<>> => c.l
      BY DEF Good, LoopsOff
<1> HIDE DEF d
<1>4. /\ d \in Core /\ SameContext(c, d) /\ d.delay = c.delay /\ d.rebooted = c.rebooted
      /\ d.spin = c.spin /\ d.calls = c.calls /\ d.blink = c.blink
      /\ d.shadow_call_stack = c.shadow_call_stack
  <2>1. CASE d = c
        BY <1>1, <2>1 DEF SameContext
  <2>2. CASE d = [c EXCEPT !.lp_count = 0]
        BY <1>1, <2>2 DEF Core, SameContext
  <2> QED BY <1>2, <2>1, <2>2
<1>5. c.frames # <<>> => d.lp_count = c.lp_count
      BY <1>2, <1>3
<1>6. Good(d)
      BY <1>1, <1>4, ContextKept
<1> QED BY <1>4, <1>5, <1>6 DEF d

\* Where an instruction goes is an address.
LEMMA TargetIsAddress ==
    ASSUME NEW c, Good(c), NEW i \in Instructions, Allowed(c, i), i.op \in Transfers
    PROVE  Target(c, i) \in Address
<1>1. c \in Core /\ c.frames \in Seq(Frame) /\ c.blink \in Address /\ c.ilink \in [Level -> Address]
      BY DEF Good, Core
<1>2. CASE i.op \in {"Branch", "Call"}
      BY <1>2, OfInstruction DEF Target
<1>3. CASE i.op = "Return"
      BY <1>1, <1>3 DEF Target
<1>4. CASE i.op = "ReturnFromInterrupt"
  <2>1. c.frames # <<>>
        BY <1>4 DEF Allowed
  <2>2. Last(c.frames) \in Frame
        BY <1>1, <2>1, FrontIsSeq
  <2>3. Last(c.frames).level \in Level
        BY <2>2 DEF Frame
  <2> QED BY <1>1, <1>4, <2>3 DEF Target
<1> QED BY <1>2, <1>3, <1>4 DEF Transfers

\* An instruction of the program leaves the core good.  In a delay slot it ends
\* the delay and goes where the branch said.
LEMMA ExecuteGood ==
    ASSUME NEW c, Good(c), NEW i \in Instructions, Allowed(c, i)
    PROVE  LET d == execute(c, c.delay, i)
           IN /\ Good(d)
              /\ d.rebooted = c.rebooted /\ d.spin = c.spin
              /\ c.frames # <<>> => d.lp_count = c.lp_count
              /\ c.delay # NoDelay =>
                     d.frames = c.frames /\ d.delay = NoDelay /\ d.pc = c.delay.target
<1> DEFINE linked == IF c.delay.link THEN [c EXCEPT !.blink = following(c),
                                                    !.calls = Append(@, following(c))]
                     ELSE c
           done == Registers(linked, i)
           after == IF i.op \in Transfers /\ i.delay
                    THEN [target |-> Target(linked, i), link |-> i.op = "Call"] ELSE NoDelay
           there == NextPc(linked, c.delay, i)
           d == execute(c, c.delay, i)
<1>1. /\ c \in Core /\ Len(c.shadow_call_stack) <= StackDepth /\ c.calls \in Seq(Address)
      /\ c.delay \in Delay /\ following(c) \in Address
      BY FollowingIsAddress DEF Good, Core
<1>2. c.delay # NoDelay => i.op \notin Transfers
      BY DEF Allowed
<1>3. /\ Good(linked) /\ Allowed(linked, i) /\ linked.frames = c.frames
      /\ linked.rebooted = c.rebooted /\ linked.spin = c.spin /\ linked.lp_count = c.lp_count
      /\ linked.delay = c.delay
  <2>1. CASE linked = c
        BY <2>1
  <2>2. CASE c.delay.link /\ linked = [c EXCEPT !.blink = following(c),
                                                !.calls = Append(@, following(c))]
    <3>1. c.delay # NoDelay
          BY <2>2 DEF NoDelay
    <3>2. Append(c.calls, following(c)) \in Seq(Address)
          BY <1>1
    <3> HIDE DEF linked
    <3>3. /\ linked \in Core /\ SameContext(c, linked)
          /\ linked.shadow_call_stack = c.shadow_call_stack
          /\ linked.rebooted = c.rebooted /\ linked.spin = c.spin /\ linked.lp_count = c.lp_count
          /\ linked.delay = c.delay
          BY <1>1, <2>2, <3>2 DEF Core, SameContext
    <3>4. Good(linked)
          BY <1>1, <3>3, ContextKept
    <3>5. Allowed(linked, i)
      <4>1. i.op \notin {"Branch", "Call", "Return", "ReturnFromInterrupt", "Loop", "Sleep", "Brk"}
            BY <3>1 DEF Allowed, Transfers
      <4>2. i.op \in {"Loop", "LoopCount"} => c.frames = <<>>
            BY DEF Allowed
      <4> QED BY <3>3, <4>1, <4>2 DEF Allowed, Transfers, SameContext
    <3> QED BY <3>3, <3>4, <3>5 DEF SameContext
  <2> QED BY <2>1, <2>2
<1>4. d = [done EXCEPT !.delay = after, !.pc = there, !.count = (@ + 1) % UartPrescaler]
      BY DEF execute
<1> HIDE DEF linked
<1>5. /\ Good(done) /\ done.rebooted = c.rebooted /\ done.spin = c.spin
      /\ c.frames # <<>> => done.lp_count = c.lp_count
      /\ c.delay # NoDelay => done.frames = c.frames
      BY <1>3, RegistersGood
<1>6. i.op \in Transfers => Target(linked, i) \in Address
      BY <1>3, TargetIsAddress
<1>7. after \in Delay
      BY <1>6 DEF Delay
<1>8. there \in Address
  <2>1. c.delay # NoDelay => c.delay.target \in Address
        BY <1>1 DEF Delay
  <2>2. following(linked) \in Address
        BY <1>3, FollowingIsAddress DEF Good
  <2> QED BY <1>6, <2>1, <2>2 DEF NextPc
<1>9. c.delay # NoDelay => after = NoDelay /\ there = c.delay.target
      BY <1>2 DEF NextPc
<1> HIDE DEF done, after, there, d
<1>10. /\ d \in Core /\ SameContext(done, d) /\ d.delay = after /\ d.pc = there
       /\ d.rebooted = done.rebooted /\ d.spin = done.spin /\ d.lp_count = done.lp_count
       /\ d.shadow_call_stack = done.shadow_call_stack
  <2>1. done \in Core /\ done.count \in Nat
        BY <1>5 DEF Good, Core
  <2>2. (done.count + 1) % UartPrescaler \in 0..(UartPrescaler - 1)
        BY <2>1, CpuCoreAssumption
  <2> QED BY <1>4, <1>7, <1>8, <2>1, <2>2 DEF Core, SameContext
<1>11. Good(d)
  <2>1. Len(done.shadow_call_stack) <= StackDepth
        BY <1>5 DEF Good
  <2> QED BY <1>5, <1>10, <2>1, ContextKept
<1> QED BY <1>5, <1>9, <1>10, <1>11 DEF d, SameContext
--------------------------------------------------------------------------------
\* What follows an instruction.

\* The detection of a spin moves nothing, and stops a core it has recognised.
LEMMA SpinGood ==
    ASSUME NEW c, Good(c), c.spin < TightLoop
    PROVE  LET d == spin_detection(c) IN Good(d) /\ Steady(c, d) /\ Unrecognised(d)
<1> DEFINE d == spin_detection(c)
           fast == fast_forward(c)
<1>1. /\ c \in Core /\ Len(c.shadow_call_stack) <= StackDepth /\ c.pc \in Address
      /\ c.spin \in Nat /\ TightLoop \in Nat \ {0}
      BY CpuCoreAssumption DEF Good, Core
<1>2. fast \in Core /\ Steady(c, fast) /\ fast.spin = c.spin
      /\ fast.shadow_call_stack = c.shadow_call_stack
  <2> DEFINE Timer == [count : Nat, limit : Nat, ie : BOOLEAN, w : BOOLEAN, nh : BOOLEAN]
             ahead == [t \in TimerId |-> IF is_watchdog(c.timer[t])
                                         THEN [c.timer[t] EXCEPT !.count = c.timer[t].limit - 1]
                                         ELSE c.timer[t]]
  <2>1. c.timer \in [TimerId -> Timer]
        BY <1>1 DEF Core
  <2>2. ASSUME NEW u \in Timer, is_watchdog(u) PROVE [u EXCEPT !.count = u.limit - 1] \in Timer
    <3>1. u.limit \in Nat /\ u.limit # 0
          BY <2>2 DEF is_watchdog
    <3>2. u.limit - 1 \in Nat
          BY <3>1
    <3> QED BY <3>2
  <2>3. ahead \in [TimerId -> Timer]
        BY <2>1, <2>2
  <2>4. fast = [c EXCEPT !.timer = ahead]
        BY DEF fast_forward
  <2> HIDE DEF ahead, fast
  <2> QED BY <1>1, <2>3, <2>4 DEF Core, Steady, SameContext
<1>3. \/ d = [c EXCEPT !.spin = 0, !.spin_pc = c.pc]
      \/ ~Recognised(c) /\ c.pc = c.spin_pc /\ d = [c EXCEPT !.spin = @ + 1]
      \/ d = [fast EXCEPT !.spin = 0]
      \/ d = [c EXCEPT !.spin = 0]
      \/ d = [c EXCEPT !.spin = @ + 1, !.halted = TRUE, !.hung = TRUE]
      BY DEF spin_detection
<1>4. ~Recognised(c) /\ c.pc = c.spin_pc => c.spin + 1 < TightLoop
      BY <1>1 DEF Recognised
<1> HIDE DEF d, fast
<1>0. c.spin + 1 \in 0..TightLoop /\ 0 \in 0..TightLoop /\ 0 < TightLoop /\ c.pc \in Address \cup {None}
      BY <1>1
<1>5. d \in Core /\ Steady(c, d) /\ d.shadow_call_stack = c.shadow_call_stack
      /\ (d.spin < TightLoop \/ d.halted = TRUE)
  <2>1. CASE d = [c EXCEPT !.spin = 0, !.spin_pc = c.pc]
        BY <1>1, <1>0, <2>1 DEF Core, Steady, SameContext
  <2>2. CASE ~Recognised(c) /\ c.pc = c.spin_pc /\ d = [c EXCEPT !.spin = @ + 1]
        BY <1>1, <1>0, <1>4, <2>2 DEF Core, Steady, SameContext
  <2>3. CASE d = [fast EXCEPT !.spin = 0]
        BY <1>1, <1>0, <1>2, <2>3 DEF Core, Steady, SameContext
  <2>4. CASE d = [c EXCEPT !.spin = 0]
        BY <1>1, <1>0, <2>4 DEF Core, Steady, SameContext
  <2>5. CASE d = [c EXCEPT !.spin = @ + 1, !.halted = TRUE, !.hung = TRUE]
        BY <1>1, <1>0, <2>5 DEF Core, Steady, SameContext
  <2> QED BY <1>3, <2>1, <2>2, <2>3, <2>4, <2>5
<1>6. Good(d)
  <2>1. SameContext(c, d) /\ Len(d.shadow_call_stack) <= StackDepth
        BY <1>1, <1>5 DEF Steady
  <2> QED BY <1>5, <2>1, ContextKept
<1>7. Unrecognised(d)
      BY <1>5 DEF Unrecognised
<1> QED BY <1>5, <1>6, <1>7 DEF d

\* The shadow call stack never outgrows its depth, and nothing else changes with it.
LEMMA CallStackGood ==
    ASSUME NEW c, Good(c), Unrecognised(c), NEW s, NEW i
    PROVE  LET d == call_stack(c, s, i) IN Good(d) /\ Steady(c, d) /\ Unrecognised(d)
<1> DEFINE d == call_stack(c, s, i)
           stack == c.shadow_call_stack
<1>1. c \in Core /\ stack \in Seq(Address) /\ Len(stack) <= StackDepth /\ c.blink \in Address
      /\ StackDepth \in Nat
      BY CpuCoreAssumption DEF Good, Core
<1>2. \/ d = c
      \/ Len(stack) < StackDepth /\ d = [c EXCEPT !.shadow_call_stack = Append(@, c.blink)]
      \/ stack # <<>> /\ d = [c EXCEPT !.shadow_call_stack = Front(@)]
      BY DEF call_stack, Push
<1> HIDE DEF d
<1>3. /\ d \in Core /\ Steady(c, d) /\ d.spin = c.spin /\ d.halted = c.halted
      /\ Len(d.shadow_call_stack) <= StackDepth
  <2>1. CASE d = c
        BY <1>1, <2>1 DEF Steady, SameContext
  <2>2. CASE Len(stack) < StackDepth /\ d = [c EXCEPT !.shadow_call_stack = Append(@, c.blink)]
    <3> DEFINE longer == Append(stack, c.blink)
    <3>1. longer \in Seq(Address) /\ Len(longer) = Len(stack) + 1 /\ Len(stack) \in Nat
          BY <1>1
    <3>2. Len(longer) <= StackDepth
          BY <1>1, <2>2, <3>1
    <3> HIDE DEF longer
    <3>3. d = [c EXCEPT !.shadow_call_stack = longer]
          BY <2>2 DEF longer
    <3> QED BY <1>1, <3>1, <3>2, <3>3 DEF Core, Steady, SameContext
  <2>3. CASE stack # <<>> /\ d = [c EXCEPT !.shadow_call_stack = Front(@)]
    <3> DEFINE shorter == Front(stack)
    <3>1. shorter \in Seq(Address) /\ Len(shorter) = Len(stack) - 1 /\ Len(stack) \in Nat
          BY <1>1, <2>3, FrontIsSeq
    <3>2. Len(shorter) <= StackDepth
          BY <1>1, <3>1
    <3> HIDE DEF shorter
    <3>3. d = [c EXCEPT !.shadow_call_stack = shorter]
          BY <2>3 DEF shorter
    <3> QED BY <1>1, <3>1, <3>2, <3>3 DEF Core, Steady, SameContext
  <2> QED BY <1>2, <2>1, <2>2, <2>3
<1>4. Good(d)
      BY <1>3, ContextKept DEF Steady
<1> QED BY <1>3, <1>4 DEF d, Unrecognised

\* Reset leaves a good core.
LEMMA ResetGood ==
    /\ Good(NewState) /\ Unrecognised(NewState)
    /\ Good(warm_reboot) /\ Unrecognised(warm_reboot)
<1>1. /\ Size \in Nat \ {0, 1} /\ 0 \in Address /\ StackDepth \in Nat /\ TightLoop \in Nat \ {0}
      /\ 0 \in 0..(UartPrescaler - 1) /\ 0 \in 0..TightLoop
      BY CpuCoreAssumption DEF Address
<1>2. /\ NewState.status \in [Level -> Status] /\ NoDelay \in Delay
      /\ <<>> \in Seq(Address) /\ <<>> \in Seq(Frame) /\ Len(<<>>) = 0 /\ DOMAIN <<>> = {}
      /\ Off \in [count : Nat, limit : Nat, ie : BOOLEAN, w : BOOLEAN, nh : BOOLEAN]
      BY DEF NewState, Status, Delay, Off
<1>3. NewState \in Core /\ warm_reboot \in Core
  <2>1. NewState \in Core
        BY <1>1, <1>2 DEF NewState, Core
  <2> QED BY <2>1 DEF warm_reboot, Core
<1>4. /\ NewState.frames = <<>> /\ NewState.shadow_call_stack = <<>> /\ NewState.spin = 0
      /\ warm_reboot.frames = <<>> /\ warm_reboot.shadow_call_stack = <<>> /\ warm_reboot.spin = 0
      BY DEF NewState, warm_reboot
<1> QED BY <1>1, <1>2, <1>3, <1>4 DEF Good, Intact, Nested, LoopsOff, Unrecognised

\* A tick of the timers resets the core or leaves all but its timers and its
\* pending lines alone.
LEMMA TickGood ==
    ASSUME NEW c, Good(c), Unrecognised(c)
    PROVE  LET d == tick_arc_timers_once(c)
           IN /\ Good(d) /\ Unrecognised(d)
              /\ Steady(c, d) \/ d.rebooted
<1> DEFINE d == tick_arc_timers_once(c)
           Timer == [count : Nat, limit : Nat, ie : BOOLEAN, w : BOOLEAN, nh : BOOLEAN]
           counted == [t \in TimerId |-> Counted(c.timer[t], t)]
           due == c.pending \cup {TimerLine(t) : t \in {u \in TimerId :
                                    AtLimit(c.timer[u]) /\ c.timer[u].ie}}
<1>1. /\ c \in Core /\ Len(c.shadow_call_stack) <= StackDepth /\ c.timer \in [TimerId -> Timer]
      /\ c.pending \in SUBSET Line
      BY DEF Good, Core
<1>2. ASSUME NEW n \in Nat PROVE Min({n + 1, Ceiling}) \in Nat
  <2>1. {n + 1, Ceiling} \subseteq Nat /\ {n + 1, Ceiling} # {}
        BY CeilingIsNat
  <2>2. Min({n + 1, Ceiling}) \in {n + 1, Ceiling}
        BY <2>1, LeastExists
  <2> QED BY <2>1, <2>2
<1>3. ASSUME NEW u \in Timer, NEW t \in TimerId PROVE Counted(u, t) \in Timer
  <2>1. u.count \in Nat
        OBVIOUS
  <2>2. \/ Counted(u, t) = [u EXCEPT !.count = Min({u.count + 1, Ceiling})]
        \/ Counted(u, t) = [u EXCEPT !.count = 0]
        BY DEF Counted
  <2> QED BY <1>2, <2>1, <2>2
<1>4. counted \in [TimerId -> Timer]
      BY <1>1, <1>3
<1>5. due \in SUBSET Line
      BY <1>1 DEF TimerLine, Line, TimerId
<1>6. d = warm_reboot \/ d = [c EXCEPT !.timer = counted, !.pending = due]
      BY DEF tick_arc_timers_once
<1> HIDE DEF d, counted, due
<1>7. CASE d = warm_reboot
  <2>1. d.rebooted = TRUE
        BY <1>7 DEF warm_reboot, NewState
  <2> QED BY <1>7, <2>1, ResetGood DEF d
<1>8. CASE d = [c EXCEPT !.timer = counted, !.pending = due]
  <2>1. /\ d \in Core /\ Steady(c, d) /\ d.spin = c.spin /\ d.halted = c.halted
        /\ d.shadow_call_stack = c.shadow_call_stack
        BY <1>1, <1>4, <1>5, <1>8 DEF Core, Steady, SameContext
  <2>2. Good(d)
        BY <1>1, <2>1, ContextKept DEF Steady
  <2> QED BY <2>1, <2>2 DEF d, Unrecognised
<1> QED BY <1>6, <1>7, <1>8
\* The peripherals' lines are looked at without a change to anything but pending.
LEMMA UartGood ==
    ASSUME NEW c, Good(c), Unrecognised(c)
    PROVE  LET d == check_uart_irq(c) IN Good(d) /\ Unrecognised(d) /\ Steady(c, d)
<1> DEFINE d == check_uart_irq(c)
<1>1. c \in Core /\ Len(c.shadow_call_stack) <= StackDepth
      BY DEF Good
<1>2. d = c \/ d = [c EXCEPT !.pending = @ \cup {UartLine}]
      BY DEF check_uart_irq
<1> HIDE DEF d
<1>3. /\ d \in Core /\ Steady(c, d) /\ d.spin = c.spin /\ d.halted = c.halted
      /\ d.shadow_call_stack = c.shadow_call_stack
  <2>1. CASE d = c
        BY <1>1, <2>1 DEF Steady, SameContext
  <2>2. CASE d = [c EXCEPT !.pending = @ \cup {UartLine}]
    <3>1. c.pending \cup {UartLine} \in SUBSET Line
          BY <1>1 DEF Core, UartLine, Line
    <3> QED BY <1>1, <2>2, <3>1 DEF Core, Steady, SameContext
  <2> QED BY <1>2, <2>1, <2>2
<1>4. Good(d)
      BY <1>1, <1>3, ContextKept DEF Steady
<1> QED BY <1>3, <1>4 DEF d, Unrecognised

\* So do one or two ticks, and the bank's copy of the UART's line.
LEMMA TicksGood ==
    ASSUME NEW c, Good(c), Unrecognised(c), NEW ticks, NEW bank
    PROVE  LET d == tick_timers_and_bank(c, ticks, bank)
           IN Good(d) /\ Unrecognised(d) /\ (Steady(c, d) \/ d.rebooted)
<1> DEFINE once == tick_arc_timers_once(c)
           twice == tick_arc_timers_once(once)
           all == IF ticks = 2 THEN twice ELSE once
           d == tick_timers_and_bank(c, ticks, bank)
<1>1. Good(once) /\ Unrecognised(once) /\ (Steady(c, once) \/ once.rebooted)
      BY TickGood
<1> HIDE DEF once
<1>2. Good(twice) /\ Unrecognised(twice) /\ (Steady(once, twice) \/ twice.rebooted)
      BY <1>1, TickGood
<1> HIDE DEF twice
<1>3. Good(all) /\ Unrecognised(all) /\ (Steady(c, all) \/ all.rebooted)
      BY <1>1, <1>2 DEF Steady, SameContext
<1>4. d = all \/ d = [all EXCEPT !.bank_irq = all.uart]
      BY DEF tick_timers_and_bank, once, twice
<1> HIDE DEF all, d
<1>5. all \in Core /\ Len(all.shadow_call_stack) <= StackDepth
      BY <1>3 DEF Good
<1>6. /\ d \in Core /\ Steady(all, d) /\ d.spin = all.spin /\ d.halted = all.halted
      /\ d.shadow_call_stack = all.shadow_call_stack
  <2>1. CASE d = all
        BY <1>5, <2>1 DEF Steady, SameContext
  <2>2. CASE d = [all EXCEPT !.bank_irq = all.uart]
        BY <1>5, <2>2 DEF Core, Steady, SameContext
  <2> QED BY <1>4, <2>1, <2>2
<1>7. Good(d)
      BY <1>3, <1>5, <1>6, ContextKept DEF Steady
<1> QED BY <1>3, <1>6, <1>7 DEF d, Unrecognised, Steady, SameContext

\* The frame of an interrupt's entry.
FrameOf(c, line) ==
    [level |-> LevelOf(line), pc |-> c.pc, status |-> StatusOf(c), delay |-> c.delay,
     calls |-> c.calls]

\* What an interrupt leaves of the core it interrupts.
Entered(c, d) ==
    /\ \E f \in Frame : f.pc = c.pc /\ d.frames = Append(c.frames, f)
    /\ c.delay = NoDelay /\ d.delay = NoDelay
    /\ d.lp_count = c.lp_count /\ d.rebooted = c.rebooted

\* An interrupt is entered on a level that is not active, so that no saved
\* context is overwritten, and with loops off.
LEMMA EnterGood ==
    ASSUME NEW c, Good(c), NEW line \in Line, Open(c, LevelOf(line))
    PROVE  LET d == Enter(c, line)
           IN Good(d) /\ Entered(c, d) /\ d.spin = c.spin /\ d.halted = c.halted
<1> DEFINE d == Enter(c, line)
           v == LevelOf(line)
           f == FrameOf(c, line)
           top == Len(c.frames) + 1
           open == IF v = 1 THEN [w \in Level |-> FALSE] ELSE [c.e EXCEPT ![2] = FALSE]
<1>1. /\ c \in Core /\ Len(c.shadow_call_stack) <= StackDepth /\ Len(c.frames) <= 2
      /\ c.frames \in Seq(Frame) /\ c.status \in [Level -> Status] /\ c.ilink \in [Level -> Address]
      /\ c.a \in [Level -> BOOLEAN] /\ c.e \in [Level -> BOOLEAN] /\ c.pc \in Address
      /\ c.pending \in SUBSET Line
      BY DEF Good, Core
<1>2. v \in Level /\ ~c.a[v] /\ c.delay = NoDelay
      BY DEF LevelOf, Level, Open
<1>3. StatusOf(c) \in Status
      BY <1>1 DEF StatusOf, Status, Core
<1>4. f \in Frame
      BY <1>1, <1>2, <1>3 DEF FrameOf, Frame, Core, Delay
<1>5. Vector(line) \in Address
      BY CpuCoreAssumption DEF Vector, Address
<1>6. open \in [Level -> BOOLEAN] /\ c.pending \ {line} \in SUBSET Line
      BY <1>1 DEF Level
<1>7. /\ Append(c.frames, f) \in Seq(Frame) /\ top \in 1..3 /\ Len(Append(c.frames, f)) = top
      /\ Len(c.frames) \in Nat /\ Append(c.frames, f)[top] = f
      /\ \A n \in 1..Len(c.frames) : Append(c.frames, f)[n] = c.frames[n]
      BY <1>1, <1>4
<1>8. d = [c EXCEPT !.status = [c.status EXCEPT ![v] = StatusOf(c)],
                    !.ilink = [c.ilink EXCEPT ![v] = c.pc],
                    !.e = open, !.a = [c.a EXCEPT ![v] = TRUE], !.l = TRUE,
                    !.pending = c.pending \ {line}, !.pc = Vector(line),
                    !.frames = Append(c.frames, f)]
      BY DEF Enter, FrameOf
<1>9. /\ [c.status EXCEPT ![v] = StatusOf(c)] \in [Level -> Status]
      /\ [c.ilink EXCEPT ![v] = c.pc] \in [Level -> Address]
      /\ [c.a EXCEPT ![v] = TRUE] \in [Level -> BOOLEAN]
      BY <1>1, <1>2, <1>3
<1> HIDE DEF d, f, open, v
<1>10. d \in Core
       BY <1>1, <1>5, <1>6, <1>7, <1>8, <1>9 DEF Core
<1>11. /\ d.frames = Append(c.frames, f) /\ d.status = [c.status EXCEPT ![v] = StatusOf(c)]
       /\ d.ilink = [c.ilink EXCEPT ![v] = c.pc] /\ d.a = [c.a EXCEPT ![v] = TRUE] /\ d.l = TRUE
       /\ d.delay = c.delay /\ d.lp_count = c.lp_count /\ d.rebooted = c.rebooted
       /\ d.spin = c.spin /\ d.halted = c.halted /\ d.shadow_call_stack = c.shadow_call_stack
       BY <1>1, <1>8 DEF Core
<1>12. /\ f.level = v /\ f.pc = c.pc /\ f.status = StatusOf(c) /\ f.delay = NoDelay
       /\ StatusOf(c).a = c.a /\ StatusOf(c).l = c.l
       BY <1>2 DEF f, v, FrameOf, StatusOf
<1>13. \A n \in 1..Len(c.frames) :
          /\ c.frames[n].level \in Level /\ c.frames[n].level # v
          /\ c.ilink[c.frames[n].level] = c.frames[n].pc
          /\ c.status[c.frames[n].level] = c.frames[n].status
          /\ c.a[c.frames[n].level] /\ c.frames[n].delay = NoDelay
          /\ \A m \in 1..Len(c.frames) : c.frames[m].level = c.frames[n].level => m = n
  <2> TAKE n \in 1..Len(c.frames)
  <2>1. c.frames[n] \in Frame /\ n \in DOMAIN c.frames /\ DOMAIN c.frames = 1..Len(c.frames)
        BY <1>1, ElementOfSeq
  <2>2. c.frames[n].level \in Level
        BY <2>1 DEF Frame
  <2>3. /\ c.ilink[c.frames[n].level] = c.frames[n].pc
        /\ c.status[c.frames[n].level] = c.frames[n].status
        /\ c.a[c.frames[n].level] /\ c.frames[n].delay = NoDelay
        /\ \A m \in DOMAIN c.frames : c.frames[m].level = c.frames[n].level => m = n
        BY <2>1 DEF Good, Intact
  <2> QED BY <1>2, <2>1, <2>2, <2>3
<1>14. DOMAIN d.frames = 1..top /\ \A n \in 1..top : n = top \/ n \in 1..Len(c.frames)
       BY <1>7, <1>11
<1>15. Intact(d)
  <2> SUFFICES ASSUME NEW n \in 1..top
               PROVE  /\ d.ilink[d.frames[n].level] = d.frames[n].pc
                      /\ d.status[d.frames[n].level] = d.frames[n].status
                      /\ d.a[d.frames[n].level] /\ d.frames[n].delay = NoDelay
                      /\ \A m \in 1..top : d.frames[m].level = d.frames[n].level => m = n
      BY <1>14 DEF Intact
  <2>1. CASE n = top
        BY <1>1, <1>2, <1>7, <1>11, <1>12, <1>13, <1>14, <2>1
  <2>2. CASE n \in 1..Len(c.frames)
        BY <1>1, <1>2, <1>7, <1>11, <1>12, <1>13, <1>14, <2>2
  <2> QED BY <1>14, <2>1, <2>2
<1>16. Nested(d)
  <2> SUFFICES ASSUME NEW n \in 1..top, NEW m \in 1..top, m < n
               PROVE  d.frames[n].status.a[d.frames[m].level] /\ d.frames[n].status.l
      BY <1>14 DEF Nested
  <2>1. m \in 1..Len(c.frames) /\ d.frames[m] = c.frames[m]
        BY <1>7, <1>11
  <2>2. CASE n = top
    <3>1. d.frames[n].status.a = c.a /\ d.frames[n].status.l = c.l
          BY <1>7, <1>11, <1>12, <2>2
    <3>2. c.frames # <<>>
          BY <1>1, <2>1
    <3>3. c.l
          BY <3>2 DEF Good, LoopsOff
    <3>4. c.a[c.frames[m].level]
          BY <1>13, <2>1
    <3> QED BY <2>1, <3>1, <3>3, <3>4
  <2>3. CASE n \in 1..Len(c.frames)
    <3>1. d.frames[n] = c.frames[n]
          BY <1>7, <1>11, <2>3
    <3>2. DOMAIN c.frames = 1..Len(c.frames)
          BY <1>1
    <3> QED BY <2>1, <2>3, <3>1, <3>2 DEF Good, Nested
  <2> QED BY <1>14, <2>2, <2>3
<1>17. Len(d.frames) <= 2
  <2> SUFFICES ASSUME top = 3 PROVE FALSE
      BY <1>7, <1>11
  <2>1. 1 \in 1..Len(c.frames) /\ 2 \in 1..Len(c.frames)
        BY <1>7
  <2>2. c.frames[1].level # c.frames[2].level
        BY <1>13, <2>1
  <2> QED BY <1>2, <1>13, <2>1, <2>2 DEF Level
<1>18. Good(d)
       BY <1>1, <1>10, <1>11, <1>15, <1>16, <1>17 DEF Good, LoopsOff
<1>19. Entered(c, d)
       BY <1>4, <1>2, <1>11, <1>12 DEF Entered
<1> QED BY <1>11, <1>18, <1>19 DEF d
\* The interrupt taken, if any, is one of a pending line whose level is open.
LEMMA InterruptGood ==
    ASSUME NEW c, Good(c), Unrecognised(c)
    PROVE  LET d == check_interrupts(c)
           IN Good(d) /\ Unrecognised(d) /\ (d = c \/ Entered(c, d))
<1> DEFINE line == Min(c.pending)
<1>1. c.pending \subseteq Line /\ Line \subseteq Nat
      BY DEF Good, Core, Line
<1>2. CASE c.pending # {} /\ Open(c, LevelOf(line))
  <2>1. line \in Line
        BY <1>1, <1>2, LeastExists
  <2>2. check_interrupts(c) = Enter(c, line)
        BY <1>2 DEF check_interrupts
  <2> HIDE DEF line
  <2>3. /\ Good(Enter(c, line)) /\ Entered(c, Enter(c, line))
        /\ Enter(c, line).spin = c.spin /\ Enter(c, line).halted = c.halted
        BY <1>2, <2>1, EnterGood
  <2> QED BY <2>2, <2>3 DEF Unrecognised
<1>3. CASE ~(c.pending # {} /\ Open(c, LevelOf(line)))
  <2>1. check_interrupts(c) = c
        BY <1>3 DEF check_interrupts
  <2> QED BY <2>1
<1> QED BY <1>2, <1>3

\* What a step without an instruction, or after it, may come to.
Follows(c, d) == d.rebooted \/ Steady(c, d) \/ Entered(c, d)

\* Timers, bank, UART and interrupts, in that order.
LEMMA PeripheralsGood ==
    ASSUME NEW c, Good(c), Unrecognised(c), NEW ticks, NEW bank
    PROVE  LET d == Peripherals(c, ticks, bank)
           IN Good(d) /\ Unrecognised(d) /\ Follows(c, d)
<1> DEFINE ticked == tick_timers_and_bank(c, ticks, bank)
           heard == check_uart_irq(ticked)
           d == check_interrupts(heard)
<1>1. Good(ticked) /\ Unrecognised(ticked) /\ (Steady(c, ticked) \/ ticked.rebooted)
      BY TicksGood
<1> HIDE DEF ticked
<1>2. Good(heard) /\ Unrecognised(heard) /\ Steady(ticked, heard)
      BY <1>1, UartGood
<1> HIDE DEF heard
<1>3. Good(d) /\ Unrecognised(d) /\ (d = heard \/ Entered(heard, d))
      BY <1>2, InterruptGood
<1>4. d = Peripherals(c, ticks, bank)
      BY DEF Peripherals, heard, ticked
<1> HIDE DEF d
<1>5. Steady(c, heard) \/ heard.rebooted
      BY <1>1, <1>2 DEF Steady, SameContext
<1>6. Follows(c, d)
  <2>1. CASE heard.rebooted
        BY <1>3, <2>1 DEF Follows, Entered
  <2>2. CASE Steady(c, heard)
        BY <1>3, <2>2 DEF Follows, Entered, Steady, SameContext
  <2> QED BY <1>5, <2>1, <2>2
<1> QED BY <1>3, <1>4, <1>6

--------------------------------------------------------------------------------
\* A step of the core.

\* The taken branch has landed, or an interrupt will come back to its target.
Landed(c, d) ==
    c.delay # NoDelay /\ d.delay = NoDelay
        => \/ d.pc = c.delay.target
           \/ Len(d.frames) > Len(c.frames) /\ Last(d.frames).pc = c.delay.target

\* A step: the core stays good, no loop loses an iteration, branches land.
Advances(c, d) ==
    /\ Good(d) /\ Unrecognised(d)
    /\ d.rebooted \/ ((c.frames # <<>> => d.lp_count = c.lp_count) /\ Landed(c, d))

\* A step asleep.
LEMMA AsleepAdvances ==
    ASSUME NEW c, Good(c), Unrecognised(c), NEW ticks, NEW bank
    PROVE  Advances(c, Asleep(c, ticks, bank))
<1> DEFINE p == Peripherals(c, ticks, bank)
           d == Asleep(c, ticks, bank)
           asleep == ~p.rebooted /\ p.frames = c.frames
<1>1. Good(p) /\ Unrecognised(p) /\ Follows(c, p)
      BY PeripheralsGood
<1>2. d = [p EXCEPT !.sleeping = asleep]
      BY DEF Asleep
<1>3. p \in Core /\ Len(p.shadow_call_stack) <= StackDepth /\ asleep \in BOOLEAN
      BY <1>1 DEF Good
<1> HIDE DEF p, d, asleep
<1>4. /\ d \in Core /\ Steady(p, d) /\ d.spin = p.spin /\ d.halted = p.halted
      /\ d.shadow_call_stack = p.shadow_call_stack
      BY <1>2, <1>3 DEF Core, Steady, SameContext
<1>5. Good(d)
      BY <1>1, <1>3, <1>4, ContextKept DEF Steady
<1>6. d.rebooted \/ (d.lp_count = c.lp_count /\ Landed(c, d))
      BY <1>1, <1>4 DEF Follows, Landed, Entered, Steady, SameContext
<1> QED BY <1>1, <1>4, <1>5, <1>6 DEF Advances, Unrecognised, d

\* Back to the start of a loop.
LEMMA LoopsBackAdvances ==
    ASSUME NEW c, Good(c), Unrecognised(c), LoopsBack(c)
    PROVE  Advances(c, [c EXCEPT !.lp_count = @ - 1, !.pc = c.lp_start])
<1> DEFINE d == [c EXCEPT !.lp_count = @ - 1, !.pc = c.lp_start]
<1>1. /\ c \in Core /\ Len(c.shadow_call_stack) <= StackDepth
      /\ c.lp_count \in Nat /\ c.lp_start \in Address
      BY DEF Good, Core
<1>2. c.delay = NoDelay /\ ~c.l /\ c.lp_count - 1 \in Nat
      BY <1>1 DEF LoopsBack
<1>3. /\ d \in Core /\ SameContext(c, d) /\ d.spin = c.spin /\ d.halted = c.halted
      /\ d.shadow_call_stack = c.shadow_call_stack
      BY <1>1, <1>2 DEF Core, SameContext
<1>4. c.frames = <<>>
      BY <1>2 DEF Good, LoopsOff
<1> HIDE DEF d
<1>5. Good(d)
      BY <1>1, <1>3, ContextKept
<1> QED BY <1>2, <1>3, <1>4, <1>5 DEF Advances, Landed, Unrecognised, d

\* An instruction and what follows it.
LEMMA ExecutedAdvances ==
    ASSUME NEW c, Good(c), Unrecognised(c), ~c.halted,
           NEW i \in Instructions, Allowed(c, i), NEW ticks, NEW bank
    PROVE  Advances(c, Executed(c, i, ticks, bank))
<1> DEFINE left == LeavesLoop(c)
           done == execute(left, left.delay, i)
           spun == spin_detection(done)
           called == call_stack(spun, c.delay, i)
           d == Executed(c, i, ticks, bank)
<1>1. /\ Good(left) /\ SameContext(c, left)
      /\ left.delay = c.delay /\ left.rebooted = c.rebooted /\ left.spin = c.spin
      /\ left.calls = c.calls /\ left.blink = c.blink
      /\ c.frames # <<>> => left.lp_count = c.lp_count
      BY LeavesLoopGood
<1>2. d = spun \/ d = Peripherals(called, ticks, bank)
      BY <1>1 DEF Executed
<1> HIDE DEF left
<1>3. Allowed(left, i)
      BY <1>1 DEF Allowed, SameContext
<1>4. /\ Good(done) /\ done.rebooted = c.rebooted /\ done.spin = c.spin
      /\ c.frames # <<>> => done.lp_count = c.lp_count
      /\ c.delay # NoDelay =>
             done.frames = c.frames /\ done.delay = NoDelay /\ done.pc = c.delay.target
      BY <1>1, <1>3, ExecuteGood DEF SameContext
<1> HIDE DEF done
<1>5. done.spin < TightLoop
      BY <1>4 DEF Unrecognised
<1>6. Good(spun) /\ Steady(done, spun) /\ Unrecognised(spun)
      BY <1>4, <1>5, SpinGood
<1> HIDE DEF spun
<1>7. Good(called) /\ Steady(spun, called) /\ Unrecognised(called)
      BY <1>6, CallStackGood
<1> HIDE DEF called
<1>8. /\ Good(Peripherals(called, ticks, bank)) /\ Unrecognised(Peripherals(called, ticks, bank))
      /\ Follows(called, Peripherals(called, ticks, bank))
      BY <1>7, PeripheralsGood
<1>9. Steady(done, called)
      BY <1>6, <1>7 DEF Steady, SameContext
<1>10. Follows(done, d) /\ Good(d) /\ Unrecognised(d)
  <2>1. CASE d = spun
        BY <1>6, <2>1 DEF Follows
  <2>2. CASE d = Peripherals(called, ticks, bank)
        BY <1>8, <1>9, <2>2 DEF Follows, Entered, Steady, SameContext
  <2> QED BY <1>2, <2>1, <2>2
<1> HIDE DEF d
<1>11. c.frames # <<>> => d.rebooted \/ d.lp_count = c.lp_count
       BY <1>4, <1>10 DEF Follows, Entered, Steady
<1>12. d.rebooted \/ Landed(c, d)
  <2> SUFFICES ASSUME ~d.rebooted, c.delay # NoDelay, d.delay = NoDelay
               PROVE  \/ d.pc = c.delay.target
                      \/ Len(d.frames) > Len(c.frames) /\ Last(d.frames).pc = c.delay.target
      BY DEF Landed
  <2>1. CASE Steady(done, d)
        BY <1>4, <2>1 DEF Steady
  <2>2. CASE Entered(done, d)
    <3>1. PICK f \in Frame : f.pc = done.pc /\ d.frames = Append(done.frames, f)
          BY <2>2 DEF Entered
    <3>2. c.frames \in Seq(Frame) /\ d.frames = Append(c.frames, f) /\ f.pc = c.delay.target
          BY <1>4, <3>1 DEF Good, Core
    <3>3. Len(c.frames) \in Nat /\ Len(d.frames) = Len(c.frames) + 1 /\ d.frames[Len(d.frames)] = f
          BY <3>1, <3>2
    <3> QED BY <3>2, <3>3 DEF Last
  <2> QED BY <1>10, <2>1, <2>2 DEF Follows
<1> QED BY <1>10, <1>11, <1>12 DEF Advances, d

\* Every step of Spec.
LEMMA StepAdvances == ASSUME CoreInv, Next PROVE Advances(cpu, cpu')
<1> DEFINE c == [cpu EXCEPT !.rebooted = FALSE]
<1>1. /\ cpu \in Core /\ Len(cpu.shadow_call_stack) <= StackDepth /\ Good(cpu) /\ Unrecognised(cpu)
      BY DEF CoreInv, Good
<1>2. CASE Step
  <2>1. /\ c \in Core /\ SameContext(cpu, c) /\ c.shadow_call_stack = cpu.shadow_call_stack
        /\ c.spin = cpu.spin /\ c.halted = cpu.halted /\ c.delay = cpu.delay
        /\ c.lp_count = cpu.lp_count /\ c.pc = cpu.pc /\ c.lp_end = cpu.lp_end
        BY <1>1 DEF Core, SameContext
  <2>2. \/ \E ticks \in 1..2, bank \in BankTicks : cpu' = Asleep(c, ticks, bank)
        \/ LoopsBack(cpu) /\ cpu' = [c EXCEPT !.lp_count = @ - 1, !.pc = c.lp_start]
        \/ /\ ~cpu.halted
           /\ \E i \in Instructions, ticks \in 1..2, bank \in BankTicks :
                  Allowed(c, i) /\ cpu' = Executed(c, i, ticks, bank)
        BY <1>2 DEF Step
  <2> HIDE DEF c
  <2>3. Good(c) /\ Unrecognised(c)
        BY <1>1, <2>1, ContextKept DEF Unrecognised
  <2>4. Advances(c, cpu')
    <3>1. CASE \E ticks \in 1..2, bank \in BankTicks : cpu' = Asleep(c, ticks, bank)
          BY <2>3, <3>1, AsleepAdvances
    <3>2. CASE LoopsBack(cpu) /\ cpu' = [c EXCEPT !.lp_count = @ - 1, !.pc = c.lp_start]
      <4>1. LoopsBack(c)
            BY <2>1, <3>2 DEF LoopsBack, SameContext
      <4> QED BY <2>3, <3>2, <4>1, LoopsBackAdvances
    <3>3. CASE /\ ~cpu.halted
               /\ \E i \in Instructions, ticks \in 1..2, bank \in BankTicks :
                      Allowed(c, i) /\ cpu' = Executed(c, i, ticks, bank)
          BY <2>1, <2>3, <3>3, ExecutedAdvances
    <3> QED BY <2>2, <3>1, <3>2, <3>3
  <2> QED BY <2>1, <2>4 DEF Advances, Landed, SameContext
<1>3. CASE UartEdge
  <2>1. /\ cpu' \in Core /\ Steady(cpu, cpu') /\ cpu'.spin = cpu.spin /\ cpu'.halted = cpu.halted
        /\ cpu'.shadow_call_stack = cpu.shadow_call_stack
        BY <1>1, <1>3 DEF UartEdge, Core, Steady, SameContext
  <2>2. Good(cpu')
        BY <1>1, <2>1, ContextKept DEF Steady
  <2> QED BY <1>1, <2>1, <2>2 DEF Advances, Landed, Steady, SameContext, Unrecognised
<1> QED BY <1>2, <1>3 DEF Next

--------------------------------------------------------------------------------
\* The core stays in a state from which every handler can return to what it
\* interrupted.  (check_interrupts, execute_jump)
THEOREM CoreInvariance == Spec => []CoreInv
<1>1. Init => CoreInv
      BY ResetGood DEF Init, CoreInv
<1>2. CoreInv /\ [Next]_vars => CoreInv'
  <2>1. CoreInv /\ Next => CoreInv'
        BY StepAdvances DEF Advances, CoreInv, Good, Unrecognised, Intact, Nested, LoopsOff
  <2>2. CoreInv /\ UNCHANGED vars => CoreInv'
        BY DEF vars, CoreInv
  <2> QED BY <2>1, <2>2
<1> QED BY <1>1, <1>2, PTL DEF Spec

\* What an interrupt interrupted is intact until its handler returns to it, on
\* both levels, and the core's state has its type.  (check_interrupts, execute_jump)
THEOREM InterruptedContextIsKept == Spec => []CoreIsConsistent
<1>1. CoreInv => CoreIsConsistent
      BY DEF CoreInv, Good, CoreIsConsistent, TypeOK, ContextIntact
<1> QED BY <1>1, CoreInvariance, PTL

\* A handler never uses up an iteration of a loop it interrupted.
\* (check_interrupts: flag_l)
THEOREM HandlersKeepLoops == Spec => LoopsAreNotDisturbed
<1>1. CoreInv /\ [Next]_vars =>
          [cpu.frames # <<>> /\ ~cpu'.rebooted => cpu'.lp_count = cpu.lp_count]_vars
  <2>1. CoreInv /\ Next => (cpu.frames # <<>> /\ ~cpu'.rebooted => cpu'.lp_count = cpu.lp_count)
        BY StepAdvances DEF Advances
  <2> QED BY <2>1 DEF vars
<1> QED BY <1>1, CoreInvariance, PTL DEF Spec, LoopsAreNotDisturbed

\* The step behind a delay slot is at the target of its branch, or an interrupt
\* will come back to it.  (Cpu::step: the delay state)
THEOREM BranchesAlwaysLand == Spec => BranchesLand
<1>1. CoreInv /\ [Next]_vars =>
          [cpu.delay # NoDelay /\ cpu'.delay = NoDelay /\ ~cpu'.rebooted
               => \/ cpu'.pc = cpu.delay.target
                  \/ /\ Len(cpu'.frames) > Len(cpu.frames)
                     /\ Last(cpu'.frames).pc = cpu.delay.target]_vars
  <2>1. CoreInv /\ Next =>
            (cpu.delay # NoDelay /\ cpu'.delay = NoDelay /\ ~cpu'.rebooted
                 => \/ cpu'.pc = cpu.delay.target
                    \/ /\ Len(cpu'.frames) > Len(cpu.frames)
                       /\ Last(cpu'.frames).pc = cpu.delay.target)
        BY StepAdvances DEF Advances, Landed
  <2> QED BY <2>1 DEF vars
<1> QED BY <1>1, CoreInvariance, PTL DEF Spec, BranchesLand
================================================================================
