----------------------------- MODULE CpuWorker_proofs -----------------------------
(***************************************************************************)
(* The worker thread, for any addresses, names, counts, alphabet and depth *)
(* of the channel, and any number of commands: its flags agree, its stops  *)
(* are published, its budgets are exact and its breakpoints hold.          *)
(*                                                                         *)
(* WorkerInv is what each command and each step keeps.  Two of its parts   *)
(* are not properties of their own: NothingLeft says that a budget of zero *)
(* steps is only ever the one that was asked for, without which the last   *)
(* step of a run could be one too many, and WatchpointsAsked bounds the    *)
(* watchpoints by the commands that set them.                              *)
(***************************************************************************)
EXTENDS CpuWorker, WellFoundedInduction, SequenceTheorems, TLAPS

\* The part of the type invariant that is about the worker, without the channel.
Typed ==
    /\ has_bank \in BOOLEAN /\ alive \in BOOLEAN /\ running \in BOOLEAN
    /\ remaining \in Nat \cup {None}
    /\ run_to \in Addresses \cup {None} /\ step_over_target \in Addresses \cup {None}
    /\ breakpoints \in Seq(Addresses) /\ IsInjective(breakpoints)
    /\ hooks \subseteq Addresses
    /\ pc \in Addresses /\ blink \in Addresses
    /\ halted \in BOOLEAN /\ sleeping \in BOOLEAN
    /\ paused \in BOOLEAN /\ pause_reason \in Reasons
    /\ watchpoints \in Nat /\ hit \in BOOLEAN
    /\ saved \in [Names -> {<<>>} \cup Saveable]
    /\ published \in RunStates
    /\ asked \in Nat \cup {None} /\ since \in Nat /\ executed \in BOOLEAN

\* No step of the loop leaves a budget of zero behind: it is one the client asked for.
NothingLeft == remaining = 0 => asked = 0

Sound == Typed /\ StopIsPublished /\ RunningIsNotPaused /\ BreakpointsAreArmed
           /\ BudgetRespected /\ NothingLeft

Channel ==
    /\ queue \in Seq(Commands) /\ Len(queue) <= MaxQueued /\ sent \in 0..MaxSent

\* Each watchpoint was set by a command that has been handled.
WatchpointsAsked == watchpoints + Len(queue) <= sent

WorkerInv == Sound /\ Channel /\ WatchpointsAsked

--------------------------------------------------------------------------------
\* Sequences without repetition.

\* A set of numbers has a least one, so Min is what it says.
LEMMA LeastExists ==
    ASSUME NEW S, S \subseteq Nat, S # {} PROVE Min(S) \in S /\ \A y \in S : Min(S) <= y
<1> DEFINE R == OpToRel(<, Nat)
<1>1. IsWellFoundedOn(R, Nat)
      BY NatLessThanWellFounded
<1>2. \A x, y \in Nat : x < y => <<x, y>> \in R
      BY DEF OpToRel
<1> HIDE DEF R
<1>3. PICK x \in S : \A y \in S : <<y, x>> \notin R
      BY <1>1, WFMin
<1>4. ASSUME NEW y \in S PROVE x <= y
  <2>1. x \in Nat /\ y \in Nat /\ ~(y < x)
        BY <1>2, <1>3
  <2> QED BY <2>1
<1> QED BY <1>4 DEF Min

\* Removing an address from a list without repetitions removes it for good.
LEMMA RemovedFirst ==
    ASSUME NEW S, NEW s \in Seq(S), NEW e, IsInjective(s)
    PROVE  /\ RemoveFirst(s, e) \in Seq(S) /\ IsInjective(RemoveFirst(s, e))
           /\ Range(RemoveFirst(s, e)) = Range(s) \ {e}
<1>1. CASE ~ \E i \in 1..Len(s) : s[i] = e
      BY <1>1 DEF RemoveFirst, Range
<1>2. CASE \E i \in 1..Len(s) : s[i] = e
  <2> DEFINE I == {i \in 1..Len(s) : s[i] = e}
             k == Min(I)
  <2>1. k \in I
        BY <1>2, LeastExists
  <2>2. RemoveFirst(s, e) = SubSeq(s, 1, k - 1) \o SubSeq(s, k + 1, Len(s))
        BY <1>2 DEF RemoveFirst, RemoveAt, SelectInSeq
  <2> HIDE DEF k
  <2> DEFINE r == SubSeq(s, 1, k - 1) \o SubSeq(s, k + 1, Len(s))
  <2>3. /\ r \in Seq(S) /\ Len(r) = Len(s) - 1
        /\ \A i \in 1..Len(r) : r[i] = IF i < k THEN s[i] ELSE s[i + 1]
    <3>0. k \in Nat /\ k >= 1 /\ k <= Len(s) /\ Len(s) \in Nat
          BY <2>1
    <3> DEFINE a == SubSeq(s, 1, k - 1)
               b == SubSeq(s, k + 1, Len(s))
    <3>1. a \in Seq(S) /\ Len(a) = k - 1 /\ \A i \in 1..(k - 1) : a[i] = s[i]
          BY <3>0
    <3>2. b \in Seq(S) /\ Len(b) = Len(s) - k /\ \A i \in 1..(Len(s) - k) : b[i] = s[k + i]
          BY <3>0
    <3> HIDE DEF a, b
    <3>5. /\ a \o b \in Seq(S) /\ Len(a \o b) = Len(a) + Len(b)
          /\ \A i \in 1..(Len(a) + Len(b)) :
                (a \o b)[i] = IF i <= Len(a) THEN a[i] ELSE b[i - Len(a)]
          BY <3>1, <3>2, ConcatProperties
    <3>3. /\ a \o b \in Seq(S) /\ Len(a \o b) = Len(s) - 1
          /\ \A i \in 1..(Len(s) - 1) : (a \o b)[i] = IF i <= k - 1 THEN a[i] ELSE b[i - (k - 1)]
          BY <3>0, <3>1, <3>2, <3>5
    <3>4. ASSUME NEW i \in 1..(Len(s) - 1) PROVE (a \o b)[i] = IF i < k THEN s[i] ELSE s[i + 1]
      <4>1. CASE i < k
            BY <3>0, <3>1, <3>3, <4>1
      <4>2. CASE ~(i < k)
        <5>1. i - (k - 1) \in 1..(Len(s) - k) /\ k + (i - (k - 1)) = i + 1 /\ ~(i <= k - 1)
              BY <3>0, <4>2
        <5>2. b[i - (k - 1)] = s[k + (i - (k - 1))]
              BY <3>2, <5>1
        <5> QED BY <3>0, <3>3, <4>2, <5>1, <5>2
      <4> QED BY <4>1, <4>2
    <3> QED BY <3>3, <3>4 DEF a, b
  <2> HIDE DEF r
  <2>4. \A i, j \in 1..Len(s) : s[i] = s[j] => i = j
        BY DEF IsInjective
  <2>5. IsInjective(r)
        BY <2>1, <2>3, <2>4 DEF IsInjective
  <2>6. Range(r) = Range(s) \ {e}
    <3>1. ASSUME NEW x \in Range(r) PROVE x \in Range(s) \ {e}
      <4>1. PICK i \in 1..Len(r) : x = r[i]
            BY <2>3 DEF Range
      <4>2. PICK j \in 1..Len(s) : x = s[j] /\ j # k
            BY <2>1, <2>3, <4>1
      <4> QED BY <2>1, <2>4, <4>2 DEF Range
    <3>2. ASSUME NEW x \in Range(s), x # e PROVE x \in Range(r)
      <4>1. PICK j \in 1..Len(s) : x = s[j]
            BY DEF Range
      <4>2. j # k
            BY <2>1, <3>2, <4>1
      <4>3. PICK i \in 1..Len(r) : r[i] = s[j]
        <5>1. CASE j < k
              BY <2>1, <2>3, <5>1
        <5>2. CASE j > k
          <6>1. j - 1 \in 1..Len(r) /\ r[j - 1] = s[j]
                BY <2>1, <2>3, <5>2
          <6> QED BY <6>1
        <5> QED BY <2>1, <4>2, <5>1, <5>2
      <4> QED BY <2>3, <4>1, <4>3 DEF Range
    <3> QED BY <3>1, <3>2
  <2> QED BY <2>2, <2>3, <2>5, <2>6 DEF r
<1> QED BY <1>1, <1>2
\* An address appended to a list that does not have it.
LEMMA AppendedNew ==
    ASSUME NEW S, NEW s \in Seq(S), NEW e \in S, IsInjective(s), e \notin Range(s)
    PROVE  /\ Append(s, e) \in Seq(S) /\ IsInjective(Append(s, e))
           /\ Range(Append(s, e)) = Range(s) \cup {e}
<1>1. /\ Append(s, e) \in Seq(S) /\ Len(Append(s, e)) = Len(s) + 1 /\ Len(s) \in Nat
      /\ DOMAIN Append(s, e) = 1..(Len(s) + 1) /\ DOMAIN s = 1..Len(s)
      /\ \A i \in 1..Len(s) : Append(s, e)[i] = s[i]
      /\ Append(s, e)[Len(s) + 1] = e
      OBVIOUS
<1>2. \A i \in 1..Len(s) : s[i] # e
      BY <1>1 DEF Range
<1>3. IsInjective(Append(s, e))
      BY <1>1, <1>2 DEF IsInjective
<1>4. Range(Append(s, e)) = Range(s) \cup {e}
      BY <1>1 DEF Range
<1> QED BY <1>1, <1>3, <1>4


--------------------------------------------------------------------------------
\* The commands.

\* A budget is none, or a number of instructions.
LEMMA NoneIsNoCount == None \notin Nat /\ None # 0
BY DEF None

\* What a command carries is what its kind of command carries.
LEMMA CommandFields ==
    ASSUME NEW c \in Commands
    PROVE  /\ c.op \in {"Run", "StepN"} => c.n \in Nat \cup {None}
           /\ c.op \in {"RunTo", "SetBreakpoint", "RemoveBreakpoint", "WritePc", "WriteBlink",
                        "LoadFirmware"} => c.addr \in Addresses
           /\ c.op \in {"SaveSnapshot", "RestoreSnapshot", "DeleteSnapshot"} => c.name \in Names
BY CpuWorkerAssumption DEF CpuWorkerAssumption, Commands

\* A snapshot says one of the states of a run.
LEMMA RunStateType ==
    ASSUME NEW h \in BOOLEAN, NEW p \in BOOLEAN, NEW why, NEW s \in BOOLEAN, NEW r \in BOOLEAN
    PROVE  run_state(h, p, why, s, r) \in RunStates
BY DEF run_state, RunStates

\* What is published of a stopped worker is published of a worker that does not run.
LEMMA Published ==
    ASSUME publish_snapshot, running' \in BOOLEAN, halted' \in BOOLEAN, paused' \in BOOLEAN,
           sleeping' \in BOOLEAN
    PROVE  published' \in RunStates /\ StopIsPublished'
<1>1. published' = run_state(halted', paused', pause_reason', sleeping', running')
      BY DEF publish_snapshot
<1>2. published' \in RunStates
      BY <1>1, RunStateType
<1>3. ~running' => running' = FALSE
      OBVIOUS
<1> QED BY <1>1, <1>2, <1>3 DEF StopIsPublished

\* Run, StepOne and StepN.
LEMMA RunForSound == ASSUME Sound, UNCHANGED has_bank, NEW n \in Nat \cup {None}, RunFor(n)
                     PROVE  Sound'
<1>1. Typed'
      BY DEF Sound, Typed, RunFor, points, core, watch, Reasons
<1>2. StopIsPublished' /\ RunningIsNotPaused'
      BY DEF RunFor, StopIsPublished, RunningIsNotPaused
<1>3. BreakpointsAreArmed'
      BY DEF Sound, BreakpointsAreArmed, RunFor, points
<1>4. BudgetRespected' /\ NothingLeft'
      BY NoneIsNoCount DEF RunFor, BudgetRespected, NothingLeft
<1> QED BY <1>1, <1>2, <1>3, <1>4 DEF Sound

\* The budget goes on with the run.
LEMMA RunToSound == ASSUME Sound, UNCHANGED has_bank, NEW a \in Addresses, RunTo(a) PROVE Sound'
<1>1. Typed'
      BY DEF Sound, Typed, RunTo, points, core, watch, Reasons
<1>2. StopIsPublished' /\ RunningIsNotPaused'
      BY DEF RunTo, StopIsPublished, RunningIsNotPaused
<1>3. BreakpointsAreArmed' /\ BudgetRespected' /\ NothingLeft'
      BY DEF Sound, BreakpointsAreArmed, BudgetRespected, NothingLeft, RunTo, points
<1> QED BY <1>1, <1>2, <1>3 DEF Sound

\* A pause is published with its reason.
LEMMA PauseSound == ASSUME Sound, UNCHANGED has_bank, Pause PROVE Sound'
<1>1. /\ running' = FALSE /\ paused' = TRUE /\ pause_reason' \in Reasons
      /\ UNCHANGED <<remaining, run_to, step_over_target, points, core, watch, saved, ledger, alive>>
      BY DEF Pause, Reasons, Sound, Typed
<1>2. published' \in RunStates /\ StopIsPublished'
      BY <1>1, Published DEF Pause, core, Sound, Typed
<1>3. Typed'
      BY <1>1, <1>2 DEF Sound, Typed, points, core, watch, ledger
<1>4. RunningIsNotPaused' /\ BreakpointsAreArmed' /\ BudgetRespected' /\ NothingLeft'
      BY <1>1 DEF Sound, RunningIsNotPaused, BreakpointsAreArmed, BudgetRespected, NothingLeft,
                  points, ledger
<1> QED BY <1>2, <1>3, <1>4 DEF Sound

\* The temporary breakpoint only adds a hook.
LEMMA StepOverSound == ASSUME Sound, UNCHANGED has_bank, StepOver PROVE Sound'
<1>1. /\ hooks' \subseteq Addresses /\ hooks \subseteq hooks'
      /\ step_over_target' \in Addresses \cup {None}
      BY DEF StepOver, Sound, Typed
<1>2. Typed'
      BY <1>1 DEF Sound, Typed, StepOver, core, watch, Reasons
<1>3. StopIsPublished' /\ RunningIsNotPaused'
      BY DEF StepOver, StopIsPublished, RunningIsNotPaused
<1>4. BreakpointsAreArmed' /\ BudgetRespected' /\ NothingLeft'
      BY <1>1 DEF Sound, BreakpointsAreArmed, BudgetRespected, NothingLeft, StepOver
<1> QED BY <1>2, <1>3, <1>4 DEF Sound

\* A reset arms the breakpoints it keeps, on the old hooks or on none.
LEMMA ResetCpu ==
    ASSUME Sound, NEW entry \in Addresses, NEW keep, reset_cpu(entry, Kept(keep))
    PROVE  /\ breakpoints' \in Seq(Addresses) /\ IsInjective(breakpoints')
           /\ hooks' \subseteq Addresses /\ BreakpointsAreArmed'
           /\ pc' \in Addresses /\ blink' \in Addresses
           /\ halted' = FALSE /\ sleeping' = FALSE
           /\ watchpoints' \in Nat /\ watchpoints' <= watchpoints /\ hit' \in BOOLEAN
<1>1. /\ Kept(keep) \in Seq(Addresses) /\ IsInjective(Kept(keep))
      BY DEF Kept, IsInjective, Sound, Typed
<1>2. Range(Kept(keep)) \subseteq Addresses
      BY <1>1 DEF Range
<1>3. /\ breakpoints' = Kept(keep) /\ pc' = entry /\ blink' = 0 /\ halted' = FALSE
      /\ sleeping' = FALSE
      /\ hooks' = (IF has_bank THEN hooks ELSE {}) \cup Range(Kept(keep))
      BY DEF reset_cpu
<1>4. hooks' \subseteq Addresses /\ BreakpointsAreArmed'
      BY <1>2, <1>3 DEF Sound, Typed, BreakpointsAreArmed
<1>5. watchpoints' \in Nat /\ watchpoints' <= watchpoints /\ hit' \in BOOLEAN
  <2>1. watchpoints \in Nat /\ hit \in BOOLEAN
        BY DEF Sound, Typed
  <2>2. watchpoints' = watchpoints \/ watchpoints' = 0
        BY DEF reset_cpu, watch
  <2>3. watchpoints' \in Nat /\ watchpoints' <= watchpoints
        BY <2>1, <2>2
  <2>4. hit' \in {hit, FALSE}
        BY DEF reset_cpu, watch
  <2>5. hit' \in BOOLEAN
        BY <2>1, <2>4
  <2> QED BY <2>3, <2>5
<1> QED BY <1>1, <1>3, <1>4, <1>5, CpuWorkerAssumption DEF CpuWorkerAssumption

\* Reset: the run is over, and that is published.
LEMMA ResetSound == ASSUME Sound, UNCHANGED has_bank, NEW keep, Reset(keep) PROVE Sound'
<1>1. reset_cpu(0, Kept(keep)) /\ Idle /\ paused' = FALSE /\ pause_reason' = "None"
      /\ publish_snapshot /\ UNCHANGED <<saved, ledger, alive>>
      BY DEF Reset
<1>2. /\ breakpoints' \in Seq(Addresses) /\ IsInjective(breakpoints')
      /\ hooks' \subseteq Addresses /\ BreakpointsAreArmed'
      /\ pc' \in Addresses /\ blink' \in Addresses /\ halted' = FALSE /\ sleeping' = FALSE
      /\ watchpoints' \in Nat /\ hit' \in BOOLEAN
      BY <1>1, ResetCpu, CpuWorkerAssumption DEF CpuWorkerAssumption
<1>3. running' = FALSE /\ remaining' = None /\ run_to' = None /\ step_over_target' = None
      BY <1>1 DEF Idle
<1>4. published' \in RunStates /\ StopIsPublished'
      BY <1>1, <1>2, <1>3, Published
<1>5. Typed'
      BY <1>1, <1>2, <1>3, <1>4 DEF Sound, Typed, ledger, Reasons
<1>6. RunningIsNotPaused' /\ BudgetRespected' /\ NothingLeft'
      BY <1>1, <1>3, NoneIsNoCount
         DEF Sound, RunningIsNotPaused, BudgetRespected, NothingLeft, ledger
<1> QED BY <1>2, <1>4, <1>5, <1>6 DEF Sound

\* LoadFirmware: nothing, a flat core built anew under the run, or a bank reset and paused.
LEMMA LoadFirmwareSound ==
    ASSUME Sound, UNCHANGED has_bank, NEW keep, NEW entry \in Addresses, NEW readable,
           LoadFirmware(keep, entry, readable)
    PROVE  Sound'
<1>1. publish_snapshot /\ UNCHANGED <<saved, ledger, alive>>
      BY DEF LoadFirmware
<1>2. CASE UNCHANGED <<worker, points, core, stop, watch>>
  <2>1. published' \in RunStates /\ StopIsPublished'
        BY <1>1, <1>2, Published DEF worker, core, stop, Sound, Typed
  <2>2. Typed'
        BY <1>1, <1>2, <2>1 DEF Sound, Typed, worker, points, core, stop, watch, ledger
  <2>3. RunningIsNotPaused' /\ BreakpointsAreArmed' /\ BudgetRespected' /\ NothingLeft'
        BY <1>1, <1>2 DEF Sound, RunningIsNotPaused, BreakpointsAreArmed, BudgetRespected,
                          NothingLeft, worker, points, stop, ledger
  <2> QED BY <2>1, <2>2, <2>3 DEF Sound
<1>3. ASSUME NEW to \in Addresses, reset_cpu(to, Kept(keep)),
             \/ paused' = FALSE /\ pause_reason' = "None" /\ UNCHANGED worker
             \/ paused' = TRUE /\ pause_reason' = "UserPause" /\ Idle
      PROVE  Sound'
  <2>1. /\ breakpoints' \in Seq(Addresses) /\ IsInjective(breakpoints')
        /\ hooks' \subseteq Addresses /\ BreakpointsAreArmed'
        /\ pc' \in Addresses /\ blink' \in Addresses /\ halted' = FALSE /\ sleeping' = FALSE
        /\ watchpoints' \in Nat /\ hit' \in BOOLEAN
        BY <1>3, ResetCpu
  <2>2. /\ running' \in BOOLEAN /\ paused' \in BOOLEAN /\ pause_reason' \in Reasons
        /\ remaining' \in {remaining, None}
        /\ run_to' \in Addresses \cup {None} /\ step_over_target' \in Addresses \cup {None}
        /\ RunningIsNotPaused'
        BY <1>3 DEF Idle, worker, Sound, Typed, Reasons, RunningIsNotPaused
  <2>3. published' \in RunStates /\ StopIsPublished'
        BY <1>1, <2>1, <2>2, Published
  <2>4. Typed'
        BY <1>1, <2>1, <2>2, <2>3 DEF Sound, Typed, ledger
  <2>5. BudgetRespected' /\ NothingLeft'
        BY <1>1, <2>2, NoneIsNoCount DEF Sound, BudgetRespected, NothingLeft, ledger
  <2> QED BY <2>1, <2>2, <2>3, <2>4, <2>5 DEF Sound
<1> QED BY <1>2, <1>3, CpuWorkerAssumption DEF CpuWorkerAssumption, LoadFirmware

\* A breakpoint is listed and armed together.
LEMMA SetBreakpointSound ==
    ASSUME Sound, UNCHANGED has_bank, NEW a \in Addresses, SetBreakpoint(a) PROVE Sound'
<1>1. UNCHANGED <<worker, core, stop, watch, saved, published, ledger, alive>>
      BY DEF SetBreakpoint
<1>2. /\ breakpoints' \in Seq(Addresses) /\ IsInjective(breakpoints')
      /\ hooks' \subseteq Addresses /\ BreakpointsAreArmed'
  <2>1. CASE a \in Range(breakpoints)
        BY <2>1 DEF SetBreakpoint, points, Sound, Typed, BreakpointsAreArmed
  <2>2. CASE a \notin Range(breakpoints)
    <3>1. breakpoints' = Append(breakpoints, a) /\ hooks' = hooks \cup {a}
          BY <2>2 DEF SetBreakpoint
    <3>2. /\ Append(breakpoints, a) \in Seq(Addresses) /\ IsInjective(Append(breakpoints, a))
          /\ Range(Append(breakpoints, a)) = Range(breakpoints) \cup {a}
          BY <2>2, AppendedNew DEF Sound, Typed
    <3> QED BY <3>1, <3>2 DEF Sound, Typed, BreakpointsAreArmed
  <2> QED BY <2>1, <2>2
<1>3. Typed'
      BY <1>1, <1>2 DEF Sound, Typed, worker, core, stop, watch, ledger
<1>4. StopIsPublished' /\ RunningIsNotPaused' /\ BudgetRespected' /\ NothingLeft'
      BY <1>1 DEF Sound, StopIsPublished, RunningIsNotPaused, BudgetRespected, NothingLeft,
                  worker, core, stop, ledger
<1> QED BY <1>2, <1>3, <1>4 DEF Sound

\* The hook of a removed breakpoint goes, and no other breakpoint is at its address.
LEMMA RemoveBreakpointSound ==
    ASSUME Sound, UNCHANGED has_bank, NEW a \in Addresses, RemoveBreakpoint(a) PROVE Sound'
<1>1. UNCHANGED <<worker, core, stop, watch, saved, published, ledger, alive>>
      /\ breakpoints' = RemoveFirst(breakpoints, a) /\ hooks' = hooks \ {a}
      BY DEF RemoveBreakpoint
<1>2. /\ RemoveFirst(breakpoints, a) \in Seq(Addresses) /\ IsInjective(RemoveFirst(breakpoints, a))
      /\ Range(RemoveFirst(breakpoints, a)) = Range(breakpoints) \ {a}
      BY RemovedFirst DEF Sound, Typed
<1>3. /\ breakpoints' \in Seq(Addresses) /\ IsInjective(breakpoints')
      /\ hooks' \subseteq Addresses /\ BreakpointsAreArmed'
      BY <1>1, <1>2 DEF Sound, Typed, BreakpointsAreArmed
<1>4. Typed'
      BY <1>1, <1>3 DEF Sound, Typed, worker, core, stop, watch, ledger
<1>5. StopIsPublished' /\ RunningIsNotPaused' /\ BudgetRespected' /\ NothingLeft'
      BY <1>1 DEF Sound, StopIsPublished, RunningIsNotPaused, BudgetRespected, NothingLeft,
                  worker, core, stop, ledger
<1> QED BY <1>3, <1>4, <1>5 DEF Sound

\* A command that leaves run, points, core and budget as they were.
LEMMA QuietSound ==
    ASSUME Sound, UNCHANGED <<has_bank, worker, points, core, stop, published, ledger, alive>>,
           watchpoints' \in Nat, hit' \in BOOLEAN, saved' \in [Names -> {<<>>} \cup Saveable]
    PROVE  Sound'
<1>1. Typed'
      BY DEF Sound, Typed, worker, points, core, stop, ledger
<1>2. /\ StopIsPublished' /\ RunningIsNotPaused' /\ BreakpointsAreArmed'
      /\ BudgetRespected' /\ NothingLeft'
      BY DEF Sound, StopIsPublished, RunningIsNotPaused, BreakpointsAreArmed, BudgetRespected,
             NothingLeft, worker, points, core, stop, ledger
<1> QED BY <1>1, <1>2 DEF Sound

\* Watchpoints, the debugger's store, requests, saving and deleting are quiet.
LEMMA QuietCommands ==
    ASSUME Sound, UNCHANGED has_bank
    PROVE  /\ SetWatchpoint \/ RemoveWatchpoint \/ WriteSram \/ Request => Sound'
           /\ \A n \in Names : SaveSnapshot(n) \/ DeleteSnapshot(n) => Sound'
<1>1. saved \in [Names -> {<<>>} \cup Saveable] /\ watchpoints \in Nat /\ hit \in BOOLEAN
      BY DEF Sound, Typed
<1>2. ASSUME SetWatchpoint PROVE Sound'
      BY <1>1, <1>2, QuietSound DEF SetWatchpoint
<1>3. ASSUME RemoveWatchpoint PROVE Sound'
      BY <1>1, <1>3, QuietSound DEF RemoveWatchpoint
<1>4. ASSUME WriteSram PROVE Sound'
      BY <1>1, <1>4, QuietSound DEF WriteSram
<1>5. ASSUME Request PROVE Sound'
      BY <1>1, <1>5, QuietSound DEF Request, watch
<1>6. ASSUME NEW n \in Names, SaveSnapshot(n) PROVE Sound'
  <2>1. <<pc, blink, halted, sleeping>> \in Saveable
        BY DEF Sound, Typed, Saveable
  <2>2. saved' \in [Names -> {<<>>} \cup Saveable]
        BY <1>1, <1>6, <2>1 DEF SaveSnapshot
  <2> QED BY <1>1, <1>6, <2>2, QuietSound DEF SaveSnapshot, watch
<1>7. ASSUME NEW n \in Names, DeleteSnapshot(n) PROVE Sound'
  <2>1. saved' \in [Names -> {<<>>} \cup Saveable]
        BY <1>1, <1>7 DEF DeleteSnapshot
  <2> QED BY <1>1, <1>7, <2>1, QuietSound DEF DeleteSnapshot, watch
<1> QED BY <1>2, <1>3, <1>4, <1>5, <1>6, <1>7

\* Writing a register or the speed publishes, and leaves the run alone.
LEMMA WriteRegisterSound ==
    ASSUME Sound, UNCHANGED <<has_bank, worker, points, halted, sleeping, stop, watch, saved,
                              ledger, alive>>,
           pc' \in Addresses, blink' \in Addresses, publish_snapshot
    PROVE  Sound'
<1>1. published' \in RunStates /\ StopIsPublished'
      BY Published DEF worker, stop, Sound, Typed
<1>2. Typed'
      BY <1>1 DEF Sound, Typed, worker, points, stop, watch, ledger
<1>3. RunningIsNotPaused' /\ BreakpointsAreArmed' /\ BudgetRespected' /\ NothingLeft'
      BY DEF Sound, RunningIsNotPaused, BreakpointsAreArmed, BudgetRespected, NothingLeft,
             worker, points, stop, ledger
<1> QED BY <1>1, <1>2, <1>3 DEF Sound

\* Restoring a snapshot stops the worker and says so; a name that was never saved changes nothing.
LEMMA RestoreSnapshotSound ==
    ASSUME Sound, UNCHANGED has_bank, NEW n \in Names, RestoreSnapshot(n) PROVE Sound'
<1>1. UNCHANGED <<points, watch, saved, ledger, alive>>
      BY DEF RestoreSnapshot
<1>2. saved \in [Names -> {<<>>} \cup Saveable] /\ watchpoints \in Nat /\ hit \in BOOLEAN
      BY DEF Sound, Typed
<1>3. CASE saved[n] = <<>>
      BY <1>1, <1>2, <1>3, QuietSound DEF RestoreSnapshot, watch
<1>4. CASE saved[n] # <<>>
  <2>1. /\ pc' = saved[n][1] /\ blink' = saved[n][2]
        /\ halted' = saved[n][3] /\ sleeping' = saved[n][4]
        /\ paused' = TRUE /\ pause_reason' = "UserPause" /\ running' = FALSE
        /\ UNCHANGED <<remaining, run_to, step_over_target>> /\ publish_snapshot
        BY <1>4 DEF RestoreSnapshot
  <2>2. saved[n] \in Saveable
        BY <1>2, <1>4
  <2>3. pc' \in Addresses /\ blink' \in Addresses /\ halted' \in BOOLEAN /\ sleeping' \in BOOLEAN
        BY <2>1, <2>2 DEF Saveable
  <2>4. published' \in RunStates /\ StopIsPublished'
        BY <2>1, <2>3, Published
  <2>5. Typed'
        BY <1>1, <2>1, <2>3, <2>4 DEF Sound, Typed, points, watch, ledger, Reasons
  <2>6. RunningIsNotPaused' /\ BreakpointsAreArmed' /\ BudgetRespected' /\ NothingLeft'
        BY <1>1, <2>1 DEF Sound, RunningIsNotPaused, BreakpointsAreArmed, BudgetRespected,
                          NothingLeft, points, ledger
  <2> QED BY <2>4, <2>5, <2>6 DEF Sound
<1> QED BY <1>3, <1>4

\* Shutdown halts and publishes.
LEMMA ShutdownSound == ASSUME Sound, UNCHANGED has_bank, Shutdown PROVE Sound'
<1>1. /\ running' = FALSE /\ halted' = TRUE /\ alive' = FALSE /\ publish_snapshot
      /\ UNCHANGED <<remaining, run_to, step_over_target, points, pc, blink, sleeping, stop,
                     watch, saved, ledger>>
      BY DEF Shutdown
<1>2. published' \in RunStates /\ StopIsPublished'
      BY <1>1, Published DEF stop, Sound, Typed
<1>3. Typed'
      BY <1>1, <1>2 DEF Sound, Typed, points, stop, watch, ledger
<1>4. RunningIsNotPaused' /\ BreakpointsAreArmed' /\ BudgetRespected' /\ NothingLeft'
      BY <1>1 DEF Sound, RunningIsNotPaused, BreakpointsAreArmed, BudgetRespected, NothingLeft,
                  points, ledger
<1> QED BY <1>2, <1>3, <1>4 DEF Sound

\* Every command of the channel (handle_cmd).
LEMMA HandleSound ==
    ASSUME Sound, UNCHANGED has_bank, NEW c \in Commands, handle_cmd(c) PROVE Sound'
<1>1. /\ c.op \in {"Run", "StepN"} => c.n \in Nat \cup {None}
      /\ c.op \in {"RunTo", "SetBreakpoint", "RemoveBreakpoint", "WritePc", "WriteBlink",
                   "LoadFirmware"} => c.addr \in Addresses
      /\ c.op \in {"SaveSnapshot", "RestoreSnapshot", "DeleteSnapshot"} => c.name \in Names
      BY CommandFields
<1>2. CASE c.op \in {"Run", "StepN"} /\ RunFor(c.n)
      BY <1>1, <1>2, RunForSound
<1>3. CASE c.op = "RunTo" /\ RunTo(c.addr)
      BY <1>1, <1>3, RunToSound
<1>4. CASE Pause
      BY <1>4, PauseSound
<1>5. CASE RunFor(1)
  <2>1. 1 \in Nat \cup {None}
        OBVIOUS
  <2> QED BY <1>5, <2>1, RunForSound
<1>6. CASE StepOver
      BY <1>6, StepOverSound
<1>7. CASE Reset(c.keep)
      BY <1>7, ResetSound
<1>8. CASE c.op = "LoadFirmware" /\ LoadFirmware(c.keep, c.addr, c.readable)
      BY <1>1, <1>8, LoadFirmwareSound
<1>9. CASE c.op = "SetBreakpoint" /\ SetBreakpoint(c.addr)
      BY <1>1, <1>9, SetBreakpointSound
<1>10. CASE c.op = "RemoveBreakpoint" /\ RemoveBreakpoint(c.addr)
      BY <1>1, <1>10, RemoveBreakpointSound
<1>11. CASE SetWatchpoint \/ RemoveWatchpoint \/ WriteSram \/ Request
      BY <1>11, QuietCommands
<1>12. CASE c.op \in {"SaveSnapshot", "DeleteSnapshot"} /\ (SaveSnapshot(c.name) \/ DeleteSnapshot(c.name))
      BY <1>1, <1>12, QuietCommands
<1>13. CASE c.op = "RestoreSnapshot" /\ RestoreSnapshot(c.name)
      BY <1>1, <1>13, RestoreSnapshotSound
<1>14. CASE \/ c.op = "WritePc" /\ WriteRegister(c.addr, blink)
            \/ c.op = "WriteBlink" /\ WriteRegister(pc, c.addr)
  <2>1. pc \in Addresses /\ blink \in Addresses
        BY DEF Sound, Typed
  <2>2. pc' \in Addresses /\ blink' \in Addresses
        BY <1>1, <1>14, <2>1 DEF WriteRegister
  <2>3. /\ UNCHANGED <<worker, points, halted, sleeping, stop, watch, saved, ledger, alive>>
        /\ publish_snapshot
        BY <1>14 DEF WriteRegister
  <2> QED BY <2>2, <2>3, WriteRegisterSound
<1>15. CASE SetSpeed
  <2>1. pc' \in Addresses /\ blink' \in Addresses
        BY <1>15 DEF SetSpeed, core, Sound, Typed
  <2>2. /\ UNCHANGED <<worker, points, halted, sleeping, stop, watch, saved, ledger, alive>>
        /\ publish_snapshot
        BY <1>15 DEF SetSpeed, core
  <2> QED BY <2>1, <2>2, WriteRegisterSound
<1>16. CASE Shutdown
      BY <1>16, ShutdownSound
<1> QED BY <1>2, <1>3, <1>4, <1>5, <1>6, <1>7, <1>8, <1>9, <1>10, <1>11, <1>12, <1>13, <1>14,
           <1>15, <1>16 DEF handle_cmd

\* A command sets one watchpoint at most.
LEMMA HandleWatch ==
    ASSUME Sound, NEW c, handle_cmd(c) PROVE watchpoints' \in Nat /\ watchpoints' <= watchpoints + 1
<1>1. watchpoints \in Nat
      BY DEF Sound, Typed
<1>2. ASSUME NEW e, NEW k, reset_cpu(e, k) PROVE watchpoints' \in {watchpoints, 0}
      BY <1>2 DEF reset_cpu, watch
<1>3. ASSUME NEW k, Reset(k) PROVE watchpoints' \in {watchpoints, 0}
      BY <1>2, <1>3 DEF Reset
<1>4. ASSUME NEW k, NEW e, NEW r, LoadFirmware(k, e, r) PROVE watchpoints' \in {watchpoints, 0}
      BY <1>2, <1>4 DEF LoadFirmware, watch
<1>5. CASE \/ \E n : RunFor(n) \/ RunTo(n) \/ SetBreakpoint(n) \/ RemoveBreakpoint(n)
           \/ \E n : SaveSnapshot(n) \/ RestoreSnapshot(n) \/ DeleteSnapshot(n)
           \/ \E p, b : WriteRegister(p, b)
           \/ Pause \/ StepOver \/ WriteSram \/ Request \/ SetSpeed \/ Shutdown
  <2>1. watchpoints' = watchpoints
        BY <1>5 DEF RunFor, RunTo, SetBreakpoint, RemoveBreakpoint, SaveSnapshot, RestoreSnapshot,
           DeleteSnapshot, WriteRegister, Pause, StepOver, WriteSram, Request, SetSpeed, Shutdown, watch
  <2> QED BY <1>1, <2>1
<1>6. CASE SetWatchpoint \/ RemoveWatchpoint
      BY <1>1, <1>6 DEF SetWatchpoint, RemoveWatchpoint
<1>7. CASE watchpoints' \in {watchpoints, 0}
      BY <1>1, <1>7
<1> QED BY <1>3, <1>4, <1>5, <1>6, <1>7 DEF handle_cmd

--------------------------------------------------------------------------------
\* The loop.

\* What Cpu::step may report, and that a hook at the pc comes before everything else.
LEMMA Stepped ==
    ASSUME Sound, should_step, NEW p, NEW b, NEW h \in BOOLEAN, NEW s \in BOOLEAN, NEW why,
           CpuStep(p, b, h, s, why)
    PROVE  /\ hit' \in BOOLEAN /\ executed' \in BOOLEAN
           /\ why \in {"None", "Breakpoint", "Watch", "SpinNoWatchdog"}
           /\ why = "SpinNoWatchdog" => h
           /\ pc \in hooks => p = pc /\ b = blink /\ h = FALSE /\ s = sleeping
<1>1. hit \in BOOLEAN /\ sleeping \in BOOLEAN
      BY DEF Sound, Typed
<1> QED BY <1>1 DEF CpuStep

\* What follows a step: the budget, the address to run to, a pause or a halt (main_loop).
LEMMA StepSound == ASSUME Sound, UNCHANGED has_bank, step PROVE Sound'
<1>1. PICK p \in Addresses, b \in Addresses, h \in BOOLEAN, s \in BOOLEAN, why \in Reasons :
         /\ CpuStep(p, b, h, s, why)
         /\ pc' = p /\ blink' = b /\ halted' = h /\ sleeping' = s
         /\ AfterStep(p, why)
      BY DEF step
<1>2. /\ running = TRUE /\ ~halted /\ ~paused
      /\ since' = IF remaining = None THEN since ELSE since + 1
      /\ UNCHANGED <<queue, sent, alive, breakpoints, watchpoints, saved, asked>>
      BY DEF step, should_step, Sound, Typed
<1>3. /\ hit' \in BOOLEAN /\ executed' \in BOOLEAN
      /\ why \in {"None", "Breakpoint", "Watch", "SpinNoWatchdog"}
      /\ why = "SpinNoWatchdog" => h
  <2>1. should_step
        BY DEF step
  <2>2. CpuStep(p, b, h, s, why)
        BY <1>1
  <2>3. hit \in BOOLEAN
        BY DEF Sound, Typed
  <2>4. hit' \in BOOLEAN /\ executed' \in BOOLEAN
        BY <2>2, <2>3 DEF CpuStep
  <2>5. why \in {"None", "Breakpoint", "Watch", "SpinNoWatchdog"}
        BY <2>2 DEF CpuStep
  <2>6. why = "SpinNoWatchdog" => h
        BY <2>2 DEF CpuStep
  <2> QED BY <2>4, <2>5, <2>6
<1>4. /\ running \in BOOLEAN /\ remaining \in Nat \cup {None} /\ asked \in Nat \cup {None}
      /\ since \in Nat
      /\ run_to \in Addresses \cup {None} /\ step_over_target \in Addresses \cup {None}
      /\ hooks \subseteq Addresses /\ Range(breakpoints) \subseteq hooks
      /\ published \in RunStates
      BY DEF Sound, Typed, BreakpointsAreArmed
<1>5. /\ running' \in BOOLEAN /\ paused' \in BOOLEAN /\ pause_reason' \in Reasons
      /\ run_to' \in Addresses \cup {None} /\ step_over_target' \in Addresses \cup {None}
      /\ RunningIsNotPaused'
  <2>1. \/ running' = FALSE /\ paused' = TRUE /\ pause_reason' = "UserPause"
        \/ /\ paused' = (why \in {"Breakpoint", "Watch"}) /\ pause_reason' = why
           /\ IF paused' \/ halted' THEN running' = FALSE ELSE running' = running
        BY <1>1 DEF AfterStep, Stop
  <2>2. run_to' \in {run_to, None} /\ step_over_target' \in {step_over_target, None}
        BY <1>1 DEF AfterStep, finalize_step_over_if_hit
  <2>3. pause_reason' \in Reasons
        BY <1>1, <2>1 DEF Reasons
  <2>4. running' \in BOOLEAN /\ paused' \in BOOLEAN
    <3>1. (why \in {"Breakpoint", "Watch"}) \in BOOLEAN
          OBVIOUS
    <3>2. paused' \in BOOLEAN
          BY <2>1, <3>1
    <3>3. running' = FALSE \/ running' = running
          BY <2>1
    <3> QED BY <1>4, <3>2, <3>3
  <2>5. RunningIsNotPaused'
        BY <1>1, <1>3, <2>1 DEF RunningIsNotPaused
  <2> QED BY <1>4, <2>2, <2>3, <2>4, <2>5
<1>6. hooks' \subseteq hooks /\ BreakpointsAreArmed'
      BY <1>1, <1>2, <1>4 DEF AfterStep, finalize_step_over_if_hit, BreakpointsAreArmed
<1>7. published' \in RunStates /\ StopIsPublished'
  <2>1. publish_snapshot \/ (published' = published /\ running' = TRUE)
        BY <1>1, <1>2 DEF AfterStep
  <2>2. CASE publish_snapshot
        BY <1>1, <1>5, <2>2, Published
  <2>3. CASE published' = published /\ running' = TRUE
        BY <1>4, <2>3 DEF StopIsPublished
  <2> QED BY <2>1, <2>2, <2>3
<1>8. /\ remaining' \in Nat \cup {None} /\ since' \in Nat
      /\ BudgetRespected' /\ NothingLeft'
  <2>1. CASE remaining = None
    <3>1. remaining' = None /\ since' = since /\ asked' = asked
          BY <1>1, <1>2, <2>1 DEF AfterStep, BudgetSpent, CountDown
    <3> QED BY <1>4, <3>1, NoneIsNoCount DEF Sound, BudgetRespected, NothingLeft
  <2>2. CASE remaining # None
    <3>1. remaining \in Nat /\ asked \in Nat /\ since + remaining = asked /\ since' = since + 1
          /\ asked' = asked /\ (remaining = 0 => asked = 0)
          BY <1>2, <1>4, <2>2, NoneIsNoCount DEF Sound, BudgetRespected, NothingLeft, None
    <3>2. CASE remaining <= 1
      <4>1. remaining' = None
            BY <1>1, <2>2, <3>2 DEF AfterStep, BudgetSpent
      <4> QED BY <1>4, <3>1, <3>2, <4>1, NoneIsNoCount DEF BudgetRespected, NothingLeft
    <3>3. CASE ~(remaining <= 1)
      <4>1. remaining' = remaining - 1
            BY <1>1, <2>2, <3>3 DEF AfterStep, BudgetSpent, CountDown
      <4> QED BY <1>4, <3>1, <3>3, <4>1, NoneIsNoCount DEF BudgetRespected, NothingLeft
    <3> QED BY <3>2, <3>3
  <2> QED BY <2>1, <2>2
<1>9. Typed'
      BY <1>1, <1>2, <1>3, <1>4, <1>5, <1>6, <1>7, <1>8 DEF Sound, Typed
<1> QED BY <1>5, <1>6, <1>7, <1>8, <1>9 DEF Sound

\* A step that fails stops the worker, and says so.
LEMMA StepErrorSound == ASSUME Sound, UNCHANGED has_bank, StepError PROVE Sound'
<1>1. /\ running' = FALSE /\ paused' = TRUE /\ pause_reason' = "Halted" /\ publish_snapshot
      /\ UNCHANGED <<alive, remaining, run_to, step_over_target, points, core, watchpoints,
                     saved, ledger>>
      BY DEF StepError, Stop
<1>2. hit' \in BOOLEAN
      BY DEF StepError, Sound, Typed
<1>3. published' \in RunStates /\ StopIsPublished'
      BY <1>1, Published DEF core, Sound, Typed
<1>4. Typed'
      BY <1>1, <1>2, <1>3 DEF Sound, Typed, points, core, ledger, Reasons
<1>5. RunningIsNotPaused' /\ BreakpointsAreArmed' /\ BudgetRespected' /\ NothingLeft'
      BY <1>1 DEF Sound, RunningIsNotPaused, BreakpointsAreArmed, BudgetRespected, NothingLeft,
                  points, ledger
<1> QED BY <1>3, <1>4, <1>5 DEF Sound

\* The paused loop publishes the state it is in.
LEMMA PausedWakeSound == ASSUME Sound, UNCHANGED has_bank, PausedWake PROVE Sound'
<1>1. pc' \in Addresses /\ blink' \in Addresses
      BY DEF PausedWake, core, Sound, Typed
<1>2. /\ UNCHANGED <<worker, points, halted, sleeping, stop, watch, saved, ledger, alive>>
      /\ publish_snapshot
      BY DEF PausedWake, core
<1> QED BY <1>1, <1>2, WriteRegisterSound

--------------------------------------------------------------------------------
\* The worker as it starts.
LEMMA WorkerInit == Init => WorkerInv
<1> SUFFICES ASSUME Init PROVE WorkerInv
    OBVIOUS
<1>1. IsInjective(breakpoints) /\ breakpoints \in Seq(Addresses) /\ Range(breakpoints) = {}
      BY DEF Init, IsInjective, Range
<1>2. Typed
      BY <1>1, CpuWorkerAssumption DEF CpuWorkerAssumption, Init, Typed, Reasons, RunStates
<1>3. StopIsPublished /\ RunningIsNotPaused /\ BreakpointsAreArmed
      BY <1>1 DEF Init, StopIsPublished, run_state, RunningIsNotPaused, BreakpointsAreArmed
<1>4. BudgetRespected /\ NothingLeft
      BY NoneIsNoCount DEF Init, BudgetRespected, NothingLeft
<1>5. Channel /\ WatchpointsAsked
      BY CpuWorkerAssumption DEF CpuWorkerAssumption, Init, Channel, WatchpointsAsked
<1> QED BY <1>2, <1>3, <1>4, <1>5 DEF WorkerInv, Sound

\* A client's command waits its turn.
LEMMA SendInv == ASSUME WorkerInv, UNCHANGED has_bank, NEW c \in Commands, Send(c) PROVE WorkerInv'
<1>1. /\ queue' = Append(queue, c) /\ sent' = sent + 1 /\ sent < MaxSent /\ Len(queue) < MaxQueued
      /\ UNCHANGED <<worker, points, core, stop, watch, saved, published, ledger, alive>>
      BY DEF Send
<1>2. queue \in Seq(Commands) /\ sent \in 0..MaxSent /\ watchpoints \in Nat /\ hit \in BOOLEAN
      /\ saved \in [Names -> {<<>>} \cup Saveable]
      BY DEF WorkerInv, Channel, Sound, Typed
<1>3. Sound'
      BY <1>1, <1>2, QuietSound DEF watch, WorkerInv
<1>4. queue' \in Seq(Commands) /\ Len(queue') = Len(queue) + 1 /\ Len(queue) \in Nat
      BY <1>1, <1>2
<1>5. Channel'
      BY <1>1, <1>2, <1>4, CpuWorkerAssumption DEF CpuWorkerAssumption, Channel
<1>6. WatchpointsAsked'
      BY <1>1, <1>2, <1>4 DEF watch, WorkerInv, WatchpointsAsked
<1> QED BY <1>3, <1>5, <1>6 DEF WorkerInv

\* The worker takes the command that waited longest.
LEMMA DrainInv == ASSUME WorkerInv, UNCHANGED has_bank, drain_commands PROVE WorkerInv'
<1>1. queue \in Seq(Commands) /\ queue # <<>> /\ sent \in 0..MaxSent /\ Sound
      /\ Len(queue) <= MaxQueued /\ watchpoints \in Nat /\ watchpoints + Len(queue) <= sent
      BY DEF drain_commands, WorkerInv, Channel, Sound, Typed, WatchpointsAsked
<1>2. handle_cmd(Head(queue)) /\ queue' = Tail(queue) /\ sent' = sent
      BY DEF drain_commands
<1>3. Head(queue) \in Commands /\ Tail(queue) \in Seq(Commands)
      /\ Len(Tail(queue)) = Len(queue) - 1 /\ Len(queue) \in Nat
      BY <1>1
<1>4. Sound'
      BY <1>1, <1>2, <1>3, HandleSound
<1>5. watchpoints' \in Nat /\ watchpoints' <= watchpoints + 1
      BY <1>1, <1>2, HandleWatch
<1>6. Channel'
      BY <1>1, <1>2, <1>3, CpuWorkerAssumption DEF CpuWorkerAssumption, Channel
<1>7. WatchpointsAsked'
      BY <1>1, <1>2, <1>3, <1>5 DEF WatchpointsAsked
<1> QED BY <1>4, <1>6, <1>7 DEF WorkerInv

\* The loop without a command.
LEMMA LoopInv ==
    ASSUME WorkerInv, UNCHANGED has_bank, step \/ StepError \/ PausedWake PROVE WorkerInv'
<1>1. Sound'
      BY StepSound, StepErrorSound, PausedWakeSound DEF WorkerInv
<1>2. UNCHANGED <<queue, sent, watchpoints>>
      BY DEF step, StepError, PausedWake, watch
<1> QED BY <1>1, <1>2 DEF WorkerInv, Channel, WatchpointsAsked

\* The inductive invariant, for any program, clients and number of commands.
THEOREM WorkerInvariance == Spec => []WorkerInv
<1>1. WorkerInv /\ [Next]_vars => WorkerInv'
  <2> SUFFICES ASSUME WorkerInv, [Next]_vars PROVE WorkerInv'
      OBVIOUS
  <2>1. ASSUME NEW c \in Commands, Send(c), UNCHANGED has_bank PROVE WorkerInv'
        BY <2>1, SendInv
  <2>2. ASSUME main_loop, UNCHANGED has_bank PROVE WorkerInv'
        BY <2>2, DrainInv, LoopInv DEF main_loop
  <2>3. CASE UNCHANGED vars
    <3>1. watchpoints \in Nat /\ hit \in BOOLEAN /\ saved \in [Names -> {<<>>} \cup Saveable]
          BY DEF WorkerInv, Sound, Typed
    <3>2. Sound'
          BY <2>3, <3>1, QuietSound DEF vars, watch, WorkerInv
    <3> QED BY <2>3, <3>2 DEF vars, watch, WorkerInv, Channel, WatchpointsAsked
  <2> QED BY <2>1, <2>2, <2>3 DEF Next
<1> QED BY <1>1, WorkerInit, PTL DEF Spec

\* Worker, CPU and clients agree on whether it runs: a stop is published on every path, and
\* a worker that runs has no paused CPU (cpu_worker.rs handle_cmd, main_loop).
THEOREM WorkerStatesAgree == Spec => []StatesAgree
<1>1. WorkerInv => StatesAgree
  <2> SUFFICES ASSUME WorkerInv PROVE StatesAgree
      OBVIOUS
  <2>1. watchpoints \in 0..MaxSent
    <3>1. watchpoints \in Nat /\ Len(queue) \in Nat /\ sent \in Nat /\ sent <= MaxSent
          /\ watchpoints + Len(queue) <= sent
          BY CpuWorkerAssumption
             DEF CpuWorkerAssumption, WorkerInv, Sound, Typed, Channel, WatchpointsAsked
    <3> QED BY <3>1, CpuWorkerAssumption DEF CpuWorkerAssumption
  <2>2. TypeOK
        BY <2>1 DEF WorkerInv, Sound, Typed, Channel, TypeOK
  <2> QED BY <2>2 DEF WorkerInv, Sound, StatesAgree
<1> QED BY <1>1, WorkerInvariance, PTL

\* A run of n instructions steps n times at most, over every pause and resumption in between
\* (main_loop: remaining_insns).
THEOREM BudgetIsExact == Spec => []BudgetRespected
<1>1. WorkerInv => BudgetRespected
      BY DEF WorkerInv, Sound
<1> QED BY <1>1, WorkerInvariance, PTL

\* The worker never executes the instruction at a breakpoint (Cpu::step, finalize_step_over_if_hit).
THEOREM WorkerBreakpointsHold == Spec => BreakpointsHold
<1>1. WorkerInv /\ [Next]_vars
         => [queue' = queue /\ pc \in Range(breakpoints) => UNCHANGED core]_vars
  <2> SUFFICES ASSUME WorkerInv, Next, queue' = queue, pc \in Range(breakpoints)
               PROVE  UNCHANGED core
      OBVIOUS
  <2>1. pc \in hooks /\ queue \in Seq(Commands) /\ Sound
        BY DEF WorkerInv, Sound, BreakpointsAreArmed, Channel
  <2>2. ASSUME NEW c \in Commands, Send(c) PROVE FALSE
    <3>1. Len(Append(queue, c)) # Len(queue)
          BY <2>1
    <3> QED BY <2>2, <3>1 DEF Send
  <2>3. ASSUME drain_commands PROVE FALSE
    <3>1. queue # <<>> /\ queue' = Tail(queue)
          BY <2>3 DEF drain_commands
    <3>2. Len(Tail(queue)) # Len(queue)
          BY <2>1, <3>1
    <3> QED BY <3>1, <3>2
  <2>4. CASE step
    <3>1. PICK p \in Addresses, b \in Addresses, h \in BOOLEAN, s \in BOOLEAN, why \in Reasons :
             /\ CpuStep(p, b, h, s, why)
             /\ pc' = p /\ blink' = b /\ halted' = h /\ sleeping' = s
          BY <2>4 DEF step
    <3>2. p = pc /\ b = blink /\ h = FALSE /\ s = sleeping
      <4>1. should_step
            BY <2>4 DEF step
      <4> QED BY <2>1, <3>1, <4>1, Stepped
    <3>3. halted = FALSE
          BY <2>1, <2>4 DEF step, should_step, Sound, Typed
    <3> QED BY <3>1, <3>2, <3>3 DEF core
  <2>5. CASE StepError
        BY <2>1, <2>5 DEF StepError
  <2>6. CASE PausedWake
        BY <2>6 DEF PausedWake
  <2> QED BY <2>2, <2>3, <2>4, <2>5, <2>6 DEF Next, main_loop
<1> QED BY <1>1, WorkerInvariance, PTL DEF Spec, BreakpointsHold
===============================================================================
