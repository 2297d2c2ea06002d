-------------------------------- MODULE CpuCore --------------------------------
(***************************************************************************)
(* One step of the ARC core in SoC mode (src/src/cpu/mod.rs): delay slots, *)
(* zero-overhead loops, interrupt entry and return on two levels, the two  *)
(* timers and their watchdog, the detection of a spinning pc, sleeping and *)
(* the shadow call stack.                                                  *)
(*                                                                         *)
(* A program is a choice of the next instruction among the kinds that      *)
(* touch this state; an address is a number below Size, one instruction    *)
(* each, and the address after the last is the first.  The program keeps   *)
(* the rules its own instruction set gives it: no control transfer and no  *)
(* sleep in a delay slot, an interrupt handler returns through the link    *)
(* register of the level it was entered on and balances its calls, FLAG    *)
(* and LP are not used to give up the level or the loop of the code it     *)
(* interrupted.  The breakpoint check and the pause flags are CpuWorker's. *)
(* A timer's LIMIT and CONTROL are written together; the interrupt vectors *)
(* and AUX_IRQ_LEV keep the values the firmware gives them.                *)
(***************************************************************************)
EXTENDS Integers, SequencesExt

CONSTANTS Size,           \* program addresses 0..Size-1
          Kinds,          \* kinds of instruction the program uses, "Uart" if its line moves
          Masks,          \* what it may write to E1 and E2
          Settings,       \* what it may write to a timer's LIMIT and CONTROL
          Iterations,     \* what it may write to LP_COUNT
          UartPrescaler,  \* UART_PRESCALER
          TightLoop,      \* TIGHT_LOOP_THRESHOLD
          StackDepth,     \* depth of the shadow call stack
          MaxCalls        \* bound: calls not returned from

ASSUME CpuCoreAssumption ==
    /\ Size \in Nat \ {0, 1}
    /\ Masks \subseteq [1..2 -> BOOLEAN]
    /\ Settings \subseteq [limit : Nat, ie : BOOLEAN, w : BOOLEAN, nh : BOOLEAN]
    /\ IsFiniteSet(Settings)
    /\ Iterations \subseteq Nat
    /\ UartPrescaler \in Nat \ {0} /\ TightLoop \in Nat \ {0}
    /\ StackDepth \in Nat \ {0} /\ MaxCalls \in Nat

VARIABLE cpu   \* the state below, history included

vars == <<cpu>>

Address == 0..(Size - 1)
None == -1
Level == 1..2
TimerId == 0..1

\* Interrupt lines: Timer 0, UART, Timer 1; AUX_IRQ_LEV puts the last on level 2.
Line == {3, 5, 7}
LevelOf(line) == IF line = 7 THEN 2 ELSE 1
TimerLine(t) == IF t = 0 THEN 3 ELSE 7
UartLine == 5

NoDelay == [target |-> None, link |-> FALSE]
Status == [e : [Level -> BOOLEAN], a : [Level -> BOOLEAN], l : BOOLEAN]
Off == [count |-> 0, limit |-> 0, ie |-> FALSE, w |-> FALSE, nh |-> FALSE]

\* What reset leaves: CpuState::new and the Cpu's own fields.
NewState ==
    [pc |-> 0, blink |-> 0, delay |-> NoDelay,
     lp_start |-> 0, lp_end |-> 0, lp_count |-> 0,
     e |-> [v \in Level |-> FALSE], a |-> [v \in Level |-> FALSE], l |-> FALSE,
     status |-> [v \in Level |-> [e |-> [w \in Level |-> FALSE],
                                  a |-> [w \in Level |-> FALSE], l |-> FALSE]],
     ilink |-> [v \in Level |-> 0],
     pending |-> {}, sleeping |-> FALSE, halted |-> FALSE, hung |-> FALSE,
     count |-> 0,                               \* instruction_count, modulo the prescaler
     timer |-> [t \in TimerId |-> Off],
     spin |-> 0, spin_pc |-> None,              \* tight_loop_count, tight_loop_last_pc
     uart |-> FALSE, bank_irq |-> FALSE,        \* the UART's line, the bank's copy of it
     shadow_call_stack |-> <<>>,
     frames |-> <<>>,                           \* history: what interrupts interrupted
     calls |-> <<>>,                            \* history: the calls not returned from
     rebooted |-> FALSE]                        \* history: the last step reset the core

Instructions ==
    {i \in [op : {"Nop", "Brk"}]
           \cup [op : {"Branch", "Call"}, to : Address, delay : BOOLEAN]
           \cup [op : {"Return", "ReturnFromInterrupt"}, delay : BOOLEAN]
           \cup [op : {"Flag"}, e : Masks]
           \cup [op : {"Sleep"}, e : Masks, operand : BOOLEAN]
           \cup [op : {"Loop"}, to : Address]
           \cup [op : {"LoopCount"}, n : Iterations]
           \cup [op : {"Timer"}, t : TimerId, set : Settings]
           \cup [op : {"ClearCount"}, t : TimerId] :
        i.op \in Kinds}

Delay == [target : Address, link : BOOLEAN] \cup {NoDelay}

\* history: what an interrupt interrupted.
Frame == [level : Level, pc : Address, status : Status, delay : Delay, calls : Seq(Address)]

Core ==
    [pc : Address, blink : Address, delay : Delay,
     lp_start : Address, lp_end : Address, lp_count : Nat,
     e : [Level -> BOOLEAN], a : [Level -> BOOLEAN], l : BOOLEAN,
     status : [Level -> Status], ilink : [Level -> Address],
     pending : SUBSET Line, sleeping : BOOLEAN, halted : BOOLEAN, hung : BOOLEAN,
     count : 0..(UartPrescaler - 1),
     timer : [TimerId -> [count : Nat, limit : Nat, ie : BOOLEAN, w : BOOLEAN, nh : BOOLEAN]],
     spin : 0..TightLoop, spin_pc : Address \cup {None},
     uart : BOOLEAN, bank_irq : BOOLEAN,
     shadow_call_stack : Seq(Address), frames : Seq(Frame), calls : Seq(Address),
     rebooted : BOOLEAN]

TypeOK ==
    /\ cpu \in Core
    /\ Len(cpu.shadow_call_stack) <= StackDepth
    /\ Len(cpu.frames) <= 2

Init == cpu = NewState

--------------------------------------------------------------------------------
\* Executing an instruction.

following(c) == (c.pc + 1) % Size
StatusOf(c) == [e |-> c.e, a |-> c.a, l |-> c.l]

\* Where a branch, a call or a return goes.
Target(c, i) ==
    CASE i.op \in {"Branch", "Call"} -> i.to
      [] i.op = "Return"              -> c.blink
      [] i.op = "ReturnFromInterrupt" -> c.ilink[Last(c.frames).level]
      [] OTHER                        -> None

Transfers == {"Branch", "Call", "Return", "ReturnFromInterrupt"}

\* The rules a program keeps.
Allowed(c, i) ==
    /\ c.delay # NoDelay => i.op \notin Transfers \cup {"Loop", "Sleep", "Brk"}
    /\ i.op = "Call" => Len(c.calls) < MaxCalls
    /\ i.op = "Return" => c.calls # <<>> /\ Last(c.calls) = c.blink
    /\ i.op = "ReturnFromInterrupt" => c.frames # <<>> /\ c.calls = Last(c.frames).calls
    /\ i.op \in {"Loop", "LoopCount"} => c.frames = <<>>

\* The registers an instruction writes, the pc aside.
Registers(c, i) ==
    CASE i.op = "Flag"       -> [c EXCEPT !.e = i.e]
      [] i.op = "Sleep"      -> [c EXCEPT !.sleeping = TRUE, !.e = IF i.operand THEN i.e ELSE @]
      [] i.op = "Brk"        -> [c EXCEPT !.halted = TRUE]
      [] i.op = "Loop"       -> [c EXCEPT !.l = FALSE, !.lp_start = following(c), !.lp_end = i.to]
      [] i.op = "LoopCount"  -> [c EXCEPT !.lp_count = i.n]
      [] i.op = "Timer"      -> [c EXCEPT !.timer[i.t] = [count |-> @.count, limit |-> i.set.limit, ie |-> i.set.ie,
                                                          w |-> i.set.w, nh |-> i.set.nh]]
      [] i.op = "ClearCount" -> [c EXCEPT !.timer[i.t].count = 0]
      [] i.op = "Return"     -> [c EXCEPT !.calls = Front(@)]
      [] i.op = "Call" /\ ~i.delay -> [c EXCEPT !.blink = following(c),
                                                !.calls = Append(@, following(c))]
      [] i.op = "ReturnFromInterrupt" ->
            LET s == c.status[Last(c.frames).level]
            IN [c EXCEPT !.e = s.e, !.a = s.a, !.l = s.l, !.frames = Front(@)]
      [] OTHER -> c

\* A slip: what the delay slot says comes before the branch it belongs to.
NextPcOfSlot(c, s, i) ==
    IF i.op \in Transfers /\ ~i.delay THEN Target(c, i) ELSE following(c)

\* The update of the pc: the branch whose slot this was, the jump this is, or on.
NextPc(c, s, i) ==
    IF s # NoDelay THEN s.target
    ELSE IF i.op \in Transfers /\ ~i.delay THEN Target(c, i)
    ELSE following(c)

\* Fetch to the update of the pc; s is the delay slot being executed, or NoDelay.
execute(c, s, i) ==
    LET linked == IF s.link THEN [c EXCEPT !.blink = following(c),
                                           !.calls = Append(@, following(c))]
                  ELSE c
        done   == Registers(linked, i)
    IN [done EXCEPT
            !.delay = IF i.op \in Transfers /\ i.delay
                      THEN [target |-> Target(linked, i), link |-> i.op = "Call"] ELSE NoDelay,
            !.pc = NextPc(linked, s, i),
            !.count = (@ + 1) % UartPrescaler]

\* A zero-overhead loop goes back to its start before anything is fetched.
LoopsBack(c) == c.delay = NoDelay /\ ~c.l /\ c.pc = c.lp_end /\ c.lp_count > 1

\* The last pass leaves the loop and goes on with the instruction behind it.
LeavesLoop(c) ==
    IF c.delay = NoDelay /\ ~c.l /\ c.pc = c.lp_end /\ c.lp_count = 1
    THEN [c EXCEPT !.lp_count = 0] ELSE c

--------------------------------------------------------------------------------
\* A pc that does not move.

is_watchdog(t) == t.w /\ t.limit # 0

classify_spin(c) ==
    IF \E t \in TimerId : is_watchdog(c.timer[t]) THEN "WatchdogArmed"
    ELSE IF /\ c.e[1] \/ c.e[2]
            /\ \/ \E t \in TimerId : c.timer[t].ie /\ c.timer[t].limit # 0
               \/ c.pending # {} \/ c.bank_irq
    THEN "Interruptible" ELSE "Hung"

fast_forward(c) ==
    [c EXCEPT !.timer = [t \in TimerId |->
        IF is_watchdog(c.timer[t]) THEN [c.timer[t] EXCEPT !.count = c.timer[t].limit - 1]
        ELSE c.timer[t]]]

Recognised(c) == c.pc = c.spin_pc /\ c.spin + 1 >= TightLoop

spin_detection(c) ==
    IF c.pc # c.spin_pc THEN [c EXCEPT !.spin = 0, !.spin_pc = c.pc]
    ELSE IF ~Recognised(c) THEN [c EXCEPT !.spin = @ + 1]
    ELSE CASE classify_spin(c) = "WatchdogArmed" -> [fast_forward(c) EXCEPT !.spin = 0]
           [] classify_spin(c) = "Interruptible" -> [c EXCEPT !.spin = 0]
           [] OTHER -> [c EXCEPT !.spin = @ + 1, !.halted = TRUE, !.hung = TRUE]

--------------------------------------------------------------------------------
\* The shadow call stack: pushed behind a call, popped when a jump lands at blink.

Push(c, address) ==
    IF Len(c.shadow_call_stack) < StackDepth
    THEN [c EXCEPT !.shadow_call_stack = Append(@, address)] ELSE c

call_stack(c, s, i) ==
    IF s.link THEN Push(c, c.blink)
    ELSE IF i.op = "Call" /\ ~i.delay THEN Push(c, c.blink)
    ELSE IF /\ i.op \in Transfers /\ ~i.delay
            /\ c.pc = c.blink /\ c.shadow_call_stack # <<>>
    THEN [c EXCEPT !.shadow_call_stack = Front(@)]
    ELSE c

--------------------------------------------------------------------------------
\* Timers, watchdog and the bank.

\* Bound: a count is kept up to the largest limit; the wrap at 2^32 is left out.
Ceiling == Max({s.limit : s \in Settings} \cup {1})

\* warm_reboot_from_flash: everything new, both levels enabled.
warm_reboot == [NewState EXCEPT !.e = [v \in Level |-> TRUE], !.rebooted = TRUE]

AtLimit(t) == t.limit # 0 /\ t.count + 1 >= t.limit

\* Timer 0 keeps its count at the limit when NH is set, Timer 1 never does.
Counted(t, id) ==
    IF AtLimit(t) THEN [t EXCEPT !.count = IF id = 0 /\ t.nh THEN Min({@ + 1, Ceiling}) ELSE 0]
    ELSE [t EXCEPT !.count = Min({@ + 1, Ceiling})]

\* A slip: the watchdog bit counts only together with the interrupt enable.
ResetOnInterruptOnly(t) == AtLimit(t) /\ t.w /\ t.ie

Resets(t) == AtLimit(t) /\ t.w

tick_arc_timers_once(c) ==
    IF \E t \in TimerId : Resets(c.timer[t]) THEN warm_reboot
    ELSE [c EXCEPT
            !.timer = [t \in TimerId |-> Counted(c.timer[t], t)],
            !.pending = @ \cup {TimerLine(t) : t \in {u \in TimerId :
                                    AtLimit(c.timer[u]) /\ c.timer[u].ie}}]

\* A step is one or two ticks (1.76 on average) and now and then a tick of the bank,
\* which copies the UART's line.
tick_timers_and_bank(c, ticks, bank) ==
    LET once == tick_arc_timers_once(c)
        all  == IF ticks = 2 THEN tick_arc_timers_once(once) ELSE once
    IN IF bank THEN [all EXCEPT !.bank_irq = all.uart] ELSE all

\* A slip: the line is not looked at before a delay slot.
UartSkippedBeforeSlot(c) ==
    IF c.count = 0 /\ c.delay = NoDelay /\ (c.uart \/ c.bank_irq)
    THEN [c EXCEPT !.pending = @ \cup {UartLine}] ELSE c

check_uart_irq(c) ==
    IF c.count = 0 /\ (c.uart \/ c.bank_irq)
    THEN [c EXCEPT !.pending = @ \cup {UartLine}] ELSE c

--------------------------------------------------------------------------------
\* Interrupts: the lowest pending line, if its level is open.

Vector(line) == IF line = 7 THEN Size - 1 ELSE Size - 2

\* A slip: the handler runs with the loop of what it interrupted.
EnterInLoop(c, line) ==
    LET v == LevelOf(line)
    IN [c EXCEPT !.status[v] = StatusOf(c), !.ilink[v] = c.pc,
                 !.e = [w \in Level |-> FALSE], !.a[v] = TRUE,
                 !.pending = @ \ {line}, !.pc = Vector(line),
                 !.frames = Append(@, [level |-> v, pc |-> c.pc, status |-> StatusOf(c),
                                       delay |-> c.delay, calls |-> c.calls])]

Enter(c, line) ==
    LET v == LevelOf(line)
    IN [c EXCEPT !.status[v] = StatusOf(c), !.ilink[v] = c.pc,
                 !.e = IF v = 1 THEN [w \in Level |-> FALSE] ELSE [@ EXCEPT ![2] = FALSE],
                 !.a[v] = TRUE, !.l = TRUE,
                 !.pending = @ \ {line}, !.pc = Vector(line),
                 !.frames = Append(@, [level |-> v, pc |-> c.pc, status |-> StatusOf(c),
                                       delay |-> c.delay, calls |-> c.calls])]

\* A slip: an interrupt comes between a branch and its delay slot.
OpenInDelaySlot(c, v) == c.e[v] /\ ~c.a[v]

Open(c, v) == c.delay = NoDelay /\ c.e[v] /\ ~c.a[v]

check_interrupts(c) ==
    IF c.pending # {} /\ Open(c, LevelOf(Min(c.pending))) THEN Enter(c, Min(c.pending)) ELSE c

--------------------------------------------------------------------------------
\* Cpu::step.

\* What follows an instruction, or a step asleep.
Peripherals(c, ticks, bank) == check_interrupts(check_uart_irq(tick_timers_and_bank(c, ticks, bank)))

\* A slip: time stands still for a sleeping core.
AsleepInTime(c, ticks, bank) ==
    LET d == check_interrupts(check_uart_irq(c))
    IN [d EXCEPT !.sleeping = d.frames = c.frames]

\* A sleeping core wakes when it takes an interrupt, or by the watchdog's reset.
Asleep(c, ticks, bank) ==
    LET d == Peripherals(c, ticks, bank)
    IN [d EXCEPT !.sleeping = ~d.rebooted /\ d.frames = c.frames]

Executed(c, i, ticks, bank) ==
    LET spun == spin_detection(execute(LeavesLoop(c), c.delay, i))
    IN IF spun.hung THEN spun
       ELSE Peripherals(call_stack(spun, c.delay, i), ticks, bank)

\* Whether the bank ticks makes a difference only where its copy is behind the line.
BankTicks == {FALSE, cpu.uart # cpu.bank_irq}

Step ==
    LET c == [cpu EXCEPT !.rebooted = FALSE]
    IN /\ ~cpu.halted
       /\ \/ /\ cpu.sleeping
             /\ \E ticks \in 1..2, bank \in BankTicks : cpu' = Asleep(c, ticks, bank)
          \/ /\ ~cpu.sleeping /\ LoopsBack(cpu)
             /\ cpu' = [c EXCEPT !.lp_count = @ - 1, !.pc = c.lp_start]
          \/ /\ ~cpu.sleeping /\ ~LoopsBack(cpu)
             /\ \E i \in Instructions, ticks \in 1..2, bank \in BankTicks :
                    Allowed(c, i) /\ cpu' = Executed(c, i, ticks, bank)

\* A byte arrives or is read, the firmware enables or disables the UART's interrupt.
UartEdge == "Uart" \in Kinds /\ cpu' = [cpu EXCEPT !.uart = ~@]

Next == Step \/ UartEdge

Spec == Init /\ [][Next]_vars

\* The worker's thread keeps stepping a running core.
FairSpec == Spec /\ WF_vars(Step)

\* The same fairness in a form TLC evaluates faster: Step changes nothing in a
\* core that is halted, or asleep with nothing left to count, and every other
\* step of Spec than UartEdge is a Step.
Still ==
    \/ cpu.halted
    \/ /\ cpu.sleeping
       /\ \A ticks \in 1..2, bank \in BankTicks :
              Asleep([cpu EXCEPT !.rebooted = FALSE], ticks, bank) = cpu

QuickFairSpec == Spec /\ ([]<>Still \/ []<><<~UartEdge>>_vars)

--------------------------------------------------------------------------------
(* Properties.                                                             *)

Intact(c) ==
    \A n \in DOMAIN c.frames :
        LET f == c.frames[n]
        IN /\ c.ilink[f.level] = f.pc
           /\ c.status[f.level] = f.status
           /\ c.a[f.level] /\ f.delay = NoDelay
           /\ \A m \in DOMAIN c.frames : c.frames[m].level = f.level => m = n

\* What an interrupt interrupted is intact until its handler returns to it,
\* however the two levels nest: each level's link and saved status are those of
\* its own entry, no level is entered twice, and no branch was cut off from its
\* delay slot.  (check_interrupts, execute_jump)
ContextIntact == Intact(cpu)

\* The core is in a state it can go on from, in the handlers and behind them.
CoreIsConsistent == TypeOK /\ ContextIntact

\* A handler, also one that runs through the end address of the loop it
\* interrupted, never uses up an iteration of it.  (check_interrupts: flag_l)
LoopsAreNotDisturbed ==
    [][cpu.frames # <<>> /\ ~cpu'.rebooted => cpu'.lp_count = cpu.lp_count]_vars

\* A taken branch is never lost: the step behind its delay slot is at its target,
\* or an interrupt will come back to it.  (Cpu::step: the delay state)
BranchesLand ==
    [][cpu.delay # NoDelay /\ cpu'.delay = NoDelay /\ ~cpu'.rebooted
          => \/ cpu'.pc = cpu.delay.target
             \/ /\ Len(cpu'.frames) > Len(cpu.frames)
                /\ Last(cpu'.frames).pc = cpu.delay.target]_vars

\* An armed watchdog nobody clears ends in a reset, whether the core spins,
\* sleeps, loops or works.  (classify_spin: WatchdogArmed, "the chip really
\* will reset")
ArmedWatchdogResets ==
    (\E t \in TimerId : is_watchdog(cpu.timer[t]))
        ~> (cpu.rebooted \/ cpu.halted \/ ~\E t \in TimerId : is_watchdog(cpu.timer[t]))

\* A running core with its level open takes the interrupt of a UART whose line
\* stays up, although the line is only polled now and then and an interrupt may
\* not come before a delay slot.  (check_uart_irq, check_interrupts)
UartReachesRunningCore ==
    (cpu.uart /\ cpu.e[1] /\ ~cpu.a[1])
        ~> (~cpu.uart \/ ~cpu.e[1] \/ cpu.a[1] \/ cpu.sleeping \/ cpu.halted)

\* A sleeping core that Timer 0 may interrupt wakes up.  (Cpu::step: the
\* sleeping branch ticks the timers and checks interrupts)
TimerWakesSleeper ==
    (/\ cpu.sleeping /\ ~cpu.halted /\ cpu.e[1] /\ ~cpu.a[1]
     /\ cpu.timer[0].ie /\ cpu.timer[0].limit # 0) ~> ~cpu.sleeping

\* cpu/mod.rs:486: "if the PC is the same as last step, the CPU is spinning on
\* `b .`", and "Nothing can ever move the PC again" where it halts for that.
HungSpinsInPlace == [][~cpu.hung /\ cpu'.hung => cpu'.pc = cpu.pc]_vars

\* registers.rs:119: a core halted for a spin has "no interrupt able to reach
\* the core".
HungIsUnreachable == cpu.hung => ~cpu.e[1] /\ ~cpu.e[2]

\* cpu/mod.rs:670: what fast_forward_armed_watchdog skips is nothing any
\* "observer can distinguish": no interrupt would have come first.
Remaining(t) == t.limit - t.count
FastForwardSkipsNothing ==
    [][cpu'.rebooted /\ (\A t \in TimerId : is_watchdog(cpu.timer[t]) => Remaining(cpu.timer[t]) > 2)
          => ~\E t \in TimerId :
                 /\ cpu.timer[t].ie /\ cpu.timer[t].limit # 0
                 /\ cpu.e[LevelOf(TimerLine(t))] /\ ~cpu.a[LevelOf(TimerLine(t))]
                 /\ \A u \in TimerId : is_watchdog(cpu.timer[u]) =>
                        Remaining(cpu.timer[t]) < Remaining(cpu.timer[u])]_vars

\* cpu/mod.rs:746: "Delivery depends only on the peripheral asserting [...], the
\* line's level [...], and the matching `E1`/`E2` bit": none that may be
\* delivered is left waiting by a step.
NothingDeliverableWaits ==
    ~cpu.halted => \A line \in cpu.pending : ~Open(cpu, LevelOf(line))

\* cpu/mod.rs:72: the shadow call stack is "Pushed on BL/JL, popped on J [blink]".
CallStackFollows ==
    cpu.delay = NoDelay /\ Len(cpu.calls) <= StackDepth
        => cpu.shadow_call_stack = cpu.calls

\* cpu/mod.rs:319: "When sleeping, only tick timers and check interrupts", and
\* the interrupt it takes ends the sleep.
HandlersRunAwake == [][Len(cpu'.frames) > Len(cpu.frames) => ~cpu'.sleeping]_vars

\* cpu/mod.rs:723: the peripherals' lines are polled, "Prescaled to avoid
\* hot-path contention": a core asleep with its level open hears the UART.
SleeperHearsUart ==
    (cpu.sleeping /\ ~cpu.halted /\ cpu.e[1] /\ ~cpu.a[1] /\ cpu.uart) ~> (~cpu.sleeping \/ ~cpu.uart)
================================================================================
