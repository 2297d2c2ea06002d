------------------------------- MODULE CpuWorker -------------------------------
(***************************************************************************)
(* The CPU worker thread (src/src/emu/cpu_worker.rs): it owns the Cpu,     *)
(* drains the command channel the UI and MCP threads write, steps the CPU  *)
(* while it may, decides when a run is over, and publishes snapshots.      *)
(*                                                                         *)
(* The hook table of cpu/mod.rs holds only breakpoints, so `hooks` is the  *)
(* set of addresses that pause before executing.  What an instruction does *)
(* (executor, timers, interrupts, a watchdog's warm reboot) is a choice of *)
(* the next pc, blink, halted and sleeping; the hook check in front of it  *)
(* and everything the worker does after it are exact.  Timing (the 16 ms   *)
(* publish, the 200 ms wake, the throttle's sleep) is a choice of whether  *)
(* the step also publishes.  Commands that only read state and answer are  *)
(* one command, Request.                                                   *)
(***************************************************************************)
EXTENDS Integers, SequencesExt

CONSTANTS Addresses,   \* program addresses that matter; 0 is the reset pc
          Names,       \* names of saved snapshots
          Counts,      \* instruction counts a Run or a StepN may ask for
          Alphabet,    \* the commands clients send in this instance
          MaxQueued,   \* bound: commands in the channel at once
          MaxSent      \* bound: commands sent in a run

None == -1

ASSUME CpuWorkerAssumption ==
    /\ Addresses \subseteq Nat /\ 0 \in Addresses
    /\ Counts \subseteq Nat
    /\ MaxQueued \in Nat \ {0} /\ MaxSent \in Nat

VARIABLES has_bank,          \* SoC mode (a peripheral bank) or flat mode (tests), from the start
          queue,             \* the command channel
          sent,              \* commands sent so far
          alive,             \* FALSE once the worker has returned
          running,           \* Worker::running
          remaining,         \* Worker::remaining_insns, None or a count
          run_to,            \* Worker::run_to, None or an address
          breakpoints,       \* Worker::breakpoints, in the order they were set
          step_over_target,  \* Worker::step_over_target, None or an address
          saved,             \* Worker::snapshots: <<>> or <<pc, blink, halted, sleeping>>
          hooks,             \* Cpu::hooks
          pc, blink,         \* CpuState
          paused, pause_reason, halted, sleeping,
          watchpoints,       \* how many watchpoints are set
          hit,               \* WatchpointTable::hit
          published,         \* run state of the published snapshot
          asked,             \* history: instructions the last Run or Step asked for
          since,             \* history: steps counted against it
          executed           \* history: whether the last step executed an instruction

worker == <<running, remaining, run_to, step_over_target>>
points == <<breakpoints, hooks>>
core   == <<pc, blink, halted, sleeping>>
stop   == <<paused, pause_reason>>
watch  == <<watchpoints, hit>>
ledger == <<asked, since, executed>>
vars   == <<has_bank, queue, sent, alive, worker, points, core, stop, watch, saved,
            published, ledger>>

Reasons == {"None", "Breakpoint", "Watch", "UserPause", "Halted", "SpinNoWatchdog"}
RunStates == {"Halted", "Breakpoint", "Paused", "Sleeping", "Running"}

Saveable == Addresses \X Addresses \X BOOLEAN \X BOOLEAN

Commands ==
    {c \in [op : {"Run"}, n : Counts \cup {None}]
           \cup [op : {"StepOne", "Pause", "StepOver", "Request", "SetSpeed",
                       "SetWatchpoint", "RemoveWatchpoint", "WriteSram", "Shutdown"}]
           \cup [op : {"StepN"}, n : Counts]
           \cup [op : {"RunTo", "SetBreakpoint", "RemoveBreakpoint",
                       "WritePc", "WriteBlink"}, addr : Addresses]
           \cup [op : {"Reset"}, keep : BOOLEAN]
           \cup [op : {"LoadFirmware"}, keep : BOOLEAN, addr : Addresses, readable : BOOLEAN]
           \cup [op : {"SaveSnapshot", "RestoreSnapshot", "DeleteSnapshot"}, name : Names] :
        c.op \in Alphabet}

TypeOK ==
    /\ has_bank \in BOOLEAN
    /\ queue \in Seq(Commands) /\ Len(queue) <= MaxQueued
    /\ sent \in 0..MaxSent /\ alive \in BOOLEAN
    /\ running \in BOOLEAN
    /\ remaining \in Nat \cup {None}
    /\ run_to \in Addresses \cup {None} /\ step_over_target \in Addresses \cup {None}
    /\ breakpoints \in Seq(Addresses) /\ IsInjective(breakpoints)
    /\ hooks \subseteq Addresses
    /\ pc \in Addresses /\ blink \in Addresses
    /\ halted \in BOOLEAN /\ sleeping \in BOOLEAN
    /\ paused \in BOOLEAN /\ pause_reason \in Reasons
    /\ watchpoints \in 0..MaxSent /\ hit \in BOOLEAN
    /\ saved \in [Names -> {<<>>} \cup Saveable]
    /\ published \in RunStates
    /\ asked \in Nat \cup {None} /\ since \in Nat /\ executed \in BOOLEAN

Init ==
    /\ has_bank \in BOOLEAN
    /\ queue = <<>> /\ sent = 0 /\ alive = TRUE
    /\ running = FALSE /\ remaining = None /\ run_to = None /\ step_over_target = None
    /\ breakpoints = <<>> /\ hooks = {}
    /\ pc = 0 /\ blink = 0 /\ halted = FALSE /\ sleeping = FALSE
    /\ paused = FALSE /\ pause_reason = "None"
    /\ watchpoints = 0 /\ hit = FALSE
    /\ saved = [n \in Names |-> <<>>]
    /\ published = "Paused"
    /\ asked = None /\ since = 0 /\ executed = FALSE

-------------------------------------------------------------------------------
\* What a snapshot says of the run.
run_state(h, p, why, s, r) ==
    CASE h                          -> "Halted"
      [] ~h /\ p                    -> IF why = "Breakpoint" THEN "Breakpoint" ELSE "Paused"
      [] ~h /\ ~p /\ s              -> "Sleeping"
      [] ~h /\ ~p /\ ~s /\ r        -> "Running"
      [] OTHER                      -> "Paused"

publish_snapshot ==
    published' = run_state(halted', paused', pause_reason', sleeping', running')

should_step == running /\ ~halted /\ ~paused

-------------------------------------------------------------------------------
(* The commands.  A client's thread puts one in the channel; the worker    *)
(* takes them in order, every one queued before its next step.             *)

Send(c) ==
    /\ alive
    /\ sent < MaxSent
    /\ Len(queue) < MaxQueued
    /\ queue' = Append(queue, c)
    /\ sent' = sent + 1
    /\ UNCHANGED <<alive, worker, points, core, stop, watch, saved, published, ledger>>

\* Run, StepOne and StepN: one budget of instructions, counted from here.
RunFor(n) ==
    /\ paused' = FALSE /\ pause_reason' = "None"
    /\ remaining' = n
    /\ running' = TRUE
    /\ asked' = n /\ since' = 0
    /\ UNCHANGED <<run_to, step_over_target, points, core, watch, saved, published,
                   executed, alive>>

RunTo(a) ==
    /\ paused' = FALSE /\ pause_reason' = "None"
    /\ run_to' = a
    /\ running' = TRUE
   
    /\ UNCHANGED <<remaining, step_over_target, points, core, watch, saved, published,
                   asked, since, executed, alive>>

Pause ==
    /\ running' = FALSE
    /\ paused' = TRUE
    /\ pause_reason' = IF pause_reason = "None" THEN "UserPause" ELSE pause_reason
    /\ UNCHANGED <<remaining, run_to, step_over_target, points, core, watch, saved,
                   ledger, alive>>
    /\ publish_snapshot

\* A temporary breakpoint at blink, unless something is hooked there already.
StepOver ==
    /\ IF blink \in hooks
       THEN UNCHANGED <<hooks, step_over_target>>
       ELSE hooks' = hooks \cup {blink} /\ step_over_target' = blink
    /\ paused' = FALSE /\ pause_reason' = "None"
    /\ running' = TRUE
   
    /\ UNCHANGED <<remaining, run_to, breakpoints, core, watch, saved, published,
                   asked, since, executed, alive>>

\* A bank is reset in place: the Cpu, its hooks and its watchpoints stay.  A
\* flat Cpu is built anew.
reset_cpu(entry, kept) ==
    /\ pc' = entry /\ blink' = 0 /\ halted' = FALSE /\ sleeping' = FALSE
    /\ breakpoints' = kept
    /\ hooks' = (IF has_bank THEN hooks ELSE {}) \cup Range(kept)
    /\ IF has_bank THEN UNCHANGED watch ELSE watchpoints' = 0 /\ hit' = FALSE

Kept(keep) == IF keep THEN breakpoints ELSE <<>>

Idle ==
    /\ running' = FALSE /\ remaining' = None /\ run_to' = None /\ step_over_target' = None

\* A slip: nothing is published.
ResetUnpublished(keep) ==
    /\ reset_cpu(0, Kept(keep))
    /\ paused' = FALSE /\ pause_reason' = "None"
    /\ Idle
    /\ UNCHANGED <<saved, ledger, alive, published>>

Reset(keep) ==
    /\ reset_cpu(0, Kept(keep))
    /\ paused' = FALSE /\ pause_reason' = "None"
    /\ Idle
    /\ UNCHANGED <<saved, ledger, alive>>
    /\ publish_snapshot

\* A file that cannot be read changes nothing.  In flat mode the load fails
\* after the Cpu was rebuilt, and leaves the run as it was.
LoadFirmware(keep, entry, readable) ==
    /\ \/ /\ ~readable
          /\ UNCHANGED <<worker, points, core, stop, watch>>
       \/ /\ readable /\ ~has_bank
          /\ reset_cpu(0, Kept(keep))
          /\ paused' = FALSE /\ pause_reason' = "None"
          /\ UNCHANGED worker
       \/ /\ readable /\ has_bank
          /\ reset_cpu(entry, Kept(keep))
          /\ paused' = TRUE /\ pause_reason' = "UserPause"
          /\ Idle
    /\ UNCHANGED <<saved, ledger, alive>>
    /\ publish_snapshot

SetBreakpoint(a) ==
    /\ IF a \in Range(breakpoints)
       THEN UNCHANGED points
       ELSE breakpoints' = Append(breakpoints, a) /\ hooks' = hooks \cup {a}
    /\ UNCHANGED <<worker, core, stop, watch, saved, published, ledger, alive>>

RemoveBreakpoint(a) ==
    /\ breakpoints' = RemoveFirst(breakpoints, a)
    /\ hooks' = hooks \ {a}
    /\ UNCHANGED <<worker, core, stop, watch, saved, published, ledger, alive>>

SetWatchpoint ==
    /\ watchpoints' = watchpoints + 1
    /\ UNCHANGED <<worker, points, core, stop, hit, saved, published, ledger, alive>>

RemoveWatchpoint ==
    /\ watchpoints' = IF watchpoints = 0 THEN 0 ELSE watchpoints - 1
    /\ UNCHANGED <<worker, points, core, stop, hit, saved, published, ledger, alive>>

WriteRegister(p, b) ==
    /\ pc' = p /\ blink' = b
    /\ UNCHANGED <<worker, points, halted, sleeping, stop, watch, saved, ledger, alive>>
    /\ publish_snapshot

\* The debugger's own write goes through Memory::write_byte, which records a
\* watchpoint hit like any store of the firmware.
WriteSram ==
    /\ \/ watchpoints > 0 /\ hit' = TRUE
       \/ hit' = hit
    /\ UNCHANGED <<worker, points, core, stop, watchpoints, saved, published, ledger, alive>>

\* Every command that only reads and answers.
Request ==
    UNCHANGED <<worker, points, core, stop, watch, saved, published, ledger, alive>>

SetSpeed ==
    /\ UNCHANGED <<worker, points, core, stop, watch, saved, ledger, alive>>
    /\ publish_snapshot

SaveSnapshot(n) ==
    /\ saved' = [saved EXCEPT ![n] = <<pc, blink, halted, sleeping>>]
    /\ UNCHANGED <<worker, points, core, stop, watch, published, ledger, alive>>

RestoreSnapshot(n) ==
    /\ IF saved[n] = <<>>
       THEN UNCHANGED <<worker, core, stop, published>>
       ELSE /\ pc' = saved[n][1] /\ blink' = saved[n][2]
            /\ halted' = saved[n][3] /\ sleeping' = saved[n][4]
            /\ paused' = TRUE /\ pause_reason' = "UserPause"
            /\ running' = FALSE
            /\ UNCHANGED <<remaining, run_to, step_over_target>>
            /\ publish_snapshot
    /\ UNCHANGED <<points, watch, saved, ledger, alive>>

DeleteSnapshot(n) ==
    /\ saved' = [saved EXCEPT ![n] = <<>>]
    /\ UNCHANGED <<worker, points, core, stop, watch, published, ledger, alive>>

Shutdown ==
    /\ running' = FALSE
    /\ halted' = TRUE
    /\ alive' = FALSE
    /\ UNCHANGED <<remaining, run_to, step_over_target, points, pc, blink, sleeping, stop,
                   watch, saved, ledger>>
    /\ publish_snapshot

handle_cmd(c) ==
    \/ c.op \in {"Run", "StepN"} /\ RunFor(c.n)
    \/ c.op = "RunTo" /\ RunTo(c.addr)
    \/ c.op = "Pause" /\ Pause
    \/ c.op = "StepOne" /\ RunFor(1)
    \/ c.op = "StepOver" /\ StepOver
    \/ c.op = "Reset" /\ Reset(c.keep)
    \/ c.op = "LoadFirmware" /\ LoadFirmware(c.keep, c.addr, c.readable)
    \/ c.op = "SetBreakpoint" /\ SetBreakpoint(c.addr)
    \/ c.op = "RemoveBreakpoint" /\ RemoveBreakpoint(c.addr)
    \/ c.op = "SetWatchpoint" /\ SetWatchpoint
    \/ c.op = "RemoveWatchpoint" /\ RemoveWatchpoint
    \/ c.op = "WritePc" /\ WriteRegister(c.addr, blink)
    \/ c.op = "WriteBlink" /\ WriteRegister(pc, c.addr)
    \/ c.op = "WriteSram" /\ WriteSram
    \/ c.op = "Request" /\ Request
    \/ c.op = "SetSpeed" /\ SetSpeed
    \/ c.op = "SaveSnapshot" /\ SaveSnapshot(c.name)
    \/ c.op = "RestoreSnapshot" /\ RestoreSnapshot(c.name)
    \/ c.op = "DeleteSnapshot" /\ DeleteSnapshot(c.name)
    \/ c.op = "Shutdown" /\ Shutdown

\* A slip: the channel is looked at only when there is nothing to step.
DrainWhenIdle ==
    /\ alive /\ ~should_step
    /\ queue # <<>>
    /\ handle_cmd(Head(queue))
    /\ queue' = Tail(queue)
    /\ UNCHANGED sent

drain_commands ==
    /\ alive
    /\ queue # <<>>
    /\ handle_cmd(Head(queue))
    /\ queue' = Tail(queue)
    /\ UNCHANGED sent

-------------------------------------------------------------------------------
(* A step.  The hook check comes first, even for a sleeping CPU.  Then a   *)
(* sleeping CPU may stay asleep, or an interrupt or the watchdog wakes it; *)
(* otherwise an instruction executes and may go anywhere, halt, sleep, or  *)
(* run into a watchpoint.  A watchdog's reboot in the middle of a step     *)
(* rebuilds the CPU state, the pause included.                             *)

CpuStep(p, b, h, s, why) ==
    \/ /\ pc \in hooks
       /\ p = pc /\ b = blink /\ ~h /\ s = sleeping /\ why = "Breakpoint"
       /\ hit' = hit
       /\ executed' = FALSE
    \/ /\ pc \notin hooks /\ sleeping
       /\ ~h /\ why = "None"
       /\ b = blink \/ (b = 0 /\ has_bank)
       /\ s => p = pc /\ b = blink
       /\ hit' = hit /\ executed' = FALSE
    \/ /\ pc \notin hooks /\ ~sleeping
       /\ \/ /\ why = "None"                     \* back to the start of a loop
             /\ b = blink /\ ~h /\ ~s
             /\ hit' = hit /\ executed' = FALSE
          \/ /\ why = "SpinNoWatchdog" /\ has_bank
             /\ p = pc /\ b = blink /\ h /\ ~s
             /\ hit' = hit /\ executed' = TRUE
          \/ /\ why = "Watch" /\ (hit \/ watchpoints > 0)
             /\ hit' = FALSE /\ executed' = TRUE
          \/ /\ why = "None"
             /\ hit => has_bank /\ b = 0 /\ ~h /\ ~s
             /\ hit' = FALSE /\ executed' = TRUE

\* A slip: the user's breakpoint goes too.
FinalizeForgettingTheUser(why) ==
    IF why = "Breakpoint" /\ step_over_target = pc
    THEN step_over_target' = None /\ hooks' = hooks \ {pc}
    ELSE UNCHANGED <<step_over_target, hooks>>

\* The worker's temporary breakpoint goes once it has been reached, and the
\* user's own breakpoint at the same address stays installed.
finalize_step_over_if_hit(why) ==
    IF why = "Breakpoint" /\ step_over_target = pc
    THEN /\ step_over_target' = None
         /\ hooks' = IF pc \in Range(breakpoints) THEN hooks ELSE hooks \ {pc}
    ELSE UNCHANGED <<step_over_target, hooks>>

\* A slip: the core is paused but the run goes on.
StopTheCoreOnly(why) ==
    /\ UNCHANGED running
    /\ paused' = TRUE /\ pause_reason' = why

Stop(why) ==
    /\ running' = FALSE
    /\ paused' = TRUE /\ pause_reason' = why

BudgetSpent == remaining # None /\ remaining <= 1

CountDown == IF remaining = None THEN None ELSE remaining - 1

\* A slip: the count is compared before it is counted down.
AfterStepOneMore(p, why) ==
    /\ IF remaining = 0
       THEN remaining' = None /\ Stop("UserPause")
       ELSE /\ remaining' = CountDown
            /\ paused' = (why \in {"Breakpoint", "Watch"})
            /\ pause_reason' = why
            /\ running' = ~(paused' \/ halted')
    /\ UNCHANGED <<run_to, step_over_target, hooks>>
    /\ publish_snapshot

\* What main_loop does after the step, in its order: the budget, the address
\* to run to, a pause or a halt, and the periodic snapshot.
AfterStep(p, why) ==
    \/ /\ BudgetSpent
       /\ remaining' = None
       /\ Stop("UserPause")
       /\ UNCHANGED <<run_to, step_over_target, hooks>>
       /\ publish_snapshot
    \/ /\ ~BudgetSpent
       /\ remaining' = CountDown
       /\ \/ /\ run_to # None /\ p = run_to
             /\ run_to' = None
             /\ Stop("UserPause")
             /\ UNCHANGED <<step_over_target, hooks>>
             /\ publish_snapshot
          \/ /\ run_to = None \/ p # run_to
             /\ UNCHANGED run_to
             /\ paused' = (why \in {"Breakpoint", "Watch"})
             /\ pause_reason' = why
             /\ IF paused' \/ halted'
                THEN /\ running' = FALSE
                     /\ finalize_step_over_if_hit(why)
                     /\ publish_snapshot
                ELSE /\ UNCHANGED <<running, step_over_target, hooks>>
                     /\ publish_snapshot \/ UNCHANGED published

step ==
    /\ alive /\ queue = <<>> /\ should_step
    /\ \E p, b \in Addresses, h, s \in BOOLEAN, why \in Reasons :
           /\ CpuStep(p, b, h, s, why)
           /\ pc' = p /\ blink' = b /\ halted' = h /\ sleeping' = s
           /\ AfterStep(p, why)
    /\ since' = IF remaining = None THEN since ELSE since + 1
    /\ UNCHANGED <<queue, sent, alive, breakpoints, watchpoints, saved, asked>>

\* The step returns an exception: the pc stays at the instruction.
StepError ==
    /\ alive /\ queue = <<>> /\ should_step
    /\ pc \notin hooks /\ ~sleeping
    /\ Stop("Halted")
    /\ hit' \in {hit, hit \/ watchpoints > 0}
    /\ UNCHANGED <<queue, sent, alive, remaining, run_to, step_over_target, points, core,
                   watchpoints, saved, ledger>>
    /\ publish_snapshot

\* Nothing to step: the wait for a command times out.
PausedWake ==
    /\ alive /\ queue = <<>> /\ ~should_step
    /\ UNCHANGED <<queue, sent, alive, worker, points, core, stop, watch, saved, ledger>>
    /\ publish_snapshot

main_loop == drain_commands \/ step \/ StepError \/ PausedWake

Next == ((\E c \in Commands : Send(c)) \/ main_loop) /\ UNCHANGED has_bank

Spec == Init /\ [][Next]_vars

\* The worker is a thread of its own that loops until it is shut down; a step
\* that fails is a step all the same.
FairSpec == Spec /\ WF_vars(main_loop /\ UNCHANGED has_bank)

-------------------------------------------------------------------------------
(* Properties.                                                             *)

\* A breakpoint the user set holds: the worker never executes the instruction
\* at its address, whatever step-overs, resets, loads, restores and removals
\* of other breakpoints happened since it was set.  Only a command moves the
\* CPU off it.  (handle_cmd, finalize_step_over_if_hit, Cpu::step)
BreakpointsHold ==
    [][queue' = queue /\ pc \in Range(breakpoints) => UNCHANGED core]_vars

\* The inductive half of it: every listed breakpoint is in the hook table.
BreakpointsAreArmed == Range(breakpoints) \subseteq hooks

\* Clients learn that a run is over, and how: every path that stops the worker
\* or changes a stopped CPU also publishes, so that once it does not run the
\* published snapshot says exactly what state it is in.
\* (cpu_worker.rs: the publish on every state transition)
StopIsPublished ==
    ~running => published = run_state(halted, paused, pause_reason, sleeping, FALSE)

\* The two flags a run depends on agree, through every order of commands and
\* of stops: a worker that takes itself to be running never has a paused CPU,
\* and a CPU it steps carries no reason of an earlier pause.
RunningIsNotPaused ==
    running => ~paused /\ pause_reason \in {"None", "SpinNoWatchdog"}

\* The worker, the CPU it owns and what its clients were told last agree on
\* whether it runs.
StatesAgree == TypeOK /\ StopIsPublished /\ RunningIsNotPaused

\* A run of n instructions steps at most n times (once for n = 0), counted
\* over pauses, breakpoints, step-overs and resumptions that do not ask for a
\* budget of their own.  (main_loop: remaining_insns)
BudgetRespected ==
    /\ asked # None => since <= (IF asked = 0 THEN 1 ELSE asked)
    /\ remaining # None => since + remaining = asked

\* A bounded run ends: it stops, or the CPU has halted, or a later command
\* took its budget away.  (cpu_run: "auto-pauses when reached")
BoundedRunEnds ==
    (running /\ remaining # None) ~> (~running \/ halted \/ remaining = None)

\* Every command sent is handled, or the worker has been shut down; a stream
\* of steps never keeps it from the channel.  (main_loop: drain_commands)
CommandsAreHandled == queue # <<>> ~> (queue = <<>> \/ ~alive)

Handled(op) == queue # <<>> /\ Head(queue).op = op /\ queue' = Tail(queue)

\* hooks.rs:17-21, on HookAction::Pause: a StepOne "clears `paused` before
\* calling `step()`, stepping through the breakpoint".
StepLeavesTheBreakpoint ==
    [][asked = 1 /\ since = 0 /\ since' = 1 /\ pc \in Range(breakpoints) => executed']_vars

\* handler.rs:2581, cpu_reset: "Rebuild the CPU [...] `keep_breakpoints=true`
\* re-installs every current breakpoint on the fresh CPU."
ResetForgetsBreakpoints ==
    [][Handled("Reset") /\ ~Head(queue).keep => hooks' = {}]_vars

\* handler.rs:2726, set_watchpoint: "The worker pauses with
\* `PauseReason::Watch` on hit."
HitIsReported ==
    [][hit /\ ~hit' /\ queue' = queue /\ paused' => pause_reason' = "Watch"]_vars

\* hooks.rs:38-40: a breakpoint hook is "Installed by
\* `CpuCommand::SetBreakpoint` and removed by `RemoveBreakpoint`"; the one
\* StepOver installs is temporary, and the worker remembers it.
HooksAreOwned ==
    [][Handled("StepOver") \/ queue' = queue
          => hooks' \ hooks \subseteq Range(breakpoints') \cup {step_over_target'}
             /\ (step_over_target' # step_over_target
                    => step_over_target \notin hooks' \ Range(breakpoints'))]_vars
===============================================================================
