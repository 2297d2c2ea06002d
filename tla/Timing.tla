------------------------------- MODULE Timing -------------------------------
(***************************************************************************)
(* The timing overlay of timing.rs: one bus slot shared by a run-ahead     *)
(* instruction fetch engine and the core's loads, fetch first, and a       *)
(* direct-mapped instruction cache.  Two clients drive the same bus: the   *)
(* self-contained MiniCore on its poll loop ("core"), and the TimingShadow *)
(* that the emulated core calls after every instruction ("shadow"), here   *)
(* on the same loop.  One action is one bus cycle.                         *)
(*                                                                         *)
(* The poll loop is a cycle of instructions, numbered in predicted order:  *)
(* 0 the status load, 1 an ALU operation (the shadow may meet a SYNC       *)
(* there), 2 the branch to the cold path, then two instructions for each   *)
(* cold line, the last of which loops back.  Line 0 is the loop's base     *)
(* line, line i the i-th cold line.                                        *)
(***************************************************************************)
EXTENDS Integers, FiniteSets, FiniteSetsExt

CONSTANTS IcSets,          \* sets of the instruction cache
          ColdLines,       \* lines of the cold path
          FetchLatency, MmioLatency, SramLatency,
          Runaheads,       \* the values tried for fetch_runahead_lines
          DeadlockWindow,
          CapSlack,        \* cycles a window may last beyond its latencies
          TargetIters,     \* iterations that end the MiniCore's run
          NoLine           \* no line: an empty set, no request

ASSUME TimingAssumption ==
  /\ {IcSets, ColdLines, DeadlockWindow, TargetIters} \subseteq Nat \ {0}
  /\ {FetchLatency, MmioLatency, SramLatency, CapSlack} \subseteq Nat
  /\ Runaheads \subseteq Nat \ {0}
  /\ ColdLines < IcSets
  /\ NoLine \notin 0 .. ColdLines

VARIABLES
  setup,    \* what the run is given: client, layout, configuration
  ic,       \* set -> the line it holds
  txn,      \* what is in the bus slot: master, remaining, line
  core,     \* exec_pc, fetch_pc, stalled, iters (the shadow uses exec_pc)
  call,     \* the shadow's call under way: kind, cycles spent, idle_guard
  starve,   \* cycles the pending load has waited ungranted
  alias,    \* last_preempt_addr: the fetch that last beat a pending load
  verdict   \* "running", "Pass", "Deadlock"

timing_vars == <<setup, ic, txn, core, call, starve, alias, verdict>>

LoopLength == 3 + 2 * ColdLines
predicted_next(pc) == (pc + 1) % LoopLength
line_of(pc) == IF pc < 3 THEN 0 ELSE ((pc - 3) \div 2) + 1
set_index(line) ==
  IF line = 0 THEN setup.base_set ELSE (setup.cold_set + line - 1) % IcSets

resident(cache, pc) == cache[set_index(line_of(pc))] = line_of(pc)
fill_line(cache, line) == [cache EXCEPT ![set_index(line)] = line]

FreeSlot == [master |-> "none", remaining |-> 0, line |-> NoLine]
Quiet == [kind |-> "none", spent |-> 0, idle |-> 0]

(* load_uses_dcache: a load of SRAM with the D-cache on opens no window.  *)
(* The shadow is told of uncached loads only (timing_load_info), whether   *)
(* of MMIO or with the cache bypass bit, which ~dcache_on stands for.      *)
Uncached == setup.mmio \/ ~setup.dcache_on

timing_Init ==
  /\ setup \in [client : {"core", "shadow"}, base_set : 0 .. IcSets - 1,
                cold_set : {0}, runahead : Runaheads, runs_ahead : BOOLEAN,
                dcache_on : BOOLEAN, mmio : BOOLEAN, sync : BOOLEAN]
  /\ setup.client = "core" => ~setup.sync
  /\ ic = [s \in 0 .. IcSets - 1 |-> NoLine]
  /\ txn = FreeSlot
  /\ core = [exec_pc |-> 0, fetch_pc |-> 0, stalled |-> FALSE, iters |-> 0]
  /\ call = Quiet
  /\ starve = 0
  /\ alias = NoLine
  /\ verdict = "running"

-----------------------------------------------------------------------------
(* ContentionBus::tick: the transaction in the slot comes a cycle nearer,  *)
(* and leaves the slot when it is done.                                    *)
Ticked(slot) ==
  IF slot.remaining > 1 THEN [slot EXCEPT !.remaining = @ - 1] ELSE FreeSlot
Finished(slot, master) == slot.master = master /\ slot.remaining <= 1

(* The walk down the predicted path: the first line that is not resident,  *)
(* unless the lines walked over already fill the run-ahead window.         *)
fetch_request(cache, start) ==
  LET at(j) == (start + j) % LoopLength
      missing == {j \in 0 .. LoopLength - 1 : ~resident(cache, at(j))}
      walked == {line_of(at(j)) : j \in 0 .. Min(missing) - 1}
  IN  IF missing = {} \/ Cardinality(walked) >= setup.runahead
      THEN NoLine ELSE line_of(at(Min(missing)))

AtLeast1(n) == IF n = 0 THEN 1 ELSE n

(* ContentionBus::arbitrate: nothing while the slot is taken; a fetch wins *)
(* over a pending load.                                                    *)
arbitrate(slot, fetch, load) ==
  IF slot # FreeSlot THEN slot
  ELSE IF fetch # NoLine
  THEN [master |-> "Fetch", remaining |-> AtLeast1(FetchLatency),
        line |-> fetch]
  ELSE IF load
  THEN [master |-> "Load", line |-> NoLine,
        remaining |-> AtLeast1(IF setup.mmio THEN MmioLatency
                                             ELSE SramLatency)]
  ELSE FreeSlot

Preempts(slot, fetch, load) == slot = FreeSlot /\ fetch # NoLine /\ load

-----------------------------------------------------------------------------
(* MiniCore::run, one cycle.                                               *)

(* advance_fetch_pointer: at most eight steps along resident lines.        *)
advance_fetch_pointer(cache, pc) ==
  LET at(j) == (pc + j) % LoopLength
      stops == {8} \cup {j \in 0 .. 7 : ~resident(cache, at(j))}
  IN  at(Min(stops))

(* redirect_fetch: a taken branch moves the fetch pointer only to a line   *)
(* that is missing.                                                        *)
redirect_fetch(cache, target, fetch) ==
  IF resident(cache, target) THEN fetch ELSE target

(* The instruction at exec_pc: a load that the D-cache does not serve      *)
(* stalls, a branch redirects, looping back counts an iteration.           *)
Executed(cache, c, fetch) ==
  LET next == predicted_next(c.exec_pc)
      branch == c.exec_pc = 2 \/ (c.exec_pc > 2 /\ c.exec_pc % 2 = 0)
      back == c.exec_pc = LoopLength - 1
      last == back /\ c.iters + 1 >= TargetIters
  IN  IF ~resident(cache, c.exec_pc) THEN [c EXCEPT !.fetch_pc = fetch]
      ELSE [exec_pc |-> IF last THEN c.exec_pc ELSE next,
            fetch_pc |-> IF branch /\ ~last
                         THEN redirect_fetch(cache, next, fetch) ELSE fetch,
            stalled |-> c.exec_pc = 0 /\ Uncached,
            iters |-> IF back THEN c.iters + 1 ELSE c.iters]

MiniCoreCycle ==
  /\ setup.client = "core"
  /\ verdict = "running"
  /\ LET cache == IF Finished(txn, "Fetch") THEN fill_line(ic, txn.line)
                  ELSE ic
         stalled == core.stalled /\ ~Finished(txn, "Load")
         fetch == IF stalled /\ ~setup.runs_ahead THEN NoLine
                  ELSE fetch_request(cache, core.fetch_pc)
         slot == arbitrate(Ticked(txn), fetch, stalled)
         waits == stalled /\ slot.master # "Load"
     IN  /\ ic' = cache
         /\ txn' = slot
         /\ alias' = IF Preempts(Ticked(txn), fetch, stalled) THEN fetch
                     ELSE alias
         /\ starve' = IF waits THEN starve + 1 ELSE 0
         /\ core' = IF stalled THEN core
                    ELSE Executed(cache, [core EXCEPT !.stalled = FALSE],
                                  advance_fetch_pointer(cache, core.fetch_pc))
         /\ verdict' = IF waits /\ starve + 1 > DeadlockWindow THEN "Deadlock"
                       ELSE IF core'.iters >= TargetIters THEN "Pass"
                       ELSE verdict
  /\ UNCHANGED <<setup, call>>

-----------------------------------------------------------------------------
(* TimingShadow::on_instruction: the line of the instruction just run is   *)
(* resident; an uncached load opens a window, a SYNC drains the bus.       *)
on_instruction ==
  /\ setup.client = "shadow"
  /\ verdict = "running"
  /\ call = Quiet
  /\ LET pc == core.exec_pc
     IN  /\ ic' = fill_line(ic, line_of(pc))
         /\ call' = [Quiet EXCEPT !.kind =
                       IF pc = 0 /\ Uncached THEN "window"
                       ELSE IF pc = 1 /\ setup.sync THEN "drain"
                       ELSE "none"]
         /\ core' = [core EXCEPT !.exec_pc = predicted_next(pc)]
  /\ starve' = 0
  /\ alias' = NoLine
  /\ UNCHANGED <<setup, txn, verdict>>

WindowCap == DeadlockWindow + 4 * MmioLatency + CapSlack
DrainCap == DeadlockWindow + CapSlack

(* open_load_window, one cycle: the load waits for the slot behind the     *)
(* fetches from next_pc on; starvation past the window is the deadlock.    *)
open_load_window ==
  /\ call.kind = "window"
  /\ verdict = "running"
  /\ LET cache == IF Finished(txn, "Fetch") THEN fill_line(ic, txn.line)
                  ELSE ic
         fetch == fetch_request(cache, core.exec_pc)
         slot == arbitrate(Ticked(txn), fetch, TRUE)
         waits == slot.master # "Load"
     IN  IF Finished(txn, "Load")
         THEN /\ txn' = FreeSlot
              /\ call' = Quiet
              /\ UNCHANGED <<ic, starve, alias, verdict>>
         ELSE /\ ic' = cache
              /\ txn' = slot
              /\ alias' = IF Preempts(Ticked(txn), fetch, TRUE) THEN fetch
                          ELSE alias
              /\ starve' = IF waits THEN starve + 1 ELSE 0
              /\ verdict' = IF starve' > DeadlockWindow THEN "Deadlock"
                            ELSE verdict
              /\ call' = IF call.spent + 1 = WindowCap THEN Quiet
                         ELSE [call EXCEPT !.spent = @ + 1]
  /\ UNCHANGED <<setup, core>>

(* drain_bus, one cycle: until the bus has been idle, with nothing to      *)
(* fetch, for three cycles running, or the cap.                            *)
drain_bus ==
  /\ call.kind = "drain"
  /\ LET cache == IF Finished(txn, "Fetch") THEN fill_line(ic, txn.line)
                  ELSE ic
         fetch == fetch_request(cache, core.exec_pc)
         slot == arbitrate(Ticked(txn), fetch, FALSE)
         idle == IF slot = FreeSlot /\ fetch = NoLine THEN call.idle + 1 ELSE 0
     IN  /\ ic' = cache
         /\ txn' = slot
         /\ call' = IF idle > 2 \/ call.spent + 1 = DrainCap THEN Quiet
                    ELSE [call EXCEPT !.spent = @ + 1, !.idle = idle]
  /\ UNCHANGED <<setup, core, starve, alias, verdict>>

timing_Next == MiniCoreCycle \/ on_instruction \/ open_load_window \/ drain_bus

-----------------------------------------------------------------------------
Collides(line) == \E i \in 1 .. ColdLines :
  set_index(i) = setup.base_set /\ line \in {0, i}

(* The comment on PollLoopProgram: a run deadlocks only where the base     *)
(* line shares its cache set with a cold line, the load is uncached and    *)
(* the fetch engine runs ahead under a stall (the shadow's always does);   *)
(* and with a run-ahead that covers the loop such a layout never gets past *)
(* its first load.  The line named in the report is one of the two that    *)
(* evict each other.                                                       *)
VerdictFollowsLayout ==
  /\ verdict = "Deadlock" =>
        /\ Uncached
        /\ setup.client = "core" => setup.runs_ahead
        /\ Collides(alias)
  /\ (/\ Uncached
      /\ setup.client = "core" => setup.runs_ahead
      /\ setup.runahead > ColdLines
      /\ Collides(0)) => core.iters = 0 /\ txn.master # "Load"

(* Where no cold line shares the base line's set the fetch engine comes to *)
(* rest: a load waits no longer than it takes to fetch the loop once, and  *)
(* a SYNC is over by then too.                                             *)
QuietLoopsAreServed ==
  ~Collides(0) =>
    /\ starve <= (ColdLines + 1) * AtLeast1(FetchLatency)
    /\ call.kind = "drain" => call.spent <= (ColdLines + 1) * AtLeast1(FetchLatency) + 2

=============================================================================
