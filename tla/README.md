# BCM55030 emulator: TLA+ verification

TLA+ models of the emulator in this repository, the TLC configurations that
check them on small instances, and TLAPS proofs that hold for every value of
the constants. Paths below are relative to `src/`, the root of the repository;
`PROJECT.json` maps every definition to the lines it models and lists what is
hard about this code, line by line.

1. [The system](#the-system)
2. [The modules](#the-modules)
3. [What the runs check](#what-the-runs-check)
4. [Bounds](#bounds)
5. [Fairness](#fairness)
6. [What is proved](#what-is-proved)
7. [Where the code and its words differ](#where-the-code-and-its-words-differ)
8. [What is not modelled](#what-is-not-modelled)
9. [Plan](#plan)

## The system

The emulator runs the firmware of an EPON ONU: an ARC700 core, the peripherals
of its SoC, and behind the optical port an emulated OLT that registers the ONU
and talks OAM to it. Four things happen at once: the firmware executes, link
time passes, frames cross a fibre in both directions, and clients (a user
interface, an MCP server) send commands to the thread that owns the CPU.

| Component | State | Operations | Speaks to |
|---|---|---|---|
| Scheduler (`crates/epon-olt/src/sched.rs`) | a heap of due times; a generation per event, so that re-arming and cancelling leave dead entries behind | arm, cancel, pop what is due, clear | the peer |
| OLT peer (`crates/epon-olt/src/peer.rs`) | MPCP state, LLID, registration and its lifetime, discovery, counters, timers | advance to an instant, deliver an upstream frame, link up/down, calls of the host | scheduler, discovery, fibres |
| OAM discovery (`crates/epon-olt/src/oam.rs`) | state, what the other end said last, PDUs heard and sent | hear an Information OAMPDU, send one, reset | the peer; the ONU responder |
| Fibre (`crates/epon-olt/src/fibre.rs`) | frames in flight with arrival times, last arrival, counters | send, pop what arrived, clear | link, OLT port |
| Link, ONU responder (`link.rs`, `onu.rs`) | a peer and two fibres; the ONU's half of registration and discovery | advance, set link, deliver | each other |
| OLT port (`src/soc/olt/`) | link state with a deferred rise, mailbox queues, data port, bitmap, upstream assembler | bank tick, firmware reads and writes, host calls, resets | peer, fibres, MAC, bank |
| CPU worker (`src/emu/cpu_worker.rs`) | run flags, instruction budget, breakpoints, hooks, snapshots, published state | every command of the channel; the loop around a step | core, clients |
| CPU core (`src/cpu/`) | registers, delay slot, loop registers, interrupt levels, two timers, spin detector | one step | bank, memory, worker |
| Executor, decoder (`src/executor/`, `src/decoder/`) | none of their own | what an instruction does; what an encoding means | core |
| Memory and caches (`src/memory.rs`, `src/cache.rs`) | SRAM, D-cache and I-cache lines, watchpoints | load, store, invalidate, flush | core, bank, worker |
| Peripheral bank (`src/soc/bank.rs`) | the peripherals below, a shared tick | route a read or write, tick, reset | all of them |
| Peripherals (`src/soc/*.rs`, `src/soc/lue/`) | UART, PBC and SPI flash, I2C and SFP, lane bus and SerDes, MAC, MACsec, lookup engine, DMA, timers | register reads and writes, ticks | bank |
| Scenario engine (`src/soc/scenario.rs`) | overrides, events, watchpoints, deferred writes, access counts | schedule, cancel, look at every access, tick | bank, worker |
| Codecs (`crates/epon-olt/src/{types,mpcp,oam,extended}.rs`) | none | write and read frames | peer, responder, OLT port |
| Timing overlay (`src/timing.rs`) | a bus slot, a fetch engine, outstanding loads | one bus cycle | core |
| Clients (`src/mcp/`, `src/ui/`, `src/bin/`) | calls in flight, the log of them | commands to the worker, the lock of the bank, the published snapshot | worker, bank |

`PROJECT.json` has the complete list, with the parts that are left out.

What is hard about it, and what correctness means, by component:

* **Scheduler**: a stale entry must never fire, and must never hide a live one.
  Correct means that it is indistinguishable from a table with one due time per
  event, popped in due order and in arming order at equal times.
* **Peer**: seven timers, upstream frames, link flaps and calls of the host
  interleave. Correct means that every protocol state has the timer that ends
  it, that no handshake serves two registrations, that every request is counted
  in one bucket, and that nothing lasts for ever that must end.
* **Discovery**: two ends that see each other only through a line that drops.
  Correct means no claim of stability without evidence, and convergence.
* **Fibre**: jitter must not reorder frames, and keeping them in order must not
  delay them beyond the slowest crossing.
* **OLT port**: the firmware polls a copy of a bitmap, reads a frame word by
  word while others arrive, and is reset or cut off in the middle of it. A
  structure in its memory is cleared behind its back a few ticks after a frame
  was read. Correct means that no frame of an ended session is seen, that the
  port never mixes two frames, that every waiting frame is announced, and that
  the clear that is owed comes.
* **Worker**: commands arrive between any two steps; several flags in several
  places say whether the CPU runs. Correct means that they agree, that a stop
  is published, that breakpoints hold and that budgets are exact.
* **Core**: an interrupt may come behind any instruction: before a delay slot,
  on the last instruction of a zero-overhead loop, inside another handler, in
  its sleep. Correct means that what was interrupted goes on as if nothing had
  happened, and that an armed watchdog ends in a reset however the time is
  skipped.
* **Link and responder**: both ends keep their own idea of the registration,
  and learn of each other's a crossing later. Correct means that they agree
  except for what is on the line, that a registration lasts as long as it is
  configured to, and that a torn-down ONU comes back.
* **Memory**: six ports reach the same bytes, some through a write-back cache.
  Correct means that a cached load reads what was stored last, that the ports
  behind the data cache (an uncached load, the fetch, DMA) read what has been
  written back, and that a flush brings the two together.
* **Decoder and executor**: hundreds of forms, immediates in pieces, flags at
  the ends of the range. Correct means one meaning per encoding, exact
  arithmetic, no half of an instruction done at a fault, and no way out of user
  mode.
* **Devices**: bits that hardware sets and software clears, tables behind
  selectors, command bits that must end, byte streams that must stay whole, a
  flash image that must be saved. The firmware polls in loops without a timeout.
* **Tools**: calls time out while their command is queued, commands fail, one of
  them half way, reply channels outlive their callers, and what one tool reads
  another has published. Correct means that an answer is the answer to this call,
  that a refusal changed nothing, and that what is read was so.

## The modules

| Module | Models | Notes |
|---|---|---|
| `Scheduler` | `sched.rs` | the heap as a set of entries, ordered by `Before` |
| `TimerTable` | - | what a scheduler promises: one arming per event. `Scheduler` implements it |
| `OamDiscovery` | `oam.rs`, the state machine | operators only: `on_peer_flags`, `on_sent` and the transitions they take |
| `OamPair` | two ends of discovery and the two lines between them | lines drop when full; an end may restart |
| `Peer` | `peer.rs` | uses `OamDiscovery`; timers as a table, which `Scheduler` justifies |
| `Link` | `link.rs`, `onu.rs`, the loop of `bin/olt.rs` | extends `Peer`: the peer, both fibres and the responder |
| `Fibre` | `fibre.rs`: arrival time, fullness | operators only, shared by the two below |
| `FibreLine` | `fibre.rs` with its counters and a clock | |
| `OltPort` | `soc/olt/mod.rs`, `soc/olt/mailbox.rs`, the OLT part of `PeripheralBank::tick` and of the resets | the downstream half; uses `Fibre` |
| `Uplink` | `soc/olt/mod.rs`, `mailbox.rs`, `report.rs`, the burst trigger of the bank | the upstream half, with a reduced peer |
| `CpuWorker` | `emu/cpu_worker.rs`, the hook check of `Cpu::step`, snapshots | |
| `ToolCalls` | `mcp/handler.rs`: `call_tool` and the ways a tool reaches the emulator; `emu/command.rs`, `emu/event_log.rs` | callers, the channel, reply channels, timeouts, shutdown |
| `CpuCore` | `cpu/mod.rs`: `step` without the hooks | |
| `Decoder` | `decoder/` | a function from encodings to instructions |
| `Executor` | `executor/`, `cpu/registers.rs`, `cpu/condition.rs` | a function from an instruction and a machine to a machine |
| `Isa` | the two together | runs short programs and compares with independent definitions |
| `MemorySystem` | `memory.rs`, `cache.rs` | every port to SRAM |
| `Uart`, `Pbc`, `BscI2c`, `SerDes` | the peripherals of that name | `BscI2c` and `MpcpBus` use `LaneBus` (`lane_bus.rs`) |
| `MpcpBus` | the lane bus at 0x01000118 as the bank drives it | |
| `CommandWords` | self-clearing command bits of `dma.rs`, `efuse_udr.rs`, `macsec.rs`, `peripheral.rs` | |
| `StatusWords` | write-one-to-clear words of `epon_mac.rs`, `fatal_filter.rs`, `bank.rs` | |
| `EponMac` | LLID anchors and queue counters of `epon_mac.rs`, shared by firmware, tick and OLT | |
| `RegisterFiles` | `default_store.rs`, `sysreg_shim.rs`, `mac_filter.rs`, `mpcp.rs`, `nco.rs`, `timer.rs`, `mpcp_tssync.rs`, `alarm_events.rs` | stored words, indexed tables, vectors, counters |
| `AddressMap` | the dispatch lists of `bank.rs` and every `claims()` | who answers an address, for each kind of access |
| `Scenario` | `scenario.rs` and the wrappers of `bank.rs` | |
| `Lue` | `lue/port.rs`, `lue/rule.rs`, `lue/engine.rs` | rules written entry by entry while frames are judged |
| `Codecs` | `types.rs`, `mpcp.rs`, `oam.rs`, `extended.rs`, the words of `olt/mailbox.rs` | frames as bytes: written, cut, read |
| `Timing` | `timing.rs` | one bus cycle per step |
| `MCSoc` | joins the devices, `Codecs`, `Timing`, `Lue`, `Scenario`, `Uplink` and `ToolCalls` | one of them, `unit`, moves in a behaviour |
| `MCProcessor` | joins `Isa` and `MemorySystem` in the same way | |
| other `MC*` | instances for TLC | definitions a `.cfg` cannot hold; where there are none, a run names the component's own module |
| `WireTime_proofs`, `Peer_proofs`, `OamPair_proofs`, `OltPort_proofs`, `CpuWorker_proofs`, `CpuCore_proofs`, `MemorySystem_proofs`, `Soc_proofs` | theorems | see [What is proved](#what-is-proved) |

How they correspond to the code:

**Scheduler.** One action per method (`arm_at`, `cancel`, `pop_due`, `clear`).
`pop_due` drops dead entries until it finds one that lives or is not due, as the
loop in the code does. `result` is the value the last call returned.

**Peer.** Time is relative: `due[t]` is the time left to timer `t`, so that no
bound on the clock is needed. `advance_to(now)` is a loop in the code; here it
is `Elapse` (one unit, while nothing is due) and one action per timer (`Fire...`).
Each class of upstream frame is an action: a request accepted, refused, or asking
to leave; an acknowledgement; an OAMPDU; anything else. `emitted` holds the
frames the last step handed to the fibre; `accepted` and `asked_to_leave` are
history. Frames keep their kind, destination and LLID.

**Link.** The actions of `Peer` carry on; `Land` delivers what has arrived
upstream at its own instant, `CarryDown` puts what the peer emitted on the
downstream fibre. The caller's loop comes round every one or two units, so that
frames wait for it; a turn of it is `Hear` for each frame that has landed, one
after the other in the order of landing, and `Poll` at its end, where the
responder runs its own timer (`turn` says that one has begun). `OnuDeliver` is
`deliver` with `on_mpcp` and `on_oam`, and sends the answer in the same step;
`OnuAdvance` is `advance_to`. `Sent` is `Fibre::send`: it loses the frame if the
line is full, and no frame lands ahead of one sent before. `registered_at` (as
the age) and the last life are kept as in the code.

**OltPort.** One `tick` is the whole OLT part of the bank's tick: time, the
deferred rise, what the peer sends, what lands in the mailbox, the refresh of
the bitmap and of the MAC's copy, the countdown of the guard. `read_data` and
`write_cmd` are the firmware's accesses; `set_link_up`, `carry_downstream` and
`reset_cold` are the host's. The peer may send any frame at any time. Each frame
carries the session (link-up period) it was sent in.

**Uplink.** The firmware announces a length and pushes words through one of
several blocks (`AnnounceFrame`, `PushData`); a complete frame is captured and
goes on the line. Template writes, burst triggers and ticks are the other
sources. A word carries which submission it belongs to.

**CpuWorker.** `handle_cmd` has one disjunct per command, `drain_commands` takes
the next one off the channel, `step` is a step of the CPU and everything the
loop does behind it. What the instruction does is a choice of pc, blink, halted
and sleeping, except that a hook on the current pc pauses instead. `has_bank`
chooses SoC or flat mode once; the two differ in how a reset rebuilds the CPU.

**ToolCalls.** A call is open, waiting or idle. `ReadShown` reads the published
snapshot, `TakeBank` goes past the worker, `Tell` sends and answers, `Ask` sends
and waits for `Receive` or `GiveUp`; `Reject` is bytes that are not hex, refused
before anything is sent. `Handle` is one command: effect, reply and publication
in the order of its arm of `handle_cmd`; the reply finds its own call or nobody.
`Accepts` is where the worker answers `Err`: an unknown register, a write that
leaves the SRAM (with `--unmapped-exception`, the constant `UnmappedException`;
otherwise such bytes are dropped and answered ok), a snapshot that is not there.
`save_named_snapshot` has a `Result` and only one outcome. Values are numbers of
calls, so that every read can be traced.

**CpuCore.** The state is one record and a step is a composition of functions
on it, in the order of `Cpu::step`: the delay slot, the instruction, the loop
back, the spin detector, the shadow call stack, the timers, the poll of the
UART, the check of interrupts. The program is a choice among kinds of
instructions, restricted to what the instruction set allows a program to do
(the header of the module says what). `frames` and `calls` are history: what
each running handler interrupted, and the calls not returned from.

**Decoder, Executor, Isa.** Decoding works on the code's 32 bits, as two halves.
Execution is parametric in the word width `W`, with bytes and half-words scaled,
so that operands can be enumerated; what the code does with 32 is done with `W`.
An operation returns result and flags in the order in which `execute_*` writes
them, so that a fault in the middle leaves what it leaves. The references in
`Isa` are stated on integers, not on words.

**MemorySystem.** A state is SRAM, the lines of the D-cache with their way
pointers, the I-cache, `DC_CTRL` and a saved snapshot. Loads and stores come
cached and uncached, DMA comes as the datapath operation behind an MMIO store.
`ViewOf` is what a load that does not bypass the cache would return for each
byte; the properties compare it before and behind each operation with what a
flat memory would do. `Loaded` is what a load of either kind gets, `Fetched` what
instruction fetch gets: neither is said to agree with the view except where
`UncachedLoadsLag` and `PortsMeet` say so.

**The devices.** Each has one action per register access that does something,
per tick, per operator's event (`inject_event`) and per reset. A word is the set
of its bits where bits act one by one. A `told`, `seen` or similar variable is
what the accesses so far should have left, kept without the device's own
arithmetic. `AddressMap` transcribes the eight dispatch lists as sequences.

## What the runs check

| Run | Question | Properties |
|---|---|---|
| `scheduler` | Does the heap with its dead entries behave as a table? | `IInv`, `ImplementsTable` |
| `oam_pair` | Do two ends that lose PDUs and restart converge, and only on evidence? | `WordsAreBacked`, `ConvergedOnLastWord`, `BothConverge` |
| `peer` | Does each state have its timers and no other, do the ledgers balance, does everything that must end do so? | `Scheduled`, `Accounted`, `AdvanceTerminates`, `HandshakeMovesOn` |
| `link` | Do the peer and a responder a crossing away agree on who is registered, for how long, does a torn-down one come back in time, and does nothing overflow? | `EndsAgree`, `LifeIsLifetimePlusExchange`, `LinkKeepsUp` |
| `fibre_line` | Are frames in order, in time and accounted for, whatever the jitter? | `OrderPreserved`, `CrossingTime`, `EveryFrameAccountedFor` |
| `olt_port` | Does the mailbox survive flaps, resets, half-read frames and a full queue? | `FramesAreKept`, `NothingOutlivesItsSession`, `FramesAreAnnounced`, `GuardClearIsOwed` |
| `cpu_worker` | Do the flags, the budget, the breakpoints and the published state agree through every order of commands and steps? | `StatesAgree`, `BudgetRespected`, `BreakpointsHold`, `BoundedRunEnds`, `CommandsAreHandled` |
| `cpu_core` | Is what an interrupt interrupts intact? | `CoreIsConsistent`, `BranchesLand`, `LoopsAreNotDisturbed` |
| `cpu_core_live` | Do watchdogs reset, timers wake and the UART's interrupts arrive? | `ArmedWatchdogResets`, `TimerWakesSleeper`, `UartReachesRunningCore` |
| `processor` | Does an encoding mean one thing, does an instruction compute it, and does each port see what a write-back cache lets it see? | `EveryFormHasOneMeaning`, `OperationsAreExact`, `CachesAreWriteBack`, `UserModeIsClosed`, `FaultsArePrecise` |
| `soc` | Do the devices, codecs, engines and tools keep what they are given and tell what happened? | `UnsavedIsDirty`, `StreamsAreWhole`, `RegistersTellTheTruth`, `StoresAreFoundAgain`, `ReadAsWritten` |
| `soc_burst` | Does only a pulse of bit 11 trigger a burst? It does not | `BurstOnPulse`, see [below](#where-the-code-and-its-words-differ) |

Some of these are conjunctions of statements with names of their own:

* `CachesAreWriteBack` joins `CleanLinesAgree` (a line is held once, and a clean
  one is a copy of SRAM); `CachedLoadsAreFlat` (loads that use the cache, stores,
  pokes, and the debugger's reads within a line see one flat memory);
  `UncachedLoadsLag` (a `.di` load, and any load while the cache is off, gets
  SRAM, which a cached access changes only by evicting another line, whole and at
  its own address); `PortsMeet` (after a write-back invalidation `.di` loads, and
  fetches once the I-cache is emptied, get what cached loads got); and
  `DmaShowsThrough`. No transparency is claimed: a `.di` load does not see what is
  still dirty (`test_dcache_writes_are_write_back`), switching the cache off
  strands it (`dc_ctrl_disable_strands_dirty_lines`), and a fetch returns what
  its line held when it was filled, until `IC_IVIC`.
* `WordsAreBacked` joins three statements about an end's state and the words on
  its line that it sent since it last restarted (`life` counts them; what it said
  before a restart stays on the line, is heard, and is not spoken of):
  `EvidenceBeforeStability` (a claim, made or on its way, rests on something
  heard in the same life), `ClaimsStand` (it is not taken back in that life) and
  `RestartIsHeard` (an end that evaluates again is not converged upon by one that
  heard a word of the new life).
* `WordsAreBacked`, `FramesAreKept`, `StatesAgree` and `CoreIsConsistent` include
  the type invariant of their module. The statements of the other three: one
  frame in the port, queues in order and within their depth; a stop is published
  and a running core is not paused; the context of every interrupted level is
  intact.
* `LinkKeepsUp` (`Link`) joins `LinesHaveRoom` (neither fibre is ever full, so
  nothing is lost) and `ComesBackInTime` (a responder without an LLID on a link
  that is up has one within `LongestWait`).
* `Accounted` (`Peer`) joins the ledger of requests to "no handshake serves two
  registrations".
* `StreamsAreWhole` joins the console, the I2C transfers, the submissions (one
  fits or is refused) and words of the mailbox, and the upstream line.
* `RegistersTellTheTruth` joins calibration, command bits, acknowledgements,
  LLID anchors, the timestamp lock and the counter.
* `StoresAreFoundAgain` joins dispatch, byte lanes, tables, vectors, forced
  alarms and `ToolCallsHold`: ok and refused are what the call's own command came
  to in the world it found, and refused changed nothing unless a write ran past
  the end of the SRAM; closed and rejected were never carried out; reads are of a
  moment of their call, commands of a caller are handled once and in order, and
  the count of calls in flight is right. A vector is the one asked for after the
  last of its four stores, and does not go away while it is replaced.
* `ReadAsWritten` joins the codecs (what is written is read back, a cut frame
  yields no invented field), scenario events, overrides and deferred writes, the
  rules of the lookup engine, and the verdict of the timing overlay.

All passing runs are exhaustive. Every property was also checked against a
variant of the model with a plausible slip in the code (a dropped guard, a
forgotten re-arm, an off-by-one); the slips are the operators introduced as such
in the modules, and each violates the property it is named with in
`PROJECT.json`.

Deadlock is checked except where the system may stop: a worker that has been
shut down and whose clients have sent everything, a core that has halted, a
link or a device whose bounded accesses are used up. `oam_pair`, `peer`,
`fibre_line`, `olt_port`, `processor` and `scheduler` run with the check on.

## Bounds

* `scheduler`: two events, three instants, three armings. A dead entry can be due
  before, with and after a live one of the same and of the other event. The
  proof lifts all three.
* `oam_pair`: two PDUs to evaluate, lines two deep, two restarts. An end
  restarts while its own claim of stability is on the line, and again after.
* `peer`: intervals of one to three units, the lifetime longest as in the code;
  one ONU; four requests, which two handshakes need, so a second registration
  begins behind the teardown of the first. Of what an OAMPDU may say, "stable"
  and "fault" are enumerated; `OamPair` has the rest. The run checks what the
  proof cannot (liveness); the safety part is proved without the bounds.
* `link`: one ONU, a crossing of one unit and a caller's loop that comes round
  every one or two, intervals in the proportions of the code (the lifetime the
  longest, several GATEs within it), lines six deep, fifty units of time and one
  break of the line: room for a registration, its teardown and the next one, with
  the break anywhere. A keepalive interval of six units is the least that
  `RoomAssumption` allows with these steps. The proofs lift all the bounds.
* `fibre_line`: four frames, a line two deep, jitter as long as the propagation
  delay. Frames overtake if nothing stops them, and the line overflows.
* `olt_port`: two queues, a mailbox of two behind a fibre of two, three frames,
  two flaps, five ticks: longer than the deferred rise (two) and the guard's
  countdown (three), one behind the other.
* `cpu_worker`: the whole alphabet except `StepN` (it sets the same fields as
  `Run` with a count), three commands, two addresses, counts of zero and two.
  Three commands reach every pair of a set-up (breakpoint, watchpoint, snapshot,
  step-over, budget) and two commands behind it, with steps in between.
* `cpu_core`: three addresses, so that the two vectors are also program, and a
  handler runs through the end of the loop it interrupted. Two levels, timers
  with a limit of two, two iterations, a spin threshold of one. `VIEW Live`
  identifies states that differ only in the link and the saved status of a level
  that is not active; every entry writes both before the return reads them, and
  no property reads them for such a level, so the view loses nothing.
* `cpu_core_live`: two addresses, a prescaler and a threshold of two, one
  interrupting timer and two kinds of watchdog (with and without interrupt).
* `processor`: words of four bits for execution, so that every operand and carry
  of an operation is enumerated and halves and bytes still differ; shifts by
  amounts below, at and past the width; a second instruction in user mode
  wherever the first does not trap;
  encodings at their full width, every major opcode and operation with the
  registers and immediates at which forms change. Three lines of two bytes in one set of two
  ways: one line more than fits, so that every fill evicts. `OneExtra` keeps
  snapshots and fetched code, which have no effect on each other, apart; the
  proof about the caches lifts these bounds.
* `soc`: each device by itself, with the smallest sizes at which its cases
  differ: a flash of two sectors in one block, pages of four bytes read past
  their end, two pages and two halves under calibration, lanes that lock after
  two ticks, two LLIDs, two events out of a menu of three on three accesses,
  rules of two entries and of more actions than one entry holds, MPCP and OAM
  frames of every kind cut at every place where a field begins or ends, lengths
  around the minimum and around 2047, a loop of three lines over four sets. The
  upstream line has two blocks, two submissions and four ticks; the tools two
  callers, three calls and five sets of tools, and one shutdown or one cleared
  log. Three calls are a call given up on, its retry and a reader.
  `TriedCalls` gives the first call to one of the interchangeable callers and
  every kind of bad argument to the second call only. `VIEW Live` leaves out the
  answer of the SPI FIFO and, of the MAC, the drain flag, the queue it has latched
  and what was read of it: no property reads them, and no other variable takes its value from them.

## Fairness

* `OamPair`: each end sends its keepalive and hears what is at the head of its
  line again and again; the keepalive timer re-arms itself and the link's loop
  delivers what has arrived. Restarts get none.
* `Peer`: what is due fires (weak), because `advance_to` loops until nothing is
  due; time passes (strong fairness of `Elapse`), because every tick of the bank
  moves link time, whatever frames and host calls come in between. Frames,
  host calls and link changes get none.
* `CpuWorker`: weak fairness of the thread's loop. Clients owe nothing.
* `CpuCore`: weak fairness of `Step`, since the worker keeps stepping a running
  core; the UART's line owes nothing. `QuickFairSpec` states the same fairness
  in a form TLC evaluates faster: `Step` is enabled with an effect exactly
  unless the core is `Still`, and every step other than `UartEdge` is a `Step`.

The other runs assume none. That an ONU comes back (`LinkKeepsUp`), that a
command bit or a calibration ends and that a load is served have bounds in
units of time, reads or cycles and are invariants.

## What is proved

TLAPS checks the proofs in the eight modules whose names end in `_proofs`. They
use the named assumptions on the constants and nothing else: `SchedulerAssumption`,
`PeerAssumption`, `EvaluatingPdusAssumption`, `LinkAssumption`, `RoomAssumption`,
`FibreAssumption`, `LineAssumption`, `OamPairAssumption`, `PortAssumption`,
`CpuWorkerAssumption`, `CpuCoreAssumption`, `MemoryAssumption`, `BootAssumption`
and, of the devices and the tools, `UartAssumption`, `PbcAssumption`,
`BscAssumption`, `LaneBusAssumption`, `CommandAssumption`, `EponAssumption`,
`RegisterFilesAssumption`, `CodecAssumption`, `UplinkAssumption`,
`OffersAssumption`, `UnmappedAssumption` and `CallersAssumption`. None depends on a
particular size: the bounds of the runs appear in the proofs only as arbitrary
naturals. Some assumptions say that a set is finite: there are two ends
(`End`), the callers of the tools are finitely many, and a program uses finitely
many timer settings (`Settings`), of which there are no more than a 32-bit limit
and three bits make.

Every safety property of the runs `scheduler`, `oam_pair`, `peer`, `link`,
`fibre_line`, `olt_port`, `cpu_worker` and `cpu_core` is a theorem, and so are
that of the caches in `processor` and `UnsavedIsDirty`, `StreamsAreWhole`,
`RegistersTellTheTruth` and `StoresAreFoundAgain` in `soc`. Each follows from one
inductive invariant; what that adds to the properties is what they cannot do
without:

**Scheduler.** `Invariance`: `Spec => []IInv`. That at most one entry per event is
live (`OneLiveEntryPerEvent`) is not inductive by itself, as an old generation
might come back. `IInv` adds that no entry carries a generation newer than its
event's counter (`NoEntryFromTheFuture`), that no two entries of an event share
a generation, and that sequence numbers are distinct and below the next one.
From it follow `OneFiringPerArming` and `Refinement`: `Spec => ImplementsTable`,
under the mapping that takes an event to the due time and arming order of its
live entry. `arm_at` and `cancel` map to the table's actions; dead entries come
and go as stuttering. `pop_due` needs the invariant, because the least live
entry is the table's least arming only if there is one per event.

**Peer.** `PeerInvariance`: `Spec => []PeerInv`, with `PeerInv` the types, the
timers owed by each state (`Scheduled`) and the ledgers (`Accounted`). They are proved
together since each leans on the others: that a lifetime belongs to the
registration in force needs that its timer was cancelled by the teardown, that
the ledger counts a refused request in one bucket needs the settling flag and
its timer to agree. One lemma per action shows that it preserves the invariant;
what several actions share (discovery entering a state, a teardown, counting a
request) has lemmas of its own. The conclusions are stated separately:
`PeerTypes`, `TimersScheduled`, `LifetimeBelongs`, `AcceptedScheduled`,
`SilenceScheduled`, `RotationFollows`, `LedgersBalance`.

**Link.** A full fibre loses a frame, and with an acknowledgement lost the peer
waits for it until the link goes down. So nothing about both ends can be proved
without `LinesHaveRoom`, and that not without what the two ends do: `LifeInvariance`
is `LinkSpec => [](LifeInv /\ RoomInv)`, one induction over four statements, each
step of which uses them all. `ReturnInvariance` rests on it.

* `AgreeInv`: the two ends are in one of six phases together. `Asking`:
  the responder has no LLID and no REGISTER is on the line. `Granting`: one is,
  the only one. `Acknowledging`: the only REGISTER_ACK is, behind all requests.
  `Serving`, `Leaving` (the teardown is on the line) and `Stranded` (the line
  broke on a registered responder). What a frame in flight says is right because
  each phase allows exactly the frames that belong to it; a responder that took
  only a grant it had asked for would not need this, but `on_mpcp` takes a
  REGISTER whatever it held before. Conclusion: `TheEndsAgree`.
* `LifeInv` adds time. Frames land in the order they were sent in
  (`InOrder`); one to the responder has a crossing before it and waits less than
  a turn; one from it is late by no more than the request it follows, which was
  answered no later than the frames still to be heard allow (`LinesInTime`).
  Then lifetime, age and the frames in flight add up (`ExchangeInTime`): as the
  acknowledgement lands, the responder's age is a crossing and the wait;
  lifetime and age run together from there; the teardown carries a second
  crossing. Conclusion: `LifeIsMeasured`.
* `RoomInv` says that of each kind of frame one at most is on a line (`Single`) and
  until when: what a timer of the peer sent was sent when the timer was armed
  last (`SentBy`), and is heard before it fires again. Two kinds need more. A
  request answers a GATE, so the one a GATE on the line will cause must find the
  last one gone. A read of the rotation (`RotationHasRoom`) goes with discovery:
  when discovery falls back and converges again, the rotation starts anew at
  once, and the read before must have been heard; it has, since discovery needs
  another word of the responder, which sends one after hearing the read at the
  earliest, or two keepalives of the peer. Six kinds go down and three go up, a
  few of which exclude each other (`FiveAtMost`), so a depth above five is enough;
  the code's is 32. That a period is longer than what was sent in the last one
  takes to be heard is `RoomAssumption`: the periods are 804 ms and more; a
  crossing of the default 20 km takes 100 us, `REQUEST_DELAY` 200 us and a turn of
  the loop (`STEP`) 100 us; and an evaluation takes six words (`EVALUATING_PDUS`). The options `--distance`, `--jitter` and `--depth` of
  `bin/olt.rs` can leave it (a depth of two, say), and frames are then lost.
  Conclusion: `TheLinesHaveRoom`, which is what `fibre.rs:78` says of the depth:
  "deep enough that the ordinary exchange never touches it".
* `ReturnInvariance` says when a responder without an LLID gets one. A window is
  a request on its way to the peer, a GATE on its way to the responder, or the
  GATE that is due. They are in turn (`InTurn`) if each opens by the time the
  peer counts the next one at the latest (`NextWindow`) or within an interval of
  one ahead of it. Every step keeps that: a request that lands takes the first
  window away and moves `NextWindow` by one interval, a GATE that is heard turns
  into a request a bounded `Exchange` later, a GATE that is sent makes the next
  one due. So a request lands for every count, whatever the loop's turns did to
  them, and the rest are deadlines: that of the silence, of the processing delay
  and of the grant. Conclusion: `TheResponderReturns`, where the first window is
  found with `WFMin`.

**Fibre.** `LineInvariance`: `Spec => []LineInv`. Order and crossing time need each
other and `Bounds`: the last arrival time is that of the last frame sent and lies
within the slowest crossing from it, so taking the later of it and the drawn
arrival keeps a frame in order without making it late. Conclusions:
`FibreKeepsOrder`, `FibreCrossingBounded`, `FibreLedger`.

**Discovery.** `PairInvariance`: `Spec => []PairInv`. That a converged end heard
stability last is inductive only with `WellFormed`: no word on the lines claims
stability and evaluation at once, so a word that takes the claim of evaluation
back is the claim of stability. Conclusions: `ClaimsAreBacked`,
`ConvergenceIsCurrent`. What the words on the line say is bound to the end's
present life: a word sent in it says no more than was heard in it (`LineBacked`),
behind one such word there are only such words (`HeardLast`), and who has heard an
evaluating end holds no claim that it is stable (`Believed`).

**OLT port.** `PortInvariance`: `Spec => []PortInv`. Order in the queues needs
that what is still on the fibre comes behind what has landed, and that no number
on its way is above the last one sent (`Ordered`, `LineOfSession`); the bound on
the mailbox needs that the frames waiting are finitely many, since its count is
a cardinality. A tick lands a prefix of the fibre: `Arrivals` is defined by
positions, and the lemmas say what a prefix does to each queue. Conclusions:
`EveryFrameIsKept`, `SessionsAreSeparate`, `FirmwareIsTold`, `GuardIsCleared`.

**CPU worker.** `WorkerInvariance`: `Spec => []WorkerInv`, with
`BreakpointsAreArmed` (each breakpoint has its hook), `NothingLeft` (a budget of
zero is only ever the one asked for; otherwise the last step could be one too
many) and `WatchpointsAsked`. One lemma per command and per part of the loop.
Conclusions: `WorkerStatesAgree`, `BudgetIsExact`, and the action property
`WorkerBreakpointsHold`.

**CPU core.** `CoreInvariance`: `Spec => []CoreInv`. The context of an interrupted
level is not inductive alone: when a handler returns, the status its entry saved
becomes the core's, so it must say that the level below is still active and that
loops are off (`Nested`, `LoopsOff`). A step is a composition of functions; each
has a lemma that it keeps `Good` and one for what it leaves alone. Conclusions:
`InterruptedContextIsKept`, and the action properties `HandlersKeepLoops` and
`BranchesAlwaysLand`.

**Memory.** `MemoryInvariance`: `mem_Spec => []MemInv`, for any number of lines,
sets and ways, any line length and any widths that divide it. Three lemmas on
division carry the geometry: a byte is one offset of one line, a line one tag of
one set, an aligned access stays in one line and any other in two. For each
operation a lemma says that it keeps the cache sound and what it does to what
each line holds (`Content`): a fill and an eviction nothing, a write the bytes
written, an invalidation with `IM` nothing, a transfer the bytes written except
in a dirty line. Where SRAM is replaced under the cache (resets, restoring a
snapshot), soundness is claimed of no line until the cache is emptied. Two more
lemmas are about SRAM itself: a fill changes it by the evicted line alone
(`FillEvicts`), and a line written back is that line as loads see it
(`LineShown`). Conclusion: `CacheIsWriteBack`.

**Devices and tools.** In `MCSoc` one device moves in a behaviour and no two share
state, so each has an invariant of its own that a step of another leaves alone.

* `FlashInvariance`: what every image file reaches is as saved, or `dirty` is
  set. `UnsavedImagesAreFlagged` is `UnsavedIsDirty` for files of the flash's own
  size (the `FileLengths` of the run): a shorter file clears the flag over cells
  it does not reach, which is the entry "Flash" below.
* `StreamsInvariance` has a part per stream. `ConsoleInv`: what the host typed is
  what the firmware took, then the queue, then the channel, and the log is the
  end of what was printed, as long as the log allows. `TransferInv`: a word
  fetched lies as far behind the EEPROM's pointer as there are words since, and
  each of its bytes is the one at its offset. `MailInv`: an unfinished submission
  has fewer words than its length needs. `UplinkInv`: the assembler holds the
  first words of the submission its own block is pushing; once a frame of the
  firmware is on the line, no synthetic burst follows it (`LineInv`); grants
  answered are those the peer opened, and reports no more than they. That the
  words are of one submission rests on `Takes`: a word of another block is
  ignored. Conclusion: `BytesKeepTheirPlace`, for any depth, crossing, number of
  blocks and words.
* `RegistersInvariance`: the parts `CalibrationInv` (how many reads a running
  calibration has had), `CommandInv`, `StatusInv`, `LlidInv` (an anchor holds the
  LLID as long as the session that assigned it lasts), `TimerInv`, `LockInv`,
  `LanesInv` (a word is the sum of its bytes), `TablesInv`, `VectorInv` (which
  halves an installation has stored, the others being as they were) and `AlarmsInv`, each a lemma per action.
  Conclusions: `RegistersAreTrue`, `StoresAreSound`. The latter has the dispatch
  lists too: whoever answers an access answers every kind of access to it
  (`Dispatch`).
* `ToolsInvariance`: for any callers, tools and number of calls, a number belongs
  to one call; commands in the channel and handled are those of calls made, in
  each caller's order, and none is in both; a reply is what the command of the call
  that waits for it came to, and what is not hex never is a command; and the
  published snapshot is one the worker had. What a read answers is in time because its
  value is that of a state since the call began.

The provers have no induction over data: where a proof needs a least number or
a finite count it takes it from `WFMin` with `NatLessThanWellFounded`, or from
the library's facts on surjections and finite sets.

Only model-checked:

* every liveness property (fairness and ENABLED are beyond the prover);
* `Decoder`, `Executor` and `Isa` (`EveryFormHasOneMeaning`, `OperationsAreExact`),
  which compute with bits (`Bitwise`) and by recursion. The provers can use
  neither; the run enumerates every operand instead. `UserModeIsClosed` and
  `FaultsArePrecise` are about the same functions;
* `ReadAsWritten`, whose conjuncts compute over data: the readers of `Codecs` go
  through a frame byte by byte, `Lue`, `Scenario` and `Timing` fold rules, events
  and lines.

## Where the code and its words differ

One disagreement is a run of its own, with a finding in `PROJECT.json`:

| Statement | What the code does |
|---|---|
| `BurstOnPulse` - `soc/bank.rs:702`: "the firmware pulsed bit 11 of PON_LANE_CONFIG_GRP1" | The old value is taken from `self.serdes.peek_word(addr)` (`:1265`), which `SerDes` does not override and whose default is 0 (`peripheral.rs:410`). Every write with the bit set triggers a burst, not only the first. |

The properties of these others are in the modules too. TLC refutes each in a few
steps; the instance is that of the run named, with the changes given.

| Statement | Instance | What the code does |
|---|---|---|
| `LeaverIsNotGranted` - `peer.rs:528`: "Treating it as a registration is how a model registers an ONU that asked to leave." | `peer` | A deregistering request during `WaitAck` reaches `tear_down_registration`, which returns at once because nothing is registered yet (`peer.rs:688`); the handshake goes on and registers the ONU. |
| `NormalGateOnlyWhileRegistered` - `peer.rs:140`: "Only armed while registered" | `peer` | `rewind_handshake` (`:843`) goes back to `Idle` and leaves the timer armed until it next fires. |
| `AnswerGoesToTheAccepted` - `peer.rs:212`: "Refused because a handshake was already in flight." | `peer`, two ONUs | `on_mpcp` overwrites `onu_mac` (`:521`) before it refuses, so the pending REGISTER goes to the refused ONU. |
| `DarkLinkIsIdle` - `peer.rs:466`: a link down "takes discovery back to the beginning" | `peer` | `deliver` (`:494`) does not look at `link_up`; a late frame moves the peer out of `Idle`. |
| `SurvivesAnOutage` - `onu.rs:4`: "it does the smallest thing that keeps a link alive" | `link` | The responder keeps its LLID when the line goes down, and with an LLID it answers no discovery GATE (`:124`); the peer has forgotten it, and it never registers again. |
| `ExplicitDownStaysDown` - `soc/olt/mod.rs:756`: "an explicit down stays down." | `olt_port` | `set_link_up(false)` returns early while the link is not up yet (`:379`) and leaves `link_change_pending`, so the deferred rise comes after the down. |
| `GuardClearWaits` - `soc/bank.rs:577`: "The 3-tick delay ensures the firmware's store to 0x7E3CA has executed" | `olt_port` | The countdown starts only from zero and an idle mailbox keeps starting it, so a frame consumed late in one has its guard cleared at the next tick (`:582`). |
| `FirstRequestMeetsFirstResponse` - `soc/olt/mod.rs:655`: "Rewind so the first real request meets the first real response" | `soc` | A synthetic request still on the line when the first frame is captured lands after the rewind. |
| `ResetForgetsBreakpoints` - `mcp/handler.rs:2581`: "`keep_breakpoints=true` re-installs every current breakpoint on the fresh CPU" | `cpu_worker` | In SoC mode the `Cpu` is reused; a reset without `keep_breakpoints` clears the list (`cpu_worker.rs:251`) and leaves the hooks. |
| `StepLeavesTheBreakpoint` - `hooks.rs:19`: "stepping through the breakpoint" | `cpu_worker` | The step finds the hook of the same pc and pauses again without executing (`cpu_worker.rs:228`). |
| `HitIsReported` - `mcp/handler.rs:2726`: "The worker pauses with `PauseReason::Watch` on hit." | `cpu_worker`, counts 1 and 2 | A hit in the last instruction of a bounded run is overwritten with `UserPause` (`cpu_worker.rs:133`). |
| `HooksAreOwned` - `hooks.rs:39`: "Installed by `CpuCommand::SetBreakpoint` and removed by `RemoveBreakpoint`." | `cpu_worker` | A second step-over overwrites the target of the first (`cpu_worker.rs:240`); its hook stays for ever. |
| `FailedIsNotDone` - `mcp/handler.rs`: `ok: false` | `soc` | A tool whose command is still queued at its timeout (`:2799`) answers `ok: false`, and the command is handled later; a `write_memory` that runs past the end of the SRAM is answered so with the bytes before the end written (`cpu_worker.rs:849`). |
| `VectorsAreWhole` - `soc/nco.rs:193`: "`None` when the channel is not a programmed `j @limm` vector." | `soc` | The opcode is stored before the target (`nco.rs:257`), so between the stores `interrupt_vector` answers target 0, the replaced target, or the new upper half on the old lower one. |
| `ShownFollowsTheAnswer` - `mcp/handler.rs:1336`: "from the latest emulator snapshot" | `soc` | `write_register` is answered before the snapshot is published (`cpu_worker.rs:314`); `restore_snapshot` publishes first. |
| `HungSpinsInPlace` - `cpu/mod.rs:486`: "if the PC is the same as last step, the CPU is spinning on `b .`" | `cpu_core` | The detector does not see the loop-back step between two executions, so a zero-overhead loop over one instruction is halted as a permanent hang (`:506`). |
| `HungIsUnreachable` - `cpu/registers.rs:120`: "no interrupt able to reach the core" | `cpu_core`, kinds Nop, Branch, Flag, Uart | `classify_spin` (`cpu/mod.rs:657`) asks for a source armed or pending now; a core that waits for a UART byte with interrupts open is halted. |
| `FastForwardSkipsNothing` - `cpu/mod.rs:670`: "no observer can distinguish" | the same, kinds Nop, Branch, Flag, Timer; a timer of 2 that interrupts, a watchdog of 5 | The watchdog is moved to its limit although another timer would interrupt the spin first (`:672`). |
| `NothingDeliverableWaits` - `cpu/mod.rs:746`: "Delivery depends only on the peripheral asserting [...], the line's level [...], and the matching `E1`/`E2` bit" | the same, kinds Nop, Flag, Timer; a timer of 2 that interrupts | Only the lowest pending line is looked at (`:757`); if its level is masked, one of the open level waits behind it. |
| `CallStackFollows` - `cpu/mod.rs:72`: "Pushed on BL/JL, popped on J [blink]" | the same, kinds Nop, Call, Return; one call | `j.d [blink]` sets no `pc_written` and neither does its slot (`:568`); the return pops nothing. |
| `HandlersRunAwake` - `cpu/mod.rs:319`: "When sleeping, only tick timers and check interrupts" | the same, kinds Nop, Sleep, Timer; a timer of 2 that interrupts | The step that executes SLEEP ends in `check_interrupts` and ignores its result (`:593`); the handler is entered with `sleeping` set and waits for another interrupt. |
| `SleeperHearsUart` - `cpu/mod.rs:723`: "Poll peripheral IRQ lines via the bank." | `cpu_core_live`, kinds Nop, Sleep, Uart | The poll is due when `instruction_count` is a multiple of the prescaler (`:726`); a sleeper counts no instructions, so unless it fell asleep on a multiple it never polls. |

Met while modelling, without a property of their own; the models do what the
code does:

* **Worker and tools.** `write_register` is described as taking `ilink1` and
  `ilink2` (`mcp/handler.rs:2779`); `write_register_by_name`
  (`cpu_worker.rs:804`) refuses both names. Without `--unmapped-exception` a
  `write_memory` past the end of the SRAM answers `ok: true` and the bytes are
  dropped. `RunTo` (`cpu_worker.rs:212`) leaves `remaining_insns` of
  an earlier bounded run, which can end the run before the address. Setting a
  breakpoint twice answers the last index of the list. `set_breakpoint` and
  `remove_breakpoint` publish nothing, so `list_breakpoints` lags. `write_mmio`
  drops the error of the access and answers `ok`, and goes past commands already
  queued, a reset among them. `EventLog::clear` zeroes `in_flight` with calls open.
* **Peer and responder.** `WaitAck` has no timeout; `set_assigned_llid` between
  REGISTER and REGISTER_ACK makes the acknowledgement be refused and leaves both
  ends waiting, and `soc/olt/mod.rs:310` says "the next ONU". A second
  DEREGISTER pushes a second life, because `registered_at` is not cleared.
* **OLT port.** Two grants in one tick bring one REPORT against "One grant, one
  report" (`soc/olt/mod.rs:608`). An announcement in one block abandons a
  submission under way in another. `report.rs` says "True once both words have
  been written"; the first word is enough. A frame of 2047 bytes makes 513 words
  and is dropped, and the length field wraps from 2042 on.
* **Bank.** `peripheral.rs:396` says overlapping claims panic at construction;
  SerDes overlaps MACsec and PBC, and nothing panics. Half-word and byte
  accesses go past triggers, masks, watchpoints, LLID enforcement, the burst
  trigger and the mailbox, and spend one-shot overrides all the same; on
  write-one-to-clear words they acknowledge bits of the other bytes. Neither
  reset clears `pending_cache_inv`, `guard_clear_countdown` or the scenario. The
  default `peek_word` answers 0 for nine blocks that `peripheral.rs:404` says
  must override it. `record_last_access` evicts any entry, not the oldest.
* **Scenario.** A repeating event at an instruction count fires once
  (`scenario.rs:379`), against "re-arms after firing" (`:215`). An event on the
  n-th access counts from the first access ever made.
* **Lookup engine.** Rules written back to front match as other rules while half
  written. A rule the engine cannot decide refuses the whole frame.
* **Codecs.** `get_request` writes no parameters for statistics leaves, so its own
  parser takes the next descriptor for one. A GATE that announces a grant without
  holding one reads back a grant of zero.
* **Flash.** A short image loaded by an operator or as firmware clears `dirty`;
  the save from the toolbar clears it before the file is written. Commands are
  taken while an operation is in progress, and DMA ignores the write enable.
* **Memory.** A restored snapshot leaves dirty lines over the restored SRAM, and a
  SoC reset writes old dirty lines back behind the zeroing. Read watchpoints
  never fire on loads of the core (`mcp/handler.rs:2726`).
* **Executor.** A write-back to PCL and EX into PCL fault after their effects.
  SLEEP with an operand sets the interrupt enables in user mode. ASLS and ASRS by
  the most negative amount shift by nothing.
* **Timing.** `TimingShadow` ignores `fetch_runs_ahead_under_stall`, and an SRAM
  load with the D-cache off is not taken for uncached.
* **Others.** The timestamp lock is not lowered when the line goes down. A lane
  bus with no busy ticks never finishes. `Pbc::reset_cold` keeps the last command.

## What is not modelled

Of the modelled parts: the pseudo-random generator behind the jitter (any value
in its range); log lines and formatted text; the profile counters and the mode
`tight_loop_halts` of the core; the throttle and the rate measurement of the
worker; the ring of last accesses and the summaries of the bank; register words
that are stored and read back and nothing depends on, beyond the byte lanes of
one of them; the MCP tools that format what they read, or pass on an event that
a device's module has as an action; captured power-on tables (`mmio_init.rs`),
except the words a property needs.

Of the rest: the wire clock is arithmetic on a newtype, the boot ROM a file of
two lines around an image that is not in the repository. The user interface, the
annotations, the debug information, the analysis of recorded accesses and the
command line have no control over the emulation beyond the commands that
`CpuWorker` and `ToolCalls` take as their input.

The devices are checked one at a time. Where they meet in the bank (the OLT port
with MAC and guard, burst trigger with SerDes, DMA with the caches, page select
with the lane bus) the meeting is part of the module; two devices that meet only
through the firmware are not combined.

## Plan

The components above are modelled, and their safety is proved except for that of
the instruction set in `processor` and of `ReadAsWritten` in `soc`. What is left,
in this order:

1. `Scenario` for any number of events.
2. The bank with two devices that meet through the firmware.

These join the proof module of the component they are closest to.
