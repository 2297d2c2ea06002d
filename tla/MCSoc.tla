------------------------------- MODULE MCSoc -------------------------------
(* The devices of the peripheral bank beside the OLT port, with the lookup *)
(* engine, the scenario engine, the codecs, the timing overlay and the     *)
(* tools.  None shares state with another in these models, so one of them  *)
(* moves in each behaviour and the others stay where power-on left them.   *)
EXTENDS Uart, Pbc, BscI2c, SerDes, MpcpBus, CommandWords, StatusWords,
        EponMac, AddressMap, Scenario, RegisterFiles, Lue, Codecs, Timing,
        Uplink, ToolCalls

CONSTANT Units       \* the devices this instance lets move

VARIABLE unit

soc_vars == <<unit, uart_vars, pbc_vars, bsc_vars, serdes_vars, mbus_vars,
              cmd_vars, status_vars, epon_vars, map_vars, scenario_vars,
              rf_vars, lue_vars, codec_vars, timing_vars, uplink_vars,
              tool_vars>>

-----------------------------------------------------------------------------
(* Instances of the constants that a configuration file cannot write.      *)
Static == [kind |-> "Static", value |-> {0}, count |-> 0]
OneShot == [kind |-> "OneShot", value |-> {0}, count |-> 1]
Masked == [kind |-> "Mask", value |-> {0}, count |-> 0]
Effect(k, a, s, v) == [kind |-> k, addr |-> a, spec |-> s, value |-> v]
MCSpecs == {Static, OneShot}
MCEvents ==
  {[trigger |-> [kind |-> "Read", addr |-> 1, n |-> 2], repeat |-> TRUE,
    effect |-> Effect("WriteMmio", 1, NoSpec, {0})],
   [trigger |-> [kind |-> "Write", addr |-> 1, n |-> 1], repeat |-> FALSE,
    effect |-> Effect("SetOverride", 1, Masked, {})],
   [trigger |-> [kind |-> "At", addr |-> 0, n |-> 1], repeat |-> TRUE,
    effect |-> Effect("WriteMmio", 1, NoSpec, {})]}
MCWatches ==
  {[addr |-> 1, mode |-> "Write", action |-> Effect("Pause", 0, NoSpec, {})],
   [addr |-> 1, mode |-> "Read", action |-> Effect("RemoveOverride", 1, NoSpec, {})]}

MCTargets == {<<1, 2>>, <<3, 4>>}

Clause(f, op, v) == [field |-> f, op |-> op, shift |-> 0, anchor |-> 0, operand |-> v]
Queue(p, q) == [prio |-> p, sel |-> 2, sub |-> 0, field |-> q, extra |-> 0]
Mark(p) == [prio |-> p, sel |-> 1, sub |-> 3, field |-> 0, extra |-> 0]
Rules(cs, as) == [clauses |-> cs, actions |-> as]
ByType == Rules(<<Clause(EtherTypeField, "Eq", 2)>>, <<Queue(1, 3)>>)
ByBoth == Rules(<<Clause(DestField, "Eq", 1), Clause(EtherTypeField, "Ne", 3)>>,
                <<Queue(2, 4), Mark(1), Mark(2), Mark(3), Mark(4), Mark(5)>>)
ByTag == Rules(<<Clause(3, "NotExists", 0), [Clause(SourceField, "Ge", 4) EXCEPT !.anchor = 1]>>,
               <<Mark(3), Queue(0, 5)>>)
ByLength == Rules(<<Clause(LengthField, "Le", 5)>>, <<Queue(3, 6)>>)
MCPlans == {<<ByType, ByBoth>>, <<ByBoth, ByLength>>, <<ByTag, ByType>>}
Frame(d, s, t, p, n) == [short |-> FALSE, dst |-> d, src |-> s, ethertype |-> t,
                         payload |-> p, len |-> n]
MCFrames == {Frame(1, 5, 2, <<3>>, 4), Frame(1, 2, 1, <<>>, 7), Frame(0, 6, 3, <<1>>, 5),
             [Frame(0, 0, 0, <<>>, 1) EXCEPT !.short = TRUE]}

GateOf(n, disc, force, grant, win) ==
  [kind |-> "Gate", flags |-> [count |-> n, discovery |-> disc, force |-> force],
   grant |-> grant, window |-> win]
Grant == <<0, 0, 9, 9, 1, 244>>
MCMpcp ==
  {GateOf(0, FALSE, 0, <<>>, <<>>), GateOf(1, FALSE, 15, Grant, <<>>),
   GateOf(1, TRUE, 0, Grant, <<0, 32, 3, 5>>),
   [kind |-> "Register", llid |-> <<0, 2>>, flag |-> 3, sync |-> <<0, 32>>],
   [kind |-> "RegisterAck", llid |-> <<1, 2>>, flag |-> 1, sync |-> <<0, 32>>],
   [kind |-> "RegisterReq", flag |-> 1, pending |-> 16, info |-> <<3, 5>>],
   [kind |-> "Report", queue |-> <<0, 7>>]}
MCOam == {{}, {"local_stable", "remote_stable"}, {"local_evaluating", "dying_gasp"}}
MCRequests == {<<>>, <<<<215, 0, 4>>>>, <<<<215, 0, 4>>, <<7, 0, 24>>>>}
Held(d, n, v) == [descriptor |-> d, length |-> n, value |-> v]
Wide == Held(<<215, 0, 9>>, 0, [i \in 1 .. 128 |-> i % 251])
MCResponses ==
  {<<>>, <<Held(<<215, 0, 4>>, 2, <<1, 2>>)>>,
   <<Held(<<215, 0, 4>>, 1, <<0>>), Held(<<7, 0, 24>>, 161, <<>>)>>,
   <<Wide, Held(<<7, 0, 24>>, 4, <<0, 0, 0, 1>>)>>}
MCCuts == {12, 14, 17, 18, 20, 21, 22, 24, 26, 27, 30, 40, 150}
MCAnnounced == {13, 14, 15, 16, 17, 18, 2046, 2047}

MCOffers ==
  {{"write_register", "read_registers", "restore_snapshot"},
   {"write_memory", "read_memory"},
   {"set_breakpoint", "remove_breakpoint", "list_breakpoints"},
   {"save_snapshot", "delete_snapshot"},
   {"write_mmio", "read_mmio", "cpu_reset"}}

(* Callers are interchangeable, so the first call is taken to be one       *)
(* caller's.  An argument that does not fit comes with the second call: one*)
(* call may precede it and one follow.                                     *)
FirstCaller == CHOOSE c \in Callers : TRUE
TriedCalls ==
  /\ \A c \in Callers : calls[c].id = 1 => c = FirstCaller
  /\ \A x \in Range(calls) \cup Range(commands)
                \cup {h.command : h \in Range(carried_out)} : x.arg # "fits" => x.id = 2

-----------------------------------------------------------------------------
(* A device that does not move in this behaviour keeps one initial state.  *)
Fixed(u, x, S) == unit # u => x = (CHOOSE y \in S : TRUE)

Init ==
  /\ unit \in Units
  /\ uart_Init /\ pbc_Init /\ bsc_Init /\ mbus_Init
  /\ serdes_Init /\ Fixed("mdio", olt_up, BOOLEAN)
  /\ cmd_Init /\ Fixed("command", block, Blocks)
              /\ Fixed("command", reg, PowerOn(block))
  /\ status_Init /\ Fixed("status", which, StatusRegs)
  /\ epon_Init /\ Fixed("mac", llid_start, Llids)
               /\ Fixed("mac", latched_queue, Queues)
  /\ map_Init
  /\ scenario_Init
  /\ rf_Init /\ Fixed("files", file, Files)
  /\ lue_Init /\ Fixed("lue", plan, Plans) /\ Fixed("lue", order, {"front", "back"})
  /\ codec_Init /\ (unit # "codec" => pdu.what = "none")
  /\ timing_Init /\ (unit # "timing" =>
                       /\ setup.client = "shadow" /\ setup.base_set = 0
                       /\ setup.runahead = Max(Runaheads)
                       /\ ~setup.runs_ahead /\ ~setup.dcache_on
                       /\ ~setup.mmio /\ ~setup.sync)
  /\ uplink_Init
  /\ tool_Init /\ Fixed("tools", offered, Offers)

Others ==
  /\ UNCHANGED unit
  /\ unit # "uart" => UNCHANGED uart_vars
  /\ unit # "pbc" => UNCHANGED pbc_vars
  /\ unit # "i2c" => UNCHANGED bsc_vars
  /\ unit \notin {"lanes", "mdio"} => UNCHANGED serdes_vars
  /\ unit # "mpcp_bus" => UNCHANGED mbus_vars
  /\ unit # "command" => UNCHANGED cmd_vars
  /\ unit # "status" => UNCHANGED status_vars
  /\ unit # "mac" => UNCHANGED epon_vars
  /\ unit # "map" => UNCHANGED map_vars
  /\ unit # "scenario" => UNCHANGED scenario_vars
  /\ unit # "files" => UNCHANGED rf_vars
  /\ unit # "lue" => UNCHANGED lue_vars
  /\ unit # "codec" => UNCHANGED codec_vars
  /\ unit # "timing" => UNCHANGED timing_vars
  /\ unit # "uplink" => UNCHANGED uplink_vars
  /\ unit # "tools" => UNCHANGED tool_vars

Next ==
  \/ unit = "uart" /\ uart_Next /\ Others
  \/ unit = "pbc" /\ pbc_Next /\ Others
  \/ unit = "i2c" /\ bsc_Next /\ Others
  \/ unit = "lanes" /\ (LaneNext \/ serdes_reset) /\ Others
  \/ unit = "mdio" /\ (WordNext \/ serdes_reset) /\ Others
  \/ unit = "mpcp_bus" /\ mbus_Next /\ Others
  \/ unit = "command" /\ cmd_Next /\ Others
  \/ unit = "status" /\ status_Next /\ Others
  \/ unit = "mac" /\ epon_Next /\ Others
  \/ unit = "map" /\ map_Next /\ Others
  \/ unit = "scenario" /\ scenario_Next /\ Others
  \/ unit = "files" /\ rf_Next /\ Others
  \/ unit = "lue" /\ lue_Next /\ Others
  \/ unit = "codec" /\ codec_Next /\ Others
  \/ unit = "timing" /\ timing_Next /\ Others
  \/ unit = "uplink" /\ uplink_Next /\ Others
  \/ unit = "tools" /\ tool_Next /\ Others

Spec == Init /\ [][Next]_soc_vars

(* States that differ only in what no property and no other part of the    *)
(* state depends on are one: the answer of the SPI FIFO and, of the MAC,   *)
(* the drain flag, the queue it has latched and what was read of it.       *)
Live == <<unit, uart_vars, flash, status, busy_ticks, dirty, baseline, aai_addr,
          spi_control, spi_command, spi_busy_counter, dma_busy_counter,
          pending_ops, saved, flash_ops, bsc_vars, serdes_vars, mbus_vars,
          cmd_vars, status_vars, anchor, peer, arrivals, map_vars,
          scenario_vars, rf_vars, lue_vars, codec_vars, timing_vars,
          uplink_vars, tool_vars>>

-----------------------------------------------------------------------------
(* Bytes keep their order and their number: on the console, through the    *)
(* SFP's I2C bus, in the mailbox and on the upstream line.                 *)
StreamsAreWhole ==
  /\ ConsoleKeepsOrder
  /\ TransfersAreWhole
  /\ SubmissionsFit
  /\ MailboxWordsHold
  /\ UplinkIsWhole

(* A register tells what happened: done bits and locks are earned, command *)
(* bits end, an acknowledgement takes only what was read, and the LLID of  *)
(* the session is kept.                                                    *)
RegistersTellTheTruth ==
  /\ CalibrationIsEarned
  /\ CommandBitsEnd
  /\ AcksLoseNothing
  /\ LlidIsEnforced
  /\ LockIsEarned
  /\ TimerMoves

(* What was stored is found again, by every width of access, through every *)
(* window and selector, by the block the address belongs to, and by the    *)
(* tools that ask the worker for it.                                       *)
StoresAreFoundAgain ==
  /\ unit = "map" => SameBlockEveryWay
  /\ LanesAgree
  /\ TablesAreFiled
  /\ VectorsAreInstalled
  /\ AlarmsAreASet
  /\ unit = "tools" => ToolCallsHold

(* What was written is what is read and what happens: PDUs by their        *)
(* readers, scenario events and overrides by their counts, frames by the   *)
(* complete rules, the overlay's verdict by the layout.                    *)
ReadAsWritten ==
  /\ WritersAndReadersAgree
  /\ CutsInventNothing
  /\ EventsFireAsCounted
  /\ OverridesAnswerAsSet
  /\ DeferredWritesAreKept
  /\ unit = "lue" => RulesReadBack /\ HalfRulesDecideNothing
  /\ VerdictFollowsLayout
  /\ QuietLoopsAreServed
=============================================================================
