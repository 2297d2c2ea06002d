------------------------------ MODULE MpcpBus ------------------------------
(***************************************************************************)
(* The lane bus at 0x01000118 as the bank drives it (bank.rs, lane_bus.rs):*)
(* the firmware stages a register address and a value in indirect register *)
(* 0, arms the transaction through STAT, and finds what a read returns in  *)
(* indirect register 256.  The page a transaction reaches is the one the   *)
(* eFuse clock register selected last.                                     *)
(*                                                                         *)
(* A staged word is one of the codes below: what CAL_CTRL of a half would  *)
(* be written with, or the CAL_STAT of a half.                             *)
(***************************************************************************)
EXTENDS LaneBus, FiniteSets

VARIABLES
    mbus,             \* PeripheralBank.mpcp_bus
    cal_immediate,    \* LaneBus.cal_immediate
    cal_converged,    \* Scenario.serdes_cal_converged
    polls             \* history: reads of each calibration since it was started cold

mbus_vars == <<mbus, cal_immediate, cal_converged, polls>>

(* half * 8 + 4 (CAL_CTRL) + 2 (cold) + 1 (enable), or half * 8 (CAL_STAT).*)
Half(w) == w \div 8
IsCtrl(w) == (w % 8) >= 4
IsCold(w) == (w % 4) >= 2
IsEnable(w) == w % 2 = 1
Staged == {h * 8 + c : h \in Halves, c \in {0, 4, 5, 7}}
Done == 128       \* CAL_DONE_BIT

NeverStarted == -1

mbus_Init == /\ mbus = NewBus(BusTicks) /\ cal_immediate = FALSE /\ cal_converged = FALSE
             /\ polls = [at \in Slots |-> NeverStarted]

WriteMbusData == /\ \E w \in Staged : mbus' = write_data(mbus, w)
                 /\ UNCHANGED <<cal_immediate, cal_converged, polls>>

(* A command executes and its bits clear before anyone can read them.      *)
WriteMbusCmd ==
    /\ \E bits \in SUBSET {ReadBit, WriteBit}, r \in LaneRegs :
          mbus' = clear_cmd_bits_now(write_cmd(mbus, bits, r))
    /\ UNCHANGED <<cal_immediate, cal_converged, polls>>

(* LaneBus::arm_transaction reading: the calibration advances, then the    *)
(* status goes to register 256.  Of what a read returns only CAL_DONE_BIT  *)
(* is kept; a status staged as an address names some other register.       *)
ArmRead ==
    LET w == mbus.regs[0]
        h == Half(w)
        at == <<mbus.page, h>>
        stat == w \in Staged /\ ~IsCtrl(w)
        b == IF stat THEN cal_read(mbus, h) ELSE mbus
    IN  /\ mbus' = [b EXCEPT !.regs[256] =
                       IF stat /\ at \in b.done THEN Done ELSE 0]
        /\ polls' = IF stat /\ mbus.cal[at] > 0
                      THEN [polls EXCEPT ![at] = @ + 1] ELSE polls
        /\ UNCHANGED <<cal_immediate, cal_converged>>

(* ... and writing.  CAL_STAT can be written too, with zero here: that     *)
(* hides a calibration that is done and leaves its state alone.            *)
ArmWrite ==
    LET w == mbus.regs[0]
        h == Half(w)
        at == <<mbus.page, h>>
    IN  /\ w \in Staged
        /\ mbus' = IF IsCtrl(w) THEN cal_write(mbus, h, IsEnable(w), IsCold(w), cal_immediate)
                              ELSE [mbus EXCEPT !.done = @ \ {at}]
        /\ polls' = IF ~IsCtrl(w) THEN polls
                    ELSE IF IsEnable(w) /\ IsCold(w) /\ mbus.cal[at] # CalDone
                      THEN [polls EXCEPT ![at] = IF cal_immediate THEN CalReads - 1 ELSE 0]
                    ELSE IF ~IsEnable(w) THEN [polls EXCEPT ![at] = NeverStarted]
                    ELSE polls
        /\ UNCHANGED <<cal_immediate, cal_converged>>

(* A word write of I2C_UDR_CLK_RESET, bits 13..12.                         *)
SelectPage == /\ \E p \in LanePages : mbus' = set_page(mbus, p)
              /\ UNCHANGED <<cal_immediate, cal_converged, polls>>

(* The scenario's flag reaches the bus with the next tick and is never     *)
(* taken back there.                                                       *)
Converge == /\ cal_converged' = ~cal_converged
            /\ UNCHANGED <<mbus, cal_immediate, polls>>

mbus_tick == /\ mbus' = lane_tick(mbus)
             /\ cal_immediate' = (cal_immediate \/ cal_converged)
             /\ UNCHANGED <<cal_converged, polls>>

(* LaneBus::reset in both resets of the bank: cal_immediate survives.      *)
mbus_reset == /\ mbus' = bus_reset(mbus)
              /\ polls' = [at \in Slots |-> NeverStarted]
              /\ UNCHANGED <<cal_immediate, cal_converged>>

mbus_Next == \/ WriteMbusData \/ WriteMbusCmd \/ ArmRead \/ ArmWrite \/ SelectPage
             \/ Converge \/ mbus_tick \/ mbus_reset

-----------------------------------------------------------------------------
(* A calibration reports done on the page and half it was started on, and  *)
(* there only, exactly after the reads it takes: selecting another page in *)
(* between, commands and restarts neither finish it nor lose it.           *)
CalibrationIsEarned ==
    \A p \in LanePages, h \in Halves :
        /\ (<<p, h>> \in mbus.done) => (polls[p, h] = CalReads)
        /\ (mbus.cal[p, h] = CalDone) <=> (polls[p, h] = CalReads)

(* What the proof is by induction on: the reads a calibration has had are  *)
(* those it no longer needs, on every page and half, selected or not.      *)
Bus == [cmd : SUBSET CmdBits, pending : SUBSET CmdBits, data : Int, regs : [LaneRegs -> Int],
        state : {"Idle", "Busy", "Done"}, busy : Int, ticks : Int, page : LanePages,
        cal : [Slots -> CalIdle .. CalReads], done : SUBSET Slots]
CalibrationInv ==
    /\ mbus \in Bus
    /\ polls \in [Slots -> NeverStarted .. CalReads]
    /\ \A at \in Slots :
          /\ polls[at] = IF mbus.cal[at] = CalIdle THEN NeverStarted ELSE CalReads - mbus.cal[at]
          /\ at \in mbus.done => mbus.cal[at] = CalDone
=============================================================================
