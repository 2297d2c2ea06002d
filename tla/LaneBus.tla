------------------------------- MODULE LaneBus -------------------------------
(***************************************************************************)
(* The indirect register bus (lane_bus.rs) that the I2C controller and the *)
(* SerDes share: a command word whose top bits start a transaction and     *)
(* clear themselves, a data word, a status word with a busy bit, a file of *)
(* indirect registers, and behind those the paged 8-bit registers of a     *)
(* lane with the calibration each page runs on its even and its odd half.  *)
(* A bus is a record; the operators below are the methods of LaneBus.      *)
(***************************************************************************)
EXTENDS Integers

CONSTANTS LaneRegs,        \* indirect registers: 0, 256 and one more
          LanePages,       \* 0 .. LANE_PAGE_COUNT - 1
          Halves,          \* the even and the odd half of a page: 0 and 1
          BusWords,        \* values of the data word
          CalReads,        \* cal_reads_to_done
          BusTicks         \* busy_ticks of a bus that can be busy

ASSUME LaneBusAssumption == /\ {0, 256} \subseteq LaneRegs /\ LaneRegs \subseteq Nat
                            /\ CalReads \in Nat \ {0} /\ BusTicks \in Nat \ {0}
                            /\ 0 \in LanePages /\ 0 \in BusWords
                            /\ Halves \subseteq {0, 1}

WriteBit == 1    \* bit 28 of the command: data -> register
ReadBit == 0     \* bit 27 of the command: register -> data
CmdBits == {ReadBit, WriteBit, 4}

CalIdle == -1
CalDone == 0     \* a running calibration is the number of reads it has left

Slots == LanePages \X Halves     \* where a calibration runs

NewBus(ticks) ==
    [cmd |-> {}, pending |-> {}, data |-> 0, regs |-> [r \in LaneRegs |-> 0],
     state |-> "Idle", busy |-> 0, ticks |-> ticks,
     page |-> 0, cal |-> [at \in Slots |-> CalIdle],
     done |-> {}]     \* the (page, half) whose CAL_STAT shows CAL_DONE_BIT

(* execute_indirect: a command with both bits writes, then reads back.     *)
execute_indirect(b, bits, r) ==
    LET w == IF WriteBit \in bits THEN [b EXCEPT !.regs[r] = b.data] ELSE b
    IN  IF ReadBit \in bits THEN [w EXCEPT !.data = w.regs[r]] ELSE w

write_cmd(b, bits, r) ==
    execute_indirect([b EXCEPT !.cmd = bits,
                               !.pending = IF bits # {} THEN bits ELSE @], bits, r)

clear_cmd_bits_now(b) == [b EXCEPT !.cmd = {}, !.pending = {}]

(* read_cmd returns the word and then clears what the last write left.     *)
read_cmd(b) == [b EXCEPT !.cmd = @ \ b.pending, !.pending = {}]

write_data(b, v) == [b EXCEPT !.data = v]

go_busy(b) == [b EXCEPT !.state = "Busy", !.busy = b.ticks]
set_idle(b) == [b EXCEPT !.state = "Idle"]
stat_busy(b) == b.state = "Busy"

lane_tick(b) ==
    IF b.state = "Busy" /\ b.busy > 0
      THEN [b EXCEPT !.busy = @ - 1, !.state = IF b.busy = 1 THEN "Done" ELSE @]
      ELSE b

bus_reset(b) == NewBus(b.ticks)

set_page(b, p) == IF p \in LanePages THEN [b EXCEPT !.page = p] ELSE b

(* lane_write to a calibration control register of the selected page.      *)
cal_write(b, h, enable, cold, immediate) ==
    LET at == <<b.page, h>> IN
    IF ~enable THEN [b EXCEPT !.cal[at] = CalIdle, !.done = @ \ {at}]
    ELSE IF cold /\ b.cal[at] # CalDone
           THEN [b EXCEPT !.cal[at] = IF immediate THEN 1 ELSE CalReads]
           ELSE b

(* lane_read of the calibration status: a running calibration advances.    *)
cal_read(b, h) ==
    LET at == <<b.page, h>> IN
    IF b.cal[at] > 0
      THEN [b EXCEPT !.cal[at] = @ - 1, !.done = IF b.cal[at] = 1 THEN @ \cup {at} ELSE @]
      ELSE b
==============================================================================
