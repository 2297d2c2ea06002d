------------------------------- MODULE BscI2c -------------------------------
(***************************************************************************)
(* The I2C controller (bsc_i2c.rs) and the SFP EEPROM behind it            *)
(* (sfp_eeprom.rs).  A transfer is a protocol of four registers: the       *)
(* sub-address goes into DATA, a command latches it, a write of STAT with  *)
(* bit 22 arms the byte count, and each read command then fetches one word *)
(* for DATA.  STAT of lane 0 and DATA of lane 1 share an address; which of *)
(* them an access means is decided by the lane commanded last.             *)
(*                                                                         *)
(* A byte of the EEPROM is <<device, offset, version>>: the identity page  *)
(* changes version when the operator loads or edits it, the diagnostic     *)
(* bytes when a reading is set.                                            *)
(***************************************************************************)
EXTENDS LaneBus, Sequences

CONSTANTS PageSize,      \* bytes of a page: 256
          WordBytes,     \* bytes a read command fetches: 4
          DdmBytes,      \* offsets 96 .. 109 of page A2, in pairs
          SubAddrs,      \* sub-addresses the firmware starts from
          Counts,        \* byte counts it arms a transfer with
          MaxVersion     \* bound on the operator's changes

ASSUME BscAssumption == /\ PageSize \in Nat \ {0} /\ WordBytes \in Nat \ {0}
                        /\ MaxVersion \in Nat /\ Counts \subseteq Nat
                        /\ SubAddrs \subseteq Nat

Offset == 0 .. PageSize - 1
Nack == <<"nack">>

VARIABLES
    bus, lane1, lane2,    \* the three lanes
    last_cmd_lane, protocol, pending_sub_addr, sub_addr, eeprom_ptr,
    byte_count, bytes_read, last_device, pending_read_word, force_nack,
    a0, a2, ddm,          \* versions of the two pages and of the live readings
    got                   \* history: the words fetched since the transfer was armed

bsc_vars == <<bus, lane1, lane2, last_cmd_lane, protocol, pending_sub_addr, sub_addr,
              eeprom_ptr, byte_count, bytes_read, last_device, pending_read_word,
              force_nack, a0, a2, ddm, got>>

bsc_Init ==
    /\ bus = NewBus(BusTicks) /\ lane1 = NewBus(0) /\ lane2 = NewBus(0)
    /\ last_cmd_lane = 0 /\ protocol = "Idle"
    /\ pending_sub_addr = 0 /\ sub_addr = 0 /\ eeprom_ptr = 0
    /\ byte_count = 0 /\ bytes_read = 0 /\ last_device = 0
    /\ pending_read_word = <<>> /\ force_nack = FALSE
    /\ a0 = 0 /\ a2 = 0 /\ ddm = 0 /\ got = <<>>

(* SfpEeprom::read_byte, read_a2_byte: the readings overlay their bytes.   *)
sfp_byte(dev, off) ==
    LET o == off % PageSize
    IN  <<dev, o, IF dev = 1 THEN (IF o \in DdmBytes THEN ddm ELSE a2) ELSE a0>>

sfp_word(dev, off) == [k \in 1 .. WordBytes |-> sfp_byte(dev, off + k - 1)]

-----------------------------------------------------------------------------
(* The firmware's accesses.                                                *)

sfp == <<a0, a2, ddm>>
transfer == <<protocol, sub_addr, eeprom_ptr, byte_count, bytes_read,
              last_device, pending_read_word, force_nack, got>>

(* DATA of lane 0 takes the sub-address for the next latch.                *)
WriteDataReg ==
    /\ \E off \in SubAddrs : pending_sub_addr' = off
    /\ bus' = write_data(bus, 0)
    /\ UNCHANGED <<lane1, lane2, last_cmd_lane, transfer, sfp>>

(* issue_command with the write bit: latch the sub-address.                *)
Latch ==
    /\ protocol' = "SubAddrLatched" /\ sub_addr' = pending_sub_addr
    /\ bus' = clear_cmd_bits_now(go_busy(write_cmd(bus, {WriteBit}, 0)))
    /\ UNCHANGED <<eeprom_ptr, byte_count, bytes_read, pending_read_word, force_nack, got>>

(* issue_command with the read bit: one more word, if the transfer has one *)
(* left.                                                                   *)
FetchWord ==
    /\ IF protocol = "Armed" /\ bytes_read < byte_count
         THEN LET word == IF force_nack THEN Nack ELSE sfp_word(last_device', eeprom_ptr)
              IN  /\ pending_read_word' = word
                  /\ got' = Append(got, word)
                  /\ force_nack' = FALSE
                  /\ eeprom_ptr' = eeprom_ptr + WordBytes
                  /\ bytes_read' = bytes_read + WordBytes
                  /\ protocol' = IF bytes_read + WordBytes >= byte_count
                                   THEN "Idle" ELSE protocol
         ELSE UNCHANGED <<pending_read_word, got, force_nack, eeprom_ptr, bytes_read, protocol>>
    /\ bus' = clear_cmd_bits_now(go_busy(write_cmd(bus, {ReadBit}, 0)))
    /\ UNCHANGED <<sub_addr, byte_count>>

issue_command ==
    /\ last_cmd_lane' = 0
    /\ last_device' \in {0, 1}
    /\ Latch \/ FetchWord
    /\ UNCHANGED <<lane1, lane2, pending_sub_addr, sfp>>

(* A write at LANE1_DATA: STAT of lane 0, unless lane 1 was commanded last.*)
WriteStat ==
    \E count \in Counts, armbit \in BOOLEAN :
       /\ IF last_cmd_lane = 1
            THEN /\ lane1' = write_data(lane1, 0)
                 /\ UNCHANGED <<bus, byte_count, eeprom_ptr, bytes_read, protocol, got>>
            ELSE /\ IF armbit /\ protocol = "SubAddrLatched" /\ count > 0
                      THEN /\ byte_count' = count /\ eeprom_ptr' = sub_addr
                           /\ bytes_read' = 0 /\ protocol' = "Armed" /\ got' = <<>>
                           /\ bus' = go_busy(bus)
                      ELSE UNCHANGED <<bus, byte_count, eeprom_ptr, bytes_read, protocol, got>>
                 /\ UNCHANGED lane1
       /\ UNCHANGED <<lane2, last_cmd_lane, pending_sub_addr, sub_addr, last_device,
                      pending_read_word, force_nack, sfp>>

(* A read of DATA takes a finished bus back to idle; a read of CMD makes   *)
(* lane 0 the last one commanded.                                          *)
ReadDataReg ==
    /\ bus' = (IF bus.state = "Done" THEN set_idle(bus) ELSE bus)
    /\ UNCHANGED <<lane1, lane2, last_cmd_lane, pending_sub_addr, transfer, sfp>>

ReadCmd == /\ last_cmd_lane' = 0 /\ bus' = read_cmd(bus)
           /\ UNCHANGED <<lane1, lane2, pending_sub_addr, transfer, sfp>>

(* Commands to the other two lanes act on their own registers only.        *)
OtherLane ==
    /\ \E bits \in SUBSET {ReadBit, WriteBit} :
          \/ /\ last_cmd_lane' = 1
             /\ lane1' = clear_cmd_bits_now(write_cmd(lane1, bits, 0)) /\ UNCHANGED lane2
          \/ /\ last_cmd_lane' = 2
             /\ lane2' = clear_cmd_bits_now(write_cmd(lane2, bits, 0)) /\ UNCHANGED lane1
    /\ UNCHANGED <<bus, pending_sub_addr, transfer, sfp>>

(* A write at LANE2_DATA reaches lane 2 only if it was commanded last.     *)
WriteLane2Data ==
    /\ last_cmd_lane = 2
    /\ \E v \in BusWords : lane2' = write_data(lane2, v)
    /\ UNCHANGED <<bus, lane1, last_cmd_lane, pending_sub_addr, transfer, sfp>>

bsc_tick == /\ bus' = lane_tick(bus) /\ lane1' = lane_tick(lane1) /\ lane2' = lane_tick(lane2)
            /\ UNCHANGED <<last_cmd_lane, pending_sub_addr, transfer, sfp>>

(* BscI2c::reset_cold, which also puts the shipped EEPROM back.            *)
bsc_reset ==
    /\ bus' = bus_reset(bus) /\ lane1' = bus_reset(lane1) /\ lane2' = bus_reset(lane2)
    /\ last_cmd_lane' = 0 /\ protocol' = "Idle"
    /\ pending_sub_addr' = 0 /\ sub_addr' = 0 /\ eeprom_ptr' = 0
    /\ byte_count' = 0 /\ bytes_read' = 0 /\ last_device' = 0
    /\ pending_read_word' = <<>> /\ force_nack' = FALSE
    /\ a0' = 0 /\ a2' = 0 /\ ddm' = 0 /\ got' = <<>>

(* The operator: BscEvent::ForceNack and Reset, SfpEvent's readings and    *)
(* names, load_pages with one page or with two.                            *)
ForceNack == force_nack' = TRUE
             /\ UNCHANGED <<bus, lane1, lane2, last_cmd_lane, protocol, pending_sub_addr,
                            sub_addr, eeprom_ptr, byte_count, bytes_read, last_device,
                            pending_read_word, sfp, got>>

ResetBus == /\ bus' = set_idle(bus)
            /\ UNCHANGED <<lane1, lane2, last_cmd_lane, pending_sub_addr, transfer, sfp>>

SetReading == /\ a0 + ddm < MaxVersion /\ ddm' = ddm + 1
              /\ UNCHANGED <<bus, lane1, lane2, last_cmd_lane, pending_sub_addr, transfer, a0, a2>>

load_pages == /\ a0 + ddm < MaxVersion /\ a0' = a0 + 1 /\ a2' \in {a2, a0 + 1}
              /\ UNCHANGED <<bus, lane1, lane2, last_cmd_lane, pending_sub_addr, transfer, ddm>>

bsc_Next ==
    \/ WriteDataReg \/ issue_command \/ WriteStat \/ ReadDataReg \/ ReadCmd
    \/ OtherLane \/ WriteLane2Data \/ bsc_tick \/ bsc_reset
    \/ ForceNack \/ ResetBus \/ SetReading \/ load_pages

-----------------------------------------------------------------------------
(* What a transfer fetches is the EEPROM from the armed sub-address on,    *)
(* word after word and wrapping at the page, whatever commands to the      *)
(* other lanes, polls and late sub-addresses come between; and a two-byte  *)
(* reading is never half old and half new when the transfer starts on an   *)
(* even byte.                                                              *)
TransfersAreWhole ==
    \A n \in DOMAIN got : got[n] # Nack =>
        /\ \A k \in 1 .. WordBytes :
              got[n][k][2] = (eeprom_ptr - (Len(got) - n + 1) * WordBytes + k - 1) % PageSize
        /\ \A j, k \in 1 .. WordBytes :
              /\ got[n][j][1] = 1 /\ {got[n][j][2], got[n][k][2]} \subseteq DdmBytes
              => got[n][j][3] = got[n][k][3]
        /\ protocol = "Armed" => eeprom_ptr = sub_addr + Len(got) * WordBytes

=============================================================================
