------------------------------- MODULE SerDes -------------------------------
(***************************************************************************)
(* The SerDes block (serdes.rs) with what the bank hangs on it (bank.rs):  *)
(* the lanes that lock after a delay, the MDIO command registers whose     *)
(* busy bit ends with the first poll, and the register whose bit 11 makes  *)
(* the burst controller send.  Registers that only store are left out.     *)
(***************************************************************************)
EXTENDS Integers

CONSTANTS LaneCount,      \* LANE_COUNT
          LockDelay,      \* LANE_LOCK_DELAY_TICKS
          MdioRegs,       \* the registers of is_cmd_bit_register
          MaxBursts       \* bound of the instance

ASSUME SerDesAssumption == /\ LaneCount \in Nat \ {0} /\ LockDelay \in Nat \ {0}
                           /\ MaxBursts \in Nat

Lane == 0 .. LaneCount - 1

VARIABLES
    lanes,               \* SerDes.lanes with lane_lock_countdown
    mdio_busy,           \* bit 31 of each command register
    cmd_pending_clear,   \* SerDes.cmd_pending_clear
    grant_bit,           \* bit 11 of PON_LANE_CONFIG_GRP1
    olt_up, tx_seen,     \* Olt.link_up and real_tx_seen, as the bank asks for them
    bursts               \* history: REGISTER_REQs the burst controller made

serdes_vars == <<lanes, mdio_busy, cmd_pending_clear, grant_bit, olt_up, tx_seen, bursts>>
mdio == <<mdio_busy, cmd_pending_clear>>
burst == <<grant_bit, olt_up, tx_seen, bursts>>

LaneCold == [enabled |-> FALSE, locked |-> FALSE, rx_los |-> FALSE, countdown |-> 0]

serdes_Init == /\ lanes = [l \in Lane |-> LaneCold]
               /\ mdio_busy = [r \in MdioRegs |-> FALSE] /\ cmd_pending_clear = {}
               /\ grant_bit = FALSE /\ olt_up \in BOOLEAN /\ tx_seen = FALSE /\ bursts = 0

(* compute_lane_lock: the lanes the present masks of the two pairs show.   *)
compute_lane_lock == {l \in Lane : lanes[l].locked}

(* REG_PON_LANE_INDEX names one of four lanes, REG_UNI_LANE_INDEX counts   *)
(* from lane 2 on and may name none.                                       *)
WriteLaneIndex ==
    /\ \E i \in 0 .. 3, first \in {0, 2} :
          lanes' = IF first + i \in Lane
                     THEN [lanes EXCEPT ![first + i].enabled = TRUE,
                                        ![first + i].locked = TRUE]
                     ELSE lanes
    /\ UNCHANGED <<mdio, burst>>

(* SerDes::tick *)
LaneTick(s) ==
    IF s.enabled /\ ~s.locked /\ ~s.rx_los
      THEN IF s.countdown + 1 >= LockDelay
             THEN [s EXCEPT !.locked = TRUE, !.countdown = 0]
             ELSE [s EXCEPT !.countdown = @ + 1]
      ELSE IF ~s.enabled \/ s.rx_los THEN [s EXCEPT !.countdown = 0] ELSE s

serdes_tick == /\ lanes' = [l \in Lane |-> LaneTick(lanes[l])]
               /\ UNCHANGED <<mdio, burst>>

(* SerDesEvent, injected by the operator or a scenario.                    *)
SetLaneEnabled == /\ \E l \in Lane, on \in BOOLEAN :
                        lanes' = [lanes EXCEPT ![l].enabled = on, ![l].locked = @ /\ on]
                  /\ UNCHANGED <<mdio, burst>>

SetLinkLocked == /\ \E l \in Lane, on \in BOOLEAN : lanes' = [lanes EXCEPT ![l].locked = on]
                 /\ UNCHANGED <<mdio, burst>>

InjectRxLos == /\ \E l \in Lane, los \in BOOLEAN :
                     lanes' = [lanes EXCEPT ![l].rx_los = los, ![l].locked = @ /\ ~los]
               /\ UNCHANGED <<mdio, burst>>

-----------------------------------------------------------------------------
(* The MDIO command registers.  A word write stores and arms, a word read  *)
(* ends what was armed before it returns; a write of one byte reads the    *)
(* word first and writes the whole of it back.                             *)

WriteMdio == /\ \E r \in MdioRegs, b \in BOOLEAN :
                   /\ mdio_busy' = [mdio_busy EXCEPT ![r] = b]
                   /\ cmd_pending_clear' = IF b THEN cmd_pending_clear \cup {r} ELSE cmd_pending_clear
             /\ UNCHANGED <<lanes, burst>>

Polled(r) == IF r \in cmd_pending_clear THEN FALSE ELSE mdio_busy[r]

ReadMdio == /\ \E r \in MdioRegs : /\ mdio_busy' = [mdio_busy EXCEPT ![r] = Polled(r)]
                                   /\ cmd_pending_clear' = cmd_pending_clear \ {r}
            /\ UNCHANGED <<lanes, burst>>

WriteMdioByte ==
    /\ \E r \in MdioRegs, top \in {{}, {TRUE}, {FALSE}} :
          LET b == IF top = {} THEN Polled(r) ELSE TRUE \in top
          IN  /\ mdio_busy' = [mdio_busy EXCEPT ![r] = b]
              /\ cmd_pending_clear' = IF b THEN cmd_pending_clear \cup {r}
                                           ELSE cmd_pending_clear \ {r}
    /\ UNCHANGED <<lanes, burst>>

-----------------------------------------------------------------------------
(* PeripheralBank::write_word_inner at PON_LANE_CONFIG_GRP1.  The value    *)
(* before the write is asked of peek_word, which SerDes leaves to the      *)
(* trait's default: 0.                                                     *)
peek_grant_bit == FALSE

(* handle_mpcp_burst_trigger *)
handle_mpcp_burst_trigger == bursts' = IF olt_up /\ ~tx_seen THEN bursts + 1 ELSE bursts

WriteGroup1 ==
    /\ bursts < MaxBursts
    /\ grant_bit' \in BOOLEAN
    /\ IF grant_bit' /\ ~peek_grant_bit THEN handle_mpcp_burst_trigger ELSE UNCHANGED bursts
    /\ UNCHANGED <<lanes, mdio, olt_up, tx_seen>>

(* What the OLT port reports meanwhile.                                    *)
OltChanges == /\ \/ olt_up' = ~olt_up /\ UNCHANGED tx_seen
                 \/ tx_seen' = TRUE /\ UNCHANGED olt_up
              /\ UNCHANGED <<lanes, mdio, grant_bit, bursts>>

(* SerDes::reset_cold, reset_warm: the same, with the power-on values.     *)
serdes_reset == /\ lanes' = [l \in Lane |-> LaneCold]
                /\ mdio_busy' = [r \in MdioRegs |-> FALSE] /\ cmd_pending_clear' = {}
                /\ grant_bit' = FALSE
                /\ UNCHANGED <<olt_up, tx_seen, bursts>>

LaneNext == \/ WriteLaneIndex \/ serdes_tick \/ SetLaneEnabled \/ SetLinkLocked
            \/ InjectRxLos
WordNext == WriteMdio \/ ReadMdio \/ WriteMdioByte \/ WriteGroup1 \/ OltChanges
serdes_Next == LaneNext \/ WordNext \/ serdes_reset

-----------------------------------------------------------------------------
(* The burst controller sends when the firmware raises bit 11, once per    *)
(* pulse: "the firmware pulsed bit 11 of PON_LANE_CONFIG_GRP1".            *)
BurstOnPulse == [][bursts' # bursts => ~grant_bit /\ grant_bit']_serdes_vars

=============================================================================
