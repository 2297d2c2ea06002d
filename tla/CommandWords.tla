---------------------------- MODULE CommandWords ----------------------------
(***************************************************************************)
(* Registers with command bits that clear themselves: the DMA channels     *)
(* (dma.rs), the eFuse port (efuse_udr.rs) and the MACsec block            *)
(* (macsec.rs), with the byte and half-word accesses of the Peripheral     *)
(* trait (peripheral.rs), which read and write the whole word.  A word is  *)
(* the set of its bits that are 1; one word is looked at at a time, and    *)
(* `block` says which.                                                     *)
(***************************************************************************)
EXTENDS Integers, FiniteSets

CONSTANTS MaxToggles      \* bound of the instance

ASSUME CommandAssumption == MaxToggles \in Nat

Blocks == {"dma", "dma_drain", "efuse_clk", "efuse_sda", "efuse_scl", "macsec",
           "macsec_plain", "macsec_fatal"}

(* Bits 0, 4, 8 and 15 mean something to some block; 27 and 31 are command *)
(* bits; a byte or half access reaches one of these parts of the word.     *)
WordBits == {0, 4, 8, 15, 27, 31}
Words == SUBSET WordBits
Parts == {{0, 4}, {8, 15}, {27, 31}, {0, 4, 8, 15}}

VARIABLES
    block,           \* which register the instance is about
    reg,             \* its stored word
    pending_clear,   \* the command bits the next read takes away
    drain_flag,      \* DmaChannelController.drain_flag of its channel
    clock_toggles    \* EfuseUdr.clock_toggles

cmd_vars == <<block, reg, pending_clear, drain_flag, clock_toggles>>

(* The bits that clear themselves: CMD_BIT_MASK, or CMD_BIT of the one     *)
(* register in CMD_REGS.                                                   *)
cmd_bits(b) == CASE b \in {"dma", "efuse_clk", "efuse_sda", "efuse_scl"} -> {27, 31}
                 [] b = "macsec" -> {31}
                 [] OTHER -> {}

(* apply_silicon_power_on: some registers start with command bits that no  *)
(* write has armed.                                                        *)
PowerOn(b) == CASE b = "efuse_clk" -> {{0, 27}}
                [] b = "efuse_sda" -> {{31}}
                [] b = "macsec_plain" -> {{}, {27}}
                [] OTHER -> {{}}

cmd_Init == /\ block \in Blocks
            /\ reg \in PowerOn(block)
            /\ pending_clear = {} /\ drain_flag = TRUE /\ clock_toggles = 0

(* What a word read returns: the word from before it clears anything.      *)
ReadValue ==
    CASE block = "dma_drain" -> (reg \ {8}) \cup (IF drain_flag THEN {8} ELSE {})
      [] block = "efuse_sda" -> IF 4 \in reg THEN reg \ {31} ELSE reg \cup {31}
      [] block = "efuse_scl" -> reg \cup {31}
      [] block = "macsec_fatal" -> {}
      [] OTHER -> reg

AfterRead == reg \ pending_clear

cmd_read_word ==
    /\ reg' = AfterRead /\ pending_clear' = {}
    /\ UNCHANGED <<block, drain_flag, clock_toggles>>

(* write_word of the block, over a word that is `old` and armed for        *)
(* `armed` when it comes.                                                  *)
Written(old, armed, val) ==
    /\ reg' = IF block = "macsec_fatal" THEN old
              ELSE IF block = "dma_drain" THEN val \ {8} ELSE val
    /\ pending_clear' = IF val \cap cmd_bits(block) # {} THEN val \cap cmd_bits(block) ELSE armed
    /\ drain_flag' = (drain_flag /\ ~(block = "dma_drain" /\ 8 \in val))
    /\ clock_toggles' = IF block = "efuse_scl" /\ 0 \in val /\ 0 \notin old
                          THEN clock_toggles + 1
                        ELSE IF block = "efuse_clk" /\ 15 \in val /\ 15 \notin old
                          THEN 0 ELSE clock_toggles
    /\ UNCHANGED block

cmd_write_word == /\ clock_toggles < MaxToggles
                  /\ \E val \in Words : Written(reg, pending_clear, val)

(* Peripheral::write_byte, write_half: a read of the word, with all that a *)
(* read does, and a write of the word it returned with one part replaced.  *)
cmd_write_part ==
    /\ clock_toggles < MaxToggles
    /\ \E part \in Parts : \E bits \in SUBSET part :
          Written(AfterRead, {}, (ReadValue \ part) \cup bits)

(* DmaChannelController::tick; DmaEvent::InjectQueueEntry does the same.   *)
cmd_tick == /\ drain_flag' = TRUE
            /\ UNCHANGED <<block, reg, pending_clear, clock_toggles>>

(* MacsecEvent::ResetSaTable *)
ResetSaTable == /\ block \in {"macsec", "macsec_plain"}
                /\ reg' = {} /\ pending_clear' = {}
                /\ UNCHANGED <<block, drain_flag, clock_toggles>>

cmd_reset == /\ reg' \in PowerOn(block)
             /\ pending_clear' = {} /\ drain_flag' = TRUE /\ clock_toggles' = 0
             /\ UNCHANGED block

cmd_Next == \/ cmd_read_word \/ cmd_write_word \/ cmd_write_part
            \/ cmd_tick \/ ResetSaTable \/ cmd_reset

-----------------------------------------------------------------------------
(* A command bit that shows is one that the next read clears, so the       *)
(* firmware's busy loop on it ends: none is ever left behind by a second   *)
(* command, by a byte access or by a reset.  Power-on values are excepted, *)
(* and a word of the drain register, whose bits never clear.               *)
CommandBitsEnd ==
    \/ reg \cap cmd_bits(block) \subseteq pending_clear
    \/ reg \in PowerOn(block)

(* ... with nothing armed that is not a command bit.                       *)
CommandInv == block \in Blocks /\ pending_clear \subseteq cmd_bits(block) /\ CommandBitsEnd
=============================================================================
