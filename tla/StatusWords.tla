---------------------------- MODULE StatusWords ----------------------------
(***************************************************************************)
(* Registers whose bits the hardware sets and the firmware acknowledges by *)
(* writing ones (W1C): the link, PHY and discovery words and the per-slot  *)
(* interrupt words of the MAC (epon_mac.rs), the fatal filter              *)
(* (fatal_filter.rs) and the DMA master status of the bank (bank.rs), with *)
(* the part of PeripheralBank::tick that sets them from the OLT port.  One *)
(* register is looked at at a time; `which` names it.                      *)
(*                                                                         *)
(* The firmware polls: it reads the word and acknowledges what it read.    *)
(* Bits are numbered as in the code; where any bit may be set, two bits of *)
(* different bytes stand for all.                                          *)
(***************************************************************************)
EXTENDS Integers

StatusRegs == {"link_status_1g", "hw_state_status", "discovery_status",
               "llid_irq_pending", "fatal_status", "dma_master_status"}
Latched == StatusRegs \ {"hw_state_status"}    \* not lowered by the hardware itself

VARIABLES
    which,
    status_word,       \* the register
    seen,              \* what the firmware read last and may acknowledge
    unseen,            \* history: bits raised since that read
    line_up,           \* Olt.link_up
    gate_sent,         \* Olt::has_broadcast_gate
    link_change_pending

status_vars == <<which, status_word, seen, unseen, line_up, gate_sent, link_change_pending>>
olt_side == <<line_up, gate_sent, link_change_pending>>

status_Init == /\ which \in StatusRegs
               /\ status_word = {} /\ seen = {} /\ unseen = {}
               /\ line_up = FALSE /\ gate_sent = FALSE /\ link_change_pending = FALSE

Raised(bits) == /\ status_word' = status_word \cup bits
                /\ unseen' = unseen \cup bits

(* PeripheralBank::tick: a change of the line sets bit 1 of the 1G word    *)
(* and bit 2 of the discovery word, a line that is up sets the latter on   *)
(* every tick; bit 6 of the PHY word follows the line, from the first GATE *)
(* on.  New mailbox frames set bit 27 of the DMA word.                     *)
status_tick ==
    /\ link_change_pending' = FALSE
    /\ \/ /\ which = "link_status_1g"
          /\ Raised(IF link_change_pending THEN {1} ELSE {})
       \/ /\ which = "discovery_status"
          /\ Raised(IF link_change_pending \/ line_up THEN {2} ELSE {})
       \/ /\ which = "hw_state_status"
          /\ IF line_up THEN Raised(IF gate_sent THEN {6} ELSE {})
                        ELSE status_word' = status_word \ {6} /\ unseen' = {}
       \/ /\ which = "dma_master_status"
          /\ \E loaded \in BOOLEAN : Raised(IF loaded THEN {27} ELSE {})
       \/ /\ which \in {"llid_irq_pending", "fatal_status"}
          /\ UNCHANGED <<status_word, unseen>>
    /\ UNCHANGED <<which, seen, line_up, gate_sent>>

(* EponEvent::InjectLlidInterrupt, FatalFilterEvent::InjectFatal           *)
InjectStatus == /\ which \in {"llid_irq_pending", "fatal_status"}
                /\ \E b \in {3, 17} : Raised({b})
                /\ UNCHANGED <<which, seen, olt_side>>

(* FatalFilterEvent::ClearFatal, from the operator.                        *)
ClearFatal == /\ which = "fatal_status"
              /\ status_word' = {} /\ unseen' = {}
              /\ UNCHANGED <<which, seen, olt_side>>

ReadStatus == /\ seen' = status_word /\ unseen' = {}
              /\ UNCHANGED <<which, status_word, olt_side>>

(* A slip: the write that takes the whole register down.                 *)
w1c_all(old, val) == IF which = "discovery_status" THEN val \ {1, 2} ELSE {}

(* write_word: ones clear; in the discovery word that is so for bits 1 and *)
(* 2, the others can only be set.                                           *)
w1c(old, val) == IF which = "discovery_status"
                   THEN (old \ (val \cap {1, 2})) \cup (val \ {1, 2})
                   ELSE old \ val

Acknowledge == /\ \E extra \in SUBSET {0} :
                     status_word' = w1c(status_word, seen \cup extra)
               /\ UNCHANGED <<which, seen, unseen, olt_side>>

(* Olt::set_link_up, and a first GATE.                                     *)
LineChanges == /\ \/ line_up' = ~line_up /\ link_change_pending' = TRUE /\ UNCHANGED gate_sent
                  \/ line_up /\ gate_sent' = TRUE /\ UNCHANGED <<line_up, link_change_pending>>
               /\ UNCHANGED <<which, status_word, seen, unseen>>

(* Both resets clear the words; the warm one leaves the DMA word.          *)
status_reset == /\ \/ /\ status_word' = {} /\ unseen' = {} /\ seen' = {}
                   \/ /\ which = "dma_master_status" /\ UNCHANGED <<status_word, unseen, seen>>
                /\ line_up' = FALSE /\ gate_sent' = FALSE /\ link_change_pending' = FALSE
                /\ UNCHANGED which

status_Next == \/ status_tick \/ InjectStatus \/ ClearFatal \/ ReadStatus
               \/ Acknowledge \/ LineChanges \/ status_reset

-----------------------------------------------------------------------------
(* An acknowledgement takes away what the firmware has read and nothing    *)
(* that arrived after: a bit the hardware latched stays until it is read.  *)
(* (A bit raised again between read and acknowledgement is one with the    *)
(* bit that was read, and goes with it.)                                   *)
AcksLoseNothing == which \in Latched => unseen \ seen \subseteq status_word

(* ... which is so because what the hardware latches is never bit 0, the   *)
(* one an acknowledgement may add.                                         *)
StatusInv == /\ which \in StatusRegs /\ 0 \notin unseen
             /\ which = "discovery_status" => unseen \subseteq {2}
             /\ AcksLoseNothing
=============================================================================
