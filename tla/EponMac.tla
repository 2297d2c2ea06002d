------------------------------- MODULE EponMac -------------------------------
(***************************************************************************)
(* The LLID tables and the queue counters of the MAC (epon_mac.rs) as the  *)
(* bank shares them between the firmware and the OLT port (bank.rs,        *)
(* olt/mod.rs).  Two anchor words hold, in their low half, the LLID the    *)
(* MAC listens to.  The firmware writes them; the peer's REGISTER writes   *)
(* them through a bank tick; and while a session is up the bank puts the   *)
(* peer's LLID into whatever the firmware writes.                          *)
(***************************************************************************)
EXTENDS Integers

CONSTANTS Llids,          \* LLIDs the operator may configure, 0 not among them
          FreeLlid,       \* 0x7FFE, the power-on value
          Queues,         \* queues of one slot
          MaxArrivals     \* bound of the instance

ASSUME EponAssumption == /\ Llids \subseteq Nat \ {0} /\ FreeLlid \in Nat \ {0}
                         /\ MaxArrivals \in Nat

Anchors == {"tx", "rx"}    \* 0x0100043C and 0x01000D00
None == -1

VARIABLES
    anchor,                \* [hi, lo] of each anchor word
    session,               \* Olt::mpcp_state # Idle
    assigned_llid,         \* OltPeer.assigned_llid
    llid_start,            \* OltConfig.llid_start
    session_llids,         \* history: the LLIDs the peer used since this session's REGISTER
    arrivals,              \* EponMac.queue_arrivals of one slot
    latched_queue,         \* the queue latch_cmd selects
    llid_drain_flag,
    counter_read           \* what the firmware read last at +0x1D8, or None

epon_vars == <<anchor, session, assigned_llid, llid_start, session_llids,
               arrivals, latched_queue, llid_drain_flag, counter_read>>
peer == <<session, assigned_llid, llid_start, session_llids>>
queues == <<arrivals, latched_queue, llid_drain_flag, counter_read>>

epon_Init ==
    /\ anchor = [a \in Anchors |-> [hi |-> 1, lo |-> FreeLlid]]
    /\ session = FALSE /\ llid_start \in Llids /\ assigned_llid = llid_start
    /\ session_llids = {}
    /\ arrivals = [q \in Queues |-> 0] /\ latched_queue \in Queues
    /\ llid_drain_flag = TRUE /\ counter_read = None

(* EponMac::write_word at an anchor: bit 0 never sticks.                   *)
EvenLlid(lo) == lo - (lo % 2)

(* PeripheralBank::write_word_inner at an anchor.                          *)
WriteAnchor(a, hi, lo) ==
    anchor' = [anchor EXCEPT ![a] =
                  [hi |-> hi, lo |-> IF session /\ ~(hi = 0 /\ lo = 0) THEN assigned_llid
                                     ELSE EvenLlid(lo)]]

WriteAnchorWord == /\ \E a \in Anchors, hi \in {0, 1}, lo \in {0, FreeLlid} \cup Llids :
                         WriteAnchor(a, hi, lo)
                   /\ UNCHANGED <<peer, queues>>

(* The peer starts discovery and registers the ONU (Peer.tla has the whole *)
(* of it); Idle again when the line goes down or the ONU leaves.           *)
SessionStarts == /\ ~session /\ session' = TRUE
                 /\ UNCHANGED <<anchor, assigned_llid, llid_start, session_llids, queues>>

SessionEnds == /\ session /\ session' = FALSE /\ session_llids' = {}
               /\ UNCHANGED <<anchor, assigned_llid, llid_start, queues>>

UsedSince(llid) == IF session_llids = {} THEN {} ELSE session_llids \cup {llid}

(* The MCP tool and set_assigned_llid, between two ticks.                  *)
ConfigureLlid == /\ \E l \in Llids : /\ llid_start' = l
                                     /\ assigned_llid' \in {l, assigned_llid}
                 /\ session_llids' = UsedSince(assigned_llid')
                 /\ UNCHANGED <<anchor, session, queues>>

(* PeripheralBank::tick.  Olt::tick first hands the configured LLID to the *)
(* peer; if the peer then registers the ONU, the assignment is taken in    *)
(* the same tick and put into the low halves.  The tick also raises the    *)
(* drain flags and books frames that reached the mailbox on their queues.  *)
epon_tick ==
    /\ assigned_llid' = llid_start
    /\ \E registers \in BOOLEAN :
          /\ registers => session
          /\ anchor' = IF registers THEN [a \in Anchors |-> [anchor[a] EXCEPT !.lo = llid_start]]
                                    ELSE anchor
          /\ session_llids' = IF registers THEN {llid_start} ELSE UsedSince(llid_start)
    /\ \E q \in Queues, n \in 0 .. 1 :
          /\ arrivals[q] + n <= MaxArrivals
          /\ arrivals' = [arrivals EXCEPT ![q] = @ + n]
    /\ llid_drain_flag' = TRUE
    /\ UNCHANGED <<session, llid_start, latched_queue, counter_read>>

(* write_latch_cmd at +0x1D4, latched_counter at +0x1D8: the count is the  *)
(* one at the time of the read, not of the latch.                          *)
LatchQueue == /\ latched_queue' \in Queues /\ counter_read' = None
              /\ UNCHANGED <<anchor, peer, arrivals, llid_drain_flag>>

ReadCounter == /\ counter_read' = arrivals[latched_queue]
               /\ UNCHANGED <<anchor, peer, arrivals, latched_queue, llid_drain_flag>>

(* A write at +0x3C with bit 8 asks for a drain, which the next tick ends. *)
StartDrain == /\ llid_drain_flag' = FALSE
              /\ UNCHANGED <<anchor, peer, arrivals, latched_queue, counter_read>>

(* EponMac::reset_cold with Olt::reset_cold, which keeps the configuration.*)
epon_reset ==
    /\ anchor' = [a \in Anchors |-> [hi |-> 1, lo |-> FreeLlid]]
    /\ session' = FALSE /\ assigned_llid' = llid_start
    /\ session_llids' = {}
    /\ arrivals' = [q \in Queues |-> 0] /\ latched_queue' \in Queues
    /\ llid_drain_flag' = TRUE /\ counter_read' = None
    /\ UNCHANGED llid_start

epon_Next == \/ WriteAnchorWord \/ SessionStarts \/ SessionEnds \/ ConfigureLlid
             \/ epon_tick \/ LatchQueue \/ ReadCounter \/ StartDrain \/ epon_reset

-----------------------------------------------------------------------------
(* From the REGISTER of a session on the MAC listens to an LLID the peer   *)
(* has used in it, on both anchors, whatever words the firmware writes     *)
(* over them and whatever it wrote before.  Only a word of zeros gets      *)
(* through.                                                                *)
LlidIsEnforced ==
    session_llids # {} =>
        \A a \in Anchors : \/ anchor[a] = [hi |-> 0, lo |-> 0]
                           \/ anchor[a].lo \in session_llids

(* ... because LLIDs are only counted in a session, and the one the peer   *)
(* uses is among them.                                                     *)
LlidInv == /\ anchor \in [Anchors -> [hi : {0, 1}, lo : Nat]] /\ session \in BOOLEAN
           /\ session_llids # {} => session /\ assigned_llid \in session_llids
           /\ LlidIsEnforced
           /\ assigned_llid \in Llids /\ llid_start \in Llids
=============================================================================
