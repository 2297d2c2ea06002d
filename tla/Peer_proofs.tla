------------------------------- MODULE Peer_proofs -------------------------------
(***************************************************************************)
(* Safety of the peer, proved for any ONUs, LLIDs, intervals and number of *)
(* requests.  PeerInv is inductive as it stands: each of its parts ties a  *)
(* piece of protocol state to the timer that will move it on, and each     *)
(* handler changes both sides together.                                    *)
(*                                                                         *)
(* Then safety of the link: the peer and the ONU responder together, with  *)
(* the frames between them, for any line, turn of the loop and delays: the *)
(* two ends agree, a registration lives as long as it should, and a        *)
(* responder without an LLID has one again in time.                        *)
(***************************************************************************)
EXTENDS Link, TLAPS, WellFoundedInduction

USE PeerAssumption, EvaluatingPdusAssumption DEF PeerAssumption, EvaluatingPdusAssumption

\* OAM discovery: every operator maps a discovery record to one.
LEMMA EnterType ==
    ASSUME NEW d \in Discovery, NEW state \in DiscoveryState
    PROVE  enter(d, state) \in Discovery
<1>1. [d EXCEPT !.state = state] \in Discovery
      BY DEF Discovery
<1>2. \A e \in Discovery : [e EXCEPT !.sent = 0] \in Discovery
      BY DEF Discovery
<1>3. [d EXCEPT !.state = state, !.sent = 0] \in Discovery
      BY <1>1, <1>2
<1> QED BY <1>3 DEF enter

\* Settling keeps the record well formed.
LEMMA SettleType ==
    ASSUME NEW d \in Discovery PROVE settle_if_evaluated(d) \in Discovery
BY EnterType DEF settle_if_evaluated, DiscoveryState

\* Recording a PDU sent keeps the record well formed.
LEMMA OnSentType == ASSUME NEW d \in Discovery PROVE on_sent(d) \in Discovery
<1> DEFINE e == [d EXCEPT !.sent = IF @ < EvaluatingPdus THEN @ + 1 ELSE @]
<1>1. e \in Discovery
      BY DEF Discovery
<1> QED BY <1>1, SettleType DEF on_sent

\* The start of discovery is well formed and not converged.
LEMMA DefaultType == DefaultDiscovery \in Discovery /\ DefaultDiscovery.state # "Converged"
<1>1. NoPeer \in [local_evaluating : BOOLEAN, local_stable : BOOLEAN]
      BY DEF NoPeer
<1>2. 0 \in 0..EvaluatingPdus
      OBVIOUS
<1> QED BY <1>1, <1>2 DEF DefaultDiscovery, Discovery, DiscoveryState

\* Recording the peer's flags keeps the record well formed.
LEMMA OnPeerFlagsType ==
    ASSUME NEW d \in Discovery, NEW f \in Flags PROVE on_peer_flags(d, f) \in Discovery
<1> DEFINE e == [d EXCEPT !.peer = [local_evaluating |-> f.local_evaluating,
                                    local_stable     |-> f.local_stable]]
<1>1. e \in Discovery
      BY DEF Discovery, Flags
<1>2. settle_if_evaluated(e) \in Discovery
      BY <1>1, SettleType
<1>3. ASSUME NEW g \in Discovery PROVE Converge(g, f) \in Discovery
      BY <1>3, EnterType DEF Converge, DiscoveryState
<1>4. DefaultDiscovery \in Discovery
      BY DefaultType
<1> QED BY <1>2, <1>3, <1>4 DEF on_peer_flags

\* So does an Information OAMPDU.
LEMMA OnPeerInformationType ==
    ASSUME NEW d \in Discovery, NEW f \in Flags PROVE on_peer_information(d, f) \in Discovery
<1>1. [d EXCEPT !.peer_described_itself = TRUE] \in Discovery
      BY DEF Discovery
<1> QED BY <1>1, OnPeerFlagsType DEF on_peer_information

--------------------------------------------------------------------------------
\* A single frame is a sequence of frames.
LEMMA OneFrame ==
    ASSUME TypePlain,
           NEW kind \in {"GATE", "NORMAL_GATE", "INFO", "REGISTER", "DEREGISTER", "OTHER"}
    PROVE  <<Frame(kind)>> \in Seq(Emitted) /\ <<Register(kind)>> \in Seq(Emitted)
<1>1. Frame(kind) \in Emitted /\ Register(kind) \in Emitted
      BY DEF TypePlain, Emitted, Frame, Register
<1> QED BY <1>1

\* The peer starts in the invariant.
LEMMA InitPeerInv == Init => PeerInv
<1> SUFFICES ASSUME Init PROVE PeerInv
    OBVIOUS
<1>2. TypePlain
  <2>1. mpcp_state \in MpcpState /\ emitted \in Seq(Emitted)
        BY DEF Init, MpcpState
  <2> QED BY <2>1 DEF Init, TypePlain
<1> USE DEF Init, Off, None, Timer, Bucket
<1>1. TypeTimed
      BY DefaultType DEF TypeTimed
<1>3. Scheduled
  <2>1. LifetimeIsThisRegistrations /\ RegisteredIsServed /\ AcceptedIsScheduled
        BY DEF LifetimeIsThisRegistrations, RegisteredIsServed, AcceptedIsScheduled
  <2>2. SilenceIsScheduled /\ TrafficFollowsLink
        BY DEF SilenceIsScheduled, TrafficFollowsLink, Armed
  <2>3. RotationFollowsDiscovery
        BY DefaultType DEF RotationFollowsDiscovery, Armed
  <2> QED BY <2>1, <2>2, <2>3 DEF Scheduled
<1>4. Accounted
      BY DEF Accounted, RequestsAccountedFor, HandshakesAreNotReused
<1> QED BY <1>1, <1>2, <1>3, <1>4 DEF PeerInv

\* A handler that leaves the timers and the protocol state alone keeps the invariant.
LEMMA Untouched ==
    ASSUME PeerInv, UNCHANGED <<due, link_up, discovery, counters, protocol>>, TypePlain'
    PROVE  PeerInv'
<1> USE DEF protocol
<1>1. TypeTimed'
      BY DEF PeerInv, TypeTimed
<1>2. Scheduled'
      BY DEF PeerInv, Scheduled, LifetimeIsThisRegistrations, RegisteredIsServed, SilenceIsScheduled,
         AcceptedIsScheduled, RotationFollowsDiscovery, TrafficFollowsLink, Armed
<1>3. Accounted'
      BY DEF PeerInv, Accounted, RequestsAccountedFor, HandshakesAreNotReused
<1> QED BY <1>1, <1>2, <1>3 DEF PeerInv

\* Time passing brings every armed timer closer by one and ages the registration by one.
LEMMA ElapseInv == ASSUME PeerInv, Elapse PROVE PeerInv'
<1> USE DEF Off, None, host, history
<1>1. \A t \in Timer : due'[t] = IF due[t] = Off THEN Off ELSE due[t] - 1
      BY DEF Elapse
<1>2. \A t \in Timer : due[t] \in Nat \cup {Off} /\ due[t] # 0
      BY DEF PeerInv, TypeTimed, Elapse, NothingDue
<1>3. TypeTimed'
      BY <1>2 DEF PeerInv, Elapse, TypeTimed, Older
<1>4. TypePlain'
      BY DEF PeerInv, Elapse, TypePlain
<1>5. Scheduled'
  <2>1. LifetimeIsThisRegistrations'
        BY <1>1, <1>2 DEF PeerInv, Scheduled, TypeTimed, LifetimeIsThisRegistrations, Elapse, Older, Armed, Timer
  <2>2. RegisteredIsServed' /\ AcceptedIsScheduled'
        BY <1>1, <1>2 DEF PeerInv, Scheduled, TypeTimed, RegisteredIsServed, AcceptedIsScheduled, Elapse, Older, Timer
  <2>3. \A t \in Timer : Armed(t)' <=> Armed(t)
        BY <1>1, <1>2 DEF Armed
  <2>4. SilenceIsScheduled' /\ RotationFollowsDiscovery' /\ TrafficFollowsLink'
        BY <2>3 DEF PeerInv, Scheduled, SilenceIsScheduled, RotationFollowsDiscovery,
           TrafficFollowsLink, Timer, Elapse
  <2> QED BY <2>1, <2>2, <2>4 DEF Scheduled
<1>6. Accounted'
      BY DEF PeerInv, Accounted, RequestsAccountedFor, HandshakesAreNotReused, Elapse, Older, TypeTimed
<1> QED BY <1>3, <1>4, <1>5, <1>6 DEF PeerInv

\* Counting a request seen in one more bucket keeps
\* the counters numbers, the ledger of requests balanced and the handshakes' own counts.
LEMMA CountLedger ==
    ASSUME NEW b \in {"accepted", "link_settling", "in_flight", "window_passed", "deregister"},
           PeerInv, Count(b)
    PROVE  /\ counters' \in [Bucket -> Nat]
           /\ RequestsAccountedFor'
           /\ counters'["registrations"] = counters["registrations"]
           /\ counters'["deregistrations"] = counters["deregistrations"]
           /\ counters'["accepted"] = counters["accepted"] + (IF b = "accepted" THEN 1 ELSE 0)
<1> USE DEF PeerInv, TypeTimed, Count, Bucket
<1>1. counters' \in [Bucket -> Nat]
      OBVIOUS
<1>2. ASSUME NEW c \in Bucket
      PROVE  counters'[c] = counters[c] + (IF c = "seen" \/ c = b THEN 1 ELSE 0)
      BY <1>2
<1>3. \A c \in Bucket : counters[c] \in Nat
      OBVIOUS
<1>4. RequestsAccountedFor'
      BY <1>2, <1>3 DEF Accounted, RequestsAccountedFor
<1> QED BY <1>1, <1>2, <1>3, <1>4

\* The counters are numbers.
LEMMA CountedNats == ASSUME PeerInv PROVE \A b \in Bucket : counters[b] \in Nat
BY DEF PeerInv, TypeTimed

\* FireGate re-arms itself.
LEMMA FireGateInv == ASSUME PeerInv, FireGate PROVE PeerInv'
<1> USE DEF Off, None, protocol, host, history
<1>1. TypeTimed'
      BY DEF PeerInv, TypeTimed, FireGate, Bucket
<1>2. TypePlain'
  <2>1. emitted' \in Seq(Emitted)
        BY OneFrame DEF PeerInv, FireGate
  <2>2. mpcp_state' \in MpcpState
        BY DEF PeerInv, TypePlain, MpcpState, FireGate
  <2> QED BY <2>1, <2>2 DEF PeerInv, TypePlain, FireGate
<1>3. Scheduled'
  <2> USE DEF PeerInv, Scheduled, TypeTimed, TypePlain, Timer, Armed, FireGate
  <2>1. LifetimeIsThisRegistrations'
        BY DEF LifetimeIsThisRegistrations, RegisteredIsServed, SilenceIsScheduled
  <2>2. RegisteredIsServed'
        BY DEF RegisteredIsServed
  <2>3. SilenceIsScheduled'
        BY DEF SilenceIsScheduled, RegisteredIsServed
  <2>4. AcceptedIsScheduled'
        BY DEF AcceptedIsScheduled, SilenceIsScheduled
  <2>5. RotationFollowsDiscovery'
        BY DEF RotationFollowsDiscovery
  <2>6. TrafficFollowsLink'
        BY DEF TrafficFollowsLink
  <2> QED BY <2>1, <2>2, <2>3, <2>4, <2>5, <2>6
<1>4. Accounted'
      BY DEF PeerInv, TypeTimed, Scheduled, RegisteredIsServed, Accounted,
         RequestsAccountedFor, HandshakesAreNotReused, Bucket, FireGate
<1> QED BY <1>1, <1>2, <1>3, <1>4 DEF PeerInv

\* FireNormalGate re-arms itself while registered.
LEMMA FireNormalGateInv == ASSUME PeerInv, FireNormalGate PROVE PeerInv'
<1> USE DEF Off, None, protocol, host, history
<1>1. TypeTimed'
      BY DEF PeerInv, TypeTimed, FireNormalGate, Bucket
<1>2. TypePlain'
  <2>0. <<>> \in Seq(Emitted) /\ <<Frame("NORMAL_GATE")>> \in Seq(Emitted)
        BY OneFrame DEF PeerInv
  <2>1. emitted' \in Seq(Emitted)
        BY <2>0 DEF FireNormalGate
  <2>2. mpcp_state' \in MpcpState
        BY DEF PeerInv, TypePlain, MpcpState, FireNormalGate
  <2> QED BY <2>1, <2>2 DEF PeerInv, TypePlain, FireNormalGate
<1>3. Scheduled'
  <2> USE DEF PeerInv, Scheduled, TypeTimed, TypePlain, Timer, Armed, FireNormalGate
  <2>1. LifetimeIsThisRegistrations'
        BY DEF LifetimeIsThisRegistrations, RegisteredIsServed, SilenceIsScheduled
  <2>2. RegisteredIsServed'
        BY DEF RegisteredIsServed
  <2>3. SilenceIsScheduled'
        BY DEF SilenceIsScheduled, RegisteredIsServed
  <2>4. AcceptedIsScheduled'
        BY DEF AcceptedIsScheduled, SilenceIsScheduled
  <2>5. RotationFollowsDiscovery'
        BY DEF RotationFollowsDiscovery
  <2>6. TrafficFollowsLink'
        BY DEF TrafficFollowsLink
  <2> QED BY <2>1, <2>2, <2>3, <2>4, <2>5, <2>6
<1>4. Accounted'
      BY DEF PeerInv, TypeTimed, Scheduled, RegisteredIsServed, Accounted,
         RequestsAccountedFor, HandshakesAreNotReused, Bucket, FireNormalGate
<1> QED BY <1>1, <1>2, <1>3, <1>4 DEF PeerInv

\* FireAttributePoll re-arms itself.
LEMMA FireAttributePollInv == ASSUME PeerInv, FireAttributePoll PROVE PeerInv'
<1> USE DEF Off, None, protocol, host, history
<1>1. TypeTimed'
      BY DEF PeerInv, TypeTimed, FireAttributePoll, Bucket
<1>2. TypePlain'
  <2>1. emitted' \in Seq(Emitted)
        BY OneFrame DEF PeerInv, FireAttributePoll
  <2>2. mpcp_state' \in MpcpState
        BY DEF PeerInv, TypePlain, MpcpState, FireAttributePoll
  <2> QED BY <2>1, <2>2 DEF PeerInv, TypePlain, FireAttributePoll
<1>3. Scheduled'
  <2> USE DEF PeerInv, Scheduled, TypeTimed, TypePlain, Timer, Armed, FireAttributePoll
  <2>1. LifetimeIsThisRegistrations'
        BY DEF LifetimeIsThisRegistrations, RegisteredIsServed, SilenceIsScheduled
  <2>2. RegisteredIsServed'
        BY DEF RegisteredIsServed
  <2>3. SilenceIsScheduled'
        BY DEF SilenceIsScheduled, RegisteredIsServed
  <2>4. AcceptedIsScheduled'
        BY DEF AcceptedIsScheduled, SilenceIsScheduled
  <2>5. RotationFollowsDiscovery'
        BY DEF RotationFollowsDiscovery
  <2>6. TrafficFollowsLink'
        BY DEF TrafficFollowsLink
  <2> QED BY <2>1, <2>2, <2>3, <2>4, <2>5, <2>6
<1>4. Accounted'
      BY DEF PeerInv, TypeTimed, Scheduled, RegisteredIsServed, Accounted,
         RequestsAccountedFor, HandshakesAreNotReused, Bucket, FireAttributePoll
<1> QED BY <1>1, <1>2, <1>3, <1>4 DEF PeerInv

\* FireRegisterResponse moves an accepted request on to WaitAck.
LEMMA FireRegisterResponseInv == ASSUME PeerInv, FireRegisterResponse PROVE PeerInv'
<1> USE DEF Off, None, protocol, host, history
<1>1. TypeTimed'
      BY DEF PeerInv, TypeTimed, FireRegisterResponse, Bucket
<1>2. TypePlain'
  <2>0. <<>> \in Seq(Emitted) /\ <<Register("REGISTER")>> \in Seq(Emitted)
        BY OneFrame DEF PeerInv
  <2>1. emitted' \in Seq(Emitted)
        BY <2>0 DEF FireRegisterResponse
  <2>2. mpcp_state' \in MpcpState
        BY DEF PeerInv, TypePlain, MpcpState, FireRegisterResponse
  <2> QED BY <2>1, <2>2 DEF PeerInv, TypePlain, FireRegisterResponse
<1>3. Scheduled'
  <2> USE DEF PeerInv, Scheduled, TypeTimed, TypePlain, Timer, Armed, FireRegisterResponse
  <2>1. LifetimeIsThisRegistrations'
        BY DEF LifetimeIsThisRegistrations, RegisteredIsServed, SilenceIsScheduled
  <2>2. RegisteredIsServed'
        BY DEF RegisteredIsServed
  <2>3. SilenceIsScheduled'
        BY DEF SilenceIsScheduled, RegisteredIsServed
  <2>4. AcceptedIsScheduled'
        BY DEF AcceptedIsScheduled, SilenceIsScheduled
  <2>5. RotationFollowsDiscovery'
        BY DEF RotationFollowsDiscovery
  <2>6. TrafficFollowsLink'
        BY DEF TrafficFollowsLink
  <2> QED BY <2>1, <2>2, <2>3, <2>4, <2>5, <2>6
<1>4. Accounted'
      BY DEF PeerInv, TypeTimed, Scheduled, RegisteredIsServed, Accounted,
         RequestsAccountedFor, HandshakesAreNotReused, Bucket, FireRegisterResponse
<1> QED BY <1>1, <1>2, <1>3, <1>4 DEF PeerInv

\* FireRediscovery ends the silence together with its timer.
LEMMA FireRediscoveryInv == ASSUME PeerInv, FireRediscovery PROVE PeerInv'
<1> USE DEF Off, None, protocol, host, history
<1>1. TypeTimed'
      BY DEF PeerInv, TypeTimed, FireRediscovery, Bucket
<1>2. TypePlain'
  <2>1. emitted' \in Seq(Emitted)
        BY OneFrame DEF PeerInv, FireRediscovery
  <2>2. mpcp_state' \in MpcpState
        BY DEF PeerInv, TypePlain, MpcpState, FireRediscovery
  <2> QED BY <2>1, <2>2 DEF PeerInv, TypePlain, FireRediscovery
<1>3. Scheduled'
  <2> USE DEF PeerInv, Scheduled, TypeTimed, TypePlain, Timer, Armed, FireRediscovery
  <2>1. LifetimeIsThisRegistrations'
        BY DEF LifetimeIsThisRegistrations, RegisteredIsServed, SilenceIsScheduled
  <2>2. RegisteredIsServed'
        BY DEF RegisteredIsServed
  <2>3. SilenceIsScheduled'
        BY DEF SilenceIsScheduled, RegisteredIsServed
  <2>4. AcceptedIsScheduled'
        BY DEF AcceptedIsScheduled, SilenceIsScheduled
  <2>5. RotationFollowsDiscovery'
        BY DEF RotationFollowsDiscovery
  <2>6. TrafficFollowsLink'
        BY DEF TrafficFollowsLink
  <2> QED BY <2>1, <2>2, <2>3, <2>4, <2>5, <2>6
<1>4. Accounted'
      BY DEF PeerInv, TypeTimed, Scheduled, RegisteredIsServed, Accounted,
         RequestsAccountedFor, HandshakesAreNotReused, Bucket, FireRediscovery
<1> QED BY <1>1, <1>2, <1>3, <1>4 DEF PeerInv

\* set_link_up arms the periodic traffic.
LEMMA SetLinkUpInv == ASSUME PeerInv, set_link_up PROVE PeerInv'
<1> USE DEF Off, None, protocol, host, history
<1>1. TypeTimed'
      BY DEF PeerInv, TypeTimed, set_link_up, Bucket
<1>2. TypePlain'
  <2>1. emitted' \in Seq(Emitted)
        BY OneFrame DEF PeerInv, set_link_up
  <2>2. mpcp_state' \in MpcpState
        BY DEF PeerInv, TypePlain, MpcpState, set_link_up
  <2> QED BY <2>1, <2>2 DEF PeerInv, TypePlain, set_link_up
<1>3. Scheduled'
  <2> USE DEF PeerInv, Scheduled, TypeTimed, TypePlain, Timer, Armed, set_link_up
  <2>1. LifetimeIsThisRegistrations'
        BY DEF LifetimeIsThisRegistrations, RegisteredIsServed, SilenceIsScheduled
  <2>2. RegisteredIsServed'
        BY DEF RegisteredIsServed
  <2>3. SilenceIsScheduled'
        BY DEF SilenceIsScheduled, RegisteredIsServed
  <2>4. AcceptedIsScheduled'
        BY DEF AcceptedIsScheduled, SilenceIsScheduled
  <2>5. RotationFollowsDiscovery'
        BY DEF RotationFollowsDiscovery
  <2>6. TrafficFollowsLink'
        BY DEF TrafficFollowsLink
  <2> QED BY <2>1, <2>2, <2>3, <2>4, <2>5, <2>6
<1>4. Accounted'
      BY DEF PeerInv, TypeTimed, Scheduled, RegisteredIsServed, Accounted,
         RequestsAccountedFor, HandshakesAreNotReused, Bucket, set_link_up
<1> QED BY <1>1, <1>2, <1>3, <1>4 DEF PeerInv

\* set_link_down clears the schedule and everything it served.
LEMMA SetLinkDownInv == ASSUME PeerInv, set_link_down PROVE PeerInv'
<1> USE DEF Off, None, protocol, host, history
<1>1. TypeTimed'
      BY DefaultType DEF PeerInv, TypeTimed, set_link_down, Bucket
<1>2. TypePlain'
  <2>1. emitted' \in Seq(Emitted)
        BY OneFrame DEF PeerInv, set_link_down
  <2>2. mpcp_state' \in MpcpState
        BY DEF PeerInv, TypePlain, MpcpState, set_link_down
  <2> QED BY <2>1, <2>2 DEF PeerInv, TypePlain, set_link_down
<1>3. Scheduled'
  <2> USE DEF PeerInv, Scheduled, TypeTimed, TypePlain, Timer, Armed, set_link_down
  <2>1. LifetimeIsThisRegistrations'
        BY DefaultType DEF LifetimeIsThisRegistrations, RegisteredIsServed, SilenceIsScheduled
  <2>2. RegisteredIsServed'
        BY DefaultType DEF RegisteredIsServed
  <2>3. SilenceIsScheduled'
        BY DefaultType DEF SilenceIsScheduled, RegisteredIsServed
  <2>4. AcceptedIsScheduled'
        BY DefaultType DEF AcceptedIsScheduled, SilenceIsScheduled
  <2>5. RotationFollowsDiscovery'
        BY DefaultType DEF RotationFollowsDiscovery
  <2>6. TrafficFollowsLink'
        BY DefaultType DEF TrafficFollowsLink
  <2> QED BY <2>1, <2>2, <2>3, <2>4, <2>5, <2>6
<1>4. Accounted'
      BY DEF PeerInv, TypeTimed, Scheduled, RegisteredIsServed, Accounted,
         RequestsAccountedFor, HandshakesAreNotReused, Bucket, set_link_down
<1> QED BY <1>1, <1>2, <1>3, <1>4 DEF PeerInv

\* rewind_handshake forgets the registration together with its lifetime.
LEMMA RewindInv == ASSUME PeerInv, rewind_handshake PROVE PeerInv'
<1> USE DEF Off, None, protocol, host, history
<1>1. TypeTimed'
      BY DEF PeerInv, TypeTimed, rewind_handshake, Bucket
<1>2. TypePlain'
  <2>1. emitted' \in Seq(Emitted)
        BY OneFrame DEF PeerInv, rewind_handshake
  <2>2. mpcp_state' \in MpcpState
        BY DEF PeerInv, TypePlain, MpcpState, rewind_handshake
  <2> QED BY <2>1, <2>2 DEF PeerInv, TypePlain, rewind_handshake
<1>3. Scheduled'
  <2> USE DEF PeerInv, Scheduled, TypeTimed, TypePlain, Timer, Armed, rewind_handshake
  <2>1. LifetimeIsThisRegistrations'
        BY DEF LifetimeIsThisRegistrations, RegisteredIsServed, SilenceIsScheduled
  <2>2. RegisteredIsServed'
        BY DEF RegisteredIsServed
  <2>3. SilenceIsScheduled'
        BY DEF SilenceIsScheduled, RegisteredIsServed
  <2>4. AcceptedIsScheduled'
        BY DEF AcceptedIsScheduled, SilenceIsScheduled
  <2>5. RotationFollowsDiscovery'
        BY DEF RotationFollowsDiscovery
  <2>6. TrafficFollowsLink'
        BY DEF TrafficFollowsLink
  <2> QED BY <2>1, <2>2, <2>3, <2>4, <2>5, <2>6
<1>4. Accounted'
      BY DEF PeerInv, TypeTimed, Scheduled, RegisteredIsServed, Accounted,
         RequestsAccountedFor, HandshakesAreNotReused, Bucket, rewind_handshake
<1> QED BY <1>1, <1>2, <1>3, <1>4 DEF PeerInv

\* on_register_req schedules the answer of a request it accepts.
LEMMA RegisterReqInv == ASSUME PeerInv, NEW src \in Onu, on_register_req(src) PROVE PeerInv'
<1> USE DEF Off, None, protocol, host, history
<1>0. counters' \in [Bucket -> Nat] /\ Accounted'
  <2>1. CASE register_requests_seen' <= IgnoredRegisterRequests
    <3>1. Count("window_passed") /\ UNCHANGED <<mpcp_state, registered_at>>
          BY <2>1 DEF on_register_req
    <3>2. /\ counters' \in [Bucket -> Nat] /\ RequestsAccountedFor'
          /\ \A b \in {"accepted", "registrations", "deregistrations"} : counters'[b] = counters[b]
          BY <3>1, CountLedger, CountedNats DEF Bucket
    <3> QED BY <3>1, <3>2 DEF PeerInv, Accounted, HandshakesAreNotReused
  <2>2. CASE ~(register_requests_seen' <= IgnoredRegisterRequests)
    <3>1. Count("accepted") /\ mpcp_state = "Idle" /\ mpcp_state' = "Discovery"
          BY <2>2 DEF on_register_req
    <3>2. UNCHANGED registered_at
          BY DEF on_register_req
    <3>3. counters["accepted"] \in Nat /\ counters["registrations"] \in Nat
          BY DEF PeerInv, TypeTimed, Bucket
    <3> QED BY <3>1, <3>2, <3>3, CountLedger DEF PeerInv, Accounted, HandshakesAreNotReused
  <2> QED BY <2>1, <2>2
<1>1. TypeTimed'
      BY <1>0 DEF PeerInv, TypeTimed, on_register_req
<1>2. TypePlain'
  <2>1. emitted' \in Seq(Emitted)
        BY OneFrame DEF PeerInv, on_register_req
  <2>2. mpcp_state' \in MpcpState
        BY DEF PeerInv, TypePlain, MpcpState, on_register_req
  <2> QED BY <2>1, <2>2 DEF PeerInv, TypePlain, on_register_req
<1>3. Scheduled'
  <2> USE DEF PeerInv, Scheduled, TypeTimed, TypePlain, Timer, Armed, on_register_req
  <2>1. LifetimeIsThisRegistrations'
        BY DEF LifetimeIsThisRegistrations, RegisteredIsServed, SilenceIsScheduled
  <2>2. RegisteredIsServed'
        BY DEF RegisteredIsServed
  <2>3. SilenceIsScheduled'
        BY DEF SilenceIsScheduled, RegisteredIsServed
  <2>4. AcceptedIsScheduled'
        BY DEF AcceptedIsScheduled, SilenceIsScheduled
  <2>5. RotationFollowsDiscovery'
        BY DEF RotationFollowsDiscovery
  <2>6. TrafficFollowsLink'
        BY DEF TrafficFollowsLink
  <2> QED BY <2>1, <2>2, <2>3, <2>4, <2>5, <2>6
<1>4. Accounted'
      BY <1>0
<1> QED BY <1>1, <1>2, <1>3, <1>4 DEF PeerInv

\* on_register_req_refused only counts.
LEMMA RegisterReqRefusedInv == ASSUME PeerInv, NEW src \in Onu, on_register_req_refused(src) PROVE PeerInv'
<1> USE DEF Off, None, protocol, host, history
<1>0. counters' \in [Bucket -> Nat] /\ Accounted'
  <2>1. Count("link_settling") \/ Count("in_flight")
        BY DEF on_register_req_refused
  <2>2. UNCHANGED <<mpcp_state, registered_at>>
        BY DEF on_register_req_refused
  <2>3. /\ counters' \in [Bucket -> Nat] /\ RequestsAccountedFor'
        /\ \A b \in {"accepted", "registrations", "deregistrations"} : counters'[b] = counters[b]
    <3>1. CASE Count("link_settling")
          BY <3>1, CountLedger, CountedNats DEF Bucket
    <3>2. CASE Count("in_flight")
          BY <3>2, CountLedger, CountedNats DEF Bucket
    <3> QED BY <2>1, <3>1, <3>2
  <2> QED BY <2>2, <2>3 DEF PeerInv, Accounted, HandshakesAreNotReused
<1>1. TypeTimed'
      BY <1>0 DEF PeerInv, TypeTimed, on_register_req_refused
<1>2. TypePlain'
  <2>1. emitted' \in Seq(Emitted)
        BY OneFrame DEF PeerInv, on_register_req_refused
  <2>2. mpcp_state' \in MpcpState
        BY DEF PeerInv, TypePlain, MpcpState, on_register_req_refused
  <2> QED BY <2>1, <2>2 DEF PeerInv, TypePlain, on_register_req_refused
<1>3. Scheduled'
  <2> USE DEF PeerInv, Scheduled, TypeTimed, TypePlain, Timer, Armed, on_register_req_refused
  <2>1. LifetimeIsThisRegistrations'
        BY DEF LifetimeIsThisRegistrations, RegisteredIsServed, SilenceIsScheduled
  <2>2. RegisteredIsServed'
        BY DEF RegisteredIsServed
  <2>3. SilenceIsScheduled'
        BY DEF SilenceIsScheduled, RegisteredIsServed
  <2>4. AcceptedIsScheduled'
        BY DEF AcceptedIsScheduled, SilenceIsScheduled
  <2>5. RotationFollowsDiscovery'
        BY DEF RotationFollowsDiscovery
  <2>6. TrafficFollowsLink'
        BY DEF TrafficFollowsLink
  <2> QED BY <2>1, <2>2, <2>3, <2>4, <2>5, <2>6
<1>4. Accounted'
      BY <1>0
<1> QED BY <1>1, <1>2, <1>3, <1>4 DEF PeerInv

\* on_register_ack starts a registration and its lifetime.
LEMMA RegisterAckInv == ASSUME PeerInv, NEW acknowledges \in BOOLEAN, NEW port \in Llid, NEW sync_ok \in BOOLEAN,
    on_register_ack(acknowledges, port, sync_ok) PROVE PeerInv'
<1> USE DEF Off, None, protocol, host, history
<1>1. TypeTimed'
  <2>1. CASE mpcp_state' = mpcp_state /\ UNCHANGED <<registered_at, due, counters>>
        BY <2>1 DEF PeerInv, TypeTimed, on_register_ack
  <2>2. CASE /\ registered_at' = 0
             /\ counters' = [counters EXCEPT !["registrations"] = @ + 1]
             /\ due' = [due EXCEPT !["Lifetime"] = RegistrationLifetime,
                                   !["NormalGate"] = NormalGateInterval]
    <3>1. due' \in [Timer -> Nat \cup {Off}]
          BY <2>2 DEF PeerInv, TypeTimed
    <3>2. counters' \in [Bucket -> Nat]
          BY <2>2 DEF PeerInv, TypeTimed, Bucket
    <3> QED BY <2>2, <3>1, <3>2 DEF PeerInv, TypeTimed, on_register_ack
  <2> QED BY <2>1, <2>2 DEF on_register_ack
<1>2. TypePlain'
  <2>1. emitted' \in Seq(Emitted)
        BY OneFrame DEF PeerInv, on_register_ack
  <2>2. mpcp_state' \in MpcpState
        BY DEF PeerInv, TypePlain, MpcpState, on_register_ack
  <2> QED BY <2>1, <2>2 DEF PeerInv, TypePlain, on_register_ack
<1>3. Scheduled'
  <2> USE DEF PeerInv, Scheduled, TypeTimed, TypePlain, Timer, Armed, on_register_ack
  <2>1. LifetimeIsThisRegistrations'
        BY DEF LifetimeIsThisRegistrations, RegisteredIsServed, SilenceIsScheduled
  <2>2. RegisteredIsServed'
        BY DEF RegisteredIsServed
  <2>3. SilenceIsScheduled'
        BY DEF SilenceIsScheduled, RegisteredIsServed
  <2>4. AcceptedIsScheduled'
        BY DEF AcceptedIsScheduled, SilenceIsScheduled
  <2>5. RotationFollowsDiscovery'
        BY DEF RotationFollowsDiscovery
  <2>6. TrafficFollowsLink'
        BY DEF TrafficFollowsLink
  <2> QED BY <2>1, <2>2, <2>3, <2>4, <2>5, <2>6
<1>4. Accounted'
  <2>1. CASE mpcp_state' = mpcp_state /\ UNCHANGED <<registered_at, due, counters>>
        BY <2>1 DEF PeerInv, Accounted, RequestsAccountedFor, HandshakesAreNotReused
  <2>2. CASE /\ mpcp_state = "WaitAck" /\ mpcp_state' = "Registered"
             /\ registered_at' = 0
             /\ counters' = [counters EXCEPT !["registrations"] = @ + 1]
    <3>1. \A c \in Bucket : counters[c] \in Nat
          BY DEF PeerInv, TypeTimed
    <3>2. \A c \in Bucket : counters'[c] = counters[c] + (IF c = "registrations" THEN 1 ELSE 0)
          BY <2>2 DEF PeerInv, TypeTimed
    <3> QED BY <2>2, <3>1, <3>2 DEF PeerInv, Accounted, RequestsAccountedFor,
               HandshakesAreNotReused, Bucket
  <2> QED BY <2>1, <2>2 DEF on_register_ack
<1> QED BY <1>1, <1>2, <1>3, <1>4 DEF PeerInv

\* tear_down_registration: whoever calls it, on timers d that keep what the caller left,
\* the registration goes together with the grants, and the silence comes with its end.
LEMMA TearDownScheduled ==
    ASSUME PeerInv, UNCHANGED link_up, NEW d \in [Timer -> Nat \cup {Off}], NEW c,
           \A t \in Timer \ {"Lifetime"} : d[t] = due[t],
           registered_at = None => d = due \/ d = [due EXCEPT !["Lifetime"] = Off],
           tear_down_registration(d, c)
    PROVE  Scheduled'
<1> USE DEF Off, None, protocol, PeerInv, Scheduled, TypeTimed, TypePlain, Timer, Armed
<1>1. CASE registered_at = None
  <2>1. \A t \in Timer \ {"Lifetime"} : due'[t] = due[t]
        BY <1>1 DEF tear_down_registration
  <2>2. UNCHANGED <<discovery, protocol>>
        BY <1>1 DEF tear_down_registration
  <2>3. LifetimeIsThisRegistrations' /\ RegisteredIsServed' /\ AcceptedIsScheduled'
        BY <1>1, <2>1, <2>2 DEF LifetimeIsThisRegistrations, RegisteredIsServed, AcceptedIsScheduled
  <2>4. SilenceIsScheduled' /\ RotationFollowsDiscovery' /\ TrafficFollowsLink'
        BY <2>1, <2>2 DEF SilenceIsScheduled, RotationFollowsDiscovery, TrafficFollowsLink
  <2> QED BY <2>3, <2>4
<1>2. CASE registered_at # None
  <2>1. /\ due'["NormalGate"] = Off /\ due'["AttributePoll"] = Off
        /\ due'["Rediscovery"] = RediscoveryDelay
        /\ due'["Gate"] = due["Gate"] /\ due'["Keepalive"] = due["Keepalive"]
        BY <1>2 DEF tear_down_registration
  <2>2. /\ registered_at' = None /\ mpcp_state' = "Idle" /\ settling' = TRUE
        /\ discovery' = DefaultDiscovery
        BY <1>2 DEF tear_down_registration
  <2>3. LifetimeIsThisRegistrations' /\ RegisteredIsServed' /\ AcceptedIsScheduled'
        BY <2>2 DEF LifetimeIsThisRegistrations, RegisteredIsServed, AcceptedIsScheduled
  <2>4. SilenceIsScheduled'
        BY <2>1, <2>2 DEF SilenceIsScheduled
  <2>5. RotationFollowsDiscovery'
        BY <2>1, <2>2, DefaultType DEF RotationFollowsDiscovery
  <2>6. TrafficFollowsLink'
        BY <2>1 DEF TrafficFollowsLink
  <2> QED BY <2>3, <2>4, <2>5, <2>6
<1> QED BY <1>1, <1>2

\* Counting one more in a bucket leaves numbers, and the other buckets alone.
LEMMA OneMore ==
    ASSUME NEW c \in [Bucket -> Nat], NEW b \in Bucket
    PROVE  /\ [c EXCEPT ![b] = @ + 1] \in [Bucket -> Nat]
           /\ \A x \in Bucket : [c EXCEPT ![b] = @ + 1][x] = c[x] + (IF x = b THEN 1 ELSE 0)
<1>1. c[b] + 1 \in Nat /\ \A x \in Bucket : c[x] \in Nat
      OBVIOUS
<1> QED BY <1>1

\* A teardown uses up its registration.
LEMMA TearDownUses ==
    ASSUME PeerInv, registered_at # None,
           counters'["accepted"] = counters["accepted"],
           counters'["registrations"] = counters["registrations"],
           counters'["deregistrations"] = counters["deregistrations"] + 1,
           mpcp_state' = "Idle", registered_at' = None
    PROVE  HandshakesAreNotReused'
<1>1. /\ counters["accepted"] \in Nat /\ counters["registrations"] \in Nat
      /\ counters["deregistrations"] \in Nat
      BY CountedNats DEF Bucket
<1>2. counters["registrations"] <= counters["accepted"]
      BY <1>1 DEF PeerInv, Accounted, HandshakesAreNotReused
<1>3. counters["deregistrations"] + 1 <= counters["registrations"]
      BY <1>1 DEF PeerInv, Accounted, HandshakesAreNotReused
<1>4. mpcp_state' \notin {"Discovery", "WaitAck"}
      OBVIOUS
<1> QED BY <1>1, <1>2, <1>3, <1>4 DEF HandshakesAreNotReused

\* A teardown keeps types and counts, if the counters c it starts from do.
LEMMA TearDownRest ==
    ASSUME PeerInv, NEW d \in [Timer -> Nat \cup {Off}], NEW c \in [Bucket -> Nat],
           c["seen"] = c["accepted"] + c["link_settling"] + c["in_flight"]
                         + c["window_passed"] + c["deregister"],
           \A b \in {"accepted", "registrations", "deregistrations"} : c[b] = counters[b],
           tear_down_registration(d, c)
    PROVE  /\ TypeTimed'
           /\ Accounted'
           /\ mpcp_state' \in MpcpState /\ settling' \in BOOLEAN
           /\ registration_complete' \in BOOLEAN
           /\ emitted' \in Seq(Emitted)
<1> USE DEF Off, None, protocol, PeerInv, TypeTimed, TypePlain
<1>1. CASE registered_at = None
  <2>1. due' = d /\ counters' = c /\ emitted' = <<>> /\ UNCHANGED <<discovery, protocol, registration_complete>>
        BY <1>1 DEF tear_down_registration
  <2>2. TypeTimed'
        BY <2>1
  <2>3. Accounted'
        BY <2>1 DEF Accounted, RequestsAccountedFor, HandshakesAreNotReused
  <2>4. emitted' \in Seq(Emitted)
        BY <2>1
  <2> QED BY <2>1, <2>2, <2>3, <2>4
<1>2. CASE registered_at # None
  <2>1. /\ due' = [d EXCEPT !["NormalGate"] = Off, !["AttributePoll"] = Off,
                            !["Rediscovery"] = RediscoveryDelay]
        /\ counters' = [c EXCEPT !["deregistrations"] = @ + 1]
        /\ registered_at' = None /\ mpcp_state' = "Idle" /\ settling' = TRUE
        /\ registration_complete' = FALSE /\ discovery' = DefaultDiscovery
        /\ UNCHANGED register_requests_seen
        /\ emitted' = <<Register("DEREGISTER")>>
        BY <1>2 DEF tear_down_registration
  <2>2. due' \in [Timer -> Nat \cup {Off}]
        BY <2>1
  <2>3. counters' \in [Bucket -> Nat]
        BY <2>1, OneMore DEF Bucket
  <2>4. TypeTimed'
        BY <2>1, <2>2, <2>3, DefaultType
  <2>5. \A b \in Bucket : c[b] \in Nat /\ counters[b] \in Nat
        OBVIOUS
  <2>6. \A b \in Bucket : counters'[b] = c[b] + (IF b = "deregistrations" THEN 1 ELSE 0)
    <3>1. "deregistrations" \in Bucket
          BY DEF Bucket
    <3> HIDE DEF PeerInv, TypeTimed, TypePlain, Off, None, protocol
    <3> QED BY <2>1, <3>1, OneMore
  <2>7. RequestsAccountedFor'
        BY <2>5, <2>6 DEF RequestsAccountedFor, Bucket
  <2>8. HandshakesAreNotReused'
    <3>1. /\ counters'["accepted"] = counters["accepted"]
          /\ counters'["registrations"] = counters["registrations"]
          /\ counters'["deregistrations"] = counters["deregistrations"] + 1
      <4>1. \A b \in {"accepted", "registrations", "deregistrations"} :
               b \in Bucket /\ c[b] = counters[b] /\ counters[b] \in Nat
            BY <2>5 DEF Bucket
      <4> HIDE DEF PeerInv, TypeTimed, TypePlain, Off, None, protocol
      <4> QED BY <2>6, <4>1
    <3> QED BY <1>2, <2>1, <3>1, TearDownUses
  <2>9. emitted' \in Seq(Emitted)
        BY <2>1, OneFrame
  <2>10. mpcp_state' \in MpcpState
        BY <2>1 DEF MpcpState
  <2> QED BY <2>1, <2>4, <2>7, <2>8, <2>9, <2>10 DEF Accounted
<1> QED BY <1>1, <1>2

\* FireLifetime tears down the registration whose lifetime ran out.
LEMMA FireLifetimeInv == ASSUME PeerInv, FireLifetime PROVE PeerInv'
<1> DEFINE d == [due EXCEPT !["Lifetime"] = Off]
<1>1. d \in [Timer -> Nat \cup {Off}] /\ \A t \in Timer \ {"Lifetime"} : d[t] = due[t]
      BY DEF PeerInv, TypeTimed, Off
<1>2. tear_down_registration(d, counters) /\ UNCHANGED <<link_up, onu_mac, assigned_llid, llid_assignment, history>>
      BY DEF FireLifetime
<1>3. Scheduled'
      BY <1>1, <1>2, TearDownScheduled
<1>4. /\ counters \in [Bucket -> Nat]
      /\ counters["seen"] = counters["accepted"] + counters["link_settling"] + counters["in_flight"]
                              + counters["window_passed"] + counters["deregister"]
      BY DEF PeerInv, TypeTimed, Accounted, RequestsAccountedFor
<1> HIDE DEF d
<1>5. /\ TypeTimed' /\ Accounted' /\ mpcp_state' \in MpcpState /\ settling' \in BOOLEAN
      /\ registration_complete' \in BOOLEAN /\ emitted' \in Seq(Emitted)
      BY <1>1, <1>2, <1>4, TearDownRest
<1>6. TypePlain'
      BY <1>2, <1>5 DEF PeerInv, TypePlain, history
<1> QED BY <1>3, <1>5, <1>6 DEF PeerInv

\* on_deregister counts the request and tears down the registration, if there is one.
LEMMA DeregisterInv == ASSUME PeerInv, NEW src \in Onu, on_deregister(src) PROVE PeerInv'
<1> DEFINE c == [counters EXCEPT !["seen"] = @ + 1, !["deregister"] = @ + 1]
<1>1. /\ tear_down_registration(due, c) /\ onu_mac' = src
      /\ UNCHANGED <<link_up, assigned_llid, llid_assignment, accepted>>
      /\ asked_to_leave' = (asked_to_leave \/ src = accepted)
      BY DEF on_deregister
<1>2. due \in [Timer -> Nat \cup {Off}]
      BY DEF PeerInv, TypeTimed
<1>3. c \in [Bucket -> Nat]
      BY DEF PeerInv, TypeTimed, Bucket
<1>4. \A b \in Bucket : counters[b] \in Nat
      BY DEF PeerInv, TypeTimed
<1>5. \A b \in Bucket : c[b] = counters[b] + (IF b \in {"seen", "deregister"} THEN 1 ELSE 0)
      BY DEF PeerInv, TypeTimed, Bucket
<1> HIDE DEF c
<1>6. /\ c["seen"] = c["accepted"] + c["link_settling"] + c["in_flight"]
                       + c["window_passed"] + c["deregister"]
      /\ \A b \in {"accepted", "registrations", "deregistrations"} : c[b] = counters[b]
      BY <1>4, <1>5 DEF PeerInv, Accounted, RequestsAccountedFor, Bucket
<1>7. Scheduled'
      BY <1>1, <1>2, TearDownScheduled
<1>8. /\ TypeTimed' /\ Accounted' /\ mpcp_state' \in MpcpState /\ settling' \in BOOLEAN
      /\ registration_complete' \in BOOLEAN /\ emitted' \in Seq(Emitted)
      BY <1>1, <1>2, <1>3, <1>6, TearDownRest
<1>9. asked_to_leave' \in BOOLEAN
      BY <1>1
<1>10. TypePlain'
      BY <1>1, <1>8, <1>9 DEF PeerInv, TypePlain
<1> QED BY <1>7, <1>8, <1>10 DEF PeerInv

\* A change of the discovery state and of the rotation together, on timers that otherwise
\* keep or reset only the keepalive, keeps the invariant.
LEMMA DiscoveryInv ==
    ASSUME PeerInv, TypePlain', discovery' \in Discovery,
           UNCHANGED <<link_up, counters, protocol>>,
           due' \in [Timer -> Nat \cup {Off}],
           \A t \in Timer \ {"AttributePoll", "Keepalive"} : due'[t] = due[t],
           due'["Keepalive"] = due["Keepalive"] \/ (Armed("Keepalive") /\ Armed("Keepalive")'),
           due'["AttributePoll"] =
               IF discovery'.state = discovery.state THEN due["AttributePoll"]
               ELSE IF discovery'.state = "Converged" THEN 0 ELSE Off
    PROVE  PeerInv'
<1> USE DEF Off, None, protocol, PeerInv
<1>1. TypeTimed'
      BY DEF TypeTimed
<1>2. Accounted'
      BY DEF Accounted, RequestsAccountedFor, HandshakesAreNotReused
<1>3. LifetimeIsThisRegistrations' /\ RegisteredIsServed' /\ AcceptedIsScheduled'
      BY DEF Scheduled, LifetimeIsThisRegistrations, RegisteredIsServed, AcceptedIsScheduled, Armed, Timer
<1>4. SilenceIsScheduled' /\ TrafficFollowsLink'
      BY DEF Scheduled, SilenceIsScheduled, TrafficFollowsLink, Armed, Timer
<1>5. RotationFollowsDiscovery'
      BY DEF Scheduled, RotationFollowsDiscovery, Armed
<1> QED BY <1>1, <1>2, <1>3, <1>4, <1>5 DEF Scheduled

\* FireKeepalive re-arms itself and may settle or converge discovery.
LEMMA FireKeepaliveInv == ASSUME PeerInv, FireKeepalive PROVE PeerInv'
<1> USE DEF Off, None
<1>1. discovery' \in Discovery
      BY OnSentType DEF PeerInv, TypeTimed, FireKeepalive
<1>2. TypePlain'
      BY OneFrame DEF PeerInv, TypePlain, FireKeepalive, protocol, host, history
<1>3. due \in [Timer -> Nat \cup {Off}] /\ due["Keepalive"] = 0
      BY DEF PeerInv, TypeTimed, FireKeepalive
<1>4. due' = [on_discovery_entered(due, discovery.state, discovery'.state)
                EXCEPT !["Keepalive"] = OamInterval]
      BY DEF FireKeepalive
<1>5. due' \in [Timer -> Nat \cup {Off}]
      BY <1>3, <1>4 DEF on_discovery_entered
<1>6. /\ \A t \in Timer \ {"AttributePoll", "Keepalive"} : due'[t] = due[t]
      /\ due'["Keepalive"] = OamInterval
      /\ due'["AttributePoll"] =
               IF discovery'.state = discovery.state THEN due["AttributePoll"]
               ELSE IF discovery'.state = "Converged" THEN 0 ELSE Off
      BY <1>3, <1>4 DEF on_discovery_entered, Timer
<1>7. UNCHANGED <<link_up, counters, protocol>>
      BY DEF FireKeepalive
<1>8. Armed("Keepalive") /\ Armed("Keepalive")'
      BY <1>3, <1>6 DEF Armed
<1> QED BY <1>1, <1>2, <1>5, <1>6, <1>7, <1>8, DiscoveryInv

\* on_oam takes in the other end's flags and starts or stops the rotation.
LEMMA OamInv ==
    ASSUME PeerInv, NEW information \in BOOLEAN, NEW f \in HeardFlags, on_oam(information, f)
    PROVE  PeerInv'
<1> USE DEF Off, None
<1>1. discovery' \in Discovery
      BY OnPeerFlagsType, OnPeerInformationType DEF PeerInv, TypeTimed, on_oam
<1>2. TypePlain'
      BY DEF PeerInv, TypePlain, on_oam, protocol, host, history
<1>3. due \in [Timer -> Nat \cup {Off}]
      BY DEF PeerInv, TypeTimed
<1>4. due' = on_discovery_entered(due, discovery.state, discovery'.state)
      BY DEF on_oam
<1>5. due' \in [Timer -> Nat \cup {Off}]
      BY <1>3, <1>4 DEF on_discovery_entered
<1>6. /\ \A t \in Timer \ {"AttributePoll", "Keepalive"} : due'[t] = due[t]
      /\ due'["Keepalive"] = due["Keepalive"]
      /\ due'["AttributePoll"] =
               IF discovery'.state = discovery.state THEN due["AttributePoll"]
               ELSE IF discovery'.state = "Converged" THEN 0 ELSE Off
      BY <1>3, <1>4 DEF on_discovery_entered, Timer
<1>7. UNCHANGED <<link_up, counters, protocol>>
      BY DEF on_oam
<1> QED BY <1>1, <1>2, <1>5, <1>6, <1>7, DiscoveryInv

\* The remaining calls touch neither the timers nor the protocol state.
LEMMA OtherInv ==
    ASSUME PeerInv,
           \/ on_other_frame \/ host_send \/ take_host_events
           \/ \E llid \in Llid : set_assigned_llid(llid)
    PROVE  PeerInv'
<1>1. UNCHANGED <<due, link_up, discovery, counters, protocol>>
      BY DEF on_other_frame, host_send, take_host_events, set_assigned_llid
<1>2. emitted' \in Seq(Emitted)
  <2>1. <<>> \in Seq(Emitted) /\ <<Frame("OTHER")>> \in Seq(Emitted)
        BY OneFrame DEF PeerInv
  <2> QED BY <2>1 DEF on_other_frame, host_send, take_host_events, set_assigned_llid
<1>3. TypePlain'
      BY <1>1, <1>2 DEF PeerInv, TypePlain, protocol, host, history,
         on_other_frame, host_send, take_host_events, set_assigned_llid
<1> QED BY <1>1, <1>3, Untouched

\* Every step of the peer keeps the invariant.
LEMMA NextPeerInv == PeerInv /\ [Next]_vars => PeerInv'
<1> SUFFICES ASSUME PeerInv, [Next]_vars PROVE PeerInv'
    OBVIOUS
<1>1. CASE Elapse
      BY <1>1, ElapseInv
<1>2. CASE Fire
      BY <1>2, FireGateInv, FireNormalGateInv, FireKeepaliveInv, FireAttributePollInv,
         FireRegisterResponseInv, FireLifetimeInv, FireRediscoveryInv DEF Fire
<1>3. CASE Deliver
      BY <1>3, DeregisterInv, RegisterReqInv, RegisterReqRefusedInv, RegisterAckInv, OamInv,
         OtherInv DEF Deliver
<1>4. CASE Host
      BY <1>4, SetLinkUpInv, SetLinkDownInv, RewindInv, OtherInv DEF Host
<1>5. CASE UNCHANGED vars
  <2>1. TypePlain'
        BY <1>5 DEF PeerInv, TypePlain, vars, protocol, host, history
  <2> QED BY <1>5, <2>1, Untouched DEF vars
<1> QED BY <1>1, <1>2, <1>3, <1>4, <1>5 DEF Next

--------------------------------------------------------------------------------
\* The inductive invariant holds of every behaviour of the peer.
THEOREM PeerInvariance == Spec => []PeerInv
BY InitPeerInv, NextPeerInv, PTL DEF Spec

\* Type correctness.
THEOREM PeerTypes == Spec => []TypeOK
<1>1. PeerInv => TypeOK
      BY DEF PeerInv, TypeOK
<1> QED BY <1>1, PeerInvariance, PTL

\* Every state has the timers it owes, whatever the configured intervals: the code
\* arms and cancels them in eight different handlers.
THEOREM TimersScheduled == Spec => []Scheduled
<1>1. PeerInv => Scheduled
      BY DEF PeerInv
<1> QED BY <1>1, PeerInvariance, PTL

\* A registration is torn down exactly one lifetime after it began, never by the timer
\* of an earlier one.
THEOREM LifetimeBelongs == Spec => []LifetimeIsThisRegistrations
<1>1. PeerInv => LifetimeIsThisRegistrations
      BY DEF PeerInv, Scheduled
<1> QED BY <1>1, PeerInvariance, PTL

\* An accepted request always has its answer scheduled within the processing delay.
THEOREM AcceptedScheduled == Spec => []AcceptedIsScheduled
<1>1. PeerInv => AcceptedIsScheduled
      BY DEF PeerInv, Scheduled
<1> QED BY <1>1, PeerInvariance, PTL

\* The silence after a teardown always has its end scheduled.
THEOREM SilenceScheduled == Spec => []SilenceIsScheduled
<1>1. PeerInv => SilenceIsScheduled
      BY DEF PeerInv, Scheduled
<1> QED BY <1>1, PeerInvariance, PTL

\* The attribute rotation runs exactly while discovery is converged.
THEOREM RotationFollows == Spec => []RotationFollowsDiscovery
<1>1. PeerInv => RotationFollowsDiscovery
      BY DEF PeerInv, Scheduled
<1> QED BY <1>1, PeerInvariance, PTL

\* The ledger of registration requests balances, and registrations and teardowns never
\* outnumber the requests and registrations they came from.
THEOREM LedgersBalance == Spec => []Accounted
<1>1. PeerInv => Accounted
      BY DEF PeerInv
<1> QED BY <1>1, PeerInvariance, PTL

--------------------------------------------------------------------------------
(* The link: what is on the lines.                                         *)



(* A frame appended to a line is behind all others.                        *)
LEMMA AppendedLine ==
    ASSUME NEW q, IsLine(q), NEW e
    PROVE  /\ IsLine(Append(q, e))
           /\ DOMAIN q = 1 .. Len(q) /\ DOMAIN Append(q, e) = 1 .. Len(q) + 1 /\ Len(q) \in Nat
           /\ \A i \in 1 .. Len(q) : Append(q, e)[i] = q[i]
           /\ Append(q, e)[Len(q) + 1] = e
<1>1. PICK S : S = Range(q) \cup {e}
      OBVIOUS
<1>2. q \in Seq(S) /\ e \in S
      BY <1>1 DEF IsLine
<1>3. /\ Append(q, e) \in Seq(S) /\ Len(Append(q, e)) = Len(q) + 1 /\ Len(q) \in Nat
      /\ \A i \in 1 .. Len(q) : Append(q, e)[i] = q[i]
      /\ Append(q, e)[Len(q) + 1] = e
      BY <1>2
<1>4. PICK r : r = Append(q, e)
      OBVIOUS
<1>9. r \in Seq(S)
      BY <1>3, <1>4
<1>5. r = [i \in 1 .. Len(r) |-> r[i]] /\ Len(r) \in Nat /\ DOMAIN r = 1 .. Len(r)
      BY <1>9
<1>6. \A i \in 1 .. Len(r) : r[i] \in Range(r)
      BY <1>5 DEF Range
<1>7. r \in Seq(Range(r))
      BY <1>5, <1>6
<1>8. DOMAIN q = 1 .. Len(q)
      BY <1>2
<1> QED BY <1>3, <1>4, <1>5, <1>7, <1>8 DEF IsLine

(* Taking the first frame moves the others up.                             *)
LEMMA ShortenedLine ==
    ASSUME NEW q, IsLine(q), q # <<>>
    PROVE  /\ IsLine(Tail(q))
           /\ DOMAIN q = 1 .. Len(q) /\ DOMAIN Tail(q) = 1 .. Len(q) - 1
           /\ Len(q) \in Nat \ {0} /\ Head(q) = q[1]
           /\ \A i \in 1 .. Len(q) - 1 : Tail(q)[i] = q[i + 1]
<1>1. PICK S : S = Range(q)
      OBVIOUS
<1>2. q \in Seq(S)
      BY <1>1 DEF IsLine
<1>3. /\ Tail(q) \in Seq(S) /\ Len(Tail(q)) = Len(q) - 1 /\ Len(q) \in Nat \ {0}
      /\ Head(q) = q[1] /\ DOMAIN q = 1 .. Len(q)
      /\ \A i \in 1 .. Len(q) - 1 : Tail(q)[i] = q[i + 1]
      BY <1>2
<1>4. PICK r : r = Tail(q)
      OBVIOUS
<1>9. r \in Seq(S)
      BY <1>3, <1>4
<1>5. r = [i \in 1 .. Len(r) |-> r[i]] /\ Len(r) \in Nat /\ DOMAIN r = 1 .. Len(r)
      BY <1>9
<1>6. \A i \in 1 .. Len(r) : r[i] \in Range(r)
      BY <1>5 DEF Range
<1>7. r \in Seq(Range(r))
      BY <1>5, <1>6
<1> QED BY <1>3, <1>4, <1>5, <1>7 DEF IsLine

(* Time brings every frame closer and changes none.                        *)
LEMMA CloserLine ==
    ASSUME NEW q, IsLine(q)
    PROVE  /\ IsLine(Closer(q)) /\ DOMAIN Closer(q) = DOMAIN q
           /\ \A i \in DOMAIN q : Closer(q)[i].frame = q[i].frame
<1>1. PICK r : r = Closer(q)
      OBVIOUS
<1>2. DOMAIN q = 1 .. Len(q) /\ Len(q) \in Nat
      BY DEF IsLine
<1>3. r = [i \in 1 .. Len(q) |-> [frame |-> q[i].frame, left |-> q[i].left - 1]]
      BY <1>1, <1>2 DEF Closer
<1>4. DOMAIN r = 1 .. Len(q) /\ \A i \in 1 .. Len(q) : r[i] \in Range(r)
      BY <1>3 DEF Range
<1>5. r \in Seq(Range(r))
      BY <1>2, <1>3, <1>4
<1> QED BY <1>1, <1>2, <1>3, <1>4, <1>5 DEF IsLine

(* What is sent on a line with room is the last frame of it.               *)
LEMMA SentLine ==
    ASSUME NEW q, IsLine(q), Len(q) < LineDepth, NEW f, NEW at
    PROVE  \E e : e.frame = f /\ Sent(q, f, at) = Append(q, e)
<1>1. Len(q) \in Nat /\ LineDepth \in Nat
      BY LinkAssumption DEF IsLine
<1>2. PICK left : left = IF q # <<>> /\ Last(q).left > at + Crossing THEN Last(q).left
                                                                    ELSE at + Crossing
      OBVIOUS
<1>3. Sent(q, f, at) = Append(q, [frame |-> f, left |-> left])
      BY <1>1, <1>2 DEF Sent
<1> QED BY <1>3

(* What a frame sent on a line does to what the line says: a kind that is  *)
(* not on it stays away, the only one of a kind stays the only one, the    *)
(* first of a kind is the only one.                                        *)
LEMMA SentSays ==
    ASSUME NEW q, IsLine(q), Len(q) < LineDepth, NEW f, NEW at
    PROVE  /\ IsLine(Sent(q, f, at))
           /\ \A K : Free(q, K) /\ f.kind \notin K => Free(Sent(q, f, at), K)
           /\ \A k, l : Sole(q, k, l) /\ f.kind # k => Sole(Sent(q, f, at), k, l)
           /\ Free(q, {f.kind}) => Sole(Sent(q, f, at), f.kind, f.llid)
           /\ RequestsAhead(q) /\ f.kind # "REQUEST" => RequestsAhead(Sent(q, f, at))
           /\ Free(q, {"ACK"}) /\ f.kind # "REQUEST" => RequestsAhead(Sent(q, f, at))
<1>1. PICK e : e.frame = f /\ Sent(q, f, at) = Append(q, e)
      BY SentLine
<1>2. PICK r, n : r = Sent(q, f, at) /\ n = Len(q)
      OBVIOUS
<1>3. /\ IsLine(r) /\ n \in Nat
      /\ DOMAIN q = 1 .. n /\ DOMAIN r = 1 .. n + 1
      /\ \A i \in 1 .. n : r[i] = q[i]
      /\ r[n + 1].frame = f
      BY <1>1, <1>2, AppendedLine
<1>4. \A K : Free(q, K) /\ f.kind \notin K => Free(r, K)
      BY <1>3 DEF Free
<1>5. \A k, l : Sole(q, k, l) /\ f.kind # k => Sole(r, k, l)
      BY <1>3 DEF Sole
<1>6. Free(q, {f.kind}) => Sole(r, f.kind, f.llid)
  <2>1. HAVE Free(q, {f.kind})
  <2>2. \A i \in 1 .. n : r[i].frame.kind # f.kind
        BY <1>3, <2>1 DEF Free
  <2>3. /\ n + 1 \in DOMAIN r
        /\ r[n + 1].frame.kind = f.kind /\ r[n + 1].frame.llid = f.llid
        /\ \A j \in (DOMAIN r) \ {n + 1} : r[j].frame.kind # f.kind
        BY <1>3, <2>2
  <2> QED BY <2>3 DEF Sole
<1>7. (RequestsAhead(q) \/ Free(q, {"ACK"})) /\ f.kind # "REQUEST" => RequestsAhead(r)
      BY <1>3 DEF RequestsAhead, Free
<1> QED BY <1>2, <1>3, <1>4, <1>5, <1>6, <1>7

(* What taking the first frame does to it.                                 *)
LEMMA TakenSays ==
    ASSUME NEW q, IsLine(q), q # <<>>
    PROVE  /\ IsLine(Tail(q))
           /\ \A K : Free(q, K) => Free(Tail(q), K) /\ Head(q).frame.kind \notin K
           /\ \A k, l : Sole(q, k, l) /\ Head(q).frame.kind # k => Sole(Tail(q), k, l)
           /\ \A k, l : Sole(q, k, l) /\ Head(q).frame.kind = k =>
                 Free(Tail(q), {k}) /\ Head(q).frame.llid = l
           /\ RequestsAhead(q) => RequestsAhead(Tail(q))
           /\ RequestsAhead(q) /\ Head(q).frame.kind = "ACK" => Free(Tail(q), {"REQUEST"})
<1>1. PICK r, n : r = Tail(q) /\ n = Len(q)
      OBVIOUS
<1>2. /\ IsLine(r) /\ n \in Nat \ {0}
      /\ DOMAIN q = 1 .. n /\ DOMAIN r = 1 .. n - 1
      /\ \A i \in 1 .. n - 1 : r[i] = q[i + 1] /\ i + 1 \in 1 .. n
      /\ Head(q) = q[1] /\ 1 \in 1 .. n
      BY <1>1, ShortenedLine
<1>3. \A K : Free(q, K) => Free(r, K) /\ q[1].frame.kind \notin K
      BY <1>2 DEF Free
<1>4. ASSUME NEW k, NEW l, Sole(q, k, l)
      PROVE  /\ q[1].frame.kind # k => Sole(r, k, l)
             /\ q[1].frame.kind = k => Free(r, {k}) /\ q[1].frame.llid = l
  <2>0. PICK i \in DOMAIN q : /\ q[i].frame.kind = k /\ q[i].frame.llid = l
                              /\ \A j \in (DOMAIN q) \ {i} : q[j].frame.kind # k
        BY <1>4 DEF Sole
  <2>1. /\ i \in 1 .. n /\ q[i].frame.kind = k /\ q[i].frame.llid = l
        /\ \A j \in (1 .. n) \ {i} : q[j].frame.kind # k
        BY <1>2, <2>0
  <2>2. CASE q[1].frame.kind = k
    <3>1. i = 1
      <4>1. SUFFICES ASSUME 1 \in (1 .. n) \ {i} PROVE FALSE
            BY <1>2, <2>1
      <4> QED BY <2>1, <2>2, <4>1
    <3>2. ASSUME NEW j \in 1 .. n - 1 PROVE r[j].frame.kind # k
      <4>1. r[j] = q[j + 1] /\ j + 1 \in (1 .. n) \ {1}
            BY <1>2
      <4> QED BY <2>1, <3>1, <4>1
    <3> QED BY <1>2, <2>1, <2>2, <3>1, <3>2 DEF Free
  <2>3. CASE q[1].frame.kind # k
    <3>1. i - 1 \in 1 .. n - 1 /\ r[i - 1] = q[i]
          BY <1>2, <2>1, <2>3
    <3>2. ASSUME NEW j \in (1 .. n - 1) \ {i - 1} PROVE r[j].frame.kind # k
      <4>1. r[j] = q[j + 1] /\ j + 1 \in (1 .. n) \ {i}
            BY <1>2
      <4> QED BY <2>1, <4>1
    <3> QED BY <1>2, <2>1, <2>3, <3>1, <3>2 DEF Sole
  <2> QED BY <2>2, <2>3
<1>5. RequestsAhead(q) => RequestsAhead(r)
  <2>1. SUFFICES ASSUME RequestsAhead(q), NEW i \in 1 .. n - 1, NEW j \in 1 .. n - 1,
                        r[i].frame.kind = "ACK", r[j].frame.kind = "REQUEST"
                 PROVE  j < i
        BY <1>2 DEF RequestsAhead
  <2>2. /\ r[i] = q[i + 1] /\ i + 1 \in DOMAIN q
        /\ r[j] = q[j + 1] /\ j + 1 \in DOMAIN q
        BY <1>2
  <2>3. j + 1 < i + 1
        BY <2>1, <2>2 DEF RequestsAhead
  <2> QED BY <1>2, <2>3
<1>6. RequestsAhead(q) /\ q[1].frame.kind = "ACK" => Free(r, {"REQUEST"})
      BY <1>2 DEF RequestsAhead, Free
<1>7. \A k, l : Sole(q, k, l) =>
         /\ q[1].frame.kind # k => Sole(r, k, l)
         /\ q[1].frame.kind = k => Free(r, {k}) /\ q[1].frame.llid = l
      BY <1>4
<1> QED BY <1>1, <1>2, <1>3, <1>5, <1>6, <1>7

(* Time changes nothing of it.                                             *)
LEMMA CloserSays ==
    ASSUME NEW q, IsLine(q)
    PROVE  /\ IsLine(Closer(q))
           /\ \A K : Free(q, K) => Free(Closer(q), K)
           /\ \A k, l : Sole(q, k, l) => Sole(Closer(q), k, l)
           /\ RequestsAhead(q) => RequestsAhead(Closer(q))
<1>1. PICK r : r = Closer(q)
      OBVIOUS
<1>2. IsLine(r) /\ DOMAIN r = DOMAIN q /\ \A i \in DOMAIN q : r[i].frame = q[i].frame
      BY <1>1, CloserLine
<1>3. \A K : Free(q, K) => Free(r, K)
      BY <1>2 DEF Free
<1>4. \A k, l : Sole(q, k, l) => Sole(r, k, l)
      BY <1>2 DEF Sole
<1>5. RequestsAhead(q) => RequestsAhead(r)
      BY <1>2 DEF RequestsAhead
<1> QED BY <1>1, <1>2, <1>3, <1>4, <1>5

(* A line to which frames of these kinds alone were added or taken away.   *)
Kept(q, r, touched) ==
    /\ IsLine(r)
    /\ \A K : Free(q, K) /\ K \cap touched = {} => Free(r, K)
    /\ \A k, l : Sole(q, k, l) /\ k \notin touched => Sole(r, k, l)
    /\ RequestsAhead(q) /\ "REQUEST" \notin touched => RequestsAhead(r)

LEMMA KeptLine ==
    ASSUME NEW q, IsLine(q)
    PROVE  /\ Kept(q, q, {}) /\ Kept(q, Closer(q), {})
           /\ q # <<>> => Kept(q, Tail(q), {Head(q).frame.kind})
           /\ \A f, at : Len(q) < LineDepth => Kept(q, Sent(q, f, at), {f.kind})
<1>1. Kept(q, q, {})
      BY DEF Kept
<1>2. Kept(q, Closer(q), {})
      BY CloserSays DEF Kept
<1>3. q # <<>> => Kept(q, Tail(q), {Head(q).frame.kind})
      BY TakenSays DEF Kept
<1>4. ASSUME NEW f, NEW at, Len(q) < LineDepth
      PROVE  Kept(q, Sent(q, f, at), {f.kind})
  <2>1. \A K : K \cap {f.kind} = {} => f.kind \notin K
        OBVIOUS
  <2> QED BY <1>4, <2>1, SentSays DEF Kept
<1> QED BY <1>1, <1>2, <1>3, <1>4

Phase == Asking \/ Granting \/ Acknowledging \/ Serving \/ Leaving \/ Stranded

(* The registration goes through its phases with what the peer and the     *)
(* responder hold and with four kinds of frames; nothing else matters.     *)
LEMMA PhaseKept ==
    ASSUME Phase,
           NEW T, NEW U, Kept(downstream, downstream', T), Kept(upstream, upstream', U),
           "REGISTER" \notin T, "DEREGISTER" \notin T, "ACK" \notin U, "REQUEST" \notin U,
           UNCHANGED <<mpcp_state, assigned_llid>>, onu'.llid = onu.llid, cut_off => cut_off'
    PROVE  Phase'
<1>1. /\ {"REGISTER", "DEREGISTER"} \cap T = {} /\ {"REGISTER"} \cap T = {}
      /\ {"DEREGISTER"} \cap T = {}
      /\ {"ACK"} \cap U = {} /\ {"ACK", "REQUEST"} \cap U = {}
      OBVIOUS
<1>2. Asking => Asking'
      BY <1>1 DEF Asking, Kept
<1>3. Granting => Granting'
      BY <1>1 DEF Granting, Kept
<1>4. Acknowledging => Acknowledging'
      BY <1>1 DEF Acknowledging, Kept
<1>5. Serving => Serving'
      BY <1>1 DEF Serving, Kept
<1>6. Leaving => Leaving'
      BY <1>1 DEF Leaving, Kept
<1>7. Stranded => Stranded'
      BY <1>1 DEF Stranded, Kept
<1> QED BY <1>2, <1>3, <1>4, <1>5, <1>6, <1>7 DEF Phase

(* The same for a dark line.                                               *)
LEMMA DarkKept ==
    ASSUME DarkLineIsQuiet,
           NEW T, NEW U, Kept(downstream, downstream', T), Kept(upstream, upstream', U),
           ~link_up => "GATE" \notin T /\ "REQUEST" \notin U /\ due'["Gate"] = Off,
           ~link_up => mpcp_state' = mpcp_state, link_up' = link_up
    PROVE  DarkLineIsQuiet'
<1>1. "GATE" \notin T => {"GATE"} \cap T = {}
      OBVIOUS
<1>2. "REQUEST" \notin U => {"REQUEST"} \cap U = {}
      OBVIOUS
<1> QED BY <1>1, <1>2 DEF DarkLineIsQuiet, Kept

(* What the peer decided goes on the line and touches one kind of it.      *)
LEMMA CarriedDown ==
    ASSUME IsLine(downstream), LinesHaveRoom, CarryDown
    PROVE  /\ emitted' = <<>> => downstream' = downstream
           /\ \A f : emitted' = <<f>> =>
                 \E g : g.kind = f.kind /\ g.llid = f.llid /\ downstream' = Sent(downstream, g, 0)
<1>1. emitted' = <<>> => downstream' = downstream
      BY DEF CarryDown
<1>2. ASSUME NEW f, emitted' = <<f>>
      PROVE  \E g : g.kind = f.kind /\ g.llid = f.llid /\ downstream' = Sent(downstream, g, 0)
  <2>1. emitted' # <<>> /\ Head(emitted') = f
        BY <1>2
  <2>2. downstream' = Sent(downstream, [kind |-> f.kind, llid |-> f.llid,
                                        flags |-> flags(discovery)], 0)
        BY <2>1 DEF CarryDown
  <2> QED BY <2>2
<1> QED BY <1>1, <1>2

(* The peer's steps that neither open nor close a registration.            *)
LEMMA PeerStepKeeps ==
    ASSUME AgreeInv, LinesHaveRoom, CarryDown,
           \/ emitted' = <<>>
           \/ \E f : /\ emitted' = <<f>> /\ f.kind \notin {"REGISTER", "DEREGISTER"}
                     /\ f.kind = "GATE" => link_up,
           UNCHANGED <<mpcp_state, assigned_llid, cut_off, onu, upstream, link_up>>,
           registered_at' = registered_at,
           DOMAIN due' = Timer, ~link_up => due'["Gate"] = Off
    PROVE  AgreeInv'
<1>1. IsLine(downstream) /\ IsLine(upstream) /\ Len(downstream) < LineDepth
      BY DEF AgreeInv, LinkShape, LinesHaveRoom
<1>2. PICK T : /\ Kept(downstream, downstream', T) /\ "REGISTER" \notin T /\ "DEREGISTER" \notin T
               /\ ~link_up => "GATE" \notin T
  <2>1. CASE emitted' = <<>>
    <3>1. downstream' = downstream
          BY <1>1, <2>1, CarriedDown
    <3>2. Kept(downstream, downstream', {})
          BY <1>1, <3>1, KeptLine
    <3> QED BY <3>2
  <2>2. CASE emitted' # <<>>
    <3>1. PICK f : /\ emitted' = <<f>> /\ f.kind \notin {"REGISTER", "DEREGISTER"}
                   /\ f.kind = "GATE" => link_up
          BY <2>2
    <3>2. PICK g : g.kind = f.kind /\ downstream' = Sent(downstream, g, 0)
          BY <1>1, <3>1, CarriedDown
    <3>3. Kept(downstream, downstream', {g.kind})
          BY <1>1, <3>2, KeptLine
    <3> QED BY <3>1, <3>2, <3>3
  <2> QED BY <2>1, <2>2
<1>3. Kept(upstream, upstream', {})
      BY <1>1, KeptLine
<1>4. Phase'
      BY <1>2, <1>3, PhaseKept DEF AgreeInv, Phase
<1>5. DarkLineIsQuiet'
      BY <1>2, <1>3, DarkKept DEF AgreeInv
<1>6. LinkShape'
      BY <1>2, <1>3 DEF AgreeInv, LinkShape, Kept
<1> QED BY <1>4, <1>5, <1>6 DEF AgreeInv, Phase

LEMMA FireEventKeeps == ASSUME AgreeInv, LinesHaveRoom, FireEvent PROVE AgreeInv'
<1>1. /\ CarryDown /\ UNCHANGED <<cut_off, onu, upstream>> /\ Fire
      /\ DOMAIN due = Timer /\ IsLine(downstream) /\ IsLine(upstream) /\ Len(downstream) < LineDepth
      /\ "Gate" \in Timer
      /\ ~link_up => due["Gate"] = Off
      /\ Phase /\ DarkLineIsQuiet
      BY DEF FireEvent, ends, clocks, AgreeInv, LinkShape, LinesHaveRoom, Timer, Phase,
             DarkLineIsQuiet
<1>2. CASE FireGate
  <2>1. link_up
        BY <1>1, <1>2 DEF FireGate, Off
  <2>2. emitted' = <<Frame("GATE")>> /\ Frame("GATE").kind = "GATE"
        BY <1>2 DEF FireGate, Frame
  <2>3. /\ UNCHANGED <<mpcp_state, assigned_llid, link_up, registered_at>> /\ DOMAIN due' = Timer
        BY <1>1, <1>2 DEF FireGate, protocol
  <2> QED BY <1>1, <2>1, <2>2, <2>3, PeerStepKeeps
<1>3. CASE FireNormalGate
  <2>1. \/ emitted' = <<>>
        \/ emitted' = <<Frame("NORMAL_GATE")>> /\ Frame("NORMAL_GATE").kind = "NORMAL_GATE"
        BY <1>3 DEF FireNormalGate, Frame
  <2>2. /\ UNCHANGED <<mpcp_state, assigned_llid, link_up, registered_at>>
        /\ DOMAIN due' = Timer /\ due'["Gate"] = due["Gate"]
        BY <1>1, <1>3 DEF FireNormalGate, protocol
  <2> QED BY <1>1, <2>1, <2>2, PeerStepKeeps
<1>4. CASE FireKeepalive
  <2>1. emitted' = <<Frame("INFO")>> /\ Frame("INFO").kind = "INFO"
        BY <1>4 DEF FireKeepalive, Frame
  <2>2. UNCHANGED <<mpcp_state, assigned_llid, link_up, registered_at>>
        BY <1>4 DEF FireKeepalive, protocol
  <2>3. DOMAIN due' = Timer /\ due'["Gate"] = due["Gate"]
        BY <1>1, <1>4 DEF FireKeepalive, on_discovery_entered
  <2> QED BY <1>1, <2>1, <2>2, <2>3, PeerStepKeeps
<1>5. CASE FireAttributePoll
  <2>1. \/ emitted' = <<>>
        \/ emitted' = <<Frame("OTHER")>> /\ Frame("OTHER").kind = "OTHER"
        BY <1>5 DEF FireAttributePoll, Frame
  <2>2. /\ UNCHANGED <<mpcp_state, assigned_llid, link_up, registered_at>>
        /\ DOMAIN due' = Timer /\ due'["Gate"] = due["Gate"]
        BY <1>1, <1>5 DEF FireAttributePoll, protocol
  <2> QED BY <1>1, <2>1, <2>2, PeerStepKeeps
<1>6. CASE FireRegisterResponse
  <2>1. /\ UNCHANGED <<assigned_llid, link_up, registered_at>>
        /\ DOMAIN due' = Timer /\ due'["Gate"] = due["Gate"]
        BY <1>1, <1>6 DEF FireRegisterResponse
  <2>2. CASE ~(mpcp_state = "Discovery" /\ ~settling)
    <3>1. emitted' = <<>> /\ mpcp_state' = mpcp_state
          BY <1>6, <2>2 DEF FireRegisterResponse
    <3> QED BY <1>1, <2>1, <3>1, PeerStepKeeps
  <2>3. CASE mpcp_state = "Discovery" /\ ~settling
    <3>1. emitted' = <<Register("REGISTER")>> /\ mpcp_state' = "WaitAck"
          BY <1>6, <2>3 DEF FireRegisterResponse
    <3>2. PICK g : /\ g.kind = "REGISTER" /\ g.llid = assigned_llid
                   /\ downstream' = Sent(downstream, g, 0)
          BY <1>1, <3>1, CarriedDown DEF Register
    <3>3. Asking
          BY <1>1, <2>3 DEF Phase, Asking, Granting, Acknowledging, Serving, Leaving, Stranded
    <3>4. Free(downstream, {"REGISTER"}) /\ Free(downstream, {"DEREGISTER"})
          BY <3>3 DEF Asking, Free
    <3>5. /\ IsLine(downstream') /\ Sole(downstream', "REGISTER", assigned_llid)
          /\ Free(downstream', {"DEREGISTER"})
          BY <1>1, <3>2, <3>4, SentSays
    <3>6. Granting'
          BY <1>1, <2>1, <3>1, <3>3, <3>5 DEF Granting, Asking
    <3>7. link_up /\ LinkShape' /\ registered_at' = None
          BY <1>1, <2>1, <2>3, <3>5 DEF AgreeInv, LinkShape, DarkLineIsQuiet
    <3> QED BY <2>1, <3>1, <3>6, <3>7 DEF AgreeInv, DarkLineIsQuiet
  <2> QED BY <2>2, <2>3
<1>7. CASE FireLifetime
  <2>1. UNCHANGED <<assigned_llid, link_up>>
        BY <1>7 DEF FireLifetime
  <2>2. DOMAIN due' = Timer /\ due'["Gate"] = due["Gate"]
        BY <1>1, <1>7 DEF FireLifetime, tear_down_registration
  <2>3. CASE registered_at = None
    <3>1. emitted' = <<>> /\ mpcp_state' = mpcp_state /\ registered_at' = registered_at
          BY <1>7, <2>3 DEF FireLifetime, tear_down_registration, protocol
    <3> QED BY <1>1, <2>1, <2>2, <3>1, PeerStepKeeps
  <2>4. CASE registered_at # None
    <3>1. /\ emitted' = <<Register("DEREGISTER")>> /\ mpcp_state' = "Idle"
          /\ registered_at' = None
          BY <1>7, <2>4 DEF FireLifetime, tear_down_registration
    <3>2. PICK g : /\ g.kind = "DEREGISTER" /\ g.llid = assigned_llid
                   /\ downstream' = Sent(downstream, g, 0)
          BY <1>1, <3>1, CarriedDown DEF Register
    <3>3. mpcp_state = "Registered" /\ Serving
          BY <1>1, <2>4 DEF AgreeInv, Phase, Asking, Granting, Acknowledging, Serving, Leaving, Stranded
    <3>4. Free(downstream, {"REGISTER"}) /\ Free(downstream, {"DEREGISTER"})
          BY <3>3 DEF Serving, Free
    <3>5. /\ IsLine(downstream') /\ Sole(downstream', "DEREGISTER", assigned_llid)
          /\ Free(downstream', {"REGISTER"})
          BY <1>1, <3>2, <3>4, SentSays
    <3>6. Leaving'
          BY <1>1, <2>1, <3>1, <3>3, <3>5 DEF Leaving, Serving
    <3>7. link_up /\ LinkShape'
          BY <1>1, <2>1, <2>2, <3>1, <3>3, <3>5 DEF AgreeInv, LinkShape, DarkLineIsQuiet
    <3> QED BY <2>1, <3>1, <3>6, <3>7 DEF AgreeInv, DarkLineIsQuiet
  <2> QED BY <2>3, <2>4
<1>8. CASE FireRediscovery
  <2>1. emitted' = <<>>
        BY <1>8 DEF FireRediscovery
  <2>2. /\ UNCHANGED <<mpcp_state, assigned_llid, link_up, registered_at>>
        /\ DOMAIN due' = Timer /\ due'["Gate"] = due["Gate"]
        BY <1>1, <1>8 DEF FireRediscovery
  <2> QED BY <1>1, <2>1, <2>2, PeerStepKeeps
<1> QED BY <1>1, <1>2, <1>3, <1>4, <1>5, <1>6, <1>7, <1>8 DEF Fire

(* A request that lands finds the responder without LLID, or is ahead of   *)
(* the acknowledgement and refused; an acknowledgement that lands ends the *)
(* handshake it belongs to.                                                *)
LEMMA LandKeeps == ASSUME AgreeInv, LinesHaveRoom, Land PROVE AgreeInv'
<1>1. PICK h : h = Head(upstream).frame
      OBVIOUS
<1>2. /\ upstream # <<>> /\ upstream' = Tail(upstream) /\ CarryDown
      /\ UNCHANGED <<cut_off, onu>>
      BY DEF Land, Landed, ends, clocks
<1>3. /\ IsLine(upstream) /\ IsLine(downstream) /\ Phase /\ DarkLineIsQuiet
      /\ DOMAIN due = Timer /\ LinkShape
      /\ mpcp_state = "Registered" <=> registered_at # None
      BY DEF AgreeInv, LinkShape, Phase
<1>4. /\ h.kind = "REQUEST" => \E src \in Onu : on_register_req_refused(src) \/ on_register_req(src)
      /\ h.kind = "ACK" => on_register_ack(TRUE, h.llid, TRUE)
      /\ h.kind = "INFO" => on_oam(TRUE, Head(upstream).frame.flags)
      /\ h.kind \in {"REQUEST", "ACK", "INFO"}
      BY <1>1 DEF Land
<1>5. /\ IsLine(upstream')
      /\ \A K : Free(upstream, K) => Free(upstream', K) /\ h.kind \notin K
      /\ \A k, l : Sole(upstream, k, l) /\ h.kind # k => Sole(upstream', k, l)
      /\ \A k, l : Sole(upstream, k, l) /\ h.kind = k => Free(upstream', {k}) /\ h.llid = l
      /\ RequestsAhead(upstream) => RequestsAhead(upstream')
      /\ RequestsAhead(upstream) /\ h.kind = "ACK" => Free(upstream', {"REQUEST"})
      BY <1>1, <1>2, <1>3, TakenSays
<1>6. emitted' = <<>> /\ UNCHANGED <<assigned_llid, link_up>>
      BY <1>4 DEF on_register_req_refused, on_register_req, on_register_ack, on_oam
<1>7. downstream' = downstream
      BY <1>2, <1>3, <1>6, CarriedDown
<1>8. CASE h.kind = "REQUEST"
  <2>1. PICK src \in Onu : on_register_req_refused(src) \/ on_register_req(src)
        BY <1>4, <1>8
  <2>2. Asking \/ Granting \/ Acknowledging
    <3>1. ~Free(upstream, {"ACK", "REQUEST"})
          BY <1>5, <1>8
    <3> QED BY <1>3, <3>1 DEF Phase, Serving, Leaving, Stranded
  <2>3. link_up
    <3>1. ~Free(upstream, {"REQUEST"})
          BY <1>5, <1>8
    <3> QED BY <1>3, <3>1 DEF DarkLineIsQuiet
  <2>4. registered_at' = registered_at /\ DOMAIN due' = Timer
        BY <1>3, <2>1 DEF on_register_req_refused, on_register_req, protocol
  <2>5. /\ mpcp_state = "WaitAck" => mpcp_state' = "WaitAck"
        /\ mpcp_state \in {"Idle", "Discovery"} => mpcp_state' \in {"Idle", "Discovery"}
        BY <2>1 DEF on_register_req_refused, on_register_req, protocol
  <2>6. Phase'
    <3>1. Asking => Asking'
          BY <1>2, <1>5, <1>7, <2>5 DEF Asking
    <3>2. Granting => Granting'
          BY <1>2, <1>5, <1>6, <1>7, <2>5 DEF Granting
    <3>3. Acknowledging => Acknowledging'
          BY <1>2, <1>5, <1>6, <1>7, <1>8, <2>5 DEF Acknowledging
    <3> QED BY <2>2, <3>1, <3>2, <3>3 DEF Phase
  <2>7. mpcp_state' # "Registered" /\ mpcp_state # "Registered"
        BY <2>2, <2>5 DEF Asking, Granting, Acknowledging
  <2> QED BY <1>2, <1>3, <1>5, <1>6, <1>7, <2>3, <2>4, <2>6, <2>7
          DEF AgreeInv, LinkShape, DarkLineIsQuiet, Phase
<1>9. CASE h.kind = "ACK"
  <2>1. on_register_ack(TRUE, h.llid, TRUE)
        BY <1>4, <1>9
  <2>2. Acknowledging
    <3>1. ~Free(upstream, {"ACK", "REQUEST"}) /\ ~Free(upstream, {"ACK"})
          BY <1>5, <1>9
    <3> QED BY <1>3, <3>1 DEF Phase, Asking, Granting, Serving, Leaving, Stranded
  <2>3. h.llid = assigned_llid /\ Free(upstream', {"ACK"}) /\ Free(upstream', {"REQUEST"})
        BY <1>5, <1>9, <2>2 DEF Acknowledging
  <2>4. mpcp_state' = "Registered" /\ registered_at' = 0 /\ DOMAIN due' = Timer
        BY <1>3, <2>1, <2>2, <2>3 DEF on_register_ack, Acknowledging
  <2>5. Serving'
        BY <1>2, <1>6, <1>7, <2>2, <2>3, <2>4 DEF Serving, Acknowledging, Free
  <2>6. link_up
        BY <1>3, <2>2 DEF DarkLineIsQuiet, Acknowledging
  <2> QED BY <1>2, <1>3, <1>5, <1>6, <1>7, <2>4, <2>5, <2>6
          DEF AgreeInv, LinkShape, DarkLineIsQuiet, None
<1>10. CASE h.kind = "INFO"
  <2>1. on_oam(TRUE, Head(upstream).frame.flags)
        BY <1>4, <1>10
  <2>2. /\ UNCHANGED <<mpcp_state, registered_at>> /\ DOMAIN due' = Timer
        /\ due'["Gate"] = due["Gate"]
        BY <1>3, <2>1 DEF on_oam, on_discovery_entered, protocol, Timer
  <2>3. Kept(upstream, upstream', {"INFO"}) /\ Kept(downstream, downstream', {})
        BY <1>1, <1>2, <1>3, <1>7, <1>10, KeptLine
  <2>4. Phase'
        BY <1>2, <1>3, <1>6, <2>2, <2>3, PhaseKept
  <2>5. DarkLineIsQuiet'
        BY <1>3, <1>6, <2>2, <2>3, DarkKept DEF DarkLineIsQuiet
  <2> QED BY <1>2, <1>3, <1>5, <1>6, <1>7, <2>2, <2>4, <2>5 DEF AgreeInv, LinkShape, Phase
<1> QED BY <1>4, <1>8, <1>9, <1>10

(* Time passes.                                                            *)
LEMMA PassKeeps == ASSUME AgreeInv, Pass PROVE AgreeInv'
<1>1. /\ Elapse /\ downstream' = Closer(downstream) /\ upstream' = Closer(upstream)
      /\ cut_off' = cut_off
      /\ onu' = [onu EXCEPT !.next_keepalive = IF onu.armed THEN @ - 1 ELSE @,
                            !.age = IF @ = None THEN None ELSE @ + 1]
      BY DEF Pass
<1>2. /\ IsLine(upstream) /\ IsLine(downstream) /\ Phase /\ DarkLineIsQuiet /\ LinkShape
      /\ mpcp_state = "Registered" <=> registered_at # None
      BY DEF AgreeInv, LinkShape, Phase
<1>3. DOMAIN onu' = DOMAIN onu /\ onu'.llid = onu.llid
      BY <1>1, <1>2 DEF LinkShape, NewOnu
<1>4. Kept(upstream, upstream', {}) /\ Kept(downstream, downstream', {})
      BY <1>1, <1>2, KeptLine
<1>5. /\ UNCHANGED <<mpcp_state, assigned_llid, link_up>> /\ DOMAIN due' = Timer
      /\ due["Gate"] = Off => due'["Gate"] = Off
      /\ registered_at' = Older(registered_at)
      BY <1>1 DEF Elapse, Timer
<1>6. Phase'
      BY <1>1, <1>2, <1>3, <1>4, <1>5, PhaseKept
<1>7. DarkLineIsQuiet'
      BY <1>2, <1>4, <1>5, DarkKept DEF DarkLineIsQuiet
<1>8. /\ registered_at' # None <=> registered_at # None
      /\ registered_at' \in Nat \cup {None}
      BY <1>2, <1>5 DEF Older, None, LinkShape
<1> QED BY <1>2, <1>3, <1>4, <1>5, <1>6, <1>7, <1>8 DEF AgreeInv, LinkShape, Kept, Phase

(* What the responder answers enters the line behind what is on it.        *)
LEMMA AnswerIsSent ==
    ASSUME NEW k, NEW l, NEW at, Answer(k, l, at)
    PROVE  \E f : f.kind = k /\ f.llid = l /\ upstream' = Sent(upstream, f, Max({at, 0}))
BY DEF Answer

(* A frame the responder hears without taking or losing an LLID.           *)
LEMMA HeardInPassing ==
    ASSUME AgreeInv, LinesHaveRoom, Hear,
           Head(downstream).frame.kind \notin {"REGISTER", "DEREGISTER"}
    PROVE  AgreeInv'
<1>1. PICK h, at : h = Head(downstream).frame /\ at = Head(downstream).left
      OBVIOUS
<1>2. /\ downstream # <<>> /\ downstream' = Tail(downstream)
      /\ OnuDeliver(h, at) /\ cut_off' = (cut_off /\ onu'.llid # NoLlid)
      /\ UNCHANGED <<mpcp_state, registered_at, assigned_llid, link_up, due>>
      BY <1>1 DEF Hear, Landed, vars, protocol
<1>3. /\ IsLine(upstream) /\ IsLine(downstream) /\ Phase /\ DarkLineIsQuiet /\ LinkShape
      /\ Len(upstream) < LineDepth
      /\ mpcp_state = "Registered" <=> registered_at # None
      BY DEF AgreeInv, LinkShape, LinesHaveRoom, Phase
<1>4. DOMAIN onu' = DOMAIN onu /\ onu'.llid = onu.llid
      BY <1>1, <1>2, <1>3 DEF OnuDeliver, KeepaliveFrom, LinkShape, NewOnu
<1>5. Kept(downstream, downstream', {h.kind}) /\ h.kind \notin {"REGISTER", "DEREGISTER"}
      BY <1>1, <1>2, <1>3, KeptLine
<1>6. ~link_up => h.kind # "GATE"
      BY <1>1, <1>2, <1>3, TakenSays DEF DarkLineIsQuiet
<1>7. CASE h.kind = "GATE" /\ onu.llid = NoLlid
  <2>1. PICK f : f.kind = "REQUEST" /\ upstream' = Sent(upstream, f, Max({at + RequestDelay, 0}))
    <3>1. Answer("REQUEST", NoLlid, at + RequestDelay)
          BY <1>2, <1>7 DEF OnuDeliver
    <3> QED BY <3>1, AnswerIsSent
  <2>2. Kept(upstream, upstream', {"REQUEST"})
        BY <1>3, <2>1, KeptLine
  <2>3. Asking \/ Granting
        BY <1>3, <1>7, PeerAssumption
        DEF Phase, Acknowledging, Serving, Leaving, Stranded, LinkShape
  <2>4. /\ Asking => Asking'
        /\ Granting => Granting'
        BY <1>2, <1>4, <1>5, <2>2 DEF Asking, Granting, Kept
  <2>5. link_up' = link_up /\ link_up
        BY <1>2, <1>6, <1>7
  <2> QED BY <1>2, <1>3, <1>4, <1>5, <2>2, <2>3, <2>4, <2>5
          DEF AgreeInv, LinkShape, Kept, DarkLineIsQuiet
<1>8. CASE ~(h.kind = "GATE" /\ onu.llid = NoLlid)
  <2>1. upstream' = upstream
        BY <1>2, <1>5, <1>8 DEF OnuDeliver
  <2>2. Kept(upstream, upstream', {})
        BY <1>3, <2>1, KeptLine
  <2>3. ASSUME onu.llid # NoLlid PROVE Phase'
    <3>1. cut_off => cut_off'
          BY <1>2, <1>4, <2>3
    <3> QED BY <1>2, <1>3, <1>4, <1>5, <2>2, <3>1, PhaseKept
  <2>4. ASSUME onu.llid = NoLlid PROVE Phase'
    <3>1. Asking \/ Granting
          BY <1>3, <2>4, PeerAssumption
          DEF Phase, Acknowledging, Serving, Leaving, Stranded, LinkShape
    <3>2. /\ {"REGISTER", "DEREGISTER"} \cap {h.kind} = {} /\ {"DEREGISTER"} \cap {h.kind} = {}
          BY <1>5
    <3>3. /\ Asking => Asking'
          /\ Granting => Granting'
          BY <1>2, <1>4, <1>5, <2>1, <3>2 DEF Asking, Granting, Kept
    <3> QED BY <3>1, <3>3 DEF Phase
  <2>5. Phase'
        BY <2>3, <2>4
  <2>6. DarkLineIsQuiet'
        BY <1>2, <1>3, <1>5, <1>6, <2>2, DarkKept DEF DarkLineIsQuiet
  <2> QED BY <1>2, <1>3, <1>4, <1>5, <2>1, <2>5, <2>6 DEF AgreeInv, LinkShape, Kept, Phase
<1> QED BY <1>7, <1>8

(* A grant: the only REGISTER on the line is taken and acknowledged.       *)
LEMMA HeardGrant ==
    ASSUME AgreeInv, LinesHaveRoom, Hear, Head(downstream).frame.kind = "REGISTER"
    PROVE  AgreeInv'
<1>1. PICK h, at : h = Head(downstream).frame /\ at = Head(downstream).left
      OBVIOUS
<1>2. /\ downstream # <<>> /\ downstream' = Tail(downstream)
      /\ OnuDeliver(h, at) /\ cut_off' = (cut_off /\ onu'.llid # NoLlid)
      /\ UNCHANGED <<mpcp_state, registered_at, assigned_llid, link_up, due>>
      BY <1>1 DEF Hear, Landed, vars, protocol
<1>3. /\ IsLine(upstream) /\ IsLine(downstream) /\ Phase /\ DarkLineIsQuiet /\ LinkShape
      /\ Len(upstream) < LineDepth
      /\ mpcp_state = "Registered" <=> registered_at # None
      BY DEF AgreeInv, LinkShape, LinesHaveRoom, Phase
<1>4. onu' = OnGrant(onu, h, at) /\ Answer("ACK", h.llid, at)
      BY <1>1, <1>2 DEF OnuDeliver
<1>5. DOMAIN onu' = DOMAIN onu /\ onu'.llid = h.llid
      BY <1>3, <1>4 DEF OnGrant, KeepaliveFrom, LinkShape, NewOnu
<1>6. Granting
  <2>1. ~Free(downstream, {"REGISTER", "DEREGISTER"}) /\ ~Free(downstream, {"REGISTER"})
        BY <1>1, <1>2, <1>3, TakenSays
  <2> QED BY <1>3, <2>1 DEF Phase, Asking, Acknowledging, Serving, Leaving, Stranded
<1>7. /\ IsLine(downstream') /\ h.llid = assigned_llid
      /\ Free(downstream', {"REGISTER"}) /\ Free(downstream', {"DEREGISTER"})
      BY <1>1, <1>2, <1>3, <1>6, TakenSays DEF Granting
<1>8. PICK f : f.kind = "ACK" /\ f.llid = h.llid /\ upstream' = Sent(upstream, f, Max({at, 0}))
      BY <1>4, AnswerIsSent
<1>9. /\ IsLine(upstream') /\ Sole(upstream', "ACK", assigned_llid) /\ RequestsAhead(upstream')
      BY <1>3, <1>6, <1>7, <1>8, SentSays DEF Granting
<1>10. Acknowledging'
      BY <1>2, <1>5, <1>6, <1>7, <1>9 DEF Acknowledging, Granting, Free
<1>11. link_up
      BY <1>3, <1>6 DEF DarkLineIsQuiet, Granting
<1> QED BY <1>2, <1>3, <1>5, <1>7, <1>9, <1>10, <1>11 DEF AgreeInv, LinkShape, DarkLineIsQuiet

(* A teardown: the only DEREGISTER on the line ends the registration.      *)
LEMMA HeardTeardown ==
    ASSUME AgreeInv, LinesHaveRoom, Hear, Head(downstream).frame.kind = "DEREGISTER"
    PROVE  AgreeInv'
<1>1. PICK h, at : h = Head(downstream).frame /\ at = Head(downstream).left
      OBVIOUS
<1>2. /\ downstream # <<>> /\ downstream' = Tail(downstream) /\ OnuDeliver(h, at)
      /\ UNCHANGED <<mpcp_state, registered_at, assigned_llid, link_up, due>>
      BY <1>1 DEF Hear, Landed, vars, protocol
<1>3. /\ IsLine(upstream) /\ IsLine(downstream) /\ Phase /\ DarkLineIsQuiet /\ LinkShape
      /\ mpcp_state = "Registered" <=> registered_at # None
      BY DEF AgreeInv, LinkShape, LinesHaveRoom, Phase
<1>4. onu' = OnTeardown(onu, at) /\ upstream' = upstream
      BY <1>1, <1>2 DEF OnuDeliver
<1>5. DOMAIN onu' = DOMAIN onu /\ onu'.llid = NoLlid
      BY <1>3, <1>4 DEF OnTeardown, LinkShape, NewOnu
<1>6. Leaving
  <2>1. ~Free(downstream, {"REGISTER", "DEREGISTER"}) /\ ~Free(downstream, {"DEREGISTER"})
        BY <1>1, <1>2, <1>3, TakenSays
  <2> QED BY <1>3, <2>1 DEF Phase, Asking, Granting, Acknowledging, Serving, Stranded
<1>7. /\ Kept(downstream, downstream', {"DEREGISTER"}) /\ Kept(upstream, upstream', {})
      /\ Free(downstream', {"REGISTER"}) /\ Free(downstream', {"DEREGISTER"})
      BY <1>1, <1>2, <1>3, <1>4, <1>6, TakenSays, KeptLine DEF Leaving
<1>8. Asking'
      BY <1>2, <1>4, <1>5, <1>6, <1>7 DEF Asking, Leaving, Free
<1>9. DarkLineIsQuiet'
      BY <1>2, <1>3, <1>7, DarkKept DEF DarkLineIsQuiet
<1> QED BY <1>2, <1>3, <1>5, <1>7, <1>8, <1>9 DEF AgreeInv, LinkShape, Kept

LEMMA HearKeeps == ASSUME AgreeInv, LinesHaveRoom, Hear PROVE AgreeInv'
BY HeardInPassing, HeardGrant, HeardTeardown

(* The end of a turn: at most an Information OAMPDU goes on the line.      *)
LEMMA PollKeeps == ASSUME AgreeInv, LinesHaveRoom, Poll PROVE AgreeInv'
<1>1. /\ UNCHANGED <<mpcp_state, registered_at, assigned_llid, link_up, due, downstream, cut_off>>
      /\ OnuAdvance
      BY DEF Poll, vars, protocol, clocks
<1>2. /\ IsLine(upstream) /\ IsLine(downstream) /\ Phase /\ DarkLineIsQuiet /\ LinkShape
      /\ Len(upstream) < LineDepth
      /\ mpcp_state = "Registered" <=> registered_at # None
      BY DEF AgreeInv, LinkShape, LinesHaveRoom, Phase
<1>3. DOMAIN onu' = DOMAIN onu /\ onu'.llid = onu.llid
      BY <1>1, <1>2 DEF OnuAdvance, LinkShape, NewOnu
<1>4. PICK U : /\ Kept(upstream, upstream', U) /\ "ACK" \notin U /\ "REQUEST" \notin U
  <2>1. CASE upstream' = upstream
    <3>1. Kept(upstream, upstream', {})
          BY <1>2, <2>1, KeptLine
    <3> QED BY <3>1
  <2>2. CASE upstream' # upstream
    <3>1. Answer("INFO", NoLlid, onu.next_keepalive)
          BY <1>1, <2>2 DEF OnuAdvance
    <3>2. PICK f : /\ f.kind = "INFO"
                   /\ upstream' = Sent(upstream, f, Max({onu.next_keepalive, 0}))
          BY <3>1, AnswerIsSent
    <3>3. Kept(upstream, upstream', {"INFO"})
          BY <1>2, <3>2, KeptLine
    <3> QED BY <3>3
  <2> QED BY <2>1, <2>2
<1>5. Kept(downstream, downstream', {})
      BY <1>1, <1>2, KeptLine
<1>6. Phase'
      BY <1>1, <1>2, <1>3, <1>4, <1>5, PhaseKept
<1>7. DarkLineIsQuiet'
      BY <1>1, <1>2, <1>4, <1>5, DarkKept DEF DarkLineIsQuiet
<1> QED BY <1>1, <1>2, <1>3, <1>4, <1>6, <1>7 DEF AgreeInv, LinkShape, Kept, Phase

(* The line comes up: nothing is on it, and the peer begins at the         *)
(* beginning, where it was left.                                           *)
LEMMA RaiseLinkKeeps == ASSUME AgreeInv, RaiseLink PROVE AgreeInv'
<1>1. /\ ~link_up /\ link_up' = TRUE /\ mpcp_state' = "Idle" /\ mpcp_state = "Idle"
      /\ UNCHANGED <<registered_at, assigned_llid, downstream, upstream, onu, cut_off>>
      /\ DOMAIN due' = DOMAIN due
      BY DEF RaiseLink, set_link_up, lines, ends, clocks, AgreeInv, DarkLineIsQuiet
<1>2. /\ IsLine(upstream) /\ IsLine(downstream) /\ Phase
      BY DEF AgreeInv, LinkShape, Phase
<1>3. Kept(upstream, upstream', {}) /\ Kept(downstream, downstream', {})
      BY <1>1, <1>2, KeptLine
<1>4. Phase'
      BY <1>1, <1>2, <1>3, PhaseKept
<1> QED BY <1>1, <1>3, <1>4 DEF AgreeInv, LinkShape, Kept, Phase, DarkLineIsQuiet

(* Nothing is on a line that goes down; the responder's LLID is all that   *)
(* is left of a registration.                                              *)
LEMMA LowerLinkKeeps == ASSUME AgreeInv, LowerLink PROVE AgreeInv'
<1>1. /\ link_up' = FALSE /\ mpcp_state' = "Idle" /\ registered_at' = None
      /\ downstream' = <<>> /\ upstream' = <<>> /\ cut_off' = (onu.llid # NoLlid)
      /\ UNCHANGED <<assigned_llid, onu>> /\ due' = [t \in Timer |-> Off]
      BY DEF LowerLink, set_link_down, ends
<1>2. \A K : Free(<<>>, K)
      BY DEF Free
<1>3. IsLine(<<>>)
      BY DEF IsLine
<1>4. onu.llid = NoLlid \/ onu.llid = assigned_llid
      BY DEF AgreeInv, Asking, Granting, Acknowledging, Serving, Leaving, Stranded
<1>5. CASE onu.llid = NoLlid
  <2>1. Asking'
        BY <1>1, <1>2, <1>5 DEF Asking
  <2> QED BY <1>1, <1>2, <1>3, <2>1 DEF AgreeInv, LinkShape, DarkLineIsQuiet, Timer
<1>6. CASE onu.llid # NoLlid
  <2>1. Stranded'
        BY <1>1, <1>2, <1>4, <1>6 DEF Stranded
  <2> QED BY <1>1, <1>2, <1>3, <2>1 DEF AgreeInv, LinkShape, DarkLineIsQuiet, Timer
<1> QED BY <1>5, <1>6

LEMMA AgreeInit == ASSUME link_Init PROVE AgreeInv
<1>1. /\ downstream = <<>> /\ upstream = <<>> /\ onu = NewOnu /\ onu.llid = NoLlid
      /\ mpcp_state = "Idle" /\ registered_at = None /\ due = [t \in Timer |-> Off]
      /\ assigned_llid \in Llid
      BY DEF link_Init, Init, NewOnu
<1>2. \A K : Free(<<>>, K)
      BY DEF Free
<1>3. IsLine(<<>>)
      BY DEF IsLine
<1>4. Asking
      BY <1>1, <1>2 DEF Asking
<1> QED BY <1>1, <1>2, <1>3, <1>4 DEF AgreeInv, LinkShape, DarkLineIsQuiet, Timer

LEMMA AgreeNext == ASSUME AgreeInv, LinesHaveRoom, [link_Next]_link_vars PROVE AgreeInv'
<1>1. CASE UNCHANGED link_vars
  <2>1. UNCHANGED <<mpcp_state, registered_at, assigned_llid, link_up, due, downstream, upstream,
                    onu, cut_off>>
        BY <1>1 DEF link_vars, vars, protocol, lines, ends, clocks
  <2> QED BY <2>1 DEF AgreeInv, LinkShape, Asking, Granting, Acknowledging, Serving, Leaving,
                      Stranded, DarkLineIsQuiet
<1> QED BY <1>1, LandKeeps, FireEventKeeps, PassKeeps, HearKeeps, PollKeeps, RaiseLinkKeeps,
           LowerLinkKeeps DEF link_Next

(* What each phase says is what the ends agree on.                         *)
LEMMA AgreeInvImplies == ASSUME AgreeInv PROVE EndsAgree
<1>1. NoLlid # assigned_llid
      BY PeerAssumption DEF AgreeInv, LinkShape
<1>2. \A q, k, l : Sole(q, k, l) => OnLine(q, k)
      BY DEF Sole, OnLine
<1> QED BY <1>1, <1>2 DEF AgreeInv, EndsAgree, Asking, Granting, Acknowledging, Serving, Leaving, Stranded

--------------------------------------------------------------------------------
(* The same proof again, with time.                                        *)

LEMMA MaxOfTwo ==
    ASSUME NEW a \in Int, NEW b \in Int
    PROVE  Max({a, b}) \in {a, b} /\ Max({a, b}) >= a /\ Max({a, b}) >= b
<1>1. \E x \in {a, b} : \A y \in {a, b} : x >= y
  <2>1. CASE a >= b
        BY <2>1
  <2>2. CASE b >= a
        BY <2>2
  <2> QED BY <2>1, <2>2
<1>2. Max({a, b}) \in {a, b} /\ \A y \in {a, b} : Max({a, b}) >= y
      BY <1>1 DEF Max
<1> QED BY <1>2

(* When a frame lands that is sent on a line in order.                     *)
LEMMA SentInOrder ==
    ASSUME NEW q, IsLine(q), InOrder(q), Len(q) < LineDepth, NEW f, NEW at \in Int
    PROVE  \E n \in Nat, left \in Int :
              /\ InOrder(Sent(q, f, at))
              /\ DOMAIN q = 1 .. n /\ DOMAIN Sent(q, f, at) = 1 .. n + 1
              /\ \A i \in 1 .. n : Sent(q, f, at)[i] = q[i]
              /\ Sent(q, f, at)[n + 1].frame = f /\ Sent(q, f, at)[n + 1].left = left
              /\ left >= at + Crossing
              /\ left = at + Crossing \/ (n \in 1 .. n /\ left = q[n].left)
<1>1. Len(q) \in Nat /\ LineDepth \in Nat /\ Crossing \in Int
      BY LinkAssumption DEF IsLine
<1>2. PICK n, left : /\ n = Len(q)
                     /\ left = IF q # <<>> /\ Last(q).left > at + Crossing THEN Last(q).left
                                                                          ELSE at + Crossing
      OBVIOUS
<1>3. Sent(q, f, at) = Append(q, [frame |-> f, left |-> left])
      BY <1>1, <1>2 DEF Sent
<1>4. PICK r : r = Sent(q, f, at)
      OBVIOUS
<1>5. /\ n \in Nat /\ DOMAIN q = 1 .. n /\ DOMAIN r = 1 .. n + 1
      /\ \A i \in 1 .. n : r[i] = q[i]
      /\ r[n + 1] = [frame |-> f, left |-> left]
      BY <1>1, <1>2, <1>3, <1>4, AppendedLine
<1>6. q # <<>> => n \in 1 .. n /\ Last(q) = q[n] /\ q[n].left \in Int
  <2>1. HAVE q # <<>>
  <2>2. n # 0
        BY <1>2, <2>1 DEF IsLine
  <2> QED BY <1>2, <1>5, <2>2 DEF Last, InOrder
<1>7. /\ left \in Int /\ left >= at + Crossing
      /\ left = at + Crossing \/ (n \in 1 .. n /\ left = q[n].left)
      BY <1>1, <1>2, <1>6
<1>8. ASSUME NEW i \in 1 .. n PROVE q[i].left \in Int /\ q[i].left <= left
  <2>1. n \in 1 .. n /\ q # <<>>
        BY <1>5, <1>8
  <2>2. /\ q[i].left \in Int /\ q[n].left \in Int
        /\ i < n => q[i].left <= q[n].left
        BY <1>5, <1>8, <2>1 DEF InOrder
  <2>3. q[i].left <= q[n].left
        BY <1>5, <1>8, <2>2
  <2>4. q[n].left <= left
        BY <1>1, <1>2, <1>6, <2>1
  <2> QED BY <1>7, <2>2, <2>3, <2>4
<1>9. InOrder(r)
  <2>1. \A i \in 1 .. n + 1 : r[i].left \in Int
        BY <1>5, <1>7, <1>8
  <2>2. ASSUME NEW i \in 1 .. n + 1, NEW j \in 1 .. n + 1, i < j
        PROVE  r[i].left <= r[j].left
    <3>1. CASE j = n + 1
          BY <1>5, <1>8, <2>2, <3>1
    <3>2. CASE j # n + 1
      <4>1. i \in DOMAIN q /\ j \in DOMAIN q /\ r[i] = q[i] /\ r[j] = q[j]
            BY <1>5, <2>2, <3>2
      <4> QED BY <2>2, <4>1 DEF InOrder
    <3> QED BY <3>1, <3>2
  <2> QED BY <1>5, <2>1, <2>2 DEF InOrder
<1> QED BY <1>4, <1>5, <1>7, <1>9

(* The first frame of a line lands first.                                  *)
LEMMA TakenInOrder ==
    ASSUME NEW q, IsLine(q), InOrder(q), q # <<>>
    PROVE  \E n \in Nat \ {0} :
              /\ InOrder(Tail(q)) /\ Head(q) = q[1]
              /\ DOMAIN q = 1 .. n /\ DOMAIN Tail(q) = 1 .. n - 1
              /\ \A i \in 1 .. n - 1 : Tail(q)[i] = q[i + 1]
              /\ \A i \in 1 .. n : q[i].left \in Int /\ q[1].left <= q[i].left
<1>1. PICK n, r : n = Len(q) /\ r = Tail(q)
      OBVIOUS
<1>2. /\ n \in Nat \ {0} /\ DOMAIN q = 1 .. n /\ DOMAIN r = 1 .. n - 1
      /\ \A i \in 1 .. n - 1 : r[i] = q[i + 1]
      /\ Head(q) = q[1]
      BY <1>1, ShortenedLine
<1>3. ASSUME NEW i \in 1 .. n PROVE q[i].left \in Int /\ q[1].left <= q[i].left
  <2>1. 1 \in DOMAIN q /\ i \in DOMAIN q /\ (i = 1 \/ 1 < i)
        BY <1>2, <1>3
  <2> QED BY <2>1 DEF InOrder
<1>4. InOrder(r)
  <2>1. \A i \in 1 .. n - 1 : r[i].left \in Int
        BY <1>2, <1>3
  <2>2. ASSUME NEW i \in 1 .. n - 1, NEW j \in 1 .. n - 1, i < j
        PROVE  r[i].left <= r[j].left
    <3>1. /\ i + 1 \in DOMAIN q /\ j + 1 \in DOMAIN q /\ i + 1 < j + 1
          /\ r[i] = q[i + 1] /\ r[j] = q[j + 1]
          BY <1>2, <2>2
    <3> QED BY <3>1 DEF InOrder
  <2> QED BY <1>2, <2>1, <2>2 DEF InOrder
<1> QED BY <1>1, <1>2, <1>3, <1>4

(* What the peer sends keeps the times of both lines.                      *)
LEMMA DownInTime ==
    ASSUME LinesInTime, IsLine(downstream), LinesHaveRoom,
           downstream' = downstream \/ \E g : downstream' = Sent(downstream, g, 0),
           UNCHANGED <<upstream, since_poll>>
    PROVE  LinesInTime'
<1>1. CASE downstream' = downstream
      BY <1>1 DEF LinesInTime, InOrder
<1>2. ASSUME NEW g, downstream' = Sent(downstream, g, 0)
      PROVE  LinesInTime'
  <2>1. /\ Crossing \in Nat \ {0} /\ RequestDelay \in Nat /\ LongestStep \in Nat
        BY LinkAssumption
  <2>2. /\ InOrder(downstream) /\ Len(downstream) < LineDepth /\ since_poll \in 0 .. LongestStep
        BY DEF LinesInTime, LinesHaveRoom
  <2>3. PICK n \in Nat, left \in Int :
              /\ InOrder(downstream')
              /\ DOMAIN downstream = 1 .. n /\ DOMAIN downstream' = 1 .. n + 1
              /\ \A i \in 1 .. n : downstream'[i] = downstream[i]
              /\ downstream'[n + 1].left = left
              /\ left >= 0 + Crossing
              /\ left = 0 + Crossing \/ (n \in 1 .. n /\ left = downstream[n].left)
        BY <1>2, <2>2, SentInOrder
  <2>4. left = Crossing
        BY <2>1, <2>2, <2>3 DEF LinesInTime
  <2>5. \A i \in 1 .. n + 1 : downstream'[i].left \in 1 - since_poll .. Crossing
        BY <2>1, <2>2, <2>3, <2>4 DEF LinesInTime
  <2>6. ASSUME NEW i \in 1 .. n + 1, NEW j \in DOMAIN upstream
        PROVE  \/ upstream[j].left <= Crossing
               \/ upstream[j].left <= Crossing + RequestDelay + downstream'[i].left
    <3>1. upstream[j].left \in 0 .. Crossing + RequestDelay
          BY DEF LinesInTime
    <3> QED BY <2>1, <2>3, <2>4, <3>1 DEF LinesInTime
  <2> QED BY <2>2, <2>3, <2>5, <2>6 DEF LinesInTime, InOrder
<1> QED BY <1>1, <1>2

(* What lands at the peer leaves them as they are.                         *)
LEMMA LandInTime ==
    ASSUME LinesInTime, IsLine(upstream), upstream # <<>>, upstream' = Tail(upstream),
           UNCHANGED <<downstream, since_poll>>
    PROVE  LinesInTime'
<1>1. PICK n \in Nat \ {0} :
              /\ InOrder(upstream')
              /\ DOMAIN upstream = 1 .. n /\ DOMAIN upstream' = 1 .. n - 1
              /\ \A i \in 1 .. n - 1 : upstream'[i] = upstream[i + 1]
      BY TakenInOrder DEF LinesInTime
<1>2. \A i \in DOMAIN upstream' : \E j \in DOMAIN upstream : upstream'[i] = upstream[j]
      BY <1>1
<1> QED BY <1>1, <1>2 DEF LinesInTime, InOrder

(* Time passes between two turns while nothing has landed at the peer.     *)
LEMMA PassInTime ==
    ASSUME AgreeInv, LinesInTime, Pass
    PROVE  LinesInTime'
<1>1. /\ downstream' = Closer(downstream) /\ upstream' = Closer(upstream)
      /\ since_poll < LongestStep /\ since_poll' = since_poll + 1
      /\ IsLine(upstream) /\ IsLine(downstream)
      BY DEF Pass, AgreeInv, LinkShape
<1>2. /\ Crossing \in Nat \ {0} /\ RequestDelay \in Nat /\ LongestStep \in Nat
      /\ since_poll \in 0 .. LongestStep
      BY LinkAssumption DEF LinesInTime
<1>3. ASSUME NEW q, IsLine(q), InOrder(q)
      PROVE  /\ InOrder(Closer(q)) /\ DOMAIN Closer(q) = DOMAIN q
             /\ \A i \in DOMAIN q : Closer(q)[i].left = q[i].left - 1
  <2>1. \A i \in DOMAIN q : Closer(q)[i].left = q[i].left - 1
        BY DEF Closer
  <2>2. DOMAIN Closer(q) = DOMAIN q
        BY DEF Closer
  <2> QED BY <1>3, <2>1, <2>2 DEF InOrder
<1>4. \A j \in DOMAIN upstream : upstream[j].left \in Int /\ upstream[j].left > 0
  <2>1. SUFFICES ASSUME NEW j \in DOMAIN upstream
                 PROVE  upstream[j].left \in Int /\ upstream[j].left > 0
        OBVIOUS
  <2>2. upstream # <<>>
        OBVIOUS
  <2>3. PICK n \in Nat \ {0} :
              /\ Head(upstream) = upstream[1] /\ DOMAIN upstream = 1 .. n
              /\ \A i \in 1 .. n : upstream[i].left \in Int /\ upstream[1].left <= upstream[i].left
        BY <1>1, <2>2, TakenInOrder DEF LinesInTime
  <2>4. ~(upstream[1].left <= 0) /\ upstream[1].left \in Int
        BY <2>2, <2>3 DEF Pass, Landed
  <2> QED BY <2>3, <2>4
<1>5. /\ InOrder(downstream') /\ InOrder(upstream')
      /\ DOMAIN downstream' = DOMAIN downstream /\ DOMAIN upstream' = DOMAIN upstream
      /\ \A i \in DOMAIN downstream : downstream'[i].left = downstream[i].left - 1
      /\ \A i \in DOMAIN upstream : upstream'[i].left = upstream[i].left - 1
      BY <1>1, <1>3 DEF LinesInTime
<1>6. since_poll' \in 0 .. LongestStep
      BY <1>1, <1>2
<1>7. \A i \in DOMAIN downstream : downstream'[i].left \in 1 - since_poll' .. Crossing
      BY <1>1, <1>2, <1>5 DEF LinesInTime
<1>8. \A j \in DOMAIN upstream : upstream'[j].left \in 0 .. Crossing + RequestDelay
      BY <1>2, <1>4, <1>5 DEF LinesInTime
<1>9. ASSUME NEW i \in DOMAIN downstream, NEW j \in DOMAIN upstream
      PROVE  \/ upstream'[j].left <= Crossing
             \/ upstream'[j].left <= Crossing + RequestDelay + downstream'[i].left
  <2>1. downstream[i].left \in Int /\ upstream[j].left \in Int
        BY <1>4 DEF LinesInTime, InOrder
  <2>2. \/ upstream[j].left <= Crossing
        \/ upstream[j].left <= Crossing + RequestDelay + downstream[i].left
        BY DEF LinesInTime
  <2> QED BY <1>2, <1>5, <2>1, <2>2
<1> QED BY <1>5, <1>6, <1>7, <1>8, <1>9 DEF LinesInTime

(* What the responder sends, now or when the GATE it hears allows, keeps   *)
(* them too.                                                               *)
LEMMA HearInTime ==
    ASSUME LinesInTime, IsLine(downstream), IsLine(upstream), LinesHaveRoom,
           Landed(downstream), downstream' = Tail(downstream), since_poll' = since_poll,
           \/ upstream' = upstream
           \/ \E f : upstream' = Sent(upstream, f, 0)
           \/ /\ Head(downstream).left + RequestDelay >= 0
              /\ \E f : upstream' = Sent(upstream, f, Head(downstream).left + RequestDelay)
    PROVE  LinesInTime'
<1>1. /\ Crossing \in Nat \ {0} /\ RequestDelay \in Nat /\ LongestStep \in Nat
      /\ since_poll \in 0 .. LongestStep
      BY LinkAssumption DEF LinesInTime
<1>2. PICK n \in Nat \ {0} :
            /\ InOrder(downstream') /\ Head(downstream) = downstream[1]
            /\ DOMAIN downstream = 1 .. n /\ DOMAIN downstream' = 1 .. n - 1
            /\ \A i \in 1 .. n - 1 : downstream'[i] = downstream[i + 1]
            /\ \A i \in 1 .. n : downstream[i].left \in Int /\ downstream[1].left <= downstream[i].left
      BY TakenInOrder DEF LinesInTime, Landed
<1>3. downstream[1].left \in Int /\ downstream[1].left <= 0
      BY <1>2 DEF Landed
<1>4. \A i \in 1 .. n - 1 : /\ downstream'[i].left \in 1 - since_poll .. Crossing
                             /\ downstream'[i].left \in Int /\ downstream[1].left <= downstream'[i].left
  <2>1. SUFFICES ASSUME NEW i \in 1 .. n - 1
                 PROVE  /\ downstream'[i].left \in 1 - since_poll .. Crossing
                        /\ downstream'[i].left \in Int /\ downstream[1].left <= downstream'[i].left
        OBVIOUS
  <2>2. i + 1 \in 1 .. n /\ downstream'[i] = downstream[i + 1]
        BY <1>2
  <2> QED BY <1>2, <2>2 DEF LinesInTime
<1>5. CASE upstream' = upstream
  <2>1. ASSUME NEW i \in 1 .. n - 1, NEW j \in DOMAIN upstream
        PROVE  \/ upstream[j].left <= Crossing
               \/ upstream[j].left <= Crossing + RequestDelay + downstream'[i].left
    <3>1. i + 1 \in DOMAIN downstream /\ downstream'[i] = downstream[i + 1]
          BY <1>2
    <3> QED BY <3>1 DEF LinesInTime
  <2> QED BY <1>2, <1>4, <1>5, <2>1 DEF LinesInTime, InOrder
<1>6. ASSUME NEW f, NEW t \in Int, upstream' = Sent(upstream, f, t),
             t <= 0 \/ t = downstream[1].left + RequestDelay, t >= 0
      PROVE  LinesInTime'
  <2>1. PICK m \in Nat, left \in Int :
              /\ InOrder(upstream')
              /\ DOMAIN upstream = 1 .. m /\ DOMAIN upstream' = 1 .. m + 1
              /\ \A i \in 1 .. m : upstream'[i] = upstream[i]
              /\ upstream'[m + 1].left = left
              /\ left >= t + Crossing
              /\ left = t + Crossing \/ (m \in 1 .. m /\ left = upstream[m].left)
    <3>1. InOrder(upstream) /\ Len(upstream) < LineDepth
          BY DEF LinesInTime, LinesHaveRoom
    <3> QED BY <1>6, <3>1, SentInOrder
  <2>2. \A j \in 1 .. m : upstream[j].left \in 0 .. Crossing + RequestDelay
        BY <2>1 DEF LinesInTime
  <2>3. left \in 0 .. Crossing + RequestDelay
        BY <1>1, <1>3, <1>6, <2>1, <2>2
  <2>4. ASSUME NEW i \in 1 .. n - 1, NEW j \in 1 .. m
        PROVE  \/ upstream[j].left <= Crossing
               \/ upstream[j].left <= Crossing + RequestDelay + downstream'[i].left
    <3>1. i + 1 \in DOMAIN downstream /\ downstream'[i] = downstream[i + 1] /\ j \in DOMAIN upstream
          BY <1>2, <2>1
    <3> QED BY <3>1 DEF LinesInTime
  <2>5. ASSUME NEW i \in 1 .. n - 1
        PROVE  left <= Crossing \/ left <= Crossing + RequestDelay + downstream'[i].left
    <3>1. CASE left = t + Crossing
      <4>1. PICK d, e : d = downstream[1].left /\ e = downstream'[i].left
            OBVIOUS
      <4>2. d \in Int /\ e \in Int /\ d <= e
            BY <1>4, <1>3, <4>1
      <4>3. t <= 0 \/ t = d + RequestDelay
            BY <1>6, <4>1
      <4>4. left <= Crossing \/ left <= Crossing + RequestDelay + e
            BY <1>1, <3>1, <4>2, <4>3
      <4> QED BY <4>1, <4>4
    <3>2. CASE m \in 1 .. m /\ left = upstream[m].left
          BY <2>4, <3>2
    <3> QED BY <2>1, <3>1, <3>2
  <2>6. ASSUME NEW i \in 1 .. n - 1, NEW j \in 1 .. m + 1
        PROVE  \/ upstream'[j].left <= Crossing
               \/ upstream'[j].left <= Crossing + RequestDelay + downstream'[i].left
    <3>1. CASE j = m + 1
          BY <2>1, <2>5, <3>1
    <3>2. CASE j # m + 1
      <4>1. j \in 1 .. m /\ upstream'[j] = upstream[j]
            BY <2>1, <3>2
      <4> QED BY <2>4, <4>1
    <3> QED BY <3>1, <3>2
  <2>7. \A j \in 1 .. m + 1 : upstream'[j].left \in 0 .. Crossing + RequestDelay
        BY <2>1, <2>2, <2>3
  <2> QED BY <1>1, <1>2, <1>4, <2>1, <2>6, <2>7 DEF LinesInTime
<1>7. CASE \E f : upstream' = Sent(upstream, f, 0)
      BY <1>6, <1>7
<1>8. CASE /\ Head(downstream).left + RequestDelay >= 0
           /\ \E f : upstream' = Sent(upstream, f, Head(downstream).left + RequestDelay)
  <2>1. PICK t : t = downstream[1].left + RequestDelay
        OBVIOUS
  <2>2. t \in Int /\ t >= 0 /\ \E f : upstream' = Sent(upstream, f, t)
        BY <1>1, <1>2, <1>3, <1>8, <2>1
  <2> QED BY <1>6, <2>1, <2>2
<1> QED BY <1>5, <1>7, <1>8

(* A turn ends when nothing that has landed is left.                       *)
LEMMA PollInTime ==
    ASSUME LinesInTime, IsLine(downstream), IsLine(upstream), LinesHaveRoom,
           ~Landed(downstream), downstream' = downstream, since_poll' = 0,
           upstream' = upstream \/ \E f : upstream' = Sent(upstream, f, 0)
    PROVE  LinesInTime'
<1>1. /\ Crossing \in Nat \ {0} /\ RequestDelay \in Nat /\ LongestStep \in Nat
      /\ InOrder(downstream) /\ InOrder(upstream) /\ Len(upstream) < LineDepth
      BY LinkAssumption DEF LinesInTime, LinesHaveRoom
<1>2. \A i \in DOMAIN downstream : downstream[i].left \in 1 .. Crossing
  <2>1. SUFFICES ASSUME NEW i \in DOMAIN downstream PROVE downstream[i].left \in 1 .. Crossing
        OBVIOUS
  <2>2. downstream # <<>>
        OBVIOUS
  <2>3. PICK n \in Nat \ {0} :
              /\ Head(downstream) = downstream[1] /\ DOMAIN downstream = 1 .. n
              /\ \A j \in 1 .. n : /\ downstream[j].left \in Int
                                  /\ downstream[1].left <= downstream[j].left
        BY <1>1, <2>2, TakenInOrder
  <2>4. ~(downstream[1].left <= 0) /\ downstream[1].left \in Int
        BY <2>2, <2>3 DEF Landed
  <2>5. downstream[i].left <= Crossing
        BY DEF LinesInTime
  <2> QED BY <1>1, <2>3, <2>4, <2>5
<1>3. \A j \in DOMAIN upstream : upstream[j].left \in 0 .. Crossing + RequestDelay
      BY DEF LinesInTime
<1>4. \A i \in DOMAIN downstream, j \in DOMAIN upstream :
          \/ upstream[j].left <= Crossing
          \/ upstream[j].left <= Crossing + RequestDelay + downstream[i].left
      BY DEF LinesInTime
<1>5. CASE upstream' = upstream
      BY <1>1, <1>2, <1>3, <1>4, <1>5 DEF LinesInTime
<1>6. ASSUME NEW f, upstream' = Sent(upstream, f, 0)
      PROVE  LinesInTime'
  <2>1. PICK m \in Nat, left \in Int :
              /\ InOrder(upstream')
              /\ DOMAIN upstream = 1 .. m /\ DOMAIN upstream' = 1 .. m + 1
              /\ \A i \in 1 .. m : upstream'[i] = upstream[i]
              /\ upstream'[m + 1].left = left
              /\ left >= 0 + Crossing
              /\ left = 0 + Crossing \/ (m \in 1 .. m /\ left = upstream[m].left)
    <3>1. PICK q, now : q = upstream /\ now = 0
          OBVIOUS
    <3>2. now \in Int /\ IsLine(q) /\ InOrder(q) /\ Len(q) < LineDepth
          BY <1>1, <3>1
    <3>3. Sent(q, f, now) = upstream'
          BY <1>6, <3>1
    <3>4. \E m \in Nat, left \in Int :
              /\ InOrder(Sent(q, f, now))
              /\ DOMAIN q = 1 .. m /\ DOMAIN Sent(q, f, now) = 1 .. m + 1
              /\ \A i \in 1 .. m : Sent(q, f, now)[i] = q[i]
              /\ Sent(q, f, now)[m + 1].frame = f /\ Sent(q, f, now)[m + 1].left = left
              /\ left >= now + Crossing
              /\ left = now + Crossing \/ (m \in 1 .. m /\ left = q[m].left)
          BY <3>2, SentInOrder, Zenon
    <3> QED BY <3>1, <3>3, <3>4
  <2>2. ASSUME NEW j \in 1 .. m + 1 PROVE upstream'[j].left \in 0 .. Crossing + RequestDelay
        BY <1>1, <1>3, <2>1
  <2>3. ASSUME NEW i \in DOMAIN downstream, NEW j \in 1 .. m + 1
        PROVE  \/ upstream'[j].left <= Crossing
               \/ upstream'[j].left <= Crossing + RequestDelay + downstream[i].left
    <3>1. CASE j \in 1 .. m
          BY <1>4, <2>1, <3>1
    <3>2. CASE j = m + 1 /\ left = 0 + Crossing
          BY <1>1, <2>1, <3>2
    <3>3. CASE j = m + 1 /\ m \in 1 .. m /\ left = upstream[m].left
          BY <1>4, <2>1, <3>3
    <3> QED BY <2>1, <3>1, <3>2, <3>3
  <2> QED BY <1>1, <1>2, <2>1, <2>2, <2>3 DEF LinesInTime
<1> QED BY <1>5, <1>6

(* A line that went down is empty.                                         *)
LEMMA DarkInTime ==
    ASSUME LinesInTime, downstream' = <<>>, upstream' = <<>>, since_poll' = since_poll
    PROVE  LinesInTime'
BY DEF LinesInTime, InOrder

(* What the responder answers comes at once, or a request's delay after    *)
(* the GATE it answers.                                                    *)
LEMMA AnswerInTime ==
    ASSUME AgreeInv, LinesInTime, Hear
    PROVE  \/ upstream' = upstream
           \/ \E f : upstream' = Sent(upstream, f, 0)
           \/ /\ Head(downstream).left + RequestDelay >= 0
              /\ \E f : upstream' = Sent(upstream, f, Head(downstream).left + RequestDelay)
<1>1. PICK h, at : h = Head(downstream).frame /\ at = Head(downstream).left
      OBVIOUS
<1>2. OnuDeliver(h, at)
      BY <1>1 DEF Hear
<1>3. downstream # <<>> /\ Landed(downstream) /\ IsLine(downstream) /\ InOrder(downstream)
      BY DEF Hear, Landed, AgreeInv, LinkShape, LinesInTime
<1>4. at \in Int /\ at <= 0
  <2>1. PICK n \in Nat \ {0} : Head(downstream) = downstream[1] /\ downstream[1].left \in Int
        BY <1>3, TakenInOrder
  <2> QED BY <1>1, <1>3, <2>1 DEF Landed
<1>5. RequestDelay \in Nat
      BY LinkAssumption
<1>6. Max({at, 0}) = 0
  <2>1. Max({at, 0}) \in {at, 0} /\ Max({at, 0}) >= 0
        BY <1>4, MaxOfTwo
  <2> QED BY <1>4, <2>1
<1>7. \/ at + RequestDelay >= 0 /\ Max({at + RequestDelay, 0}) = at + RequestDelay
      \/ Max({at + RequestDelay, 0}) = 0
      BY <1>4, <1>5, MaxOfTwo
<1>8. CASE upstream' = upstream
      BY <1>8
<1>9. CASE Answer("REQUEST", NoLlid, at + RequestDelay)
      BY <1>1, <1>7, <1>9, AnswerIsSent
<1>10. CASE Answer("ACK", h.llid, at)
      BY <1>6, <1>10, AnswerIsSent
<1> QED BY <1>2, <1>8, <1>9, <1>10 DEF OnuDeliver

LEMMA LinesInTimeNext ==
    ASSUME AgreeInv, LinesInTime, ExchangeInTime, LinesHaveRoom, [link_Next]_link_vars
    PROVE  LinesInTime'
<1>1. IsLine(downstream) /\ IsLine(upstream)
      BY DEF AgreeInv, LinkShape
<1>2. CASE UNCHANGED link_vars
      BY <1>2 DEF LinesInTime, InOrder, link_vars, lines, ends
<1>3. ASSUME CarryDown PROVE downstream' = downstream \/ \E g : downstream' = Sent(downstream, g, 0)
      BY <1>3 DEF CarryDown
<1>4. CASE Land
  <2>1. emitted' = <<>>
        BY <1>4 DEF Land, on_register_req_refused, on_register_req, on_register_ack, on_oam
  <2>2. downstream' = downstream
        BY <1>4, <2>1 DEF Land, CarryDown
  <2> QED BY <1>1, <1>4, <2>2, LandInTime DEF Land, Landed, ends
<1>5. CASE FireEvent
  <2>1. CarryDown /\ UNCHANGED <<upstream, since_poll>>
        BY <1>5 DEF FireEvent, ends
  <2> QED BY <1>1, <1>3, <2>1, DownInTime
<1>6. CASE Pass
      BY <1>6, PassInTime
<1>7. CASE Hear
  <2>1. Landed(downstream) /\ downstream' = Tail(downstream) /\ since_poll' = since_poll
        BY <1>7 DEF Hear
  <2> QED BY <1>1, <1>7, <2>1, AnswerInTime, HearInTime
<1>8. CASE Poll
  <2>1. ~Landed(downstream) /\ downstream' = downstream /\ since_poll' = 0 /\ OnuAdvance
        BY <1>8 DEF Poll
  <2>2. upstream' = upstream \/ \E f : upstream' = Sent(upstream, f, 0)
    <3>1. CASE upstream' # upstream
      <4>1. Answer("INFO", NoLlid, onu.next_keepalive) /\ ~(onu.next_keepalive > 0)
            BY <2>1, <3>1 DEF OnuAdvance
      <4>2. onu.next_keepalive \in Int
            BY DEF ExchangeInTime
      <4>3. Max({onu.next_keepalive, 0}) = 0
        <5>1. PICK at : at = onu.next_keepalive
              OBVIOUS
        <5>2. at \in Int /\ at <= 0
              BY <4>1, <4>2, <5>1
        <5>3. at \in Int /\ 0 \in Int
              BY <5>2
        <5>4. Max({at, 0}) \in {at, 0} /\ Max({at, 0}) >= 0
              BY <5>3, MaxOfTwo
        <5> QED BY <5>1, <5>2, <5>4
      <4> QED BY <4>1, <4>3, AnswerIsSent
    <3> QED BY <3>1
  <2> QED BY <1>1, <2>1, <2>2, PollInTime
<1>9. CASE RaiseLink
      BY <1>9 DEF RaiseLink, LinesInTime, InOrder, lines, ends
<1>10. CASE LowerLink
  <2>1. downstream' = <<>> /\ upstream' = <<>> /\ since_poll' = since_poll
        BY <1>10 DEF LowerLink, ends
  <2> QED BY <2>1, DarkInTime
<1> QED BY <1>2, <1>4, <1>5, <1>6, <1>7, <1>8, <1>9, <1>10 DEF link_Next

(* The times of a line as they enter the sums below.                       *)
LEMMA LineTimes ==
    ASSUME LinesInTime
    PROVE  /\ \A i \in DOMAIN downstream : downstream[i].left \in Int
           /\ \A j \in DOMAIN upstream : upstream[j].left \in Int
           /\ Crossing \in Nat \ {0} /\ RequestDelay \in Nat /\ LongestStep \in Nat \ {0}
           /\ RegistrationLifetime \in Nat \ {0}
BY LinkAssumption, PeerAssumption DEF LinesInTime, InOrder

(* What may be said of a time waited.                                      *)
LEMMA WaitedTime ==
    ASSUME NEW t \in Int, t >= 0, t <= LongestStep - 1 \/ t <= RequestDelay
    PROVE  Waited(t)
<1>1. LongestStep - 1 \in Int /\ RequestDelay \in Int
      BY LinkAssumption
<1>2. PICK m : m = Max({LongestStep - 1, RequestDelay})
      OBVIOUS
<1>3. m \in {LongestStep - 1, RequestDelay} /\ m >= LongestStep - 1 /\ m >= RequestDelay
      BY <1>1, <1>2, MaxOfTwo
<1>4. t \in 0 .. m
      BY <1>1, <1>3
<1> QED BY <1>2, <1>4 DEF Waited

(* While the responder and its line stay as they are, a registration that  *)
(* ends leaves only the teardown to be asked for.                          *)
LEMMA OnlyTeardown ==
    ASSUME ExchangeInTime, UNCHANGED <<onu, upstream>>, registered_at' = None,
           \A i \in DOMAIN downstream' : downstream'[i].frame.kind = "DEREGISTER" =>
              Waited(onu.age + downstream'[i].left - RegistrationLifetime - 2 * Crossing)
    PROVE  ExchangeInTime'
BY DEF ExchangeInTime, Waited

(* A teardown leaves when the lifetime is over.                            *)
LEMMA FireInTime ==
    ASSUME AgreeInv, LinesInTime, ExchangeInTime, LinesHaveRoom, FireEvent
    PROVE  ExchangeInTime'
<1>1. /\ CarryDown /\ UNCHANGED <<onu, upstream>> /\ Fire
      /\ DOMAIN due = Timer /\ IsLine(downstream) /\ InOrder(downstream)
      /\ Len(downstream) < LineDepth
      BY DEF FireEvent, ends, AgreeInv, LinkShape, LinesInTime, LinesHaveRoom
<1>2. \/ registered_at' = registered_at /\ due'["Lifetime"] = due["Lifetime"]
      \/ registered_at' = None
  <2>1. CASE FireGate
        BY <1>1, <2>1 DEF FireGate, protocol, Timer
  <2>2. CASE FireNormalGate
        BY <1>1, <2>2 DEF FireNormalGate, protocol, Timer
  <2>3. CASE FireKeepalive
        BY <1>1, <2>3 DEF FireKeepalive, on_discovery_entered, protocol, Timer
  <2>4. CASE FireAttributePoll
        BY <1>1, <2>4 DEF FireAttributePoll, protocol, Timer
  <2>5. CASE FireRegisterResponse
        BY <1>1, <2>5 DEF FireRegisterResponse, Timer
  <2>6. CASE FireLifetime
        BY <1>1, <2>6 DEF FireLifetime, tear_down_registration, protocol
  <2>7. CASE FireRediscovery
        BY <1>1, <2>7 DEF FireRediscovery, Timer
  <2> QED BY <1>1, <2>1, <2>2, <2>3, <2>4, <2>5, <2>6, <2>7 DEF Fire
<1>3. CASE ~(FireLifetime /\ registered_at # None)
  <2>1. emitted' = <<>> \/ \E f : emitted' = <<f>> /\ f.kind # "DEREGISTER"
    <3>1. CASE FireLifetime
          BY <1>3, <3>1 DEF FireLifetime, tear_down_registration
    <3>2. CASE FireGate
      <4>1. emitted' = <<Frame("GATE")>> /\ Frame("GATE").kind = "GATE"
            BY <3>2 DEF FireGate, Frame
      <4> QED BY <4>1
    <3>3. CASE FireNormalGate
      <4>1. \/ emitted' = <<>>
            \/ emitted' = <<Frame("NORMAL_GATE")>> /\ Frame("NORMAL_GATE").kind = "NORMAL_GATE"
            BY <3>3 DEF FireNormalGate, Frame
      <4> QED BY <4>1
    <3>4. CASE FireKeepalive
      <4>1. emitted' = <<Frame("INFO")>> /\ Frame("INFO").kind = "INFO"
            BY <3>4 DEF FireKeepalive, Frame
      <4> QED BY <4>1
    <3>5. CASE FireAttributePoll
      <4>1. \/ emitted' = <<>>
            \/ emitted' = <<Frame("OTHER")>> /\ Frame("OTHER").kind = "OTHER"
            BY <3>5 DEF FireAttributePoll, Frame
      <4> QED BY <4>1
    <3>6. CASE FireRegisterResponse
      <4>1. \/ emitted' = <<>>
            \/ emitted' = <<Register("REGISTER")>> /\ Register("REGISTER").kind = "REGISTER"
            BY <3>6 DEF FireRegisterResponse, Register
      <4> QED BY <4>1
    <3>7. CASE FireRediscovery
          BY <3>7 DEF FireRediscovery
    <3> QED BY <1>1, <3>1, <3>2, <3>3, <3>4, <3>5, <3>6, <3>7 DEF Fire
  <2>2. \A i \in DOMAIN downstream' :
           downstream'[i].frame.kind = "DEREGISTER" =>
              i \in DOMAIN downstream /\ downstream'[i] = downstream[i]
    <3>1. CASE emitted' = <<>>
          BY <1>1, <3>1, CarriedDown
    <3>2. ASSUME NEW f, emitted' = <<f>>, f.kind # "DEREGISTER"
          PROVE  \A i \in DOMAIN downstream' :
                    downstream'[i].frame.kind = "DEREGISTER" =>
                       i \in DOMAIN downstream /\ downstream'[i] = downstream[i]
      <4>1. PICK g : g.kind = f.kind /\ downstream' = Sent(downstream, g, 0)
            BY <1>1, <3>2, CarriedDown
      <4>2. PICK n \in Nat, left \in Int :
                  /\ DOMAIN downstream = 1 .. n /\ DOMAIN downstream' = 1 .. n + 1
                  /\ \A i \in 1 .. n : downstream'[i] = downstream[i]
                  /\ downstream'[n + 1].frame = g
            BY <1>1, <4>1, SentInOrder
      <4> QED BY <3>2, <4>1, <4>2
    <3> QED BY <2>1, <3>1, <3>2
  <2> QED BY <1>1, <1>2, <2>2 DEF ExchangeInTime
<1>4. CASE FireLifetime /\ registered_at # None
  <2>1. /\ emitted' = <<Register("DEREGISTER")>> /\ registered_at' = None /\ due["Lifetime"] = 0
        BY <1>4 DEF FireLifetime, tear_down_registration
  <2>2. PICK g : downstream' = Sent(downstream, g, 0)
        BY <1>1, <2>1, CarriedDown
  <2>3. PICK n \in Nat, left \in Int :
              /\ DOMAIN downstream = 1 .. n /\ DOMAIN downstream' = 1 .. n + 1
              /\ \A i \in 1 .. n : downstream'[i] = downstream[i]
              /\ downstream'[n + 1].left = left
              /\ left >= 0 + Crossing
              /\ left = 0 + Crossing \/ (n \in 1 .. n /\ left = downstream[n].left)
    <3>1. /\ 0 \in Int /\ IsLine(downstream) /\ InOrder(downstream)
          /\ Len(downstream) < LineDepth
          BY <1>1
    <3> QED BY <2>2, <3>1, SentInOrder
  <2>4. left = Crossing
    <3>1. Crossing \in Nat \ {0} /\ \A i \in 1 .. n : downstream[i].left <= Crossing
          BY <2>3, LineTimes DEF LinesInTime
    <3> QED BY <2>3, <3>1
  <2>5. /\ registered_at \in Nat /\ registered_at = RegistrationLifetime
        /\ onu.age \in Nat /\ Waited(onu.age - registered_at - Crossing)
    <3>1. registered_at \in Nat
          BY <1>4 DEF AgreeInv, LinkShape
    <3>2. onu.llid # NoLlid
          BY <1>4, PeerAssumption DEF AgreeInv, LinkShape, Asking, Granting, Acknowledging, Serving,
                                      Leaving, Stranded
    <3> QED BY <1>4, <2>1, <3>1, <3>2, LineTimes DEF ExchangeInTime
  <2>6. Waited(onu.age + left - RegistrationLifetime - 2 * Crossing)
    <3>1. onu.age + left - RegistrationLifetime - 2 * Crossing = onu.age - registered_at - Crossing
          BY <2>4, <2>5, LineTimes
    <3> QED BY <2>5, <3>1
  <2>7. \A i \in DOMAIN downstream' : downstream'[i].frame.kind = "DEREGISTER" =>
             Waited(onu.age + downstream'[i].left - RegistrationLifetime - 2 * Crossing)
    <3>1. SUFFICES ASSUME NEW i \in 1 .. n + 1, downstream'[i].frame.kind = "DEREGISTER"
                   PROVE  Waited(onu.age + downstream'[i].left - RegistrationLifetime - 2 * Crossing)
          BY <2>3
    <3>2. CASE i = n + 1
          BY <2>3, <2>6, <3>2
    <3>3. CASE i # n + 1
      <4>1. i \in DOMAIN downstream /\ downstream'[i] = downstream[i]
            BY <2>3, <3>3
      <4> QED BY <3>1, <4>1 DEF ExchangeInTime
    <3> QED BY <3>2, <3>3
  <2> QED BY <1>1, <2>1, <2>7, OnlyTeardown
<1> QED BY <1>3, <1>4

(* The frames of a kind on a line that was sent on or taken from.          *)
FromOld(q, r, k) ==
    \A i \in DOMAIN r : r[i].frame.kind = k => \E j \in DOMAIN q : r[i] = q[j]

LEMMA OldFrames ==
    ASSUME NEW q, IsLine(q), NEW k
    PROVE  /\ FromOld(q, q, k) /\ FromOld(q, <<>>, k)
           /\ q # <<>> => FromOld(q, Tail(q), k)
           /\ \A f, at : Len(q) < LineDepth /\ f.kind # k => FromOld(q, Sent(q, f, at), k)
<1>1. FromOld(q, q, k) /\ FromOld(q, <<>>, k)
      BY DEF FromOld
<1>2. ASSUME q # <<>> PROVE FromOld(q, Tail(q), k)
  <2>1. PICK n, r : n = Len(q) /\ r = Tail(q)
        OBVIOUS
  <2>2. /\ n \in Nat \ {0} /\ DOMAIN q = 1 .. n /\ DOMAIN r = 1 .. n - 1
        /\ \A i \in 1 .. n - 1 : r[i] = q[i + 1]
        BY <1>2, <2>1, ShortenedLine
  <2>3. FromOld(q, r, k)
        BY <2>2 DEF FromOld
  <2> QED BY <2>1, <2>3
<1>3. ASSUME NEW f, NEW at, Len(q) < LineDepth, f.kind # k
      PROVE  FromOld(q, Sent(q, f, at), k)
  <2>1. PICK e : e.frame = f /\ Sent(q, f, at) = Append(q, e)
        BY <1>3, SentLine
  <2>2. PICK n, r : n = Len(q) /\ r = Append(q, e)
        OBVIOUS
  <2>3. /\ n \in Nat /\ DOMAIN q = 1 .. n /\ DOMAIN r = 1 .. n + 1
        /\ \A i \in 1 .. n : r[i] = q[i]
        /\ r[n + 1] = e
        BY <2>2, AppendedLine
  <2>4. FromOld(q, r, k)
        BY <1>3, <2>1, <2>3 DEF FromOld
  <2> QED BY <2>1, <2>2, <2>4
<1> QED BY <1>1, <1>2, <1>3

(* A step that touches neither the clocks of a registration nor the frames *)
(* that open and close one.                                                *)
LEMMA ExchangeKept ==
    ASSUME ExchangeInTime,
           UNCHANGED <<onu.age, onu.life, onu.llid>>, onu'.next_keepalive \in Int,
           \/ registered_at' = None
           \/ registered_at' = registered_at /\ due'["Lifetime"] = due["Lifetime"],
           FromOld(upstream, upstream', "ACK"), FromOld(downstream, downstream', "DEREGISTER")
    PROVE  ExchangeInTime'
<1>1. \A i \in DOMAIN upstream' :
         upstream'[i].frame.kind = "ACK" => Waited(onu.age + upstream'[i].left - Crossing)
      BY DEF ExchangeInTime, FromOld
<1>2. \A i \in DOMAIN downstream' :
         downstream'[i].frame.kind = "DEREGISTER" =>
            Waited(onu.age + downstream'[i].left - RegistrationLifetime - 2 * Crossing)
      BY DEF ExchangeInTime, FromOld
<1>3. /\ onu'.age = onu.age /\ onu'.life = onu.life /\ onu'.llid = onu.llid
      OBVIOUS
<1> QED BY <1>1, <1>2, <1>3 DEF ExchangeInTime, Waited

(* What the responder holds of a registration while one is on its way or   *)
(* running.                                                                *)
LEMMA HeldLlid ==
    ASSUME AgreeInv, ExchangeInTime,
           registered_at # None \/ ~Free(upstream, {"ACK"}) \/ ~Free(downstream, {"DEREGISTER"})
    PROVE  /\ onu.llid = assigned_llid /\ onu.llid # NoLlid /\ onu.age \in Nat
           /\ ~Free(upstream, {"ACK"}) => Acknowledging
           /\ ~Free(downstream, {"DEREGISTER"}) => Leaving
           /\ registered_at # None => Serving
<1>1. \A q : Free(q, {"REGISTER", "DEREGISTER"}) => Free(q, {"DEREGISTER"})
      BY DEF Free
<1>2. \A q : Free(q, {"ACK", "REQUEST"}) => Free(q, {"ACK"})
      BY DEF Free
<1>3. /\ registered_at # None => Serving
      /\ ~Free(upstream, {"ACK"}) => Acknowledging
      /\ ~Free(downstream, {"DEREGISTER"}) => Leaving
      BY <1>1, <1>2 DEF AgreeInv, Asking, Granting, Acknowledging, Serving, Leaving, Stranded
<1>4. onu.llid = assigned_llid /\ assigned_llid \in Llid
      BY <1>3 DEF AgreeInv, LinkShape, Acknowledging, Serving, Leaving
<1>5. onu.llid # NoLlid
      BY <1>4, PeerAssumption
<1> QED BY <1>3, <1>4, <1>5 DEF ExchangeInTime, None

(* The acknowledgement lands and the lifetime starts to run.               *)
LEMMA LandExchange ==
    ASSUME AgreeInv, LinesInTime, ExchangeInTime, LinesHaveRoom, Land
    PROVE  ExchangeInTime'
<1>1. /\ upstream # <<>> /\ upstream' = Tail(upstream) /\ onu' = onu /\ downstream' = downstream
      /\ IsLine(upstream) /\ IsLine(downstream) /\ InOrder(upstream)
  <2>1. emitted' = <<>>
        BY DEF Land, on_register_req_refused, on_register_req, on_register_ack, on_oam
  <2> QED BY <2>1, CarriedDown DEF Land, Landed, ends, AgreeInv, LinkShape, LinesInTime
<1>2. /\ FromOld(upstream, upstream', "ACK") /\ FromOld(downstream, downstream', "DEREGISTER")
      /\ onu'.next_keepalive \in Int /\ UNCHANGED <<onu.age, onu.life, onu.llid>>
      BY <1>1, OldFrames DEF ExchangeInTime
<1>3. PICK h : h = Head(upstream).frame
      OBVIOUS
<1>4. CASE h.kind = "REQUEST"
  <2>1. registered_at' = registered_at /\ due'["Lifetime"] = due["Lifetime"]
        BY <1>3, <1>4 DEF Land, on_register_req_refused, on_register_req, protocol, AgreeInv,
                          LinkShape, Timer
  <2> QED BY <1>2, <2>1, ExchangeKept
<1>5. CASE h.kind = "INFO"
  <2>1. registered_at' = registered_at /\ due'["Lifetime"] = due["Lifetime"]
        BY <1>3, <1>5 DEF Land, on_oam, on_discovery_entered, protocol, AgreeInv, LinkShape, Timer
  <2> QED BY <1>2, <2>1, ExchangeKept
<1>6. CASE h.kind = "ACK"
  <2>1. PICK n \in Nat \ {0} :
              /\ Head(upstream) = upstream[1] /\ DOMAIN upstream = 1 .. n
              /\ \A i \in 1 .. n : upstream[i].left \in Int
        BY <1>1, TakenInOrder
  <2>2. ~Free(upstream, {"ACK"})
        BY <1>3, <1>6, <2>1 DEF Free
  <2>3. Acknowledging /\ onu.llid # NoLlid /\ onu.age \in Nat
        BY <2>2, HeldLlid
  <2>4. Free(upstream', {"ACK"}) /\ h.llid = assigned_llid
        BY <1>1, <1>3, <1>6, <2>3, TakenSays DEF Acknowledging
  <2>5. on_register_ack(TRUE, h.llid, TRUE)
        BY <1>3, <1>6 DEF Land
  <2>6. registered_at' = 0 /\ due'["Lifetime"] = RegistrationLifetime
        BY <2>3, <2>4, <2>5 DEF on_register_ack, Acknowledging, AgreeInv, LinkShape, Timer
  <2>7. upstream[1].left = 0
    <3>1. upstream[1].left \in Int /\ upstream[1].left >= 0
          BY <2>1 DEF LinesInTime
    <3>2. upstream[1].left <= 0
          BY <2>1 DEF Land, Landed
    <3> QED BY <3>1, <3>2
  <2>8. Waited(onu.age - registered_at' - Crossing)
    <3>1. Waited(onu.age + upstream[1].left - Crossing)
          BY <1>3, <1>6, <2>1 DEF ExchangeInTime
    <3>2. onu.age + upstream[1].left - Crossing = onu.age - registered_at' - Crossing
          BY <2>3, <2>6, <2>7, LineTimes
    <3> QED BY <3>1, <3>2
  <2>9. due'["Lifetime"] \in Nat /\ due'["Lifetime"] = RegistrationLifetime - registered_at'
        BY <2>6, LineTimes
  <2>10. \A i \in DOMAIN upstream' : upstream'[i].frame.kind # "ACK"
         BY <2>4 DEF Free
  <2> QED BY <1>1, <2>8, <2>9, <2>10 DEF ExchangeInTime, Waited
<1> QED BY <1>3, <1>4, <1>5, <1>6 DEF Land

(* Time passes for the responder's age, the lifetime and the lines alike.  *)
LEMMA PassExchange ==
    ASSUME AgreeInv, LinesInTime, ExchangeInTime, Pass
    PROVE  ExchangeInTime'
<1>1. /\ Elapse /\ downstream' = Closer(downstream) /\ upstream' = Closer(upstream)
      /\ onu' = [onu EXCEPT !.next_keepalive = IF onu.armed THEN @ - 1 ELSE @,
                            !.age = IF @ = None THEN None ELSE @ + 1]
      /\ DOMAIN onu = DOMAIN NewOnu /\ DOMAIN due = Timer
      BY DEF Pass, AgreeInv, LinkShape
<1>2. /\ onu'.next_keepalive = (IF onu.armed THEN onu.next_keepalive - 1 ELSE onu.next_keepalive)
      /\ onu'.age = (IF onu.age = None THEN None ELSE onu.age + 1)
      /\ onu'.llid = onu.llid /\ onu'.life = onu.life
      BY <1>1 DEF NewOnu
<1>3. onu'.next_keepalive \in Int
      BY <1>2 DEF ExchangeInTime
<1>4. onu'.age \in Nat \cup {None} /\ (onu.age \in Nat => onu'.age = onu.age + 1)
      BY <1>2 DEF ExchangeInTime, None
<1>5. onu'.llid # NoLlid => onu'.age # None
      BY <1>2, <1>4 DEF ExchangeInTime, None
<1>6. ASSUME NEW q, NEW i \in DOMAIN Closer(q)
      PROVE  i \in DOMAIN q /\ Closer(q)[i].frame = q[i].frame /\ Closer(q)[i].left = q[i].left - 1
      BY DEF Closer
<1>7. ASSUME NEW i \in DOMAIN upstream', upstream'[i].frame.kind = "ACK"
      PROVE  Waited(onu'.age + upstream'[i].left - Crossing)
  <2>1. /\ i \in DOMAIN upstream /\ upstream[i].frame.kind = "ACK"
        /\ upstream'[i].left = upstream[i].left - 1
        BY <1>1, <1>6, <1>7
  <2>2. ~Free(upstream, {"ACK"})
        BY <2>1 DEF Free
  <2>3. onu.age \in Nat /\ onu'.age = onu.age + 1
        BY <1>4, <2>2, HeldLlid
  <2>4. PICK l, c : l = upstream[i].left /\ c = Crossing
        OBVIOUS
  <2>5. l \in Int /\ c \in Int
        BY <2>1, <2>4, LineTimes
  <2>6. onu.age + l - c = onu.age + 1 + (l - 1) - c
        BY <2>3, <2>5
  <2>7. Waited(onu.age + l - c)
        BY <2>1, <2>4 DEF ExchangeInTime
  <2> QED BY <2>1, <2>3, <2>4, <2>6, <2>7
<1>8. ASSUME registered_at' # None
      PROVE  /\ due'["Lifetime"] \in Nat
             /\ due'["Lifetime"] = RegistrationLifetime - registered_at'
             /\ Waited(onu'.age - registered_at' - Crossing)
  <2>1. /\ registered_at' = Older(registered_at) /\ due["Lifetime"] # 0
        /\ due'["Lifetime"] = IF due["Lifetime"] = Off THEN Off ELSE due["Lifetime"] - 1
        BY <1>1 DEF Elapse, NothingDue, Timer
  <2>2. registered_at # None /\ registered_at \in Nat /\ registered_at' = registered_at + 1
        BY <1>8, <2>1 DEF Older, AgreeInv, LinkShape
  <2>3. /\ due["Lifetime"] \in Nat /\ due["Lifetime"] = RegistrationLifetime - registered_at
        /\ Waited(onu.age - registered_at - Crossing)
        BY <2>2 DEF ExchangeInTime
  <2>4. onu.age \in Nat /\ onu'.age = onu.age + 1
        BY <1>4, <2>2, HeldLlid
  <2>5. PICK d, r, a, c, m : /\ d = due["Lifetime"] /\ r = registered_at /\ a = onu.age
                             /\ c = Crossing /\ m = RegistrationLifetime
        OBVIOUS
  <2>6. d \in Nat /\ d # 0 /\ r \in Nat /\ a \in Nat /\ c \in Nat /\ m \in Nat /\ d = m - r
        BY <2>1, <2>2, <2>3, <2>4, <2>5, LineTimes
  <2>7. due'["Lifetime"] = d - 1
        BY <2>1, <2>5, <2>6 DEF Off
  <2>8. d - 1 \in Nat /\ d - 1 = m - (r + 1) /\ a + 1 - (r + 1) - c = a - r - c
        BY <2>6
  <2> QED BY <2>2, <2>3, <2>4, <2>5, <2>7, <2>8
<1>9. ASSUME NEW i \in DOMAIN downstream', downstream'[i].frame.kind = "DEREGISTER"
      PROVE  Waited(onu'.age + downstream'[i].left - RegistrationLifetime - 2 * Crossing)
  <2>1. /\ i \in DOMAIN downstream /\ downstream[i].frame.kind = "DEREGISTER"
        /\ downstream'[i].left = downstream[i].left - 1
        BY <1>1, <1>6, <1>9
  <2>2. ~Free(downstream, {"DEREGISTER"})
        BY <2>1 DEF Free
  <2>3. onu.age \in Nat /\ onu'.age = onu.age + 1
        BY <1>4, <2>2, HeldLlid
  <2>4. PICK l, c, m : l = downstream[i].left /\ c = 2 * Crossing /\ m = RegistrationLifetime
        OBVIOUS
  <2>5. l \in Int /\ c \in Int /\ m \in Int
        BY <2>1, <2>4, LineTimes
  <2>6. onu.age + l - m - c = onu.age + 1 + (l - 1) - m - c
        BY <2>3, <2>5
  <2>7. Waited(onu.age + l - m - c)
        BY <2>1, <2>4 DEF ExchangeInTime
  <2> QED BY <2>1, <2>3, <2>4, <2>6, <2>7
<1>10. onu'.life # None => Waited(onu'.life - RegistrationLifetime - 2 * Crossing)
      BY <1>2 DEF ExchangeInTime
<1> QED BY <1>3, <1>4, <1>5, <1>7, <1>8, <1>9, <1>10 DEF ExchangeInTime, Waited

(* A frame the responder hears without taking or losing an LLID.           *)
LEMMA PassingExchange ==
    ASSUME AgreeInv, LinesInTime, ExchangeInTime, LinesHaveRoom, Hear,
           Head(downstream).frame.kind \notin {"REGISTER", "DEREGISTER"}
    PROVE  ExchangeInTime'
<1>1. PICK h, at : h = Head(downstream).frame /\ at = Head(downstream).left
      OBVIOUS
<1>2. /\ downstream # <<>> /\ downstream' = Tail(downstream) /\ OnuDeliver(h, at)
      /\ UNCHANGED <<registered_at, due>> /\ h.kind \notin {"REGISTER", "DEREGISTER"}
      /\ IsLine(upstream) /\ IsLine(downstream) /\ Len(upstream) < LineDepth
      /\ DOMAIN onu = DOMAIN NewOnu
      BY <1>1 DEF Hear, Landed, vars, protocol, AgreeInv, LinkShape, LinesHaveRoom
<1>3. at \in Int
      BY <1>1, <1>2, TakenInOrder DEF LinesInTime
<1>4. /\ UNCHANGED <<onu.age, onu.life, onu.llid>> /\ onu'.next_keepalive \in Int
      BY <1>2, <1>3 DEF OnuDeliver, KeepaliveFrom, NewOnu, ExchangeInTime
<1>5. FromOld(upstream, upstream', "ACK")
  <2>1. upstream' = upstream \/ Answer("REQUEST", NoLlid, at + RequestDelay)
        BY <1>2 DEF OnuDeliver
  <2>2. CASE Answer("REQUEST", NoLlid, at + RequestDelay)
    <3>1. PICK f : f.kind = "REQUEST" /\ upstream' = Sent(upstream, f, Max({at + RequestDelay, 0}))
          BY <2>2, AnswerIsSent
    <3> QED BY <1>2, <3>1, OldFrames
  <2> QED BY <1>2, <2>1, <2>2, OldFrames
<1>6. FromOld(downstream, downstream', "DEREGISTER")
      BY <1>2, OldFrames
<1> QED BY <1>2, <1>4, <1>5, <1>6, ExchangeKept

(* The grant: the responder's age starts when it landed, and the           *)
(* acknowledgement waits for the loop or behind a request.                 *)
LEMMA GrantExchange ==
    ASSUME AgreeInv, LinesInTime, ExchangeInTime, LinesHaveRoom, Hear,
           Head(downstream).frame.kind = "REGISTER"
    PROVE  ExchangeInTime'
<1>1. PICK h, at : h = Head(downstream).frame /\ at = Head(downstream).left
      OBVIOUS
<1>2. /\ downstream # <<>> /\ downstream' = Tail(downstream)
      /\ onu' = OnGrant(onu, h, at) /\ Answer("ACK", h.llid, at)
      /\ UNCHANGED <<registered_at, due>>
      /\ IsLine(upstream) /\ IsLine(downstream) /\ Len(upstream) < LineDepth
      /\ InOrder(upstream) /\ InOrder(downstream) /\ since_poll \in 0 .. LongestStep
      /\ DOMAIN onu = DOMAIN NewOnu
      BY <1>1 DEF Hear, Landed, OnuDeliver, vars, protocol, AgreeInv, LinkShape, LinesHaveRoom,
                  LinesInTime
<1>3. /\ Crossing \in Nat \ {0} /\ RequestDelay \in Nat /\ LongestStep \in Nat \ {0}
      BY LineTimes
<1>4. 1 \in DOMAIN downstream /\ downstream[1] = Head(downstream)
  <2>1. PICK n \in Nat \ {0} : Head(downstream) = downstream[1] /\ DOMAIN downstream = 1 .. n
        BY <1>2, TakenInOrder
  <2> QED BY <2>1
<1>5. at \in Int /\ at <= 0 /\ at >= 1 - since_poll /\ since_poll \in Int
  <2>1. at \in 1 - since_poll .. Crossing
        BY <1>1, <1>4 DEF LinesInTime
  <2>2. at <= 0
        BY <1>1 DEF Hear, Landed
  <2> QED BY <1>2, <1>3, <2>1, <2>2
<1>6. /\ onu'.age = 0 - at /\ onu'.life = onu.life /\ onu'.llid = h.llid
      /\ onu'.next_keepalive = (IF onu.armed THEN onu.next_keepalive ELSE at)
      BY <1>2 DEF OnGrant, KeepaliveFrom, NewOnu
<1>7. onu'.age \in Nat /\ onu'.age # None /\ onu'.next_keepalive \in Int
      BY <1>5, <1>6 DEF ExchangeInTime, None
<1>8. Granting /\ registered_at = None
  <2>1. ~Free(downstream, {"REGISTER", "DEREGISTER"}) /\ ~Free(downstream, {"REGISTER"})
        BY <1>1, <1>2, TakenSays
  <2>2. Granting
        BY <2>1 DEF AgreeInv, Asking, Acknowledging, Serving, Leaving, Stranded
  <2> QED BY <2>2 DEF AgreeInv, Granting
<1>9. /\ \A i \in DOMAIN downstream' : downstream'[i].frame.kind # "DEREGISTER"
      /\ \A j \in DOMAIN upstream : upstream[j].frame.kind # "ACK"
  <2>1. Free(downstream', {"DEREGISTER"}) /\ Free(upstream, {"ACK"})
        BY <1>2, <1>8, TakenSays DEF Granting
  <2> QED BY <2>1 DEF Free
<1>10. PICK f : f.kind = "ACK" /\ upstream' = Sent(upstream, f, 0)
  <2>1. Max({at, 0}) = 0
    <3>1. at \in Int /\ 0 \in Int
          BY <1>5
    <3>2. Max({at, 0}) \in {at, 0} /\ Max({at, 0}) >= 0
          BY <3>1, MaxOfTwo
    <3> QED BY <1>5, <3>2
  <2> QED BY <1>2, <2>1, AnswerIsSent
<1>11. PICK m \in Nat, left \in Int :
              /\ DOMAIN upstream = 1 .. m /\ DOMAIN upstream' = 1 .. m + 1
              /\ \A i \in 1 .. m : upstream'[i] = upstream[i]
              /\ upstream'[m + 1].left = left
              /\ left >= 0 + Crossing
              /\ left = 0 + Crossing \/ (m \in 1 .. m /\ left = upstream[m].left)
  <2>1. 0 \in Int
        OBVIOUS
  <2> QED BY <1>2, <1>10, <2>1, SentInOrder
<1>12. left = Crossing \/ left <= Crossing \/ left <= Crossing + RequestDelay + at
  <2>1. CASE m \in 1 .. m /\ left = upstream[m].left
        BY <1>1, <1>4, <1>11, <2>1 DEF LinesInTime
  <2> QED BY <1>3, <1>11, <2>1
<1>13. Waited(0 - at + left - Crossing)
  <2>1. PICK t : t = 0 - at + left - Crossing
        OBVIOUS
  <2>2. t \in Int /\ t >= 0 /\ (t <= LongestStep - 1 \/ t <= RequestDelay)
    <3>1. CASE left <= Crossing
          BY <1>2, <1>3, <1>5, <1>11, <2>1, <3>1
    <3>2. CASE left <= Crossing + RequestDelay + at
          BY <1>3, <1>5, <1>11, <2>1, <3>2
    <3> QED BY <1>3, <1>11, <1>12, <3>1, <3>2
  <2> QED BY <2>1, <2>2, WaitedTime
<1>14. ASSUME NEW j \in 1 .. m + 1, upstream'[j].frame.kind = "ACK"
       PROVE  Waited(onu'.age + upstream'[j].left - Crossing)
  <2>1. j = m + 1
        BY <1>9, <1>11, <1>14
  <2> QED BY <1>6, <1>11, <1>13, <2>1
<1>15. onu'.life # None => Waited(onu'.life - RegistrationLifetime - 2 * Crossing)
       BY <1>6 DEF ExchangeInTime
<1> QED BY <1>2, <1>7, <1>8, <1>9, <1>11, <1>14, <1>15 DEF ExchangeInTime, Waited

(* The teardown: the responder's age when it landed is the life.           *)
LEMMA TeardownExchange ==
    ASSUME AgreeInv, LinesInTime, ExchangeInTime, LinesHaveRoom, Hear,
           Head(downstream).frame.kind = "DEREGISTER"
    PROVE  ExchangeInTime'
<1>1. PICK h, at : h = Head(downstream).frame /\ at = Head(downstream).left
      OBVIOUS
<1>2. /\ downstream # <<>> /\ downstream' = Tail(downstream)
      /\ onu' = OnTeardown(onu, at) /\ upstream' = upstream
      /\ UNCHANGED <<registered_at, due>>
      /\ IsLine(upstream) /\ IsLine(downstream) /\ InOrder(downstream)
      /\ DOMAIN onu = DOMAIN NewOnu
      BY <1>1 DEF Hear, Landed, OnuDeliver, vars, protocol, AgreeInv, LinkShape, LinesInTime
<1>3. 1 \in DOMAIN downstream /\ downstream[1] = Head(downstream)
  <2>1. PICK n \in Nat \ {0} : Head(downstream) = downstream[1] /\ DOMAIN downstream = 1 .. n
        BY <1>2, TakenInOrder
  <2> QED BY <2>1
<1>4. ~Free(downstream, {"DEREGISTER"})
      BY <1>1, <1>3 DEF Free
<1>5. Leaving /\ onu.age \in Nat
      BY <1>4, HeldLlid
<1>6. registered_at = None
      BY <1>5 DEF AgreeInv, Leaving
<1>7. /\ \A i \in DOMAIN downstream' : downstream'[i].frame.kind # "DEREGISTER"
      /\ \A j \in DOMAIN upstream : upstream[j].frame.kind # "ACK"
  <2>1. Free(downstream', {"DEREGISTER"}) /\ Free(upstream, {"ACK", "REQUEST"})
        BY <1>1, <1>2, <1>5, TakenSays DEF Leaving
  <2> QED BY <2>1 DEF Free
<1>8. /\ onu'.llid = NoLlid /\ onu'.age = onu.age /\ onu'.next_keepalive = onu.next_keepalive
      /\ onu'.life = onu.age + at
      BY <1>2, <1>5 DEF OnTeardown, NewOnu, None
<1>9. Waited(onu.age + at - RegistrationLifetime - 2 * Crossing)
      BY <1>1, <1>3 DEF ExchangeInTime
<1>10. /\ onu'.age \in Nat \cup {None} /\ onu'.next_keepalive \in Int
       /\ onu'.life # None => Waited(onu'.life - RegistrationLifetime - 2 * Crossing)
  <2>1. PICK life : life = onu.age + at
        OBVIOUS
  <2>5. at \in Int
        BY <1>1, <1>3, LineTimes
  <2>2. Waited(life - RegistrationLifetime - 2 * Crossing) /\ onu'.life = life
        BY <1>5, <1>8, <1>9, <2>1, <2>5, LineTimes
  <2>4. Waited(onu'.life - RegistrationLifetime - 2 * Crossing)
        BY <2>2, Zenon
  <2>3. onu'.age \in Nat /\ onu'.next_keepalive \in Int
        BY <1>5, <1>8 DEF ExchangeInTime
  <2> QED BY <2>3, <2>4
<1>11. /\ \A j \in DOMAIN upstream' : upstream'[j].frame.kind # "ACK"
       /\ registered_at' = None
       BY <1>2, <1>6, <1>7
<1>12. \A i \in DOMAIN downstream' : downstream'[i].frame.kind # "DEREGISTER"
       BY <1>7
<1>13. onu'.llid # NoLlid => onu'.age # None
       BY <1>8
<1> QED BY <1>10, <1>11, <1>12, <1>13 DEF ExchangeInTime, Waited

(* The end of a turn: at most an Information OAMPDU goes on the line.      *)
LEMMA PollExchange ==
    ASSUME AgreeInv, LinesInTime, ExchangeInTime, LinesHaveRoom, Poll
    PROVE  ExchangeInTime'
<1>1. /\ UNCHANGED <<registered_at, due, downstream>> /\ OnuAdvance
      /\ IsLine(upstream) /\ IsLine(downstream) /\ Len(upstream) < LineDepth
      /\ DOMAIN onu = DOMAIN NewOnu
      BY DEF Poll, vars, protocol, AgreeInv, LinkShape, LinesHaveRoom
<1>2. KeepaliveInterval \in Nat
      BY LinkAssumption
<1>3. UNCHANGED <<onu.age, onu.life, onu.llid>> /\ onu'.next_keepalive \in Int
  <2>1. PICK k : k = onu.next_keepalive
        OBVIOUS
  <2>2. k \in Int /\ k + KeepaliveInterval \in Int
        BY <1>2, <2>1 DEF ExchangeInTime
  <2>3. CASE onu' = onu
        BY <2>1, <2>2, <2>3
  <2>4. CASE onu' = [onu EXCEPT !.discovery = on_sent(@), !.next_keepalive = @ + KeepaliveInterval]
    <3>1. /\ onu'.age = onu.age /\ onu'.life = onu.life /\ onu'.llid = onu.llid
          /\ onu'.next_keepalive = k + KeepaliveInterval
          BY <1>1, <2>1, <2>4 DEF NewOnu
    <3> QED BY <2>2, <3>1
  <2> QED BY <1>1, <2>3, <2>4 DEF OnuAdvance
<1>4. FromOld(upstream, upstream', "ACK")
  <2>1. CASE Answer("INFO", NoLlid, onu.next_keepalive)
    <3>1. PICK f : f.kind = "INFO" /\ upstream' = Sent(upstream, f, Max({onu.next_keepalive, 0}))
          BY <2>1, AnswerIsSent
    <3> QED BY <1>1, <3>1, OldFrames
  <2> QED BY <1>1, <2>1, OldFrames DEF OnuAdvance
<1>5. FromOld(downstream, downstream', "DEREGISTER")
      BY <1>1, OldFrames
<1> QED BY <1>1, <1>3, <1>4, <1>5, ExchangeKept

LEMMA ExchangeInTimeNext ==
    ASSUME AgreeInv, LinesInTime, ExchangeInTime, LinesHaveRoom, [link_Next]_link_vars
    PROVE  ExchangeInTime'
<1>1. IsLine(downstream) /\ IsLine(upstream) /\ DOMAIN due = Timer /\ onu.next_keepalive \in Int
      BY DEF AgreeInv, LinkShape, ExchangeInTime
<1>2. CASE UNCHANGED link_vars
  <2>1. UNCHANGED <<onu, registered_at, due, downstream, upstream>>
        BY <1>2 DEF link_vars, vars, protocol, lines, ends
  <2> QED BY <1>1, <2>1, OldFrames, ExchangeKept
<1>3. CASE Hear
      BY <1>3, PassingExchange, GrantExchange, TeardownExchange
<1>4. CASE RaiseLink
  <2>1. /\ UNCHANGED <<onu, registered_at, downstream, upstream>>
        /\ due'["Lifetime"] = due["Lifetime"]
        BY <1>1, <1>4 DEF RaiseLink, set_link_up, lines, ends, Timer
  <2> QED BY <1>1, <2>1, OldFrames, ExchangeKept
<1>5. CASE LowerLink
  <2>1. onu' = onu /\ registered_at' = None /\ downstream' = <<>> /\ upstream' = <<>>
        BY <1>5 DEF LowerLink, set_link_down, ends
  <2> QED BY <1>1, <2>1, OldFrames, ExchangeKept
<1> QED BY <1>2, <1>3, <1>4, <1>5, LandExchange, FireInTime, PassExchange, PollExchange DEF link_Next

LEMMA LifeInit == ASSUME link_Init PROVE LinesInTime /\ ExchangeInTime
<1>1. /\ downstream = <<>> /\ upstream = <<>> /\ since_poll = 0 /\ registered_at = None
      /\ onu.age = None /\ onu.life = None /\ onu.llid = NoLlid /\ onu.next_keepalive \in Int
      BY DEF link_Init, Init, NewOnu, Off
<1>2. LongestStep \in Nat
      BY LinkAssumption
<1> QED BY <1>1, <1>2 DEF LinesInTime, InOrder, ExchangeInTime

--------------------------------------------------------------------------------
(* The lines have room.                                                    *)

(* The constants as they enter the sums.                                   *)
LEMMA RoomNumbers ==
    /\ Crossing \in Nat \ {0} /\ LongestStep \in Nat \ {0} /\ RequestDelay \in Nat
    /\ LongestPause \in Nat /\ LongestPause >= LongestStep - 1 /\ LongestPause >= RequestDelay
    /\ GateInterval \in Nat \ {0} /\ GateInterval >= Crossing + LongestStep
    /\ GateInterval > Crossing + LongestPause
    /\ NormalGateInterval \in Nat \ {0} /\ NormalGateInterval >= Crossing + LongestStep
    /\ OamInterval \in Nat \ {0} /\ OamInterval >= Crossing + LongestStep
    /\ AttributeInterval \in Nat \ {0} /\ AttributeInterval >= Crossing + LongestStep
    /\ KeepaliveInterval \in Nat
    /\ KeepaliveInterval >= Crossing + RequestDelay + 2 * LongestStep - 1
    /\ EvaluatingPdus \in Nat /\ EvaluatingPdus > 1
<1>1. /\ Crossing \in Nat \ {0} /\ LongestStep \in Nat \ {0} /\ RequestDelay \in Nat
      /\ KeepaliveInterval \in Nat
      BY LinkAssumption
<1>2. PICK a, b, m : a = LongestStep - 1 /\ b = RequestDelay /\ m = LongestPause
      OBVIOUS
<1>3. a \in Int /\ b \in Int /\ m = Max({a, b})
      BY <1>1, <1>2 DEF LongestPause
<1>4. m \in {a, b} /\ m >= a /\ m >= b
      BY <1>3, MaxOfTwo
<1>5. LongestPause \in Nat /\ LongestPause >= LongestStep - 1 /\ LongestPause >= RequestDelay
      BY <1>1, <1>2, <1>4
<1> QED BY <1>1, <1>5, RoomAssumption DEF RoomAssumption

(* What a frame sent, taken or brought closer does to the only one of a    *)
(* kind.                                                                   *)
LEMMA SingleSent ==
    ASSUME NEW q, IsLine(q), InOrder(q), Len(q) < LineDepth, NEW f, NEW at \in Int,
           NEW r, r = Sent(q, f, at)
    PROVE  /\ \A k, m : f.kind # k /\ Single(q, k, m) => Single(r, k, m)
           /\ \A m : /\ Free(q, {f.kind})
                     /\ \A i \in DOMAIN r : r[i].left <= m
                     => Single(r, f.kind, m)
           /\ \A K : Kinds(q, K) /\ f.kind \in K => Kinds(r, K)
<1>1. PICK n \in Nat, left \in Int :
          /\ DOMAIN q = 1 .. n /\ DOMAIN r = 1 .. n + 1
          /\ \A i \in 1 .. n : r[i] = q[i]
          /\ r[n + 1].frame = f /\ r[n + 1].left = left
      BY SentInOrder
<1>2. ASSUME NEW k, NEW m, f.kind # k, Single(q, k, m) PROVE Single(r, k, m)
  <2>1. ASSUME NEW i \in 1 .. n + 1, r[i].frame.kind = k PROVE i \in 1 .. n
        BY <1>1, <1>2, <2>1
  <2> QED BY <1>1, <1>2, <2>1 DEF Single
<1>3. ASSUME NEW m, Free(q, {f.kind}), \A i \in DOMAIN r : r[i].left <= m
      PROVE  Single(r, f.kind, m)
  <2>1. ASSUME NEW i \in 1 .. n + 1, r[i].frame.kind = f.kind PROVE i = n + 1
        BY <1>1, <1>3, <2>1 DEF Free
  <2> QED BY <1>1, <1>3, <2>1 DEF Single
<1>4. ASSUME NEW K, Kinds(q, K), f.kind \in K PROVE Kinds(r, K)
  <2>1. ASSUME NEW i \in 1 .. n + 1 PROVE r[i].frame.kind \in K
        BY <1>1, <1>4, <2>1 DEF Kinds
  <2> QED BY <1>1, <2>1 DEF Kinds
<1> QED BY <1>2, <1>3, <1>4

LEMMA SingleTaken ==
    ASSUME NEW q, IsLine(q), InOrder(q), q # <<>>
    PROVE  /\ \A k, m : Single(q, k, m) => Single(Tail(q), k, m)
           /\ \A k, m : Single(q, k, m) /\ Head(q).frame.kind = k => Free(Tail(q), {k})
           /\ \A K : Kinds(q, K) => Kinds(Tail(q), K) /\ Head(q).frame.kind \in K
           /\ \A i \in DOMAIN Tail(q) : \E j \in DOMAIN q : Tail(q)[i] = q[j]
           /\ \E j \in DOMAIN q : Head(q) = q[j]
<1> DEFINE r == Tail(q)
<1>1. PICK n \in Nat \ {0} :
          /\ Head(q) = q[1] /\ DOMAIN q = 1 .. n /\ DOMAIN r = 1 .. n - 1
          /\ \A i \in 1 .. n - 1 : r[i] = q[i + 1]
      BY TakenInOrder
<1> HIDE DEF r
<1>2. ASSUME NEW k, NEW m, Single(q, k, m) PROVE Single(r, k, m)
  <2>1. ASSUME NEW i \in 1 .. n - 1, r[i].frame.kind = k
        PROVE  r[i].left <= m /\ \A j \in 1 .. n - 1 : r[j].frame.kind = k => j = i
    <3>1. i + 1 \in DOMAIN q /\ q[i + 1] = r[i]
          BY <1>1
    <3>2. ASSUME NEW j \in 1 .. n - 1, r[j].frame.kind = k PROVE j = i
      <4>1. j + 1 \in DOMAIN q /\ q[j + 1] = r[j]
            BY <1>1
      <4>2. j + 1 = i + 1
            BY <1>2, <2>1, <3>1, <3>2, <4>1 DEF Single
      <4> QED BY <4>2
    <3> QED BY <1>2, <2>1, <3>1, <3>2 DEF Single
  <2> QED BY <1>1, <2>1 DEF Single
<1>3. ASSUME NEW k, NEW m, Single(q, k, m), Head(q).frame.kind = k PROVE Free(r, {k})
  <2>1. ASSUME NEW i \in 1 .. n - 1 PROVE r[i].frame.kind # k
    <3>1. i + 1 \in DOMAIN q /\ q[i + 1] = r[i] /\ 1 \in DOMAIN q /\ i + 1 # 1
          BY <1>1
    <3> QED BY <1>1, <1>3, <3>1 DEF Single
  <2> QED BY <1>1, <2>1 DEF Free
<1>4. \A i \in 1 .. n - 1 : i + 1 \in DOMAIN q /\ r[i] = q[i + 1]
      BY <1>1
<1>5. 1 \in DOMAIN q
      BY <1>1
<1>6. \A K : Kinds(q, K) => Kinds(r, K) /\ Head(q).frame.kind \in K
      BY <1>1, <1>4, <1>5 DEF Kinds
<1> QED BY <1>1, <1>2, <1>3, <1>4, <1>5, <1>6 DEF r

LEMMA SingleCloser ==
    ASSUME NEW q, IsLine(q), InOrder(q), NEW r, r = Closer(q)
    PROVE  /\ DOMAIN r = DOMAIN q
           /\ \A i \in DOMAIN q : r[i].frame = q[i].frame /\ r[i].left = q[i].left - 1
           /\ \A k : \A m \in Int : Single(q, k, m) => Single(r, k, m - 1)
           /\ \A K : Kinds(q, K) => Kinds(r, K)
           /\ \A K : Free(q, K) => Free(r, K)
<1>1. /\ DOMAIN r = DOMAIN q
      /\ \A i \in DOMAIN q : r[i].frame = q[i].frame /\ r[i].left = q[i].left - 1
      BY DEF Closer
<1>2. \A i \in DOMAIN q : q[i].left \in Int
      BY DEF InOrder
<1>3. ASSUME NEW k, NEW m \in Int, Single(q, k, m) PROVE Single(r, k, m - 1)
      BY <1>1, <1>2, <1>3 DEF Single
<1> QED BY <1>1, <1>3 DEF Kinds, Free

(* A larger limit, and one that all frames are beyond.                     *)
LEMMA SingleLimits ==
    ASSUME NEW q, InOrder(q), NEW k, NEW m \in Int, Single(q, k, m)
    PROVE  /\ \A l \in Int : m <= l => Single(q, k, l)
           /\ \A l : (\A i \in DOMAIN q : q[i].left <= l) => Single(q, k, l)
           /\ (\A i \in DOMAIN q : q[i].left > m) => Free(q, {k})
<1>1. \A i \in DOMAIN q : q[i].left \in Int
      BY DEF InOrder
<1> QED BY <1>1 DEF Single, Free

LEMMA FreeIsSingle == ASSUME NEW q, NEW k, NEW m, Free(q, {k}) PROVE Single(q, k, m)
BY DEF Free, Single

(* A line on which frames of five kinds may be, one of each, has five at   *)
(* most.                                                                   *)
LEMMA FiveAtMost ==
    ASSUME NEW q, IsLine(q), NEW a, NEW b, NEW c, NEW d, NEW e,
           \A i \in DOMAIN q : q[i].frame.kind \in {a, b, c, d, e},
           \A i, j \in DOMAIN q : q[i].frame.kind = q[j].frame.kind => i = j
    PROVE  Len(q) <= 5
<1>1. DOMAIN q = 1 .. Len(q) /\ Len(q) \in Nat
      BY DEF IsLine
<1>2. SUFFICES ASSUME Len(q) >= 6 PROVE FALSE
      BY <1>1
<1> DEFINE k(i) == q[i].frame.kind
<1>3. \A i \in 1 .. 6 : k(i) \in {a, b, c, d, e}
      BY <1>1, <1>2
<1>4. \A i, j \in 1 .. 6 : k(i) = k(j) => i = j
      BY <1>1, <1>2
<1> HIDE DEF k
<1>5. /\ k(1) # k(2) /\ k(1) # k(3) /\ k(1) # k(4) /\ k(1) # k(5) /\ k(1) # k(6)
      /\ k(2) # k(3) /\ k(2) # k(4) /\ k(2) # k(5) /\ k(2) # k(6)
      /\ k(3) # k(4) /\ k(3) # k(5) /\ k(3) # k(6)
      /\ k(4) # k(5) /\ k(4) # k(6) /\ k(5) # k(6)
      BY <1>4
<1>6. /\ k(1) \in {a, b, c, d, e} /\ k(2) \in {a, b, c, d, e} /\ k(3) \in {a, b, c, d, e}
      /\ k(4) \in {a, b, c, d, e} /\ k(5) \in {a, b, c, d, e} /\ k(6) \in {a, b, c, d, e}
      BY <1>3
<1> QED BY <1>5, <1>6

(* The frames of a registration exclude each other, so neither line is     *)
(* ever full.                                                              *)
LEMMA RoomImplies == ASSUME AgreeInv, RoomInv PROVE LinesHaveRoom
<1>1. /\ IsLine(downstream) /\ IsLine(upstream) /\ LineDepth \in Nat /\ LineDepth > 5
      BY LinkAssumption, RoomAssumption DEF AgreeInv, LinkShape
<1>2. Single(upstream, "REQUEST", SentBy("Gate", GateInterval) + Crossing + LongestPause)
      BY DEF RoomInv, UpstreamHasRoom
<1>3. Len(upstream) <= 5
  <2>1. ASSUME NEW i \in DOMAIN upstream, NEW j \in DOMAIN upstream,
               upstream[i].frame.kind = upstream[j].frame.kind
        PROVE  i = j
    <3>1. upstream[i].frame.kind \in {"REQUEST", "ACK", "INFO"}
          BY DEF RoomInv, UpstreamHasRoom, Kinds
    <3>2. CASE upstream[i].frame.kind = "REQUEST"
          BY <1>2, <2>1, <3>2 DEF Single
    <3>3. CASE upstream[i].frame.kind = "INFO"
          BY <2>1, <3>3 DEF RoomInv, UpstreamHasRoom, Single
    <3>4. CASE upstream[i].frame.kind = "ACK"
      <4>1. Sole(upstream, "ACK", assigned_llid)
            BY <3>4 DEF AgreeInv, Asking, Granting, Acknowledging, Serving, Leaving, Stranded, Free
      <4> QED BY <2>1, <3>4, <4>1 DEF Sole
    <3> QED BY <3>1, <3>2, <3>3, <3>4
  <2>2. \A i \in DOMAIN upstream : upstream[i].frame.kind \in {"REQUEST", "ACK", "INFO", "x", "y"}
        BY DEF RoomInv, UpstreamHasRoom, Kinds
  <2> QED BY <1>1, <2>1, <2>2, FiveAtMost
<1>4. ASSUME NEW i \in DOMAIN downstream, NEW j \in DOMAIN downstream,
             downstream[i].frame.kind = downstream[j].frame.kind
      PROVE  i = j
  <2>1. downstream[i].frame.kind \in {"GATE", "NORMAL_GATE", "INFO", "OTHER", "REGISTER", "DEREGISTER"}
        BY DEF RoomInv, DownstreamHasRoom, Kinds
  <2>2. CASE downstream[i].frame.kind \in {"GATE", "NORMAL_GATE", "INFO", "OTHER"}
        BY <1>4, <2>2 DEF RoomInv, DownstreamHasRoom, RotationHasRoom, Single
  <2>3. CASE downstream[i].frame.kind = "REGISTER"
    <3>1. Sole(downstream, "REGISTER", assigned_llid)
          BY <2>3 DEF AgreeInv, Asking, Granting, Acknowledging, Serving, Leaving, Stranded, Free
    <3> QED BY <1>4, <2>3, <3>1 DEF Sole
  <2>4. CASE downstream[i].frame.kind = "DEREGISTER"
    <3>1. Sole(downstream, "DEREGISTER", assigned_llid)
          BY <2>4 DEF AgreeInv, Asking, Granting, Acknowledging, Serving, Leaving, Stranded, Free
    <3> QED BY <1>4, <2>4, <3>1 DEF Sole
  <2> QED BY <2>1, <2>2, <2>3, <2>4
<1>5. PICK k \in {"REGISTER", "DEREGISTER"} : Free(downstream, {k})
      BY DEF AgreeInv, Asking, Granting, Acknowledging, Serving, Leaving, Stranded, Free
<1>6. \E l \in {"REGISTER", "DEREGISTER"} : \A i \in DOMAIN downstream :
          downstream[i].frame.kind \in {"GATE", "NORMAL_GATE", "INFO", "OTHER", l}
      BY <1>5 DEF RoomInv, DownstreamHasRoom, Kinds, Free
<1>7. Len(downstream) <= 5
      BY <1>1, <1>4, <1>6, FiveAtMost
<1>8. Len(downstream) \in Nat /\ Len(upstream) \in Nat
      BY <1>1 DEF IsLine
<1> QED BY <1>1, <1>3, <1>7, <1>8 DEF LinesHaveRoom

(* What both invariants say of the numbers the steps below add.            *)
LEMMA RoomFacts ==
    ASSUME LifeInv, RoomInv
    PROVE  /\ AgreeInv /\ LinesInTime /\ LinesHaveRoom /\ onu.next_keepalive \in Int
           /\ IsLine(downstream) /\ IsLine(upstream) /\ InOrder(downstream) /\ InOrder(upstream)
           /\ Len(downstream) < LineDepth /\ Len(upstream) < LineDepth
           /\ DOMAIN due = Timer /\ DOMAIN onu = DOMAIN NewOnu
           /\ since_poll \in Nat /\ since_poll <= LongestStep
           /\ \A i \in DOMAIN downstream : /\ downstream[i].left \in Int
                                           /\ downstream[i].left >= 1 - LongestStep
                                           /\ downstream[i].left <= Crossing
           /\ \A j \in DOMAIN upstream : /\ upstream[j].left \in Int /\ upstream[j].left >= 0
                                         /\ upstream[j].left <= Crossing + RequestDelay
           /\ \A t, interval : interval \in Nat /\ t \in Timer => SentBy(t, interval) \in Int
<1>1. AgreeInv /\ LinesInTime /\ ExchangeInTime /\ LinesHaveRoom
      BY RoomImplies DEF LifeInv
<1>2. since_poll \in Nat /\ since_poll <= LongestStep
      BY <1>1, RoomNumbers DEF LinesInTime
<1>3. \A i \in DOMAIN downstream : /\ downstream[i].left \in Int
                                   /\ downstream[i].left >= 1 - LongestStep
                                   /\ downstream[i].left <= Crossing
      BY <1>1, <1>2, RoomNumbers DEF LinesInTime
<1>4. \A j \in DOMAIN upstream : /\ upstream[j].left \in Int /\ upstream[j].left >= 0
                                 /\ upstream[j].left <= Crossing + RequestDelay
      BY <1>1, RoomNumbers DEF LinesInTime
<1>5. \A t \in Timer : due[t] \in Int
      BY DEF RoomInv, TimersTick, Off
<1>6. \A t, interval : interval \in Nat /\ t \in Timer => SentBy(t, interval) \in Int
      BY <1>5, RoomNumbers DEF SentBy
<1> QED BY <1>1, <1>2, <1>3, <1>4, <1>6
        DEF AgreeInv, LinkShape, LinesInTime, ExchangeInTime, LinesHaveRoom

(* The frames of a timer: what it does to them that it fires, is cancelled *)
(* or armed anew.                                                          *)
LineMoves(q, r, kinds) ==
    \/ r = q
    \/ q # <<>> /\ r = Tail(q)
    \/ \E g : g.kind \in kinds /\ r = Sent(q, g, 0)

LEMMA LineMovesSays ==
    ASSUME NEW q, IsLine(q), InOrder(q), Len(q) < LineDepth, NEW r, NEW kinds, LineMoves(q, r, kinds)
    PROVE  /\ \A k, m : k \notin kinds /\ Single(q, k, m) => Single(r, k, m)
           /\ \A K : Kinds(q, K) /\ kinds \subseteq K => Kinds(r, K)
           /\ \A k : k \notin kinds => FromOld(q, r, k)
<1>1. CASE r = q
      BY <1>1, OldFrames
<1>2. ASSUME q # <<>>
      PROVE  /\ \A k, m : Single(q, k, m) => Single(Tail(q), k, m)
             /\ \A K : Kinds(q, K) => Kinds(Tail(q), K)
             /\ \A k : FromOld(q, Tail(q), k)
      BY <1>2, SingleTaken DEF FromOld
<1>3. ASSUME NEW g, g.kind \in kinds, r = Sent(q, g, 0)
      PROVE  /\ \A k, m : k \notin kinds /\ Single(q, k, m) => Single(r, k, m)
             /\ \A K : Kinds(q, K) /\ kinds \subseteq K => Kinds(r, K)
             /\ \A k : k \notin kinds => FromOld(q, r, k)
  <2>1. 0 \in Int
        OBVIOUS
  <2>2. /\ \A k, m : g.kind # k /\ Single(q, k, m) => Single(r, k, m)
        /\ \A K : Kinds(q, K) /\ g.kind \in K => Kinds(r, K)
        BY <1>3, <2>1, SingleSent
  <2>3. PICK n \in Nat, left \in Int :
            /\ DOMAIN q = 1 .. n /\ DOMAIN r = 1 .. n + 1
            /\ \A i \in 1 .. n : r[i] = q[i]
            /\ r[n + 1].frame = g
        BY <1>3, <2>1, SentInOrder
  <2>4. ASSUME NEW k, k \notin kinds PROVE FromOld(q, r, k)
    <3>1. ASSUME NEW i \in DOMAIN r, r[i].frame.kind = k PROVE \E j \in DOMAIN q : r[i] = q[j]
      <4>1. r[i].frame.kind # g.kind
            BY <1>3, <2>4, <3>1
      <4>2. i \in 1 .. n + 1 /\ i # n + 1
            BY <2>3, <4>1
      <4>3. i \in DOMAIN q /\ r[i] = q[i]
            BY <2>3, <4>2
      <4> QED BY <4>3
    <3> QED BY <3>1 DEF FromOld
  <2> QED BY <1>3, <2>2, <2>4
<1> QED BY <1>1, <1>2, <1>3 DEF LineMoves

LEMMA PeriodKept ==
    ASSUME LifeInv, RoomInv, NEW t \in Timer, NEW interval \in Nat, NEW k,
           Single(downstream, k, SentBy(t, interval)),
           due'[t] = due[t] \/ due'[t] = Off \/ due'[t] = interval,
           NEW kinds, k \notin kinds, LineMoves(downstream, downstream', kinds)
    PROVE  Single(downstream', k, SentBy(t, interval)')
<1>1. /\ IsLine(downstream) /\ InOrder(downstream) /\ Len(downstream) < LineDepth
      /\ \A i \in DOMAIN downstream : downstream[i].left <= Crossing
      /\ SentBy(t, interval) \in Int
      BY RoomFacts
<1>2. Single(downstream, k, Crossing)
      BY <1>1, SingleLimits
<1>3. SentBy(t, interval)' = SentBy(t, interval) \/ SentBy(t, interval)' = Crossing
      BY RoomNumbers DEF SentBy
<1>4. Single(downstream, k, SentBy(t, interval)')
      BY <1>2, <1>3
<1> QED BY <1>1, <1>4, LineMovesSays

(* When it fires, what it sent before has been heard.                      *)
LEMMA PeriodFired ==
    ASSUME LifeInv, RoomInv, LinesInTime', NEW t \in Timer,
           NEW interval \in Nat, interval >= Crossing + LongestStep,
           NEW k, Single(downstream, k, SentBy(t, interval)), due[t] = 0
    PROVE  /\ Free(downstream, {k})
           /\ due'[t] = interval /\ LineMoves(downstream, downstream', {k})
                => Single(downstream', k, SentBy(t, interval)')
<1>1. /\ IsLine(downstream) /\ InOrder(downstream) /\ Len(downstream) < LineDepth
      /\ \A i \in DOMAIN downstream : /\ downstream[i].left \in Int
                                      /\ downstream[i].left >= 1 - LongestStep
      /\ SentBy(t, interval) \in Int
      BY RoomFacts
<1>2. SentBy(t, interval) < 1 - LongestStep
      BY RoomNumbers DEF SentBy, Off
<1>3. \A i \in DOMAIN downstream : downstream[i].left > SentBy(t, interval)
      BY <1>1, <1>2, RoomNumbers
<1>4. Free(downstream, {k})
      BY <1>1, <1>3, SingleLimits
<1>5. ASSUME due'[t] = interval, LineMoves(downstream, downstream', {k})
      PROVE  Single(downstream', k, SentBy(t, interval)')
  <2>1. SentBy(t, interval)' = Crossing
        BY <1>5, RoomNumbers DEF SentBy
  <2>2. Single(downstream, k, Crossing)
        BY <1>4, FreeIsSingle
  <2>3. CASE downstream' = downstream
        BY <2>1, <2>2, <2>3
  <2>4. CASE downstream # <<>> /\ downstream' = Tail(downstream)
        BY <1>1, <2>1, <2>2, <2>4, SingleTaken
  <2>5. ASSUME NEW g, g.kind \in {k}, downstream' = Sent(downstream, g, 0)
        PROVE  Single(downstream', k, Crossing)
    <3>1. 0 \in Int /\ g.kind = k
          BY <2>5
    <3>2. \A i \in DOMAIN downstream' : downstream'[i].left <= Crossing
          BY RoomNumbers DEF LinesInTime
    <3>3. PICK q, r : q = downstream /\ r = downstream'
          OBVIOUS
    <3>4. \A m : Free(q, {g.kind}) /\ (\A i \in DOMAIN r : r[i].left <= m) => Single(r, g.kind, m)
          BY <1>1, <2>5, <3>1, <3>3, SingleSent
    <3> QED BY <1>4, <3>1, <3>2, <3>3, <3>4
  <2> QED BY <1>5, <2>1, <2>3, <2>4, <2>5 DEF LineMoves
<1> QED BY <1>4, <1>5

(* What the peer decided moves its line.                                   *)
LEMMA CarryMoves ==
    ASSUME IsLine(downstream), LinesHaveRoom, CarryDown, NEW kinds,
           emitted' = <<>> \/ \E f : emitted' = <<f>> /\ f.kind \in kinds
    PROVE  LineMoves(downstream, downstream', kinds)
<1>1. CASE emitted' = <<>>
      BY <1>1, CarriedDown DEF LineMoves
<1>2. ASSUME NEW f, emitted' = <<f>>, f.kind \in kinds
      PROVE  LineMoves(downstream, downstream', kinds)
  <2>1. PICK g : g.kind = f.kind /\ downstream' = Sent(downstream, g, 0)
        BY <1>2, CarriedDown
  <2> QED BY <1>2, <2>1 DEF LineMoves
<1> QED BY <1>1, <1>2

(* The reads of the rotation while discovery stays as it is and nothing    *)
(* more is heard of the responder before its keepalive.                    *)
LEMMA RotationKept ==
    ASSUME LifeInv, RoomInv,
           NEW kinds, "OTHER" \notin kinds, LineMoves(downstream, downstream', kinds),
           discovery' = discovery,
           due'["AttributePoll"] = due["AttributePoll"], due'["Keepalive"] = due["Keepalive"],
           onu.armed => /\ onu'.armed /\ onu'.next_keepalive \in Int
                        /\ onu'.next_keepalive >= onu.next_keepalive,
           \A j \in DOMAIN upstream' : upstream'[j].frame.kind = "INFO" =>
              \/ \E k \in DOMAIN upstream : upstream'[j] = upstream[k]
              \/ /\ upstream'[j].left \in Int
                 /\ upstream'[j].left >= onu.next_keepalive + Crossing
    PROVE  RotationHasRoom'
<1>1. /\ IsLine(downstream) /\ InOrder(downstream) /\ Len(downstream) < LineDepth
      /\ \A i \in DOMAIN downstream : downstream[i].left \in Int
      /\ onu.next_keepalive \in Int
      BY RoomFacts
<1>2. RotationHasRoom
      BY DEF RoomInv, DownstreamHasRoom
<1>3. Single(downstream', "OTHER", Crossing)
      BY <1>1, <1>2, LineMovesSays DEF RotationHasRoom
<1>4. FromOld(downstream, downstream', "OTHER")
      BY <1>1, LineMovesSays
<1>5. /\ SentBy("AttributePoll", AttributeInterval)' = SentBy("AttributePoll", AttributeInterval)
      /\ SentBy("Keepalive", OamInterval)' = SentBy("Keepalive", OamInterval)
      BY DEF SentBy
<1>6. ASSUME NEW i \in DOMAIN downstream', downstream'[i].frame.kind = "OTHER"
      PROVE  /\ discovery'.state = "Converged" =>
                  downstream'[i].left <= SentBy("AttributePoll", AttributeInterval)'
             /\ discovery'.state = "LocalStable" =>
                  /\ onu'.armed
                  /\ downstream'[i].left + LongestStep <= onu'.next_keepalive + Crossing
                  /\ \A j \in DOMAIN upstream' : upstream'[j].frame.kind = "INFO" =>
                       downstream'[i].left + LongestStep <= upstream'[j].left
             /\ discovery'.state = "LocalEvaluating" =>
                  \/ discovery'.sent = 0
                  \/ /\ discovery'.sent = 1
                     /\ downstream'[i].left <= SentBy("Keepalive", OamInterval)'
  <2>1. PICK h \in DOMAIN downstream : downstream'[i] = downstream[h]
        BY <1>4, <1>6 DEF FromOld
  <2>2. PICK l : l = downstream[h].left /\ l \in Int /\ l = downstream'[i].left
        BY <1>1, <2>1
  <2>3. downstream[h].frame.kind = "OTHER"
        BY <1>6, <2>1
  <2>4. ASSUME discovery.state = "LocalStable"
        PROVE  /\ onu'.armed /\ l + LongestStep <= onu'.next_keepalive + Crossing
               /\ \A j \in DOMAIN upstream' : upstream'[j].frame.kind = "INFO" =>
                    l + LongestStep <= upstream'[j].left
    <3>1. /\ onu.armed /\ l + LongestStep <= onu.next_keepalive + Crossing
          /\ \A j \in DOMAIN upstream : upstream[j].frame.kind = "INFO" =>
               l + LongestStep <= upstream[j].left
          BY <1>2, <2>2, <2>3, <2>4 DEF RotationHasRoom
    <3>2. onu'.armed /\ l + LongestStep <= onu'.next_keepalive + Crossing
          BY <1>1, <2>2, <3>1, RoomNumbers
    <3>3. ASSUME NEW j \in DOMAIN upstream', upstream'[j].frame.kind = "INFO"
          PROVE  l + LongestStep <= upstream'[j].left
      <4>1. CASE \E k \in DOMAIN upstream : upstream'[j] = upstream[k]
            BY <3>1, <3>3, <4>1
      <4>2. CASE upstream'[j].left \in Int /\ upstream'[j].left >= onu.next_keepalive + Crossing
            BY <1>1, <2>2, <3>1, <4>2, RoomNumbers
      <4> QED BY <3>3, <4>1, <4>2
    <3> QED BY <3>2, <3>3
  <2>5. /\ discovery.state = "Converged" => l <= SentBy("AttributePoll", AttributeInterval)
        /\ discovery.state = "LocalEvaluating" =>
             \/ discovery.sent = 0
             \/ discovery.sent = 1 /\ l <= SentBy("Keepalive", OamInterval)
        BY <1>2, <2>2, <2>3 DEF RotationHasRoom
  <2> QED BY <1>5, <2>2, <2>4, <2>5
<1> QED BY <1>3, <1>6 DEF RotationHasRoom

(* The upstream as long as neither a request nor an OAMPDU of the responder   *)
(* enters it and no GATE leaves.                                           *)
LEMMA UpFrom ==
    ASSUME LifeInv, RoomInv,
           \A m : /\ Single(upstream, "REQUEST", m) => Single(upstream', "REQUEST", m)
                  /\ Single(upstream, "INFO", m) => Single(upstream', "INFO", m),
           Kinds(upstream', {"REQUEST", "ACK", "INFO"}), BehindRequests(upstream'),
           Free(upstream, {"INFO"}) => Free(upstream', {"INFO"}),
           FromOld(downstream, downstream', "GATE"), due'["Gate"] = due["Gate"],
           onu.armed => onu'.armed /\ onu'.next_keepalive = onu.next_keepalive
    PROVE  UpstreamHasRoom'
<1>1. UpstreamHasRoom
      BY DEF RoomInv
<1>2. SentBy("Gate", GateInterval)' = SentBy("Gate", GateInterval)
      BY DEF SentBy
<1>3. ASSUME NEW i \in DOMAIN downstream', downstream'[i].frame.kind = "GATE"
      PROVE  Single(upstream', "REQUEST",
                    downstream'[i].left - GateInterval + Crossing + LongestPause)
  <2>1. PICK h \in DOMAIN downstream : downstream'[i] = downstream[h]
        BY <1>3 DEF FromOld
  <2>2. downstream[h].frame.kind = "GATE"
        BY <1>3, <2>1
  <2>3. Single(upstream, "REQUEST", downstream[h].left - GateInterval + Crossing + LongestPause)
        BY <1>1, <2>2 DEF UpstreamHasRoom
  <2>4. Single(upstream', "REQUEST", downstream[h].left - GateInterval + Crossing + LongestPause)
        BY <2>3
  <2> QED BY <2>1, <2>4
<1>4. Single(upstream', "REQUEST", SentBy("Gate", GateInterval)' + Crossing + LongestPause)
      BY <1>1, <1>2 DEF UpstreamHasRoom
<1>5. Single(upstream', "INFO", onu'.next_keepalive - KeepaliveInterval
                                  + Crossing + RequestDelay + LongestStep - 1)
  <2>1. CASE onu.armed
        BY <1>1, <2>1 DEF UpstreamHasRoom
  <2>2. CASE ~onu.armed
        BY <1>1, <2>2, FreeIsSingle DEF UpstreamHasRoom
  <2> QED BY <2>1, <2>2
<1>6. onu'.armed \/ Free(upstream', {"INFO"})
      BY <1>1 DEF UpstreamHasRoom
<1> QED BY <1>3, <1>4, <1>5, <1>6 DEF UpstreamHasRoom

LEMMA BehindTaken ==
    ASSUME NEW q, IsLine(q), InOrder(q), BehindRequests(q), Landed(q)
    PROVE  BehindRequests(Tail(q))
<1> DEFINE r == Tail(q)
<1>1. PICK n \in Nat \ {0} : /\ Head(q) = q[1] /\ DOMAIN q = 1 .. n /\ DOMAIN r = 1 .. n - 1
                            /\ \A i \in 1 .. n - 1 : r[i] = q[i + 1]
      BY TakenInOrder DEF Landed
<1> HIDE DEF r
<1>2. q[1].left \in Int /\ q[1].left <= 0 /\ \A i \in 1 .. n : q[i].left \in Int
  <2>1. \A i \in 1 .. n : q[i].left \in Int
        BY <1>1 DEF InOrder
  <2>2. 1 \in 1 .. n /\ q[1].left <= 0
        BY <1>1 DEF Landed
  <2> QED BY <2>1, <2>2
<1>3. ASSUME NEW j \in 1 .. n - 1, r[j].left > Crossing
      PROVE  \E k \in 1 .. j : r[k].frame.kind = "REQUEST" /\ r[j].left <= r[k].left
  <2>1. j + 1 \in 1 .. n /\ r[j] = q[j + 1] /\ q[j + 1].left > Crossing
        BY <1>1, <1>3
  <2>2. PICK k \in 1 .. j + 1 : q[k].frame.kind = "REQUEST" /\ q[j + 1].left <= q[k].left
        BY <1>1, <2>1 DEF BehindRequests
  <2>3. q[j + 1].left \in Int
        BY <1>2, <2>1
  <2>4. ASSUME k = 1 PROVE FALSE
    <3>1. q[j + 1].left <= q[1].left
          BY <2>2, <2>4
    <3> QED BY <1>2, <2>1, <2>3, <3>1, RoomNumbers
  <2>5. k - 1 \in 1 .. j /\ k - 1 \in 1 .. n - 1 /\ (k - 1) + 1 = k
        BY <2>1, <2>4
  <2>6. r[k - 1] = q[k]
        BY <1>1, <2>5
  <2> QED BY <2>1, <2>2, <2>5, <2>6
<1>4. BehindRequests(r)
      BY <1>1, <1>3 DEF BehindRequests
<1> QED BY <1>4 DEF r

LEMMA BehindSent ==
    ASSUME NEW q, IsLine(q), InOrder(q), Len(q) < LineDepth, BehindRequests(q), NEW f
    PROVE  BehindRequests(Sent(q, f, 0))
<1>0. 0 \in Int
      OBVIOUS
<1>1. PICK r : r = Sent(q, f, 0)
      OBVIOUS
<1>2. PICK n \in Nat, left \in Int :
          /\ DOMAIN q = 1 .. n /\ DOMAIN r = 1 .. n + 1
          /\ \A i \in 1 .. n : r[i] = q[i]
          /\ r[n + 1].left = left
          /\ left = 0 + Crossing \/ (n > 0 /\ left = q[n].left)
      BY <1>0, <1>1, SentInOrder
<1>3. ASSUME NEW j \in 1 .. n + 1, r[j].left > Crossing
      PROVE  \E k \in 1 .. j : r[k].frame.kind = "REQUEST" /\ r[j].left <= r[k].left
  <2>1. PICK l \in 1 .. n : l <= j /\ r[j].left = q[l].left
    <3>1. CASE j = n + 1
      <4>1. left > Crossing
            BY <1>2, <1>3, <3>1
      <4>2. n > 0 /\ left = q[n].left
            BY <1>2, <4>1, RoomNumbers
      <4> QED BY <1>2, <3>1, <4>2
    <3>2. CASE j # n + 1
          BY <1>2, <3>2
    <3> QED BY <3>1, <3>2
  <2>2. q[l].left > Crossing /\ l \in DOMAIN q
        BY <1>2, <1>3, <2>1
  <2>3. PICK k \in 1 .. l : q[k].frame.kind = "REQUEST" /\ q[l].left <= q[k].left
        BY <2>2 DEF BehindRequests
  <2>4. k \in 1 .. j /\ r[k] = q[k]
        BY <1>2, <2>1, <2>3
  <2> QED BY <2>1, <2>3, <2>4
<1> QED BY <1>1, <1>2, <1>3 DEF BehindRequests

(* The responder says nothing, or acknowledges.                            *)
LEMMA UpKept ==
    ASSUME LifeInv, RoomInv,
           \/ upstream' = upstream
           \/ Landed(upstream) /\ upstream' = Tail(upstream)
           \/ \E f : f.kind = "ACK" /\ upstream' = Sent(upstream, f, 0),
           FromOld(downstream, downstream', "GATE"), due'["Gate"] = due["Gate"],
           onu.armed => onu'.armed /\ onu'.next_keepalive = onu.next_keepalive
    PROVE  UpstreamHasRoom'
<1>1. /\ IsLine(upstream) /\ InOrder(upstream) /\ Len(upstream) < LineDepth
      /\ Kinds(upstream, {"REQUEST", "ACK", "INFO"}) /\ BehindRequests(upstream)
      BY RoomFacts DEF RoomInv, UpstreamHasRoom
<1>2. CASE upstream' = upstream
      BY <1>1, <1>2, UpFrom
<1>3. CASE Landed(upstream) /\ upstream' = Tail(upstream)
  <2>1. upstream # <<>>
        BY <1>3 DEF Landed
  <2>2. /\ \A k, m : Single(upstream, k, m) => Single(upstream', k, m)
        /\ \A K : Kinds(upstream, K) => Kinds(upstream', K)
        /\ \A K : Free(upstream, K) => Free(upstream', K)
        BY <1>1, <1>3, <2>1, SingleTaken, TakenSays
  <2>3. BehindRequests(upstream')
        BY <1>1, <1>3, BehindTaken
  <2> QED BY <1>1, <2>2, <2>3, UpFrom
<1>4. ASSUME NEW f, f.kind = "ACK", upstream' = Sent(upstream, f, 0)
      PROVE  UpstreamHasRoom'
  <2>1. 0 \in Int /\ f.kind \notin {"INFO"} /\ f.kind \in {"REQUEST", "ACK", "INFO"}
        /\ f.kind # "REQUEST" /\ f.kind # "INFO"
        BY <1>4
  <2>2. /\ \A m : Single(upstream, "REQUEST", m) => Single(upstream', "REQUEST", m)
        /\ \A m : Single(upstream, "INFO", m) => Single(upstream', "INFO", m)
        /\ Kinds(upstream', {"REQUEST", "ACK", "INFO"})
    <3>1. PICK q, r : q = upstream /\ r = upstream'
          OBVIOUS
    <3>2. /\ \A k, m : f.kind # k /\ Single(q, k, m) => Single(r, k, m)
          /\ \A K : Kinds(q, K) /\ f.kind \in K => Kinds(r, K)
          BY <1>1, <1>4, <2>1, <3>1, SingleSent
    <3> QED BY <1>1, <2>1, <3>1, <3>2
  <2>3. Free(upstream, {"INFO"}) => Free(upstream', {"INFO"})
        BY <1>1, <1>4, <2>1, SentSays
  <2>4. BehindRequests(upstream')
        BY <1>1, <1>4, BehindSent
  <2> QED BY <2>2, <2>3, <2>4, UpFrom
<1> QED BY <1>2, <1>3, <1>4

(* Discovery as far as the timers go: what a frame sent or heard makes of  *)
(* its state and its count.                                                *)
Discovers(d) ==
    DOMAIN d = DOMAIN DefaultDiscovery /\ d.state \in DiscoveryState /\ d.sent \in Nat

LEMMA SendingDiscovers ==
    ASSUME NEW d, Discovers(d)
    PROVE  /\ Discovers(on_sent(d))
           /\ d.state # "LocalEvaluating" => on_sent(d).state = d.state
           /\ on_sent(d).state = d.state \/ on_sent(d).state = "LocalStable"
           /\ d.state = "LocalEvaluating" /\ d.sent = 0 =>
                on_sent(d).state = "LocalEvaluating" /\ on_sent(d).sent = 1
BY RoomNumbers DEF Discovers, on_sent, settle_if_evaluated, enter, DefaultDiscovery, DiscoveryState

LEMMA HearingDiscovers ==
    ASSUME NEW d, Discovers(d), NEW f
    PROVE  LET e == on_peer_information(d, f) IN
           /\ Discovers(e)
           /\ e.state = "Converged" =>
                \/ d.state \in {"Converged", "LocalStable"}
                \/ d.state = "LocalEvaluating" /\ d.sent > 1
           /\ e.state = "LocalStable" =>
                \/ d.state \in {"Converged", "LocalStable"}
                \/ d.state = "LocalEvaluating" /\ d.sent > 1
           /\ e.state = "LocalEvaluating" =>
                \/ e.sent = 0
                \/ d.state = "LocalEvaluating" /\ e.sent = d.sent
<1> DEFINE peer == [local_evaluating |-> f.local_evaluating, local_stable |-> f.local_stable]
           a == [[d EXCEPT !.peer_described_itself = TRUE] EXCEPT !.peer = peer]
           b == settle_if_evaluated(a)
<1>1. DOMAIN a = DOMAIN DefaultDiscovery /\ a.state = d.state /\ a.sent = d.sent
      BY DEF Discovers, DefaultDiscovery
<1>2. on_peer_information(d, f) = IF f.link_fault THEN DefaultDiscovery ELSE Converge(b, f)
      BY DEF on_peer_information, on_peer_flags
<1> HIDE DEF a
<1>3. /\ DOMAIN b = DOMAIN DefaultDiscovery
      /\ \/ b.state = d.state /\ b.sent = d.sent
         \/ /\ d.state = "LocalEvaluating" /\ d.sent > 1
            /\ b.state = "LocalStable" /\ b.sent = 0
      BY <1>1, RoomNumbers DEF Discovers, settle_if_evaluated, enter, DefaultDiscovery
<1> HIDE DEF b
<1>4. \/ Converge(b, f) = b
      \/ b.state = "Converged" /\ Converge(b, f) = enter(b, "LocalStable")
      \/ b.state = "LocalStable" /\ Converge(b, f) = enter(b, "Converged")
      BY DEF Converge
<1>5. \A s : b.state # s => /\ DOMAIN enter(b, s) = DOMAIN DefaultDiscovery
                            /\ enter(b, s).state = s /\ enter(b, s).sent = 0
      BY <1>3 DEF enter, DefaultDiscovery
<1> QED BY <1>2, <1>3, <1>4, <1>5 DEF Discovers, DiscoveryState, DefaultDiscovery

(* The frames the peer sends by its timers, of which at most one fires.    *)
Sends(kinds) ==
    /\ LineMoves(downstream, downstream', kinds)
    /\ kinds \subseteq {"GATE", "NORMAL_GATE", "INFO", "OTHER", "REGISTER", "DEREGISTER"}

Keeps(t, interval, k, kinds) ==
    \/ k \notin kinds /\ (due'[t] = due[t] \/ due'[t] = Off \/ due'[t] = interval)
    \/ kinds = {k} /\ due[t] = 0 /\ due'[t] = interval

LEMMA KeepsPeriod ==
    ASSUME LifeInv, RoomInv, LinesInTime', NEW kinds, Sends(kinds), NEW t \in Timer,
           NEW interval \in Nat, interval >= Crossing + LongestStep,
           NEW k, Single(downstream, k, SentBy(t, interval)), Keeps(t, interval, k, kinds)
    PROVE  Single(downstream', k, SentBy(t, interval)')
<1>1. CASE k \notin kinds /\ (due'[t] = due[t] \/ due'[t] = Off \/ due'[t] = interval)
      BY <1>1, PeriodKept DEF Sends
<1>2. CASE kinds = {k} /\ due[t] = 0 /\ due'[t] = interval
      BY <1>2, PeriodFired DEF Sends
<1> QED BY <1>1, <1>2 DEF Keeps

LEMMA DownKept ==
    ASSUME LifeInv, RoomInv, LinesInTime', NEW kinds, Sends(kinds),
           Keeps("Gate", GateInterval, "GATE", kinds),
           Keeps("NormalGate", NormalGateInterval, "NORMAL_GATE", kinds),
           Keeps("Keepalive", OamInterval, "INFO", kinds),
           RotationHasRoom'
    PROVE  DownstreamHasRoom'
<1>1. /\ IsLine(downstream) /\ InOrder(downstream) /\ Len(downstream) < LineDepth
      BY RoomFacts
<1>2. /\ Kinds(downstream, {"GATE", "NORMAL_GATE", "INFO", "OTHER", "REGISTER", "DEREGISTER"})
      /\ Single(downstream, "GATE", SentBy("Gate", GateInterval))
      /\ Single(downstream, "NORMAL_GATE", SentBy("NormalGate", NormalGateInterval))
      /\ Single(downstream, "INFO", SentBy("Keepalive", OamInterval))
      BY DEF RoomInv, DownstreamHasRoom
<1>3. "Gate" \in Timer /\ "NormalGate" \in Timer /\ "Keepalive" \in Timer
      BY DEF Timer
<1>4. Kinds(downstream', {"GATE", "NORMAL_GATE", "INFO", "OTHER", "REGISTER", "DEREGISTER"})
  <2>1. PICK q, r, K : /\ q = downstream /\ r = downstream'
                       /\ K = {"GATE", "NORMAL_GATE", "INFO", "OTHER", "REGISTER", "DEREGISTER"}
        OBVIOUS
  <2>2. LineMoves(q, r, kinds) /\ kinds \subseteq K /\ Kinds(q, K)
        BY <1>2, <2>1 DEF Sends
  <2>3. \A L : Kinds(q, L) /\ kinds \subseteq L => Kinds(r, L)
        BY <1>1, <2>1, <2>2, LineMovesSays
  <2>4. Kinds(r, K)
        BY <2>2, <2>3, Zenon
  <2> QED BY <2>1, <2>4
<1>5. Single(downstream', "GATE", SentBy("Gate", GateInterval)')
      BY <1>2, <1>3, KeepsPeriod, RoomNumbers
<1>6. Single(downstream', "NORMAL_GATE", SentBy("NormalGate", NormalGateInterval)')
      BY <1>2, <1>3, KeepsPeriod, RoomNumbers
<1>7. Single(downstream', "INFO", SentBy("Keepalive", OamInterval)')
      BY <1>2, <1>3, KeepsPeriod, RoomNumbers
<1> QED BY <1>4, <1>5, <1>6, <1>7 DEF DownstreamHasRoom

(* What is not on the line does not come on it.                            *)
LEMMA LineMovesFree ==
    ASSUME NEW q, IsLine(q), InOrder(q), Len(q) < LineDepth, NEW r, NEW kinds,
           LineMoves(q, r, kinds), NEW K, Free(q, K), K \cap kinds = {}
    PROVE  Free(r, K)
<1>1. ASSUME NEW i \in DOMAIN r, r[i].frame.kind \in K PROVE FALSE
  <2>1. FromOld(q, r, r[i].frame.kind)
        BY <1>1, LineMovesSays
  <2>2. PICK j \in DOMAIN q : r[i] = q[j]
        BY <2>1 DEF FromOld
  <2> QED BY <1>1, <2>2 DEF Free
<1> QED BY <1>1 DEF Free

(* The timers and discovery when neither the keepalive nor the rotation    *)
(* moves.                                                                  *)
LEMMA TimersKept ==
    ASSUME LifeInv, RoomInv, NEW kinds, Sends(kinds), "INFO" \notin kinds, "OTHER" \notin kinds,
           \A t \in Timer : due'[t] \in Nat \cup {Off},
           due'["Keepalive"] = due["Keepalive"],
           \/ UNCHANGED discovery /\ due'["AttributePoll"] = due["AttributePoll"]
           \/ discovery' = DefaultDiscovery /\ due'["AttributePoll"] = Off,
           link_up' = link_up, UNCHANGED <<onu, since_poll>>
    PROVE  TimersTick'
<1>1. /\ IsLine(downstream) /\ InOrder(downstream) /\ Len(downstream) < LineDepth /\ TimersTick
      BY RoomFacts DEF RoomInv
<1>2. /\ DOMAIN discovery' = DOMAIN DefaultDiscovery
      /\ discovery'.state \in DiscoveryState /\ discovery'.sent \in Nat
      /\ discovery'.state = "Converged" <=> due'["AttributePoll"] # Off
      /\ ~link_up => discovery'.state = "LocalEvaluating" /\ discovery'.sent = 0
      BY <1>1 DEF TimersTick, DefaultDiscovery, DiscoveryState
<1>3. ~link_up => due["Keepalive"] = Off /\ Free(downstream, {"INFO", "OTHER"})
      BY <1>1 DEF TimersTick
<1>4. {"INFO", "OTHER"} \cap kinds = {}
      OBVIOUS
<1>5. ~link_up => Free(downstream', {"INFO", "OTHER"})
      BY <1>1, <1>3, <1>4, LineMovesFree DEF Sends
<1>6. onu'.armed => onu'.next_keepalive >= 1 - since_poll'
      BY <1>1 DEF TimersTick
<1> QED BY <1>2, <1>3, <1>5, <1>6 DEF TimersTick

(* An event that touches neither the keepalive nor the rotation, or that   *)
(* takes discovery back to the beginning.                                  *)
LEMMA QuietEvent ==
    ASSUME LifeInv, RoomInv, LinesInTime', NEW kinds, Sends(kinds),
           "INFO" \notin kinds, "OTHER" \notin kinds,
           \A t \in Timer : due'[t] \in Nat \cup {Off},
           due'["Keepalive"] = due["Keepalive"],
           \/ UNCHANGED discovery /\ due'["AttributePoll"] = due["AttributePoll"]
           \/ discovery' = DefaultDiscovery /\ due'["AttributePoll"] = Off,
           Keeps("Gate", GateInterval, "GATE", kinds),
           Keeps("NormalGate", NormalGateInterval, "NORMAL_GATE", kinds),
           link_up' = link_up, UNCHANGED <<onu, since_poll>>,
           upstream' = upstream \/ (Landed(upstream) /\ upstream' = Tail(upstream))
    PROVE  TimersTick' /\ DownstreamHasRoom'
<1>1. /\ IsLine(downstream) /\ InOrder(downstream) /\ Len(downstream) < LineDepth
      /\ IsLine(upstream) /\ InOrder(upstream) /\ onu.next_keepalive \in Int
      /\ RotationHasRoom
      BY RoomFacts DEF RoomInv, DownstreamHasRoom
<1>2. TimersTick'
      BY TimersKept
<1>3. RotationHasRoom'
  <2>1. CASE UNCHANGED discovery /\ due'["AttributePoll"] = due["AttributePoll"]
    <3>1. onu.armed => /\ onu'.armed /\ onu'.next_keepalive \in Int
                       /\ onu'.next_keepalive >= onu.next_keepalive
          BY <1>1
    <3>2. \A j \in DOMAIN upstream' : \E k \in DOMAIN upstream : upstream'[j] = upstream[k]
      <4>1. CASE upstream' = upstream
            BY <4>1
      <4>2. CASE Landed(upstream) /\ upstream' = Tail(upstream)
            BY <1>1, <4>2, SingleTaken DEF Landed
      <4> QED BY <4>1, <4>2
    <3> QED BY <2>1, <3>1, <3>2, RotationKept DEF Sends
  <2>2. CASE discovery' = DefaultDiscovery
    <3>1. Single(downstream', "OTHER", Crossing)
          BY <1>1, LineMovesSays DEF Sends, RotationHasRoom
    <3>2. discovery'.state = "LocalEvaluating" /\ discovery'.sent = 0
          BY <2>2 DEF DefaultDiscovery
    <3> QED BY <3>1, <3>2 DEF RotationHasRoom
  <2> QED BY <2>1, <2>2
<1>4. Keeps("Keepalive", OamInterval, "INFO", kinds)
      BY DEF Keeps
<1> QED BY <1>2, <1>3, <1>4, DownKept

(* What fires, and what every event leaves.                                *)
LEMMA FireFacts ==
    ASSUME LifeInv, RoomInv, FireEvent
    PROVE  /\ IsLine(downstream) /\ LinesHaveRoom /\ CarryDown
           /\ UNCHANGED <<onu, since_poll, upstream, link_up>>
           /\ \A t \in Timer : due[t] \in Nat \cup {Off}
           /\ DOMAIN due = Timer
           /\ \A k : FromOld(downstream, downstream, k)
<1>1. /\ CarryDown /\ UNCHANGED <<onu, since_poll, upstream>> /\ Fire
      BY DEF FireEvent, ends
<1>2. UNCHANGED link_up
      BY <1>1 DEF Fire, FireGate, FireNormalGate, FireKeepalive, FireAttributePoll,
                  FireRegisterResponse, FireLifetime, FireRediscovery
<1> QED BY <1>1, <1>2, RoomFacts, OldFrames DEF RoomInv, TimersTick

LEMMA UpStays ==
    ASSUME LifeInv, RoomInv, upstream' = upstream, onu' = onu, due'["Gate"] = due["Gate"],
           NEW kinds, Sends(kinds), "GATE" \notin kinds
    PROVE  UpstreamHasRoom'
<1>1. IsLine(downstream) /\ InOrder(downstream) /\ Len(downstream) < LineDepth
      BY RoomFacts
<1>2. FromOld(downstream, downstream', "GATE")
      BY <1>1, LineMovesSays DEF Sends
<1> QED BY <1>2, UpKept

LEMMA GateRoom == ASSUME LifeInv, RoomInv, LinesInTime', FireEvent, FireGate PROVE RoomInv'
<1>1. /\ IsLine(downstream) /\ LinesHaveRoom /\ CarryDown
      /\ UNCHANGED <<onu, since_poll, upstream, link_up>>
      /\ \A t \in Timer : due[t] \in Nat \cup {Off}
      /\ DOMAIN due = Timer
      /\ InOrder(downstream) /\ Len(downstream) < LineDepth
      BY FireFacts, RoomFacts
<1>2. /\ due["Gate"] = 0 /\ due' = [due EXCEPT !["Gate"] = GateInterval]
      /\ emitted' = <<Frame("GATE")>> /\ discovery' = discovery
      BY DEF FireGate
<1>3. /\ due'["Gate"] = GateInterval
      /\ \A t \in Timer \ {"Gate"} : due'[t] = due[t]
      BY <1>1, <1>2 DEF Timer
<1>4. Frame("GATE").kind = "GATE"
      BY DEF Frame
<1>5. Sends({"GATE"})
      BY <1>1, <1>2, <1>4, CarryMoves DEF Sends
<1>6. PICK g : g.kind = "GATE" /\ downstream' = Sent(downstream, g, 0)
      BY <1>1, <1>2, <1>4, CarriedDown
<1>7. /\ "Gate" \in Timer /\ "NormalGate" \in Timer /\ "Keepalive" \in Timer
      /\ "AttributePoll" \in Timer
      BY DEF Timer
<1>8. \A t \in Timer : due'[t] \in Nat \cup {Off}
      BY <1>1, <1>3, RoomNumbers
<1>9. TimersTick' /\ DownstreamHasRoom'
  <2>1. /\ Keeps("Gate", GateInterval, "GATE", {"GATE"})
        /\ Keeps("NormalGate", NormalGateInterval, "NORMAL_GATE", {"GATE"})
        BY <1>2, <1>3, <1>7 DEF Keeps
  <2>2. "INFO" \notin {"GATE"} /\ "OTHER" \notin {"GATE"}
        OBVIOUS
  <2> QED BY <1>1, <1>2, <1>3, <1>5, <1>7, <1>8, <2>1, <2>2, QuietEvent
<1>10. UpstreamHasRoom'
  <2>1. UpstreamHasRoom /\ InOrder(upstream)
        BY RoomFacts DEF RoomInv
  <2>2. /\ SentBy("Gate", GateInterval) = Crossing - GateInterval
        /\ SentBy("Gate", GateInterval)' = Crossing
        BY <1>2, <1>3, RoomNumbers DEF SentBy, Off
  <2>3. Single(upstream, "REQUEST", Crossing - GateInterval + Crossing + LongestPause)
        BY <2>1, <2>2 DEF UpstreamHasRoom
  <2>4. \A l \in Int : l >= Crossing =>
           /\ Single(upstream, "REQUEST", l - GateInterval + Crossing + LongestPause)
           /\ Single(upstream, "REQUEST", l + Crossing + LongestPause)
    <3>1. SUFFICES ASSUME NEW l \in Int, l >= Crossing
                   PROVE  /\ Single(upstream, "REQUEST", l - GateInterval + Crossing + LongestPause)
                          /\ Single(upstream, "REQUEST", l + Crossing + LongestPause)
          OBVIOUS
    <3>2. PICK a, b, c : /\ a = Crossing - GateInterval + Crossing + LongestPause
                         /\ b = l - GateInterval + Crossing + LongestPause
                         /\ c = l + Crossing + LongestPause
          OBVIOUS
    <3>3. a \in Int /\ b \in Int /\ c \in Int /\ a <= b /\ a <= c
          BY <3>1, <3>2, RoomNumbers
    <3>4. Single(upstream, "REQUEST", a)
          BY <2>3, <3>2
    <3>5. Single(upstream, "REQUEST", b) /\ Single(upstream, "REQUEST", c)
          BY <2>1, <3>3, <3>4, SingleLimits
    <3> QED BY <3>2, <3>5
  <2>5. ASSUME NEW i \in DOMAIN downstream', downstream'[i].frame.kind = "GATE"
        PROVE  downstream'[i].left \in Int /\ downstream'[i].left >= Crossing
    <3>1. 0 \in Int
          OBVIOUS
    <3>2. PICK n \in Nat, left \in Int :
            /\ DOMAIN downstream = 1 .. n /\ DOMAIN downstream' = 1 .. n + 1
            /\ \A j \in 1 .. n : downstream'[j] = downstream[j]
            /\ downstream'[n + 1].left = left /\ left >= 0 + Crossing
          BY <1>1, <1>6, <3>1, SentInOrder
    <3>3. Free(downstream, {"GATE"})
      <4>1. Single(downstream, "GATE", SentBy("Gate", GateInterval))
            BY DEF RoomInv, DownstreamHasRoom
      <4> QED BY <1>2, <1>7, <4>1, PeriodFired, RoomNumbers
    <3>4. i = n + 1
          BY <2>5, <3>2, <3>3 DEF Free
    <3> QED BY <3>2, <3>4, RoomNumbers
  <2>6. /\ Single(upstream', "REQUEST", SentBy("Gate", GateInterval)' + Crossing + LongestPause)
        /\ \A i \in DOMAIN downstream' : downstream'[i].frame.kind = "GATE" =>
              Single(upstream', "REQUEST",
                     downstream'[i].left - GateInterval + Crossing + LongestPause)
    <3>1. Single(upstream, "REQUEST", Crossing + Crossing + LongestPause)
          BY <2>4, RoomNumbers
    <3>2. ASSUME NEW i \in DOMAIN downstream', downstream'[i].frame.kind = "GATE"
          PROVE  Single(upstream, "REQUEST",
                        downstream'[i].left - GateInterval + Crossing + LongestPause)
          BY <2>4, <2>5, <3>2
    <3> QED BY <1>1, <2>2, <3>1, <3>2
  <2> QED BY <1>1, <2>1, <2>6 DEF UpstreamHasRoom
<1> QED BY <1>9, <1>10 DEF RoomInv

(* A window, an answer to a request, the end of a silence.                 *)
LEMMA QuietRoom ==
    ASSUME LifeInv, RoomInv, LinesInTime', FireEvent,
           FireNormalGate \/ FireRegisterResponse \/ FireRediscovery
    PROVE  RoomInv'
<1>1. /\ IsLine(downstream) /\ LinesHaveRoom /\ CarryDown
      /\ UNCHANGED <<onu, since_poll, upstream, link_up>>
      /\ \A t \in Timer : due[t] \in Nat \cup {Off}
      /\ DOMAIN due = Timer
      BY FireFacts
<1>2. /\ "Gate" \in Timer /\ "NormalGate" \in Timer /\ "Keepalive" \in Timer
      /\ "AttributePoll" \in Timer /\ Off \in Nat \cup {Off}
      BY DEF Timer
<1>3. SUFFICES ASSUME NEW kinds, kinds \subseteq {"NORMAL_GATE", "REGISTER"},
                      emitted' = <<>> \/ \E f : emitted' = <<f>> /\ f.kind \in kinds,
                      Keeps("NormalGate", NormalGateInterval, "NORMAL_GATE", kinds),
                      \A t \in Timer : due'[t] \in Nat \cup {Off},
                      \A t \in {"Gate", "Keepalive", "AttributePoll"} : due'[t] = due[t],
                      discovery' = discovery
               PROVE  RoomInv'
  <2>1. CASE FireNormalGate
    <3>1. CASE mpcp_state = "Registered"
      <4>1. /\ due["NormalGate"] = 0 /\ due' = [due EXCEPT !["NormalGate"] = NormalGateInterval]
            /\ emitted' = <<Frame("NORMAL_GATE")>> /\ discovery' = discovery
            BY <2>1, <3>1 DEF FireNormalGate
      <4>2. /\ due'["NormalGate"] = NormalGateInterval
            /\ \A t \in Timer \ {"NormalGate"} : due'[t] = due[t]
            BY <1>1, <1>2, <4>1
      <4>3. \E f : emitted' = <<f>> /\ f.kind \in {"NORMAL_GATE"}
            BY <4>1 DEF Frame
      <4>4. Keeps("NormalGate", NormalGateInterval, "NORMAL_GATE", {"NORMAL_GATE"})
            BY <4>1, <4>2 DEF Keeps
      <4>5. \A t \in Timer : due'[t] \in Nat \cup {Off}
            BY <1>1, <4>2, RoomNumbers
      <4>6. \A t \in {"Gate", "Keepalive", "AttributePoll"} : due'[t] = due[t]
            BY <1>2, <4>2
      <4> QED BY <1>3, <4>1, <4>3, <4>4, <4>5, <4>6
    <3>2. CASE mpcp_state # "Registered"
      <4>1. /\ due' = [due EXCEPT !["NormalGate"] = Off]
            /\ emitted' = <<>> /\ discovery' = discovery
            BY <2>1, <3>2 DEF FireNormalGate
      <4>2. due'["NormalGate"] = Off /\ \A t \in Timer \ {"NormalGate"} : due'[t] = due[t]
            BY <1>1, <1>2, <4>1
      <4>3. Keeps("NormalGate", NormalGateInterval, "NORMAL_GATE", {})
            BY <4>2 DEF Keeps
      <4>4. \A t \in Timer : due'[t] \in Nat \cup {Off}
            BY <1>1, <1>2, <4>2
      <4>5. \A t \in {"Gate", "Keepalive", "AttributePoll"} : due'[t] = due[t]
            BY <1>2, <4>2
      <4> QED BY <1>3, <4>1, <4>3, <4>4, <4>5
    <3> QED BY <3>1, <3>2
  <2>2. ASSUME NEW t \in {"RegisterResponse", "Rediscovery"}, due' = [due EXCEPT ![t] = Off]
        PROVE  /\ due'["NormalGate"] = due["NormalGate"]
               /\ \A u \in Timer : due'[u] \in Nat \cup {Off}
               /\ \A u \in {"Gate", "Keepalive", "AttributePoll"} : due'[u] = due[u]
    <3>1. \A u \in Timer : due'[u] = IF u = t THEN Off ELSE due[u]
          BY <1>1, <2>2
    <3> QED BY <1>1, <1>2, <2>2, <3>1
  <2>3. CASE FireRegisterResponse
    <3>1. due' = [due EXCEPT !["RegisterResponse"] = Off] /\ discovery' = discovery
          BY <2>3 DEF FireRegisterResponse
    <3>2. emitted' = <<>> \/ \E f : emitted' = <<f>> /\ f.kind \in {"REGISTER"}
      <4>1. Register("REGISTER").kind = "REGISTER"
            BY DEF Register
      <4> QED BY <2>3, <4>1 DEF FireRegisterResponse
    <3>3. Keeps("NormalGate", NormalGateInterval, "NORMAL_GATE", {"REGISTER"})
          BY <2>2, <3>1 DEF Keeps
    <3> QED BY <1>3, <2>2, <3>1, <3>2, <3>3
  <2>4. CASE FireRediscovery
    <3>1. /\ due' = [due EXCEPT !["Rediscovery"] = Off] /\ discovery' = discovery
          /\ emitted' = <<>>
          BY <2>4 DEF FireRediscovery
    <3>2. Keeps("NormalGate", NormalGateInterval, "NORMAL_GATE", {})
          BY <2>2, <3>1 DEF Keeps
    <3> QED BY <1>3, <2>2, <3>1, <3>2
  <2> QED BY <2>1, <2>3, <2>4
<1>4. Sends(kinds)
      BY <1>1, <1>3, CarryMoves DEF Sends
<1>5. "INFO" \notin kinds /\ "OTHER" \notin kinds /\ "GATE" \notin kinds
      BY <1>3
<1>6. Keeps("Gate", GateInterval, "GATE", kinds)
      BY <1>3, <1>5 DEF Keeps
<1>7. TimersTick' /\ DownstreamHasRoom'
      BY <1>1, <1>3, <1>4, <1>5, <1>6, QuietEvent
<1>8. UpstreamHasRoom'
      BY <1>1, <1>3, <1>4, <1>5, UpStays
<1> QED BY <1>7, <1>8 DEF RoomInv

(* A teardown takes discovery back to the beginning.                       *)
LEMMA LifetimeRoom == ASSUME LifeInv, RoomInv, LinesInTime', FireEvent, FireLifetime PROVE RoomInv'
<1>1. /\ IsLine(downstream) /\ LinesHaveRoom /\ CarryDown
      /\ UNCHANGED <<onu, since_poll, upstream, link_up>>
      /\ \A t \in Timer : due[t] \in Nat \cup {Off}
      /\ DOMAIN due = Timer
      BY FireFacts
<1>2. /\ "Gate" \in Timer /\ "NormalGate" \in Timer /\ "Keepalive" \in Timer
      /\ "AttributePoll" \in Timer /\ "Rediscovery" \in Timer /\ "Lifetime" \in Timer
      /\ Off \in Nat \cup {Off}
      BY DEF Timer
<1>3. emitted' = <<>> \/ \E f : emitted' = <<f>> /\ f.kind \in {"DEREGISTER"}
  <2>1. Register("DEREGISTER").kind = "DEREGISTER"
        BY DEF Register
  <2> QED BY <2>1 DEF FireLifetime, tear_down_registration
<1>4. \/ /\ due' = [due EXCEPT !["Lifetime"] = Off] /\ discovery' = discovery
      \/ /\ due' = [[due EXCEPT !["Lifetime"] = Off] EXCEPT !["NormalGate"] = Off,
                                 !["AttributePoll"] = Off, !["Rediscovery"] = RediscoveryDelay]
         /\ discovery' = DefaultDiscovery
      BY DEF FireLifetime, tear_down_registration
<1>5. /\ \A t \in Timer : due'[t] \in Nat \cup {Off}
      /\ due'["Gate"] = due["Gate"] /\ due'["Keepalive"] = due["Keepalive"]
      /\ due'["NormalGate"] = due["NormalGate"] \/ due'["NormalGate"] = Off
      /\ \/ UNCHANGED discovery /\ due'["AttributePoll"] = due["AttributePoll"]
         \/ discovery' = DefaultDiscovery /\ due'["AttributePoll"] = Off
  <2>1. CASE due' = [due EXCEPT !["Lifetime"] = Off] /\ discovery' = discovery
    <3>1. \A t \in Timer : due'[t] = IF t = "Lifetime" THEN Off ELSE due[t]
          BY <1>1, <2>1
    <3> QED BY <1>1, <1>2, <2>1, <3>1
  <2>2. CASE /\ due' = [[due EXCEPT !["Lifetime"] = Off] EXCEPT !["NormalGate"] = Off,
                                !["AttributePoll"] = Off, !["Rediscovery"] = RediscoveryDelay]
             /\ discovery' = DefaultDiscovery
    <3>1. \A t \in Timer : due'[t] = IF t = "Rediscovery" THEN RediscoveryDelay
                                     ELSE IF t \in {"Lifetime", "NormalGate", "AttributePoll"}
                                          THEN Off ELSE due[t]
          BY <1>1, <2>2
    <3> QED BY <1>1, <1>2, <2>2, <3>1
  <2> QED BY <1>4, <2>1, <2>2
<1>6. Sends({"DEREGISTER"})
      BY <1>1, <1>3, CarryMoves DEF Sends
<1>7. "INFO" \notin {"DEREGISTER"} /\ "OTHER" \notin {"DEREGISTER"} /\ "GATE" \notin {"DEREGISTER"}
      OBVIOUS
<1>8. /\ Keeps("Gate", GateInterval, "GATE", {"DEREGISTER"})
      /\ Keeps("NormalGate", NormalGateInterval, "NORMAL_GATE", {"DEREGISTER"})
      BY <1>5 DEF Keeps
<1>9. TimersTick' /\ DownstreamHasRoom'
      BY <1>1, <1>5, <1>6, <1>7, <1>8, QuietEvent
<1>10. UpstreamHasRoom'
      BY <1>1, <1>5, <1>6, <1>7, UpStays
<1> QED BY <1>9, <1>10 DEF RoomInv

(* The rotation reads on: the read before has been heard.                  *)
LEMMA PollRoom ==
    ASSUME LifeInv, RoomInv, LinesInTime', FireEvent, FireAttributePoll PROVE RoomInv'
<1>1. /\ IsLine(downstream) /\ LinesHaveRoom /\ CarryDown
      /\ UNCHANGED <<onu, since_poll, upstream, link_up>>
      /\ \A t \in Timer : due[t] \in Nat \cup {Off}
      /\ DOMAIN due = Timer
      /\ TimersTick /\ RotationHasRoom
      BY FireFacts DEF RoomInv, DownstreamHasRoom
<1>2. /\ "Gate" \in Timer /\ "NormalGate" \in Timer /\ "Keepalive" \in Timer
      /\ "AttributePoll" \in Timer
      BY DEF Timer
<1>3. /\ due["AttributePoll"] = 0 /\ due' = [due EXCEPT !["AttributePoll"] = AttributeInterval]
      /\ discovery' = discovery
      BY DEF FireAttributePoll
<1>4. /\ due'["AttributePoll"] = AttributeInterval
      /\ \A t \in Timer \ {"AttributePoll"} : due'[t] = due[t]
      BY <1>1, <1>2, <1>3
<1>5. /\ due'["Gate"] = due["Gate"] /\ due'["NormalGate"] = due["NormalGate"]
      /\ due'["Keepalive"] = due["Keepalive"]
      BY <1>2, <1>4
<1>6. emitted' = <<>> \/ \E f : emitted' = <<f>> /\ f.kind \in {"OTHER"}
      BY DEF FireAttributePoll, Frame
<1>7. Sends({"OTHER"})
      BY <1>1, <1>6, CarryMoves DEF Sends
<1>8. discovery.state = "Converged" /\ link_up
      BY <1>1, <1>3 DEF TimersTick, Off
<1>9. Single(downstream', "OTHER", SentBy("AttributePoll", AttributeInterval)')
  <2>1. Single(downstream, "OTHER", SentBy("AttributePoll", AttributeInterval))
        BY <1>1, <1>8 DEF RotationHasRoom, Single
  <2> QED BY <1>2, <1>3, <1>4, <1>7, <2>1, PeriodFired, RoomNumbers DEF Sends
<1>10. SentBy("AttributePoll", AttributeInterval)' = Crossing
       BY <1>4, RoomNumbers DEF SentBy
<1>11. RotationHasRoom'
  <2>1. Single(downstream', "OTHER", Crossing)
        BY <1>9, <1>10
  <2>2. discovery'.state = "Converged"
        BY <1>3, <1>8
  <2> QED BY <1>9, <2>1, <2>2 DEF RotationHasRoom, Single
<1>12. /\ Keeps("Gate", GateInterval, "GATE", {"OTHER"})
       /\ Keeps("NormalGate", NormalGateInterval, "NORMAL_GATE", {"OTHER"})
       /\ Keeps("Keepalive", OamInterval, "INFO", {"OTHER"})
       BY <1>5 DEF Keeps
<1>13. DownstreamHasRoom'
       BY <1>7, <1>11, <1>12, DownKept
<1>14. "GATE" \notin {"OTHER"}
       OBVIOUS
<1>15. UpstreamHasRoom'
       BY <1>1, <1>5, <1>7, <1>14, UpStays
<1>16. TimersTick'
  <2>1. \A t \in Timer : due'[t] \in Nat \cup {Off}
        BY <1>1, <1>4, RoomNumbers
  <2>2. due'["AttributePoll"] # Off
        BY <1>4, RoomNumbers DEF Off
  <2> QED BY <1>1, <1>3, <1>8, <2>1, <2>2 DEF TimersTick
<1> QED BY <1>13, <1>15, <1>16 DEF RoomInv

(* The peer speaks: an evaluation counts one more, and that it is over     *)
(* takes two.                                                              *)
LEMMA KeepaliveRoom ==
    ASSUME LifeInv, RoomInv, LinesInTime', FireEvent, FireKeepalive PROVE RoomInv'
<1>1. /\ IsLine(downstream) /\ LinesHaveRoom /\ CarryDown
      /\ UNCHANGED <<onu, since_poll, upstream, link_up>>
      /\ \A t \in Timer : due[t] \in Nat \cup {Off}
      /\ DOMAIN due = Timer
      /\ TimersTick /\ RotationHasRoom
      /\ InOrder(downstream) /\ Len(downstream) < LineDepth
      BY FireFacts, RoomFacts DEF RoomInv, DownstreamHasRoom
<1>2. /\ "Gate" \in Timer /\ "NormalGate" \in Timer /\ "Keepalive" \in Timer
      /\ "AttributePoll" \in Timer
      BY DEF Timer
<1>3. /\ due["Keepalive"] = 0 /\ discovery' = on_sent(discovery)
      /\ due' = [on_discovery_entered(due, discovery.state, discovery'.state)
                   EXCEPT !["Keepalive"] = OamInterval]
      BY DEF FireKeepalive
<1>4. \A t \in Timer :
         due'[t] = IF t = "Keepalive" THEN OamInterval
                   ELSE IF t = "AttributePoll" /\ discovery'.state # discovery.state
                        THEN IF discovery'.state = "Converged" THEN 0 ELSE Off
                        ELSE due[t]
      BY <1>1, <1>2, <1>3 DEF on_discovery_entered
<1>5. /\ due'["Gate"] = due["Gate"] /\ due'["NormalGate"] = due["NormalGate"]
      /\ due'["Keepalive"] = OamInterval
      BY <1>2, <1>4
<1>6. emitted' = <<>> \/ \E f : emitted' = <<f>> /\ f.kind \in {"INFO"}
      BY DEF FireKeepalive, Frame
<1>7. Sends({"INFO"})
      BY <1>1, <1>6, CarryMoves DEF Sends
<1>8. /\ discovery'.state \in DiscoveryState /\ discovery'.sent \in Nat
      /\ DOMAIN discovery' = DOMAIN DefaultDiscovery
      /\ discovery.state # "LocalEvaluating" => discovery'.state = discovery.state
      /\ discovery'.state = discovery.state \/ discovery'.state = "LocalStable"
      /\ discovery.state = "LocalEvaluating" /\ discovery.sent = 0 =>
           discovery'.state = "LocalEvaluating" /\ discovery'.sent = 1
      BY <1>1, <1>3, SendingDiscovers DEF TimersTick, Discovers
<1>9. link_up
      BY <1>1, <1>3 DEF TimersTick, Off
<1>10. RotationHasRoom'
  <2>1. Single(downstream', "OTHER", Crossing)
        BY <1>1, <1>7, LineMovesSays DEF Sends, RotationHasRoom
  <2>2. FromOld(downstream, downstream', "OTHER")
        BY <1>1, <1>7, LineMovesSays DEF Sends
  <2>3. SentBy("Keepalive", OamInterval)' = Crossing
        BY <1>5, RoomNumbers DEF SentBy
  <2>4. SentBy("Keepalive", OamInterval) < 1 - LongestStep
        BY <1>3, RoomNumbers DEF SentBy, Off
  <2>5. SentBy("Keepalive", OamInterval) \in Int
        BY <1>2, RoomFacts, RoomNumbers
  <2>6. ASSUME NEW i \in DOMAIN downstream', downstream'[i].frame.kind = "OTHER"
        PROVE  /\ discovery'.state = "Converged" =>
                    downstream'[i].left <= SentBy("AttributePoll", AttributeInterval)'
               /\ discovery'.state = "LocalStable" =>
                    /\ onu'.armed
                    /\ downstream'[i].left + LongestStep <= onu'.next_keepalive + Crossing
                    /\ \A j \in DOMAIN upstream' : upstream'[j].frame.kind = "INFO" =>
                         downstream'[i].left + LongestStep <= upstream'[j].left
               /\ discovery'.state = "LocalEvaluating" =>
                    \/ discovery'.sent = 0
                    \/ /\ discovery'.sent = 1
                       /\ downstream'[i].left <= SentBy("Keepalive", OamInterval)'
    <3>1. PICK h \in DOMAIN downstream : downstream'[i] = downstream[h]
          BY <2>2, <2>6 DEF FromOld
    <3>2. PICK l : l = downstream[h].left /\ l \in Int /\ l = downstream'[i].left
          BY <3>1, RoomFacts
    <3>3. l >= 1 - LongestStep /\ l <= Crossing
          BY <3>2, RoomFacts
    <3>4. downstream[h].frame.kind = "OTHER"
          BY <2>6, <3>1
    <3>5. CASE discovery.state = "Converged"
      <4>1. due'["AttributePoll"] = due["AttributePoll"] /\ discovery'.state = "Converged"
            BY <1>2, <1>4, <1>8, <3>5
      <4>2. SentBy("AttributePoll", AttributeInterval)' = SentBy("AttributePoll", AttributeInterval)
            BY <4>1 DEF SentBy
      <4>3. l <= SentBy("AttributePoll", AttributeInterval)
            BY <1>1, <3>2, <3>4, <3>5 DEF RotationHasRoom
      <4> QED BY <3>2, <4>1, <4>2, <4>3
    <3>6. CASE discovery.state = "LocalStable"
      <4>1. discovery'.state = "LocalStable"
            BY <1>8, <3>6
      <4>2. /\ onu.armed /\ l + LongestStep <= onu.next_keepalive + Crossing
            /\ \A j \in DOMAIN upstream : upstream[j].frame.kind = "INFO" =>
                  l + LongestStep <= upstream[j].left
            BY <1>1, <3>2, <3>4, <3>6 DEF RotationHasRoom
      <4> QED BY <1>1, <3>2, <4>1, <4>2
    <3>7. CASE discovery.state = "LocalEvaluating"
      <4>1. discovery.sent = 0
        <5>1. discovery.sent = 0 \/ l <= SentBy("Keepalive", OamInterval)
              BY <1>1, <3>2, <3>4, <3>7 DEF RotationHasRoom
        <5> QED BY <2>4, <2>5, <3>2, <3>3, <5>1, RoomNumbers
      <4>2. discovery'.state = "LocalEvaluating" /\ discovery'.sent = 1
            BY <1>8, <3>7, <4>1
      <4> QED BY <2>3, <3>2, <3>3, <4>2
    <3> QED BY <1>1, <3>5, <3>6, <3>7 DEF TimersTick, DiscoveryState
  <2> QED BY <2>1, <2>6 DEF RotationHasRoom
<1>11. /\ Keeps("Gate", GateInterval, "GATE", {"INFO"})
       /\ Keeps("NormalGate", NormalGateInterval, "NORMAL_GATE", {"INFO"})
       /\ Keeps("Keepalive", OamInterval, "INFO", {"INFO"})
       BY <1>3, <1>5 DEF Keeps
<1>12. DownstreamHasRoom'
       BY <1>7, <1>10, <1>11, DownKept
<1>13. "GATE" \notin {"INFO"}
       OBVIOUS
<1>14. UpstreamHasRoom'
       BY <1>1, <1>5, <1>7, <1>13, UpStays
<1>15. TimersTick'
  <2>1. \A t \in Timer : due'[t] \in Nat \cup {Off}
        BY <1>1, <1>4, RoomNumbers
  <2>2. discovery'.state = "Converged" <=> due'["AttributePoll"] # Off
    <3>1. discovery.state = "Converged" <=> due["AttributePoll"] # Off
          BY <1>1 DEF TimersTick
    <3>2. CASE discovery'.state = discovery.state
          BY <1>2, <1>4, <3>1, <3>2
    <3>3. CASE discovery'.state # discovery.state
          BY <1>2, <1>4, <3>3 DEF Off
    <3> QED BY <3>2, <3>3
  <2> QED BY <1>1, <1>8, <1>9, <2>1, <2>2 DEF TimersTick
<1> QED BY <1>12, <1>14, <1>15 DEF RoomInv

LEMMA FireRoom == ASSUME LifeInv, RoomInv, LinesInTime', FireEvent PROVE RoomInv'
<1>1. Fire
      BY DEF FireEvent
<1> QED BY <1>1, GateRoom, QuietRoom, LifetimeRoom, PollRoom, KeepaliveRoom DEF Fire

(* What lands at the peer.                                                 *)
LEMMA LandFacts ==
    ASSUME LifeInv, RoomInv, Land
    PROVE  /\ UNCHANGED <<onu, since_poll, downstream, link_up>>
           /\ Landed(upstream) /\ upstream' = Tail(upstream) /\ upstream # <<>>
           /\ IsLine(upstream) /\ InOrder(upstream)
           /\ IsLine(downstream) /\ InOrder(downstream) /\ Len(downstream) < LineDepth
           /\ \A t \in Timer : due[t] \in Nat \cup {Off}
           /\ DOMAIN due = Timer
           /\ Sends({})
           /\ TimersTick /\ RotationHasRoom
<1>1. emitted' = <<>> /\ link_up' = link_up
      BY DEF Land, on_register_req, on_register_req_refused, on_register_ack, on_oam
<1>2. downstream' = downstream
      BY <1>1, RoomFacts, CarriedDown DEF Land
<1>3. LineMoves(downstream, downstream', {})
      BY <1>2 DEF LineMoves
<1> QED BY <1>1, <1>2, <1>3, RoomFacts
        DEF Land, Landed, ends, Sends, RoomInv, DownstreamHasRoom, TimersTick

LEMMA UpLands == ASSUME LifeInv, RoomInv, Land, due'["Gate"] = due["Gate"] PROVE UpstreamHasRoom'
<1>1. FromOld(downstream, downstream', "GATE")
      BY LandFacts, OldFrames
<1> QED BY <1>1, LandFacts, UpKept

(* A request or an acknowledgement.                                        *)
LEMMA LandedRoom ==
    ASSUME LifeInv, RoomInv, LinesInTime', Land, Head(upstream).frame.kind # "INFO"
    PROVE  RoomInv'
<1>1. /\ UNCHANGED <<onu, since_poll, downstream, link_up>>
      /\ Landed(upstream) /\ upstream' = Tail(upstream)
      /\ \A t \in Timer : due[t] \in Nat \cup {Off}
      /\ DOMAIN due = Timer
      /\ Sends({})
      BY LandFacts
<1>2. /\ "Gate" \in Timer /\ "NormalGate" \in Timer /\ "Keepalive" \in Timer
      /\ "AttributePoll" \in Timer
      BY DEF Timer
<1>3. /\ discovery' = discovery
      /\ \/ due' = due
         \/ due' = [due EXCEPT !["RegisterResponse"] = ProcessingDelay]
         \/ due' = [due EXCEPT !["Lifetime"] = RegistrationLifetime,
                               !["NormalGate"] = NormalGateInterval]
  <2>1. CASE Head(upstream).frame.kind = "REQUEST"
    <3>1. PICK src \in Onu : on_register_req_refused(src) \/ on_register_req(src)
          BY <2>1 DEF Land
    <3> QED BY <3>1 DEF on_register_req_refused, on_register_req
  <2>2. CASE Head(upstream).frame.kind = "ACK"
    <3>1. PICK llid : on_register_ack(TRUE, llid, TRUE)
          BY <2>2 DEF Land
    <3> QED BY <3>1 DEF on_register_ack
  <2> QED BY <2>1, <2>2 DEF Land
<1>4. /\ \A t \in Timer : due'[t] \in Nat \cup {Off}
      /\ due'["Gate"] = due["Gate"] /\ due'["Keepalive"] = due["Keepalive"]
      /\ due'["AttributePoll"] = due["AttributePoll"]
      /\ due'["NormalGate"] = due["NormalGate"] \/ due'["NormalGate"] = NormalGateInterval
  <2>1. CASE due' = due
        BY <1>1, <2>1
  <2>2. CASE due' = [due EXCEPT !["RegisterResponse"] = ProcessingDelay]
    <3>1. \A t \in Timer : due'[t] = IF t = "RegisterResponse" THEN ProcessingDelay ELSE due[t]
          BY <1>1, <2>2
    <3> QED BY <1>1, <1>2, <3>1
  <2>3. CASE due' = [due EXCEPT !["Lifetime"] = RegistrationLifetime,
                                !["NormalGate"] = NormalGateInterval]
    <3>1. \A t \in Timer : due'[t] = IF t = "NormalGate" THEN NormalGateInterval
                                     ELSE IF t = "Lifetime" THEN RegistrationLifetime ELSE due[t]
          BY <1>1, <2>3
    <3> QED BY <1>1, <1>2, <3>1
  <2> QED BY <1>3, <2>1, <2>2, <2>3
<1>5. /\ Keeps("Gate", GateInterval, "GATE", {})
      /\ Keeps("NormalGate", NormalGateInterval, "NORMAL_GATE", {})
      BY <1>4 DEF Keeps
<1>6. TimersTick' /\ DownstreamHasRoom'
      BY <1>1, <1>3, <1>4, <1>5, QuietEvent
<1>7. UpstreamHasRoom'
      BY <1>4, UpLands
<1> QED BY <1>6, <1>7 DEF RoomInv

(* An OAMPDU of the responder, which may bring discovery to convergence or *)
(* out of it: a read that was on its way has been heard by then.           *)
LEMMA OamRoom ==
    ASSUME LifeInv, RoomInv, LinesInTime', Land, Head(upstream).frame.kind = "INFO"
    PROVE  RoomInv'
<1>1. /\ UNCHANGED <<onu, since_poll, downstream, link_up>>
      /\ Landed(upstream) /\ upstream' = Tail(upstream) /\ upstream # <<>>
      /\ IsLine(upstream) /\ InOrder(upstream)
      /\ \A t \in Timer : due[t] \in Nat \cup {Off}
      /\ DOMAIN due = Timer
      /\ Sends({})
      /\ TimersTick /\ RotationHasRoom
      BY LandFacts
<1>2. /\ "Gate" \in Timer /\ "NormalGate" \in Timer /\ "Keepalive" \in Timer
      /\ "AttributePoll" \in Timer
      BY DEF Timer
<1>3. PICK f : on_oam(TRUE, f)
      BY DEF Land
<1>4. /\ discovery' = on_peer_information(discovery, f)
      /\ due' = on_discovery_entered(due, discovery.state, discovery'.state)
      BY <1>3 DEF on_oam
<1>5. \A t \in Timer :
         due'[t] = IF t = "AttributePoll" /\ discovery'.state # discovery.state
                   THEN IF discovery'.state = "Converged" THEN 0 ELSE Off
                   ELSE due[t]
      BY <1>1, <1>2, <1>4 DEF on_discovery_entered
<1>6. /\ due'["Gate"] = due["Gate"] /\ due'["NormalGate"] = due["NormalGate"]
      /\ due'["Keepalive"] = due["Keepalive"]
      BY <1>2, <1>5
<1>7. /\ discovery'.state \in DiscoveryState /\ discovery'.sent \in Nat
      /\ DOMAIN discovery' = DOMAIN DefaultDiscovery
      /\ discovery'.state \in {"Converged", "LocalStable"} =>
           \/ discovery.state \in {"Converged", "LocalStable"}
           \/ discovery.state = "LocalEvaluating" /\ discovery.sent > 1
      /\ discovery'.state = "LocalEvaluating" =>
           \/ discovery'.sent = 0
           \/ discovery.state = "LocalEvaluating" /\ discovery'.sent = discovery.sent
  <2>1. Discovers(discovery)
        BY <1>1 DEF TimersTick, Discovers
  <2> QED BY <1>4, <2>1, HearingDiscovers DEF Discovers
<1>8. PICK k \in DOMAIN upstream : Head(upstream) = upstream[k]
      BY <1>1, SingleTaken
<1>9. /\ upstream[k].frame.kind = "INFO" /\ upstream[k].left \in Int
      /\ upstream[k].left = 0
      BY <1>1, <1>8, RoomFacts DEF Landed
<1>10. /\ onu.armed /\ onu.next_keepalive \in Int /\ onu.next_keepalive >= LongestStep
       /\ Free(upstream', {"INFO"})
  <2>1. PICK m : m = onu.next_keepalive - KeepaliveInterval
                       + Crossing + RequestDelay + LongestStep - 1
        OBVIOUS
  <2>2. Single(upstream, "INFO", m) /\ (onu.armed \/ Free(upstream, {"INFO"}))
        BY <2>1 DEF RoomInv, UpstreamHasRoom
  <2>3. 0 <= m /\ onu.armed
        BY <1>9, <2>2 DEF Single, Free
  <2>4. Free(upstream', {"INFO"})
        BY <1>1, <1>8, <1>9, <2>2, SingleTaken
  <2>5. onu.next_keepalive \in Int
        BY RoomFacts
  <2> QED BY <2>1, <2>3, <2>4, <2>5, RoomNumbers
<1>11. RotationHasRoom'
  <2>1. Single(downstream', "OTHER", Crossing)
        BY <1>1 DEF RotationHasRoom
  <2>2. SentBy("Keepalive", OamInterval)' = SentBy("Keepalive", OamInterval)
        BY <1>6 DEF SentBy
  <2>3. ASSUME NEW i \in DOMAIN downstream, downstream[i].frame.kind = "OTHER"
        PROVE  /\ discovery'.state = "Converged" =>
                    downstream[i].left <= SentBy("AttributePoll", AttributeInterval)'
               /\ discovery'.state = "LocalStable" =>
                    /\ onu.armed
                    /\ downstream[i].left + LongestStep <= onu.next_keepalive + Crossing
                    /\ \A j \in DOMAIN upstream' : upstream'[j].frame.kind = "INFO" =>
                         downstream[i].left + LongestStep <= upstream'[j].left
               /\ discovery'.state = "LocalEvaluating" =>
                    \/ discovery'.sent = 0
                    \/ /\ discovery'.sent = 1
                       /\ downstream[i].left <= SentBy("Keepalive", OamInterval)'
    <3>1. PICK l : l = downstream[i].left /\ l \in Int /\ l >= 1 - LongestStep /\ l <= Crossing
          BY RoomFacts
    <3>2. discovery.state # "LocalStable"
      <4>1. SUFFICES ASSUME discovery.state = "LocalStable" PROVE FALSE
            OBVIOUS
      <4>2. l + LongestStep <= 0
            BY <1>1, <1>9, <2>3, <3>1, <4>1 DEF RotationHasRoom
      <4> QED BY <3>1, <4>2, RoomNumbers
    <3>3. ~(discovery.state = "LocalEvaluating" /\ discovery.sent > 1)
          BY <1>1, <2>3 DEF RotationHasRoom
    <3>4. CASE discovery'.state = "Converged"
      <4>1. discovery.state = "Converged"
            BY <1>7, <3>2, <3>3, <3>4
      <4>2. l <= SentBy("AttributePoll", AttributeInterval)
            BY <1>1, <2>3, <3>1, <4>1 DEF RotationHasRoom
      <4>3. SentBy("AttributePoll", AttributeInterval)' = SentBy("AttributePoll", AttributeInterval)
        <5>1. due'["AttributePoll"] = due["AttributePoll"]
              BY <1>2, <1>5, <3>4, <4>1
        <5> QED BY <5>1 DEF SentBy
      <4> QED BY <3>1, <3>4, <4>2, <4>3
    <3>5. CASE discovery'.state = "LocalStable"
      <4>1. l + LongestStep <= onu.next_keepalive + Crossing
            BY <1>10, <3>1, RoomNumbers
      <4>2. \A j \in DOMAIN upstream' : upstream'[j].frame.kind # "INFO"
            BY <1>10 DEF Free
      <4> QED BY <1>10, <3>1, <3>5, <4>1, <4>2
    <3>6. CASE discovery'.state = "LocalEvaluating"
      <4>1. CASE discovery'.sent = 0
            BY <3>6, <4>1
      <4>2. CASE discovery.state = "LocalEvaluating" /\ discovery'.sent = discovery.sent
            BY <1>1, <2>2, <2>3, <3>6, <4>2 DEF RotationHasRoom
      <4> QED BY <1>7, <3>6, <4>1, <4>2
    <3> QED BY <1>7, <3>4, <3>5, <3>6 DEF DiscoveryState
  <2> QED BY <1>1, <2>1, <2>3 DEF RotationHasRoom
<1>12. /\ Keeps("Gate", GateInterval, "GATE", {})
       /\ Keeps("NormalGate", NormalGateInterval, "NORMAL_GATE", {})
       /\ Keeps("Keepalive", OamInterval, "INFO", {})
       BY <1>6 DEF Keeps
<1>13. DownstreamHasRoom'
       BY <1>1, <1>11, <1>12, DownKept
<1>14. UpstreamHasRoom'
       BY <1>6, UpLands
<1>15. TimersTick'
  <2>1. \A t \in Timer : due'[t] \in Nat \cup {Off}
        BY <1>1, <1>5
  <2>2. discovery'.state = "Converged" <=> due'["AttributePoll"] # Off
    <3>1. discovery.state = "Converged" <=> due["AttributePoll"] # Off
          BY <1>1 DEF TimersTick
    <3>2. CASE discovery'.state = discovery.state
          BY <1>2, <1>5, <3>1, <3>2
    <3>3. CASE discovery'.state # discovery.state
          BY <1>2, <1>5, <3>3 DEF Off
    <3> QED BY <3>2, <3>3
  <2>3. ~link_up => discovery'.state = "LocalEvaluating" /\ discovery'.sent = 0
        BY <1>1, <1>7 DEF TimersTick, DiscoveryState
  <2> QED BY <1>1, <1>6, <1>7, <2>1, <2>2, <2>3 DEF TimersTick
<1> QED BY <1>13, <1>14, <1>15 DEF RoomInv

LEMMA LandRoom == ASSUME LifeInv, RoomInv, LinesInTime', Land PROVE RoomInv'
BY LandedRoom, OamRoom

(* Time passes: what is on the lines and what is due come closer together. *)
LEMMA PassRoom == ASSUME LifeInv, RoomInv, LinesInTime', Pass PROVE RoomInv'
<1>1. /\ IsLine(downstream) /\ IsLine(upstream) /\ InOrder(downstream) /\ InOrder(upstream)
      /\ since_poll \in Nat /\ onu.next_keepalive \in Int
      /\ TimersTick /\ DownstreamHasRoom /\ RotationHasRoom /\ UpstreamHasRoom
      /\ DOMAIN onu = DOMAIN NewOnu
      BY RoomFacts DEF RoomInv, DownstreamHasRoom
<1>2. /\ downstream' = Closer(downstream) /\ upstream' = Closer(upstream)
      /\ since_poll' = since_poll + 1 /\ discovery' = discovery /\ link_up' = link_up
      /\ \A t \in Timer : due[t] # 0 /\ due'[t] = IF due[t] = Off THEN Off ELSE due[t] - 1
      BY DEF Pass, Elapse, NothingDue
<1>3. /\ onu'.armed = onu.armed
      /\ onu'.next_keepalive = IF onu.armed THEN onu.next_keepalive - 1 ELSE onu.next_keepalive
      BY <1>1 DEF Pass, NewOnu
<1>4. /\ DOMAIN downstream' = DOMAIN downstream
      /\ \A i \in DOMAIN downstream : /\ downstream'[i].frame = downstream[i].frame
                                      /\ downstream'[i].left = downstream[i].left - 1
                                      /\ downstream[i].left \in Int
                                      /\ downstream[i].left <= Crossing
      /\ \A k : \A m \in Int : Single(downstream, k, m) => Single(downstream', k, m - 1)
      /\ \A K : Kinds(downstream, K) => Kinds(downstream', K)
      /\ \A K : Free(downstream, K) => Free(downstream', K)
      BY <1>1, <1>2, SingleCloser, RoomFacts
<1>5. /\ DOMAIN upstream' = DOMAIN upstream
      /\ \A i \in DOMAIN upstream : /\ upstream'[i].frame = upstream[i].frame
                                    /\ upstream'[i].left = upstream[i].left - 1
                                    /\ upstream[i].left \in Int
      /\ \A k : \A m \in Int : Single(upstream, k, m) => Single(upstream', k, m - 1)
      /\ \A K : Kinds(upstream, K) => Kinds(upstream', K)
      /\ \A K : Free(upstream, K) => Free(upstream', K)
      BY <1>1, <1>2, SingleCloser, RoomFacts
<1>6. InOrder(downstream') /\ InOrder(upstream')
      BY DEF LinesInTime
<1>7. ASSUME NEW t \in Timer, NEW interval \in Nat
      PROVE  /\ SentBy(t, interval) \in Int /\ SentBy(t, interval)' \in Int
             /\ SentBy(t, interval) - 1 <= SentBy(t, interval)'
  <2>1. due[t] \in Nat \cup {Off} /\ due[t] # 0
        BY <1>1, <1>2 DEF TimersTick
  <2>2. CASE due[t] = Off
    <3>1. due'[t] = Off
          BY <1>2, <2>2
    <3> QED BY <2>2, <3>1, RoomNumbers DEF SentBy
  <2>3. CASE due[t] # Off
    <3>1. due[t] \in Nat \ {0} /\ due'[t] = due[t] - 1 /\ due'[t] # Off
          BY <1>2, <2>1, <2>3 DEF Off
    <3> QED BY <2>3, <3>1, RoomNumbers DEF SentBy
  <2> QED BY <2>2, <2>3
<1>8. /\ "Gate" \in Timer /\ "NormalGate" \in Timer /\ "Keepalive" \in Timer
      /\ "AttributePoll" \in Timer
      BY DEF Timer
<1>9. ASSUME NEW t \in Timer, NEW interval \in Nat, NEW k, Single(downstream, k, SentBy(t, interval))
      PROVE  Single(downstream', k, SentBy(t, interval)')
  <2>1. PICK m, l : m = SentBy(t, interval) /\ l = SentBy(t, interval)'
        OBVIOUS
  <2>2. m \in Int /\ l \in Int /\ m - 1 \in Int /\ m - 1 <= l
        BY <1>7, <2>1
  <2>3. Single(downstream', k, m - 1)
        BY <1>4, <1>9, <2>1, <2>2
  <2>4. PICK r : r = downstream'
        OBVIOUS
  <2>5. Single(r, k, l)
        BY <1>6, <2>2, <2>3, <2>4, SingleLimits
  <2> QED BY <2>1, <2>4, <2>5
<1>10. RotationHasRoom'
  <2>1. Single(downstream', "OTHER", Crossing)
    <3>1. PICK r : r = downstream'
          OBVIOUS
    <3>2. Single(r, "OTHER", Crossing - 1) /\ Crossing - 1 \in Int /\ Crossing - 1 <= Crossing
          BY <1>1, <1>4, <3>1, RoomNumbers DEF RotationHasRoom
    <3>3. Crossing \in Int
          BY RoomNumbers
    <3>4. Single(r, "OTHER", Crossing)
          BY <1>6, <3>1, <3>2, <3>3, SingleLimits
    <3> QED BY <3>1, <3>4
  <2>2. ASSUME NEW i \in DOMAIN downstream, downstream[i].frame.kind = "OTHER"
        PROVE  /\ discovery.state = "Converged" =>
                    downstream[i].left - 1 <= SentBy("AttributePoll", AttributeInterval)'
               /\ discovery.state = "LocalStable" =>
                    /\ onu'.armed
                    /\ downstream[i].left - 1 + LongestStep <= onu'.next_keepalive + Crossing
                    /\ \A j \in DOMAIN upstream : upstream[j].frame.kind = "INFO" =>
                         downstream[i].left - 1 + LongestStep <= upstream[j].left - 1
               /\ discovery.state = "LocalEvaluating" =>
                    \/ discovery.sent = 0
                    \/ /\ discovery.sent = 1
                       /\ downstream[i].left - 1 <= SentBy("Keepalive", OamInterval)'
    <3>1. PICK l : l = downstream[i].left /\ l \in Int
          BY <1>4
    <3>2. ASSUME discovery.state = "Converged"
          PROVE  l - 1 <= SentBy("AttributePoll", AttributeInterval)'
      <4>1. l <= SentBy("AttributePoll", AttributeInterval)
            BY <1>1, <2>2, <3>1, <3>2 DEF RotationHasRoom
      <4> QED BY <1>7, <1>8, <3>1, <4>1, RoomNumbers
    <3>3. ASSUME discovery.state = "LocalStable"
          PROVE  /\ onu'.armed /\ l - 1 + LongestStep <= onu'.next_keepalive + Crossing
                 /\ \A j \in DOMAIN upstream : upstream[j].frame.kind = "INFO" =>
                      l - 1 + LongestStep <= upstream[j].left - 1
      <4>1. /\ onu.armed /\ l + LongestStep <= onu.next_keepalive + Crossing
            /\ \A j \in DOMAIN upstream : upstream[j].frame.kind = "INFO" =>
                  l + LongestStep <= upstream[j].left
            BY <1>1, <2>2, <3>1, <3>3 DEF RotationHasRoom
      <4>2. onu'.armed /\ l - 1 + LongestStep <= onu'.next_keepalive + Crossing
            BY <1>1, <1>3, <3>1, <4>1, RoomNumbers
      <4>3. ASSUME NEW j \in DOMAIN upstream, upstream[j].frame.kind = "INFO"
            PROVE  l - 1 + LongestStep <= upstream[j].left - 1
        <5>1. l + LongestStep <= upstream[j].left /\ upstream[j].left \in Int
              BY <1>5, <4>1, <4>3
        <5> QED BY <3>1, <5>1, RoomNumbers
      <4> QED BY <4>2, <4>3
    <3>4. ASSUME discovery.state = "LocalEvaluating"
          PROVE  \/ discovery.sent = 0
                 \/ discovery.sent = 1 /\ l - 1 <= SentBy("Keepalive", OamInterval)'
      <4>1. \/ discovery.sent = 0
            \/ discovery.sent = 1 /\ l <= SentBy("Keepalive", OamInterval)
            BY <1>1, <2>2, <3>1, <3>4 DEF RotationHasRoom
      <4> QED BY <1>7, <1>8, <3>1, <4>1, RoomNumbers
    <3> QED BY <3>1, <3>2, <3>3, <3>4
  <2>3. ASSUME NEW i \in DOMAIN downstream', downstream'[i].frame.kind = "OTHER"
        PROVE  /\ discovery'.state = "Converged" =>
                    downstream'[i].left <= SentBy("AttributePoll", AttributeInterval)'
               /\ discovery'.state = "LocalStable" =>
                    /\ onu'.armed
                    /\ downstream'[i].left + LongestStep <= onu'.next_keepalive + Crossing
                    /\ \A j \in DOMAIN upstream' : upstream'[j].frame.kind = "INFO" =>
                         downstream'[i].left + LongestStep <= upstream'[j].left
               /\ discovery'.state = "LocalEvaluating" =>
                    \/ discovery'.sent = 0
                    \/ /\ discovery'.sent = 1
                       /\ downstream'[i].left <= SentBy("Keepalive", OamInterval)'
    <3>1. /\ i \in DOMAIN downstream /\ downstream[i].frame.kind = "OTHER"
          /\ downstream'[i].left = downstream[i].left - 1
          BY <1>4, <2>3
    <3>2. ASSUME NEW j \in DOMAIN upstream', upstream'[j].frame.kind = "INFO"
          PROVE  /\ j \in DOMAIN upstream /\ upstream[j].frame.kind = "INFO"
                 /\ upstream'[j].left = upstream[j].left - 1
          BY <1>5, <3>2
    <3> QED BY <1>2, <2>2, <3>1, <3>2
  <2> QED BY <2>1, <2>3 DEF RotationHasRoom
<1>11. DownstreamHasRoom'
  <2>1. Single(downstream', "GATE", SentBy("Gate", GateInterval)')
        BY <1>1, <1>8, <1>9, RoomNumbers DEF DownstreamHasRoom
  <2>2. Single(downstream', "NORMAL_GATE", SentBy("NormalGate", NormalGateInterval)')
        BY <1>1, <1>8, <1>9, RoomNumbers DEF DownstreamHasRoom
  <2>3. Single(downstream', "INFO", SentBy("Keepalive", OamInterval)')
        BY <1>1, <1>8, <1>9, RoomNumbers DEF DownstreamHasRoom
  <2> QED BY <1>1, <1>4, <1>10, <2>1, <2>2, <2>3 DEF DownstreamHasRoom
<1>12. UpstreamHasRoom'
  <2>0. PICK r : r = upstream'
        OBVIOUS
  <2>1. ASSUME NEW k, NEW m \in Int, NEW l \in Int, m - 1 <= l, Single(upstream, k, m)
        PROVE  Single(upstream', k, l)
    <3>1. Single(r, k, m - 1) /\ m - 1 \in Int
          BY <1>5, <2>0, <2>1
    <3>2. Single(r, k, l)
          BY <1>6, <2>0, <2>1, <3>1, SingleLimits
    <3> QED BY <2>0, <3>2
  <2>2. Single(upstream', "REQUEST", SentBy("Gate", GateInterval)' + Crossing + LongestPause)
    <3>1. PICK m, l : /\ m = SentBy("Gate", GateInterval) + Crossing + LongestPause
                      /\ l = SentBy("Gate", GateInterval)' + Crossing + LongestPause
          OBVIOUS
    <3>2. m \in Int /\ l \in Int /\ m - 1 <= l
          BY <1>7, <1>8, <3>1, RoomNumbers
    <3>3. Single(upstream, "REQUEST", m)
          BY <1>1, <3>1 DEF UpstreamHasRoom
    <3> QED BY <2>1, <3>1, <3>2, <3>3
  <2>3. ASSUME NEW i \in DOMAIN downstream', downstream'[i].frame.kind = "GATE"
        PROVE  Single(upstream', "REQUEST",
                      downstream'[i].left - GateInterval + Crossing + LongestPause)
    <3>1. /\ i \in DOMAIN downstream /\ downstream[i].frame.kind = "GATE"
          /\ downstream[i].left \in Int /\ downstream'[i].left = downstream[i].left - 1
          BY <1>4, <2>3
    <3>2. PICK m, l : /\ m = downstream[i].left - GateInterval + Crossing + LongestPause
                      /\ l = downstream'[i].left - GateInterval + Crossing + LongestPause
          OBVIOUS
    <3>3. m \in Int /\ l \in Int /\ m - 1 <= l
          BY <3>1, <3>2, RoomNumbers
    <3>4. Single(upstream, "REQUEST", m)
          BY <1>1, <3>1, <3>2 DEF UpstreamHasRoom
    <3> QED BY <2>1, <3>2, <3>3, <3>4
  <2>4. Single(upstream', "INFO", onu'.next_keepalive - KeepaliveInterval
                                    + Crossing + RequestDelay + LongestStep - 1)
    <3>1. CASE onu.armed
      <4>1. PICK m, l : /\ m = onu.next_keepalive - KeepaliveInterval
                                 + Crossing + RequestDelay + LongestStep - 1
                        /\ l = onu'.next_keepalive - KeepaliveInterval
                                 + Crossing + RequestDelay + LongestStep - 1
            OBVIOUS
      <4>2. m \in Int /\ l \in Int /\ m - 1 <= l
            BY <1>1, <1>3, <3>1, <4>1, RoomNumbers
      <4>3. Single(upstream, "INFO", m)
            BY <1>1, <4>1 DEF UpstreamHasRoom
      <4> QED BY <2>1, <4>1, <4>2, <4>3
    <3>2. CASE ~onu.armed
      <4>1. Free(upstream', {"INFO"})
            BY <1>1, <1>5, <3>2 DEF UpstreamHasRoom
      <4> QED BY <4>1, FreeIsSingle
    <3> QED BY <3>1, <3>2
  <2>5. BehindRequests(upstream')
    <3>1. ASSUME NEW j \in DOMAIN upstream', upstream'[j].left > Crossing
          PROVE  \E k \in 1 .. j : /\ upstream'[k].frame.kind = "REQUEST"
                                   /\ upstream'[j].left <= upstream'[k].left
      <4>1. /\ j \in DOMAIN upstream /\ upstream[j].left \in Int
            /\ upstream'[j].left = upstream[j].left - 1
            BY <1>5, <3>1
      <4>2. upstream[j].left > Crossing
            BY <3>1, <4>1, RoomNumbers
      <4>3. PICK k \in 1 .. j : upstream[k].frame.kind = "REQUEST" /\ upstream[j].left <= upstream[k].left
            BY <1>1, <4>1, <4>2 DEF UpstreamHasRoom, BehindRequests
      <4>4. k \in DOMAIN upstream
            BY <1>1, <4>1, <4>3 DEF IsLine
      <4>5. /\ upstream'[k].frame.kind = "REQUEST" /\ upstream[k].left \in Int
            /\ upstream'[k].left = upstream[k].left - 1
            BY <1>5, <4>3, <4>4
      <4> QED BY <4>1, <4>3, <4>5
    <3> QED BY <3>1 DEF BehindRequests
  <2>6. Kinds(upstream', {"REQUEST", "ACK", "INFO"}) /\ (onu'.armed \/ Free(upstream', {"INFO"}))
        BY <1>1, <1>3, <1>5 DEF UpstreamHasRoom
  <2> QED BY <2>2, <2>3, <2>4, <2>5, <2>6 DEF UpstreamHasRoom
<1>13. TimersTick'
  <2>1. \A t \in Timer : due'[t] \in Nat \cup {Off} /\ (due'[t] = Off <=> due[t] = Off)
    <3>1. ASSUME NEW t \in Timer PROVE due'[t] \in Nat \cup {Off} /\ (due'[t] = Off <=> due[t] = Off)
      <4>1. due[t] \in Nat \cup {Off} /\ due[t] # 0
            BY <1>1, <1>2 DEF TimersTick
      <4> QED BY <1>2, <4>1 DEF Off
    <3> QED BY <3>1
  <2>2. onu'.armed => onu'.next_keepalive >= 1 - since_poll'
        BY <1>1, <1>2, <1>3 DEF TimersTick
  <2>3. ~link_up => Free(downstream', {"INFO", "OTHER"})
        BY <1>1, <1>4 DEF TimersTick
  <2> QED BY <1>1, <1>2, <1>8, <2>1, <2>2, <2>3 DEF TimersTick
<1> QED BY <1>11, <1>12, <1>13 DEF RoomInv

(* The responder hears a frame: the peer and its timers stay.              *)
LEMMA HearFacts ==
    ASSUME LifeInv, RoomInv, Hear
    PROVE  /\ UNCHANGED <<due, discovery, link_up, since_poll>>
           /\ downstream # <<>> /\ downstream' = Tail(downstream)
           /\ IsLine(downstream) /\ InOrder(downstream) /\ Len(downstream) < LineDepth
           /\ IsLine(upstream) /\ InOrder(upstream) /\ Len(upstream) < LineDepth
           /\ Sends({}) /\ TimersTick /\ RotationHasRoom
           /\ OnuDeliver(Head(downstream).frame, Head(downstream).left)
           /\ \E i \in DOMAIN downstream : Head(downstream) = downstream[i]
           /\ Head(downstream).left \in Int /\ Head(downstream).left <= 0
           /\ Head(downstream).left >= 1 - since_poll /\ Head(downstream).left >= 1 - LongestStep
           /\ FromOld(downstream, downstream', "GATE")
           /\ DOMAIN onu = DOMAIN NewOnu /\ onu.next_keepalive \in Int
<1>1. /\ UNCHANGED <<due, discovery, link_up, since_poll>>
      /\ downstream # <<>> /\ downstream' = Tail(downstream)
      /\ OnuDeliver(Head(downstream).frame, Head(downstream).left)
      /\ Head(downstream).left <= 0
      BY DEF Hear, Landed, vars
<1>2. /\ IsLine(downstream) /\ InOrder(downstream) /\ Len(downstream) < LineDepth
      /\ IsLine(upstream) /\ InOrder(upstream) /\ Len(upstream) < LineDepth
      /\ DOMAIN onu = DOMAIN NewOnu /\ onu.next_keepalive \in Int /\ LinesInTime
      BY RoomFacts
<1>3. Sends({})
      BY <1>1 DEF Sends, LineMoves
<1>4. FromOld(downstream, downstream', "GATE")
      BY <1>2, <1>3, LineMovesSays DEF Sends
<1>5. PICK i \in DOMAIN downstream : Head(downstream) = downstream[i]
      BY <1>1, <1>2, SingleTaken
<1>6. Head(downstream).left \in Int /\ Head(downstream).left >= 1 - since_poll
      BY <1>2, <1>5, RoomNumbers DEF LinesInTime
<1>7. Head(downstream).left >= 1 - LongestStep
      BY <1>5, RoomFacts
<1> QED BY <1>1, <1>2, <1>3, <1>4, <1>5, <1>6, <1>7 DEF RoomInv, DownstreamHasRoom

LEMMA HearRest ==
    ASSUME LifeInv, RoomInv, LinesInTime', Hear, UpstreamHasRoom',
           onu.armed => onu'.armed /\ onu'.next_keepalive = onu.next_keepalive,
           onu'.armed => onu'.next_keepalive >= 1 - since_poll,
           \A j \in DOMAIN upstream' : upstream'[j].frame.kind = "INFO" =>
              \E k \in DOMAIN upstream : upstream'[j] = upstream[k]
    PROVE  RoomInv'
<1>1. /\ UNCHANGED <<due, discovery, link_up, since_poll>>
      /\ IsLine(downstream) /\ InOrder(downstream) /\ Len(downstream) < LineDepth
      /\ Sends({}) /\ TimersTick /\ onu.next_keepalive \in Int
      BY HearFacts
<1>2. onu.armed => /\ onu'.armed /\ onu'.next_keepalive \in Int
                   /\ onu'.next_keepalive >= onu.next_keepalive
      BY <1>1
<1>3. RotationHasRoom'
  <2>1. /\ "OTHER" \notin {} /\ LineMoves(downstream, downstream', {})
        /\ due'["AttributePoll"] = due["AttributePoll"] /\ due'["Keepalive"] = due["Keepalive"]
        BY <1>1 DEF Sends
  <2> QED BY <1>1, <1>2, <2>1, RotationKept
<1>4. /\ Keeps("Gate", GateInterval, "GATE", {})
      /\ Keeps("NormalGate", NormalGateInterval, "NORMAL_GATE", {})
      /\ Keeps("Keepalive", OamInterval, "INFO", {})
      BY <1>1 DEF Keeps
<1>5. DownstreamHasRoom'
      BY <1>1, <1>3, <1>4, DownKept
<1>6. TimersTick'
  <2>1. {"INFO", "OTHER"} \cap {} = {}
        OBVIOUS
  <2>2. ~link_up => Free(downstream', {"INFO", "OTHER"})
        BY <1>1, <2>1, LineMovesFree DEF TimersTick, Sends
  <2> QED BY <1>1, <2>2 DEF TimersTick
<1> QED BY <1>5, <1>6 DEF RoomInv

(* A GATE is answered once, and what answered the last one has landed.     *)
LEMMA GateHeardRoom ==
    ASSUME LifeInv, RoomInv, LinesInTime', Hear, Head(downstream).frame.kind = "GATE"
    PROVE  RoomInv'
<1>1. /\ downstream # <<>> /\ downstream' = Tail(downstream)
      /\ IsLine(downstream) /\ InOrder(downstream)
      /\ IsLine(upstream) /\ InOrder(upstream) /\ Len(upstream) < LineDepth
      /\ OnuDeliver(Head(downstream).frame, Head(downstream).left)
      /\ FromOld(downstream, downstream', "GATE") /\ due' = due
      /\ TimersTick /\ UpstreamHasRoom
      BY HearFacts DEF RoomInv
<1>2. PICK a, h : a = Head(downstream).left /\ h = Head(downstream).frame
      OBVIOUS
<1>3. a \in Int /\ a <= 0 /\ a >= 1 - LongestStep
      BY <1>2, HearFacts
<1>4. /\ onu' = onu /\ h.kind = "GATE"
      /\ \/ upstream' = upstream
         \/ Answer("REQUEST", NoLlid, a + RequestDelay)
      BY <1>1, <1>2 DEF OnuDeliver
<1>5. CASE upstream' = upstream
  <2>1. UpstreamHasRoom'
        BY <1>1, <1>4, <1>5, UpKept
  <2> QED BY <1>1, <1>4, <1>5, <2>1, HearRest DEF TimersTick
<1>6. CASE Answer("REQUEST", NoLlid, a + RequestDelay)
  <2>1. PICK f, s : /\ f.kind = "REQUEST" /\ upstream' = Sent(upstream, f, s)
                    /\ s = Max({a + RequestDelay, 0})
        BY <1>6, AnswerIsSent
  <2>2. s \in {a + RequestDelay, 0} /\ s >= a + RequestDelay /\ s >= 0
    <3>1. PICK b : b = a + RequestDelay
          OBVIOUS
    <3>2. b \in Int /\ s = Max({b, 0}) /\ 0 \in Int
          BY <1>3, <2>1, <3>1, RoomNumbers
    <3>3. s \in {b, 0} /\ s >= b /\ s >= 0
          BY <3>2, MaxOfTwo
    <3> QED BY <3>1, <3>3
  <2>3. s \in Int /\ s <= a + LongestPause
        BY <1>3, <2>2, RoomNumbers
  <2>4. PICK i \in DOMAIN downstream : Head(downstream) = downstream[i]
        BY HearFacts
  <2>5. /\ downstream[i].frame.kind = "GATE" /\ downstream[i].left = a
        /\ Single(downstream, "GATE", SentBy("Gate", GateInterval))
        BY <1>2, <1>4, <2>4 DEF RoomInv, DownstreamHasRoom
  <2>6. a <= SentBy("Gate", GateInterval) /\ SentBy("Gate", GateInterval) \in Int
    <3>1. "Gate" \in Timer
          BY DEF Timer
    <3> QED BY <2>5, <3>1, RoomFacts, RoomNumbers DEF Single
  <2>7. Free(downstream', {"GATE"})
        BY <1>1, <1>2, <1>4, <2>5, SingleTaken
  <2>8. Free(upstream, {"REQUEST"})
    <3>1. PICK m : m = a - GateInterval + Crossing + LongestPause
          OBVIOUS
    <3>2. m \in Int /\ m < 0
          BY <1>3, <3>1, RoomNumbers
    <3>3. Single(upstream, "REQUEST", m)
          BY <1>1, <2>5, <3>1 DEF UpstreamHasRoom
    <3>4. \A j \in DOMAIN upstream : upstream[j].left > m
      <4>1. \A j \in DOMAIN upstream : upstream[j].left \in Int /\ upstream[j].left >= 0
            BY RoomFacts
      <4> QED BY <3>2, <4>1
    <3> QED BY <1>1, <3>2, <3>3, <3>4, SingleLimits
  <2>9. PICK n \in Nat, left \in Int :
            /\ DOMAIN upstream = 1 .. n /\ DOMAIN upstream' = 1 .. n + 1
            /\ \A j \in 1 .. n : upstream'[j] = upstream[j]
            /\ upstream'[n + 1].frame = f /\ upstream'[n + 1].left = left
            /\ left = s + Crossing \/ (n \in 1 .. n /\ left = upstream[n].left)
            /\ left >= s + Crossing
    <3>1. PICK q, r : q = upstream /\ r = upstream'
          OBVIOUS
    <3>2. PICK n \in Nat, left \in Int :
              /\ DOMAIN q = 1 .. n /\ DOMAIN r = 1 .. n + 1
              /\ \A j \in 1 .. n : r[j] = q[j]
              /\ r[n + 1].frame = f /\ r[n + 1].left = left
              /\ left = s + Crossing \/ (n \in 1 .. n /\ left = q[n].left)
              /\ left >= s + Crossing
      <4>1. IsLine(q) /\ InOrder(q) /\ Len(q) < LineDepth /\ s \in Int /\ r = Sent(q, f, s)
            BY <1>1, <2>1, <2>3, <3>1
      <4> QED BY <4>1, SentInOrder
    <3> QED BY <3>1, <3>2
  <2>10. \A j \in 1 .. n : upstream[j].left \in Int /\ upstream[j].left <= Crossing
    <3>1. \A j \in 1 .. n : upstream[j].left \in Int
          BY <2>9, RoomFacts
    <3>2. ASSUME NEW j \in 1 .. n, upstream[j].left > Crossing PROVE FALSE
      <4>1. PICK k \in 1 .. j : upstream[k].frame.kind = "REQUEST"
            BY <1>1, <2>9, <3>2 DEF UpstreamHasRoom, BehindRequests
      <4>2. k \in DOMAIN upstream
            BY <2>9, <3>2, <4>1
      <4> QED BY <2>8, <4>1, <4>2 DEF Free
    <3>3. ASSUME NEW j \in 1 .. n PROVE upstream[j].left <= Crossing
      <4>1. ~(upstream[j].left > Crossing) /\ upstream[j].left \in Int
            BY <3>1, <3>2
      <4> QED BY <4>1, RoomNumbers
    <3> QED BY <3>1, <3>3
  <2>11. left = s + Crossing
    <3>1. CASE n \in 1 .. n /\ left = upstream[n].left
      <4>1. left <= Crossing
            BY <2>10, <3>1
      <4> QED BY <2>2, <2>3, <2>9, <4>1, RoomNumbers
    <3> QED BY <2>9, <3>1
  <2>12. \A j \in DOMAIN upstream' : upstream'[j].frame.kind = "REQUEST" => j = n + 1
    <3>1. ASSUME NEW j \in 1 .. n + 1, upstream'[j].frame.kind = "REQUEST" PROVE j = n + 1
      <4>1. CASE j \in 1 .. n
            BY <2>8, <2>9, <3>1, <4>1 DEF Free
      <4> QED BY <4>1
    <3> QED BY <2>9, <3>1
  <2>13. Single(upstream', "REQUEST", SentBy("Gate", GateInterval)' + Crossing + LongestPause)
    <3>1. SentBy("Gate", GateInterval)' = SentBy("Gate", GateInterval)
          BY <1>1 DEF SentBy
    <3>2. left <= SentBy("Gate", GateInterval) + Crossing + LongestPause
          BY <1>3, <2>3, <2>6, <2>11, RoomNumbers
    <3> QED BY <2>9, <2>12, <3>1, <3>2 DEF Single
  <2>14. BehindRequests(upstream')
    <3>1. ASSUME NEW j \in 1 .. n + 1, upstream'[j].left > Crossing
          PROVE  \E k \in 1 .. j : /\ upstream'[k].frame.kind = "REQUEST"
                                   /\ upstream'[j].left <= upstream'[k].left
      <4>1. j = n + 1
            BY <2>9, <2>10, <3>1, RoomNumbers
      <4>2. j \in 1 .. j /\ upstream'[j].left <= upstream'[j].left
            BY <2>9, <4>1
      <4>3. upstream'[j].frame.kind = "REQUEST"
            BY <2>1, <2>9, <4>1
      <4> QED BY <4>2, <4>3
    <3> QED BY <2>9, <3>1 DEF BehindRequests
  <2>15. /\ \A m : Single(upstream, "INFO", m) => Single(upstream', "INFO", m)
         /\ Kinds(upstream', {"REQUEST", "ACK", "INFO"})
    <3>1. f.kind # "INFO" /\ f.kind \in {"REQUEST", "ACK", "INFO"}
          BY <2>1
    <3>2. PICK q, r : q = upstream /\ r = upstream'
          OBVIOUS
    <3>3. /\ \A k, m : f.kind # k /\ Single(q, k, m) => Single(r, k, m)
          /\ \A K : Kinds(q, K) /\ f.kind \in K => Kinds(r, K)
          BY <1>1, <2>1, <2>3, <3>2, SingleSent
    <3> QED BY <1>1, <3>1, <3>2, <3>3 DEF UpstreamHasRoom
  <2>16. Free(upstream, {"INFO"}) => Free(upstream', {"INFO"})
    <3>1. f.kind \notin {"INFO"}
          BY <2>1
    <3> QED BY <1>1, <2>1, <3>1, SentSays
  <2>17. UpstreamHasRoom'
    <3>1. \A i_1 \in DOMAIN downstream' : downstream'[i_1].frame.kind # "GATE"
          BY <2>7 DEF Free
    <3>2. UpstreamHasRoom
          BY <1>1
    <3> QED BY <1>4, <2>13, <2>14, <2>15, <2>16, <3>1, <3>2 DEF UpstreamHasRoom
  <2>18. ASSUME NEW j \in DOMAIN upstream', upstream'[j].frame.kind = "INFO"
         PROVE  \E k \in DOMAIN upstream : upstream'[j] = upstream[k]
    <3>1. j # n + 1
          BY <2>1, <2>9, <2>18
    <3>2. j \in 1 .. n
          BY <2>9, <2>18, <3>1
    <3> QED BY <2>9, <3>2
  <2>19. /\ onu.armed => onu'.armed /\ onu'.next_keepalive = onu.next_keepalive
         /\ onu'.armed => onu'.next_keepalive >= 1 - since_poll
         BY <1>1, <1>4 DEF TimersTick
  <2> QED BY <2>17, <2>18, <2>19, HearRest
<1> QED BY <1>4, <1>5, <1>6

(* Any other frame leaves the keepalive alone once it is armed, and arms   *)
(* it for when the frame landed.                                           *)
LEMMA OtherHeardRoom ==
    ASSUME LifeInv, RoomInv, LinesInTime', Hear, Head(downstream).frame.kind # "GATE"
    PROVE  RoomInv'
<1>1. /\ IsLine(upstream) /\ InOrder(upstream) /\ Len(upstream) < LineDepth
      /\ OnuDeliver(Head(downstream).frame, Head(downstream).left)
      /\ FromOld(downstream, downstream', "GATE") /\ due' = due
      /\ DOMAIN onu = DOMAIN NewOnu /\ TimersTick
      BY HearFacts
<1>2. PICK a, h : a = Head(downstream).left /\ h = Head(downstream).frame
      OBVIOUS
<1>3. a \in Int /\ a <= 0 /\ a >= 1 - since_poll
      BY <1>2, HearFacts
<1>4. ASSUME NEW o, DOMAIN o = DOMAIN NewOnu, o.armed = onu.armed,
             o.next_keepalive = onu.next_keepalive
      PROVE  LET k == KeepaliveFrom(o, a) IN
             /\ onu.armed => k.armed /\ k.next_keepalive = onu.next_keepalive
             /\ \/ k.next_keepalive = onu.next_keepalive /\ k.armed = onu.armed
                \/ k.next_keepalive = a
      BY <1>4 DEF KeepaliveFrom, NewOnu
<1>5. /\ onu.armed => onu'.armed /\ onu'.next_keepalive = onu.next_keepalive
      /\ \/ onu'.next_keepalive = onu.next_keepalive /\ onu'.armed = onu.armed
         \/ onu'.next_keepalive = a
      /\ upstream' = upstream \/ \E f : f.kind = "ACK" /\ upstream' = Sent(upstream, f, 0)
  <2>1. CASE h.kind = "REGISTER"
    <3>1. onu' = OnGrant(onu, h, a) /\ Answer("ACK", h.llid, a)
          BY <1>1, <1>2, <2>1 DEF OnuDeliver
    <3>2. PICK o : o = [onu EXCEPT !.llid = h.llid, !.age = 0 - a]
          OBVIOUS
    <3>3. /\ DOMAIN o = DOMAIN NewOnu /\ o.armed = onu.armed
          /\ o.next_keepalive = onu.next_keepalive
          BY <1>1, <3>2 DEF NewOnu
    <3>4. onu' = KeepaliveFrom(o, a)
          BY <3>1, <3>2 DEF OnGrant
    <3>5. Max({a, 0}) = 0
      <4>1. 0 \in Int
            OBVIOUS
      <4>2. Max({a, 0}) \in {a, 0} /\ Max({a, 0}) >= a /\ Max({a, 0}) >= 0
            BY <1>3, <4>1, MaxOfTwo
      <4> QED BY <1>3, <4>2
    <3>6. \E f : f.kind = "ACK" /\ upstream' = Sent(upstream, f, 0)
          BY <3>1, <3>5, AnswerIsSent
    <3> QED BY <1>4, <3>3, <3>4, <3>6
  <2>2. CASE h.kind = "DEREGISTER"
    <3>1. onu' = OnTeardown(onu, a) /\ upstream' = upstream
          BY <1>1, <1>2, <2>2 DEF OnuDeliver
    <3> QED BY <1>1, <3>1 DEF OnTeardown, NewOnu
  <2>3. CASE h.kind = "INFO"
    <3>1. PICK d : onu' = KeepaliveFrom([onu EXCEPT !.discovery = d], a) /\ upstream' = upstream
          BY <1>1, <1>2, <2>3 DEF OnuDeliver
    <3>2. PICK o : o = [onu EXCEPT !.discovery = d]
          OBVIOUS
    <3>3. /\ DOMAIN o = DOMAIN NewOnu /\ o.armed = onu.armed
          /\ o.next_keepalive = onu.next_keepalive
          BY <1>1, <3>2 DEF NewOnu
    <3> QED BY <1>4, <3>1, <3>2, <3>3
  <2>4. CASE h.kind \in {"NORMAL_GATE", "OTHER"}
        BY <1>1, <1>2, <2>4 DEF OnuDeliver
  <2> QED BY <1>1, <1>2, <2>1, <2>2, <2>3, <2>4 DEF OnuDeliver
<1>6. UpstreamHasRoom'
      BY <1>1, <1>5, UpKept
<1>7. onu'.armed => onu'.next_keepalive >= 1 - since_poll
      BY <1>1, <1>3, <1>5 DEF TimersTick
<1>8. ASSUME NEW j \in DOMAIN upstream', upstream'[j].frame.kind = "INFO"
      PROVE  \E k \in DOMAIN upstream : upstream'[j] = upstream[k]
  <2>1. CASE upstream' = upstream
        BY <1>8, <2>1
  <2>2. ASSUME NEW f, f.kind = "ACK", upstream' = Sent(upstream, f, 0)
        PROVE  \E k \in DOMAIN upstream : upstream'[j] = upstream[k]
    <3>1. PICK q, r : q = upstream /\ r = upstream'
          OBVIOUS
    <3>2. IsLine(q) /\ InOrder(q) /\ Len(q) < LineDepth /\ 0 \in Int /\ r = Sent(q, f, 0)
          BY <1>1, <2>2, <3>1
    <3>3. PICK n \in Nat : /\ DOMAIN q = 1 .. n /\ DOMAIN r = 1 .. n + 1
                           /\ \A i \in 1 .. n : r[i] = q[i]
                           /\ r[n + 1].frame = f
          BY <3>2, SentInOrder
    <3>4. j \in 1 .. n
          BY <1>8, <2>2, <3>1, <3>3
    <3> QED BY <3>1, <3>3, <3>4
  <2> QED BY <1>5, <2>1, <2>2
<1> QED BY <1>5, <1>6, <1>7, <1>8, HearRest

LEMMA HearRoom == ASSUME LifeInv, RoomInv, LinesInTime', Hear PROVE RoomInv'
BY GateHeardRoom, OtherHeardRoom

(* The end of a turn: all that landed has been heard, and the OAMPDU of    *)
(* the last keepalive has landed.                                          *)
LEMMA PollFacts ==
    ASSUME LifeInv, RoomInv, Poll
    PROVE  /\ UNCHANGED <<due, discovery, link_up, downstream>> /\ since_poll' = 0
           /\ OnuAdvance /\ Sends({}) /\ TimersTick /\ UpstreamHasRoom
           /\ IsLine(upstream) /\ InOrder(upstream) /\ Len(upstream) < LineDepth
           /\ onu.next_keepalive \in Int /\ since_poll \in Nat /\ since_poll <= LongestStep
           /\ DOMAIN onu = DOMAIN NewOnu
           /\ FromOld(downstream, downstream', "GATE")
<1>1. UNCHANGED <<due, discovery, link_up, downstream>> /\ since_poll' = 0 /\ OnuAdvance
      BY DEF Poll, vars
<1>2. Sends({})
      BY <1>1 DEF Sends, LineMoves
<1> QED BY <1>1, <1>2, RoomFacts, OldFrames DEF RoomInv

LEMMA PollRest ==
    ASSUME LifeInv, RoomInv, LinesInTime', Poll, UpstreamHasRoom',
           onu.armed => /\ onu'.armed /\ onu'.next_keepalive \in Int
                        /\ onu'.next_keepalive >= onu.next_keepalive,
           onu'.armed => onu'.next_keepalive >= 1,
           \A j \in DOMAIN upstream' : upstream'[j].frame.kind = "INFO" =>
              \/ \E k \in DOMAIN upstream : upstream'[j] = upstream[k]
              \/ /\ upstream'[j].left \in Int
                 /\ upstream'[j].left >= onu.next_keepalive + Crossing
    PROVE  RoomInv'
<1>1. /\ UNCHANGED <<due, discovery, link_up, downstream>> /\ since_poll' = 0
      /\ Sends({}) /\ TimersTick
      BY PollFacts
<1>2. RotationHasRoom'
  <2>1. /\ "OTHER" \notin {} /\ LineMoves(downstream, downstream', {})
        /\ due'["AttributePoll"] = due["AttributePoll"] /\ due'["Keepalive"] = due["Keepalive"]
        BY <1>1 DEF Sends
  <2> QED BY <1>1, <2>1, RotationKept
<1>3. /\ Keeps("Gate", GateInterval, "GATE", {})
      /\ Keeps("NormalGate", NormalGateInterval, "NORMAL_GATE", {})
      /\ Keeps("Keepalive", OamInterval, "INFO", {})
      BY <1>1 DEF Keeps
<1>4. DownstreamHasRoom'
      BY <1>1, <1>2, <1>3, DownKept
<1>5. TimersTick'
      BY <1>1 DEF TimersTick
<1> QED BY <1>4, <1>5 DEF RoomInv

LEMMA TurnRoom == ASSUME LifeInv, RoomInv, LinesInTime', Poll PROVE RoomInv'
<1>1. /\ due' = due /\ OnuAdvance /\ TimersTick /\ UpstreamHasRoom
      /\ IsLine(upstream) /\ InOrder(upstream) /\ Len(upstream) < LineDepth
      /\ onu.next_keepalive \in Int /\ since_poll \in Nat /\ since_poll <= LongestStep
      /\ DOMAIN onu = DOMAIN NewOnu
      /\ FromOld(downstream, downstream', "GATE") /\ downstream' = downstream
      BY PollFacts
<1>2. CASE ~onu.armed \/ onu.next_keepalive > 0
  <2>1. onu' = onu /\ upstream' = upstream
        BY <1>1, <1>2 DEF OnuAdvance
  <2>2. UpstreamHasRoom'
        BY <1>1, <2>1, UpKept
  <2>3. /\ onu.armed => /\ onu'.armed /\ onu'.next_keepalive \in Int
                        /\ onu'.next_keepalive >= onu.next_keepalive
        /\ onu'.armed => onu'.next_keepalive >= 1
        BY <1>1, <1>2, <2>1
  <2>4. \A j \in DOMAIN upstream' : \E k \in DOMAIN upstream : upstream'[j] = upstream[k]
        BY <2>1
  <2> QED BY <2>2, <2>3, <2>4, PollRest
<1>3. CASE onu.armed /\ onu.next_keepalive <= 0
  <2>1. /\ onu' = [onu EXCEPT !.discovery = on_sent(@),
                              !.next_keepalive = @ + KeepaliveInterval]
        /\ Answer("INFO", NoLlid, onu.next_keepalive)
        BY <1>1, <1>3 DEF OnuAdvance
  <2>2. PICK t : t = onu.next_keepalive /\ t \in Int /\ t <= 0 /\ t >= 1 - LongestStep
    <3>1. PICK u : u = onu.next_keepalive
          OBVIOUS
    <3>2. u \in Int /\ u <= 0 /\ u >= 1 - since_poll
          BY <1>1, <1>3, <3>1 DEF TimersTick
    <3>3. u >= 1 - LongestStep
          BY <1>1, <3>2, RoomNumbers
    <3> QED BY <3>1, <3>2, <3>3
  <2>3. onu'.armed = onu.armed /\ onu'.next_keepalive = t + KeepaliveInterval
        BY <1>1, <2>1, <2>2 DEF NewOnu
  <2>4. Max({t, 0}) = 0
    <3>1. 0 \in Int
          OBVIOUS
    <3>2. Max({t, 0}) \in {t, 0} /\ Max({t, 0}) >= t /\ Max({t, 0}) >= 0
          BY <2>2, <3>1, MaxOfTwo
    <3> QED BY <2>2, <3>2
  <2>5. PICK f : f.kind = "INFO" /\ upstream' = Sent(upstream, f, 0)
        BY <2>1, <2>2, <2>4, AnswerIsSent
  <2>6. PICK q, r : q = upstream /\ r = upstream'
        OBVIOUS
  <2>7. IsLine(q) /\ InOrder(q) /\ Len(q) < LineDepth /\ 0 \in Int /\ r = Sent(q, f, 0)
        BY <1>1, <2>5, <2>6
  <2>8. PICK n \in Nat, left \in Int :
            /\ DOMAIN q = 1 .. n /\ DOMAIN r = 1 .. n + 1
            /\ \A i \in 1 .. n : r[i] = q[i]
            /\ r[n + 1].frame = f /\ r[n + 1].left = left
            /\ left >= Crossing
    <3>1. PICK s \in Int : s = 0
          OBVIOUS
    <3>2. PICK n \in Nat, left \in Int :
              /\ DOMAIN q = 1 .. n /\ DOMAIN r = 1 .. n + 1
              /\ \A i \in 1 .. n : r[i] = q[i]
              /\ r[n + 1].frame = f /\ r[n + 1].left = left
              /\ left >= s + Crossing
      <4>1. r = Sent(q, f, s)
            BY <2>7, <3>1
      <4> QED BY <2>7, <4>1, SentInOrder
    <3>3. left >= Crossing
          BY <3>1, <3>2, RoomNumbers
    <3> QED BY <3>2, <3>3
  <2>9. Free(upstream, {"INFO"})
    <3>1. PICK m : m = t - KeepaliveInterval + Crossing + RequestDelay + LongestStep - 1
          OBVIOUS
    <3>2. m \in Int /\ m < 0
          BY <2>2, <3>1, RoomNumbers
    <3>3. Single(upstream, "INFO", m)
          BY <1>1, <2>2, <3>1 DEF UpstreamHasRoom
    <3>4. \A j \in DOMAIN upstream : upstream[j].left > m
      <4>1. \A j \in DOMAIN upstream : upstream[j].left \in Int /\ upstream[j].left >= 0
            BY RoomFacts
      <4> QED BY <3>2, <4>1
    <3> QED BY <1>1, <3>2, <3>3, <3>4, SingleLimits
  <2>10. Single(upstream', "INFO", onu'.next_keepalive - KeepaliveInterval
                                     + Crossing + RequestDelay + LongestStep - 1)
    <3>1. PICK l : l = onu'.next_keepalive - KeepaliveInterval
                         + Crossing + RequestDelay + LongestStep - 1
          OBVIOUS
    <3>2. l \in Int /\ l >= Crossing + RequestDelay
          BY <2>2, <2>3, <3>1, RoomNumbers
    <3>3. \A j \in DOMAIN r : r[j].left \in Int /\ r[j].left <= Crossing + RequestDelay
          BY <2>6, RoomNumbers DEF LinesInTime
    <3>4. \A j \in DOMAIN r : r[j].left <= l
          BY <3>2, <3>3, RoomNumbers
    <3>5. Free(q, {f.kind})
          BY <2>5, <2>6, <2>9
    <3>6. Single(r, f.kind, l)
          BY <2>7, <3>4, <3>5, SingleSent
    <3> QED BY <2>5, <2>6, <3>1, <3>6
  <2>11. /\ \A m : Single(upstream, "REQUEST", m) => Single(upstream', "REQUEST", m)
         /\ Kinds(upstream', {"REQUEST", "ACK", "INFO"})
    <3>1. f.kind # "REQUEST" /\ f.kind \in {"REQUEST", "ACK", "INFO"}
          BY <2>5
    <3>2. /\ \A k, m : f.kind # k /\ Single(q, k, m) => Single(r, k, m)
          /\ \A K : Kinds(q, K) /\ f.kind \in K => Kinds(r, K)
          BY <2>7, SingleSent
    <3> QED BY <1>1, <2>6, <3>1, <3>2 DEF UpstreamHasRoom
  <2>12. BehindRequests(upstream')
         BY <1>1, <2>5, BehindSent DEF UpstreamHasRoom
  <2>13. SentBy("Gate", GateInterval)' = SentBy("Gate", GateInterval)
         BY <1>1 DEF SentBy
  <2>14. UpstreamHasRoom'
    <3>1. Single(upstream', "REQUEST", SentBy("Gate", GateInterval)' + Crossing + LongestPause)
          BY <1>1, <2>11, <2>13 DEF UpstreamHasRoom
    <3>2. ASSUME NEW i \in DOMAIN downstream', downstream'[i].frame.kind = "GATE"
          PROVE  Single(upstream', "REQUEST",
                        downstream'[i].left - GateInterval + Crossing + LongestPause)
          BY <1>1, <2>11, <3>2 DEF UpstreamHasRoom
    <3> QED BY <1>3, <2>3, <2>10, <2>11, <2>12, <3>1, <3>2 DEF UpstreamHasRoom
  <2>15. /\ onu.armed => /\ onu'.armed /\ onu'.next_keepalive \in Int
                         /\ onu'.next_keepalive >= onu.next_keepalive
         /\ onu'.armed => onu'.next_keepalive >= 1
         BY <2>2, <2>3, RoomNumbers
  <2>16. ASSUME NEW j \in DOMAIN upstream'
         PROVE  \/ \E k \in DOMAIN upstream : upstream'[j] = upstream[k]
                \/ /\ upstream'[j].left \in Int
                   /\ upstream'[j].left >= onu.next_keepalive + Crossing
    <3>1. CASE j \in 1 .. n
          BY <2>6, <2>8, <3>1
    <3>2. CASE j = n + 1
          BY <2>2, <2>6, <2>8, <3>2, RoomNumbers
    <3> QED BY <2>6, <2>8, <3>1, <3>2
  <2> QED BY <2>14, <2>15, <2>16, PollRest
<1> QED BY <1>1, <1>2, <1>3

(* The link comes up with nothing due on the lines and both timers due,    *)
LEMMA RaiseRoom == ASSUME LifeInv, RoomInv, LinesInTime', RaiseLink PROVE RoomInv'
<1>1. /\ ~link_up /\ link_up' = TRUE
      /\ due' = [due EXCEPT !["Gate"] = 0, !["Keepalive"] = 0]
      /\ UNCHANGED <<discovery, onu, since_poll, downstream, upstream>>
      BY DEF RaiseLink, set_link_up, lines, ends
<1>2. /\ TimersTick /\ DownstreamHasRoom /\ UpstreamHasRoom /\ DOMAIN due = Timer
      /\ Free(upstream, {"REQUEST"}) /\ Free(downstream, {"GATE"})
      /\ Free(downstream, {"INFO", "OTHER"})
      BY <1>1, RoomFacts DEF RoomInv, AgreeInv, DarkLineIsQuiet, TimersTick
<1>3. \A t \in Timer : due'[t] = IF t \in {"Gate", "Keepalive"} THEN 0 ELSE due[t]
      BY <1>1, <1>2 DEF Timer
<1>4. "AttributePoll" \in Timer /\ "NormalGate" \in Timer
      BY DEF Timer
<1>5. TimersTick'
  <2>1. \A t \in Timer : due'[t] \in Nat \cup {Off}
        BY <1>2, <1>3 DEF TimersTick
  <2>2. due'["AttributePoll"] = due["AttributePoll"]
        BY <1>3, <1>4
  <2> QED BY <1>1, <1>2, <2>1, <2>2 DEF TimersTick
<1>6. DownstreamHasRoom'
  <2>1. /\ Free(downstream, {"INFO"}) /\ Free(downstream, {"OTHER"})
        BY <1>2 DEF Free
  <2>2. /\ Single(downstream, "GATE", SentBy("Gate", GateInterval)')
        /\ Single(downstream, "INFO", SentBy("Keepalive", OamInterval)')
        BY <1>2, <2>1, FreeIsSingle
  <2>3. SentBy("NormalGate", NormalGateInterval)' = SentBy("NormalGate", NormalGateInterval)
        BY <1>3, <1>4 DEF SentBy
  <2>4. RotationHasRoom'
    <3>1. \A i \in DOMAIN downstream' : downstream'[i].frame.kind # "OTHER"
          BY <1>1, <2>1 DEF Free
    <3>2. Single(downstream', "OTHER", Crossing)
          BY <3>1 DEF Single
    <3> QED BY <3>1, <3>2 DEF RotationHasRoom
  <2> QED BY <1>1, <1>2, <2>2, <2>3, <2>4 DEF DownstreamHasRoom
<1>7. UpstreamHasRoom'
  <2>1. Single(upstream, "REQUEST", SentBy("Gate", GateInterval)' + Crossing + LongestPause)
        BY <1>2, FreeIsSingle
  <2>2. \A i \in DOMAIN downstream' : downstream'[i].frame.kind # "GATE"
        BY <1>1, <1>2 DEF Free
  <2> QED BY <1>1, <1>2, <2>1, <2>2 DEF UpstreamHasRoom
<1> QED BY <1>5, <1>6, <1>7 DEF RoomInv

(* and leaves them empty.                                                  *)
LEMMA NothingSent == ASSUME downstream = <<>>, upstream = <<>>
                     PROVE  DownstreamHasRoom /\ UpstreamHasRoom
BY DEF DownstreamHasRoom, RotationHasRoom, UpstreamHasRoom, BehindRequests, Single, Kinds, Free

LEMMA LowerRoom == ASSUME LifeInv, RoomInv, LowerLink PROVE RoomInv'
<1>1. /\ due' = [t \in Timer |-> Off] /\ discovery' = DefaultDiscovery
      /\ downstream' = <<>> /\ upstream' = <<>>
      /\ UNCHANGED <<onu, since_poll>>
      BY DEF LowerLink, set_link_down, ends
<1>2. DownstreamHasRoom' /\ UpstreamHasRoom'
      BY <1>1 DEF DownstreamHasRoom, RotationHasRoom, UpstreamHasRoom, BehindRequests, Single,
                  Kinds, Free
<1>3. /\ \A t \in Timer : due'[t] = Off
      /\ "AttributePoll" \in Timer /\ "Keepalive" \in Timer
      BY <1>1 DEF Timer
<1>4. TimersTick'
  <2>1. TimersTick
        BY DEF RoomInv
  <2>2. Free(downstream', {"INFO", "OTHER"})
        BY <1>1 DEF Free
  <2> QED BY <1>1, <1>3, <2>1, <2>2 DEF TimersTick, DefaultDiscovery, DiscoveryState
<1> QED BY <1>2, <1>4 DEF RoomInv

LEMMA RoomInit == ASSUME link_Init PROVE RoomInv
<1>1. /\ due = [t \in Timer |-> Off] /\ discovery = DefaultDiscovery
      /\ downstream = <<>> /\ upstream = <<>> /\ ~onu.armed
      BY DEF link_Init, Init, NewOnu
<1>2. /\ \A t \in Timer : due[t] = Off
      /\ "AttributePoll" \in Timer /\ "Keepalive" \in Timer
      BY <1>1 DEF Timer
<1>3. Free(downstream, {"INFO", "OTHER"})
      BY <1>1 DEF Free
<1>4. TimersTick
      BY <1>1, <1>2, <1>3 DEF TimersTick, DefaultDiscovery, DiscoveryState
<1> QED BY <1>1, <1>4, NothingSent DEF RoomInv

(* A step of nobody leaves every part as it is.                            *)
LEMMA StutterRoom == ASSUME LifeInv, RoomInv, UNCHANGED link_vars PROVE RoomInv'
<1>1. UNCHANGED <<onu, due, discovery, link_up, since_poll, downstream, upstream>>
      BY DEF link_vars, vars, lines, ends
<1>2. /\ SentBy("Gate", GateInterval)' = SentBy("Gate", GateInterval)
      /\ SentBy("NormalGate", NormalGateInterval)' = SentBy("NormalGate", NormalGateInterval)
      /\ SentBy("Keepalive", OamInterval)' = SentBy("Keepalive", OamInterval)
      /\ SentBy("AttributePoll", AttributeInterval)' = SentBy("AttributePoll", AttributeInterval)
      BY <1>1 DEF SentBy
<1>3. TimersTick'
      BY <1>1 DEF RoomInv, TimersTick
<1>4. RotationHasRoom'
      BY <1>1, <1>2 DEF RoomInv, DownstreamHasRoom, RotationHasRoom
<1>5. DownstreamHasRoom'
      BY <1>1, <1>2, <1>4 DEF RoomInv, DownstreamHasRoom
<1>6. UpstreamHasRoom'
      BY <1>1, <1>2 DEF RoomInv, UpstreamHasRoom
<1> QED BY <1>3, <1>5, <1>6 DEF RoomInv

LEMMA RoomNext == ASSUME LifeInv, RoomInv, LinesInTime', [link_Next]_link_vars PROVE RoomInv'
BY LandRoom, FireRoom, PassRoom, HearRoom, TurnRoom, RaiseRoom, LowerRoom, StutterRoom DEF link_Next

--------------------------------------------------------------------------------
(* The peer and the responder go through a registration together, a        *)
(* crossing apart, the times of what is in flight and of what both ends    *)
(* hold are those of one handshake, and no fibre is ever full, so that     *)
(* none of this is lost (fibre.rs, peer.rs, onu.rs).                       *)
THEOREM LifeInvariance == LinkSpec => [](LifeInv /\ RoomInv)
<1>1. link_Init => LifeInv /\ RoomInv
      BY AgreeInit, LifeInit, RoomInit DEF LifeInv
<1>2. LifeInv /\ RoomInv /\ [link_Next]_link_vars => LifeInv' /\ RoomInv'
  <2>1. SUFFICES ASSUME LifeInv, RoomInv, [link_Next]_link_vars PROVE LifeInv' /\ RoomInv'
        OBVIOUS
  <2>2. AgreeInv /\ LinesInTime /\ ExchangeInTime /\ LinesHaveRoom
        BY <2>1, RoomImplies DEF LifeInv
  <2>3. LifeInv'
        BY <2>1, <2>2, AgreeNext, LinesInTimeNext, ExchangeInTimeNext DEF LifeInv
  <2>4. RoomInv'
        BY <2>1, <2>3, RoomNext DEF LifeInv
  <2> QED BY <2>3, <2>4
<1> QED BY <1>1, <1>2, PTL DEF LinkSpec

(* What the three say, each on its own.                                    *)
THEOREM AgreeInvariance == LinkSpec => []AgreeInv
BY LifeInvariance, PTL DEF LifeInv

(* The ends agree on who is registered, short of what is on the fibre.     *)
THEOREM TheEndsAgree == LinkSpec => []EndsAgree
BY AgreeInvariance, AgreeInvImplies, PTL

(* A registration lives, where the responder measures it, the peer's       *)
(* lifetime, the two crossings and the wait of the acknowledgement.        *)
THEOREM LifeIsMeasured == LinkSpec => []LifeIsLifetimePlusExchange
<1>1. LifeInv => LifeIsLifetimePlusExchange
      BY DEF LifeInv, ExchangeInTime, Waited, LifeIsLifetimePlusExchange
<1> QED BY <1>1, LifeInvariance, PTL

(* Nothing is lost to a full fibre.                                        *)
THEOREM TheLinesHaveRoom == LinkSpec => []LinesHaveRoom
<1>1. LifeInv /\ RoomInv => LinesHaveRoom
      BY RoomImplies DEF LifeInv
<1> QED BY <1>1, LifeInvariance, PTL

---------------------------------------------------------------------------------
(* The windows in turn, as Link states them: a window that opens late, the *)
(* one that is served, the GATE that is answered and the one that is sent. *)
Times(R, o) == \A j \in R : o[j] \in Int

(* The windows may be late by more, and by less when all of them are.      *)
LEMMA InTurnLater ==
    ASSUME NEW N \in Int, NEW M \in Int, NEW s \in Int, M >= N - s,
           NEW R, NEW o, NEW p, NEW D, NEW g, NEW h, NEW t \in Int, NEW u \in Int,
           Times(R, o), Times(D, g), InTurn(N, R, o, D, g, t),
           \A j \in R : p[j] = o[j] - s, \A i \in D : h[i] = g[i] - s, u = t - s
    PROVE  InTurn(M, R, p, D, h, u)
<1>1. GateInterval \in Nat \ {0}
      BY PeerAssumption
<1>2. \A j \in R : \/ p[j] <= M
                   \/ \E k \in R : k < j /\ p[j] <= p[k] + GateInterval
      BY <1>1 DEF InTurn, Times
<1>3. \A i \in D : \/ h[i] <= M
                   \/ \E k \in R : h[i] <= p[k] + GateInterval
                   \/ \E k \in D : k < i /\ h[i] <= h[k] + GateInterval
      BY <1>1 DEF InTurn, Times
<1>4. \/ u <= M
      \/ \E k \in R : u <= p[k] + GateInterval
      \/ \E k \in D : u <= h[k] + GateInterval
      BY <1>1 DEF InTurn, Times
<1> QED BY <1>2, <1>3, <1>4 DEF InTurn

(* The first window is served: what waited for it waits for the next.      *)
Taken(R, o, S, p, n) ==
    /\ R \subseteq 1 .. n
    /\ \A j : j \in S <=> j \in 1 .. n - 1 /\ j + 1 \in R
    /\ \A j \in S : p[j] = o[j + 1]

LEMMA InTurnTaken ==
    ASSUME NEW N \in Int, NEW M \in Int, M >= N, NEW n \in Nat, NEW t \in Int,
           NEW R, NEW o, NEW S, NEW p, NEW D, NEW g,
           Times(R, o), Times(D, g), InTurn(N, R, o, D, g, t), Taken(R, o, S, p, n),
           1 \in R => o[1] + GateInterval <= M
    PROVE  InTurn(M, S, p, D, g, t)
<1>1. GateInterval \in Nat \ {0}
      BY PeerAssumption
<1>2. \A k \in R : k = 1 \/ (k - 1 \in S /\ p[k - 1] = o[k])
  <2>1. SUFFICES ASSUME NEW k \in R, k # 1 PROVE k - 1 \in S /\ p[k - 1] = o[k]
        OBVIOUS
  <2>2. k \in 1 .. n /\ k - 1 \in 1 .. n - 1 /\ (k - 1) + 1 = k
        BY <2>1 DEF Taken
  <2> QED BY <2>2 DEF Taken
<1>3. ASSUME NEW v \in Int, NEW k \in R, v <= o[k] + GateInterval
      PROVE  v <= M \/ \E l \in S : l = k - 1 /\ v <= p[l] + GateInterval
  <2>1. CASE k = 1
        BY <1>1, <1>3, <2>1 DEF Times
  <2>2. CASE k # 1
        BY <1>2, <1>3, <2>2
  <2> QED BY <2>1, <2>2
<1>4. ASSUME NEW j \in S
      PROVE  p[j] <= M \/ \E l \in S : l < j /\ p[j] <= p[l] + GateInterval
  <2>1. j \in 1 .. n - 1 /\ j + 1 \in R /\ p[j] = o[j + 1] /\ o[j + 1] \in Int
        BY DEF Taken, Times
  <2>2. o[j + 1] <= N \/ \E k \in R : k < j + 1 /\ o[j + 1] <= o[k] + GateInterval
        BY <2>1 DEF InTurn
  <2>3. CASE o[j + 1] <= N
        BY <2>1, <2>3
  <2>4. ASSUME NEW k \in R, k < j + 1, o[j + 1] <= o[k] + GateInterval
        PROVE  p[j] <= M \/ \E l \in S : l < j /\ p[j] <= p[l] + GateInterval
    <3>1. p[j] <= M \/ \E l \in S : l = k - 1 /\ p[j] <= p[l] + GateInterval
          BY <1>3, <2>1, <2>4
    <3>2. k \in Int
          BY DEF Taken
    <3> QED BY <2>1, <2>4, <3>1, <3>2
  <2> QED BY <2>2, <2>3, <2>4
<1>5. ASSUME NEW i \in D
      PROVE  \/ g[i] <= M
             \/ \E l \in S : g[i] <= p[l] + GateInterval
             \/ \E k \in D : k < i /\ g[i] <= g[k] + GateInterval
  <2>1. g[i] \in Int
        BY DEF Times
  <2>2. \/ g[i] <= N
        \/ \E k \in R : g[i] <= o[k] + GateInterval
        \/ \E k \in D : k < i /\ g[i] <= g[k] + GateInterval
        BY DEF InTurn
  <2> QED BY <1>3, <2>1, <2>2
<1>6. \/ t <= M
      \/ \E l \in S : t <= p[l] + GateInterval
      \/ \E k \in D : t <= g[k] + GateInterval
  <2>1. \/ t <= N
        \/ \E k \in R : t <= o[k] + GateInterval
        \/ \E k \in D : t <= g[k] + GateInterval
        BY DEF InTurn
  <2> QED BY <1>3, <2>1
<1> QED BY <1>4, <1>5, <1>6 DEF InTurn

(* The first GATE is answered: its window is now that of the last request. *)
Answered(R, o, S, p, m, D, g, E, h) ==
    /\ \A j \in R : j < m /\ p[j] = o[j]
    /\ R \subseteq S /\ \A j \in S : j \in R \/ (1 \in D /\ j = m)
    /\ 1 \in D => m \in S /\ p[m] = g[1]
    /\ D \subseteq Nat \ {0} /\ \A i \in D : i # 1 => i - 1 \in E
    /\ \A i \in E : i \in Nat /\ i + 1 \in D /\ h[i] = g[i + 1]

LEMMA InTurnAnswered ==
    ASSUME NEW N \in Int, NEW t \in Int, NEW m \in Int,
           NEW R, NEW o, NEW S, NEW p, NEW D, NEW g, NEW E, NEW h,
           Times(R, o), Times(D, g), InTurn(N, R, o, D, g, t),
           Answered(R, o, S, p, m, D, g, E, h)
    PROVE  InTurn(N, S, p, E, h, t)
<1>1. /\ \A j \in R : j < m /\ p[j] = o[j]
      /\ R \subseteq S /\ \A j \in S : j \in R \/ (1 \in D /\ j = m)
      /\ 1 \in D => m \in S /\ p[m] = g[1]
      /\ D \subseteq Nat \ {0} /\ \A i \in D : i # 1 => i - 1 \in E
      /\ \A i \in E : i \in Nat /\ i + 1 \in D /\ h[i] = g[i + 1]
      BY DEF Answered
<1>2. GateInterval \in Nat \ {0} /\ R \subseteq S
      BY <1>1, PeerAssumption
<1>3. ASSUME NEW v \in Int, NEW k \in R, v <= o[k] + GateInterval
      PROVE  \E l \in S : l = k /\ v <= p[l] + GateInterval
      BY <1>1, <1>2, <1>3
<1>4. ASSUME NEW v \in Int, NEW k \in D, v <= g[k] + GateInterval
      PROVE  \/ \E l \in S : v <= p[l] + GateInterval
             \/ \E l \in E : l = k - 1 /\ v <= h[l] + GateInterval
  <2>1. CASE k = 1
    <3>1. m \in S /\ p[m] = g[1]
          BY <1>1, <2>1
    <3> QED BY <1>1, <1>4, <2>1, <3>1
  <2>2. CASE k # 1
    <3>1. k \in Nat /\ k - 1 \in E /\ (k - 1) + 1 = k
          BY <1>1, <2>2
    <3>2. k - 1 \in E /\ h[k - 1] = g[k]
          BY <1>1, <3>1
    <3> QED BY <1>1, <1>4, <3>2
  <2> QED BY <1>1, <2>1, <2>2
<1>5. ASSUME NEW j \in S
      PROVE  p[j] <= N \/ \E l \in S : l < j /\ p[j] <= p[l] + GateInterval
  <2>1. CASE j \in R
    <3>1. o[j] \in Int /\ p[j] = o[j]
          BY <1>1, <2>1 DEF Times
    <3>2. o[j] <= N \/ \E k \in R : k < j /\ o[j] <= o[k] + GateInterval
          BY <1>1, <2>1 DEF InTurn
    <3> QED BY <1>1, <1>3, <3>1, <3>2
  <2>2. CASE j \notin R
    <3>1. 1 \in D /\ j = m /\ p[j] = g[1] /\ g[1] \in Int
          BY <1>1, <2>2 DEF Times
    <3>2. \/ g[1] <= N
          \/ \E k \in R : g[1] <= o[k] + GateInterval
          \/ \E k \in D : k < 1 /\ g[1] <= g[k] + GateInterval
          BY <1>1, <3>1 DEF InTurn
    <3>3. \A k \in D : ~(k < 1)
          BY <1>1
    <3>4. CASE \E k \in R : g[1] <= o[k] + GateInterval
      <4>1. PICK k \in R : g[1] <= o[k] + GateInterval
            BY <1>1, <3>4
      <4>2. k \in S /\ p[k] = o[k] /\ k < j
            BY <1>1, <3>1
      <4> QED BY <1>1, <3>1, <4>1, <4>2
    <3> QED BY <1>1, <3>1, <3>2, <3>3, <3>4
  <2> QED BY <1>1, <2>1, <2>2
<1>6. ASSUME NEW i \in E
      PROVE  \/ h[i] <= N
             \/ \E l \in S : h[i] <= p[l] + GateInterval
             \/ \E k \in E : k < i /\ h[i] <= h[k] + GateInterval
  <2>1. i \in Nat /\ i + 1 \in D /\ h[i] = g[i + 1] /\ g[i + 1] \in Int
        BY <1>1 DEF Times
  <2>2. \/ g[i + 1] <= N
        \/ \E k \in R : g[i + 1] <= o[k] + GateInterval
        \/ \E k \in D : k < i + 1 /\ g[i + 1] <= g[k] + GateInterval
        BY <1>1, <2>1 DEF InTurn
  <2>3. ASSUME NEW k \in D, k < i + 1, g[i + 1] <= g[k] + GateInterval
        PROVE  \/ \E l \in S : h[i] <= p[l] + GateInterval
               \/ \E l \in E : l < i /\ h[i] <= h[l] + GateInterval
    <3>1. \/ \E l \in S : h[i] <= p[l] + GateInterval
          \/ \E l \in E : l = k - 1 /\ h[i] <= h[l] + GateInterval
          BY <1>1, <1>4, <2>1, <2>3
    <3>2. k \in Int
          BY <1>1
    <3> QED BY <1>1, <2>1, <2>3, <3>1, <3>2
  <2> QED BY <1>1, <1>3, <2>1, <2>2, <2>3
<1>7. \/ t <= N
      \/ \E l \in S : t <= p[l] + GateInterval
      \/ \E k \in E : t <= h[k] + GateInterval
  <2>1. \/ t <= N
        \/ \E k \in R : t <= o[k] + GateInterval
        \/ \E k \in D : t <= g[k] + GateInterval
        BY <1>1 DEF InTurn
  <2> QED BY <1>1, <1>3, <1>4, <2>1
<1> QED BY <1>1, <1>5, <1>6, <1>7 DEF InTurn

(* The GATE that was due is sent, and the next is due an interval later.   *)
LEMMA InTurnOpened ==
    ASSUME NEW N \in Int,
           NEW R, NEW o, NEW D, NEW g, NEW E, NEW h,
           NEW t \in Int, NEW u \in Int,
           Times(R, o), Times(D, g), InTurn(N, R, o, D, g, t),
           NEW l \in Int, \A i \in D : i < l,
           \A i \in E : i \in D \/ i = l, D \subseteq E, l \in E,
           \A i \in D : h[i] = g[i], h[l] = t, u = t + GateInterval
    PROVE  InTurn(N, R, o, E, h, u)
<1>1. GateInterval \in Nat \ {0} /\ D \subseteq E /\ l \in E
      BY PeerAssumption
<1>2. \A j \in R : \/ o[j] <= N
                   \/ \E k \in R : k < j /\ o[j] <= o[k] + GateInterval
      BY DEF InTurn
<1>3. ASSUME NEW i \in E
      PROVE  \/ h[i] <= N
             \/ \E k \in R : h[i] <= o[k] + GateInterval
             \/ \E k \in E : k < i /\ h[i] <= h[k] + GateInterval
  <2>1. CASE i \in D
    <3>1. \/ g[i] <= N
          \/ \E k \in R : g[i] <= o[k] + GateInterval
          \/ \E k \in D : k < i /\ g[i] <= g[k] + GateInterval
          BY <2>1 DEF InTurn
    <3> QED BY <1>1, <2>1, <3>1
  <2>2. CASE i = l
    <3>1. \/ t <= N
          \/ \E k \in R : t <= o[k] + GateInterval
          \/ \E k \in D : t <= g[k] + GateInterval
          BY DEF InTurn
    <3>2. \A k \in D : k \in E /\ h[k] = g[k] /\ k < l
          OBVIOUS
    <3> QED BY <2>2, <3>1, <3>2
  <2> QED BY <2>1, <2>2
<1>4. u <= h[l] + GateInterval
      BY <1>1
<1> QED BY <1>1, <1>2, <1>3, <1>4 DEF InTurn

(* Of the windows in turn the first is no later than the next one.         *)
LEMMA InTurnFirst ==
    ASSUME NEW N \in Int, NEW R, R \subseteq Nat, NEW o, NEW D, D \subseteq Nat, NEW g,
           NEW t \in Int, InTurn(N, R, o, D, g, t)
    PROVE  (\E j \in R : o[j] <= N) \/ (\E i \in D : g[i] <= N) \/ t <= N
<1>1. ASSUME NEW S, S \subseteq Nat, S # {}
      PROVE  \E x \in S : \A y \in S : ~(y < x)
  <2>1. IsWellFoundedOn(OpToRel(<, Nat), Nat)
        BY NatLessThanWellFounded
  <2>2. PICK x \in S : \A y \in S : ~(<<y, x>> \in OpToRel(<, Nat))
        BY <1>1, <2>1, WFMin
  <2>3. \A y \in S : ~(y < x)
        BY <1>1, <2>2 DEF OpToRel
  <2> QED BY <2>3
<1>2. CASE R # {}
  <2>1. PICK x \in R : \A y \in R : ~(y < x)
        BY <1>1, <1>2
  <2> QED BY <2>1 DEF InTurn
<1>3. CASE R = {} /\ D # {}
  <2>1. PICK x \in D : \A y \in D : ~(y < x)
        BY <1>1, <1>3
  <2> QED BY <1>3, <2>1 DEF InTurn
<1>4. CASE R = {} /\ D = {}
      BY <1>4 DEF InTurn
<1> QED BY <1>2, <1>3, <1>4

(* The numbers the sums below are made of.                                 *)
LEMMA ReturnNumbers ==
    /\ Crossing \in Nat \ {0} /\ RequestDelay \in Nat /\ LongestStep \in Nat \ {0}
    /\ GateInterval \in Nat \ {0} /\ RediscoveryDelay \in Nat /\ RediscoveryDelay >= Crossing
    /\ ProcessingDelay \in Nat /\ IgnoredRegisterRequests \in Nat
    /\ Exchange \in Nat /\ Exchange = 2 * Crossing + RequestDelay + LongestStep - 1
<1>1. /\ Crossing \in Nat \ {0} /\ RequestDelay \in Nat /\ LongestStep \in Nat \ {0}
      /\ GateInterval \in Nat \ {0} /\ RediscoveryDelay \in Nat /\ RediscoveryDelay >= Crossing
      /\ ProcessingDelay \in Nat /\ IgnoredRegisterRequests \in Nat
      BY LinkAssumption, PeerAssumption
<1> QED BY <1>1 DEF Exchange

(* The time the windows up to a request take.                              *)
LEMMA WindowsPassed ==
    ASSUME NEW a \in Nat
    PROVE  /\ (a + 1) * GateInterval \in Nat /\ (a + 1) * GateInterval >= GateInterval
           /\ (a + 2) * GateInterval = (a + 1) * GateInterval + GateInterval
           /\ \A b \in Nat : a <= b => (a + 1) * GateInterval <= (b + 1) * GateInterval
<1>1. PICK G \in Nat : G = GateInterval
      BY ReturnNumbers
<1>2. (a + 1) * G = a * G + G /\ (a + 2) * G = a * G + G + G /\ a * G \in Nat
      OBVIOUS
<1>3. ASSUME NEW b \in Nat, a <= b PROVE (a + 1) * G <= (b + 1) * G
  <2>1. PICK c \in Nat : b = a + c
        BY <1>3
  <2>2. (b + 1) * G = (a + 1) * G + c * G /\ c * G \in Nat
        BY <2>1
  <2> QED BY <1>2, <2>2
<1> QED BY <1>1, <1>2, <1>3

(* The next window as a number, in the silence and after it.               *)
LEMMA NextWindowIs ==
    ASSUME PeerIsTimed, unregistered \in Nat
    PROVE  /\ NextWindow \in Int
           /\ settling => due["Rediscovery"] \in Nat /\ NextWindow = due["Rediscovery"] + GateInterval
           /\ ~settling => NextWindow = RediscoveryDelay - Crossing
                              + (register_requests_seen + 1) * GateInterval - unregistered
<1>1. (register_requests_seen + 1) * GateInterval \in Nat
      BY WindowsPassed DEF PeerIsTimed
<1> QED BY <1>1, ReturnNumbers DEF NextWindow, PeerIsTimed

(* The windows as the lemmas above take them.                              *)
LEMMA WindowsAre ==
    ASSUME LinesInTime, IsLine(downstream), IsLine(upstream), WindowsInTime
    PROVE  \E m, n \in Nat : \E o, g :
              /\ DOMAIN upstream = 1 .. m /\ DOMAIN downstream = 1 .. n
              /\ Requests \subseteq 1 .. m /\ Gates \subseteq 1 .. n
              /\ Times(Requests, o) /\ Times(Gates, g)
              /\ InTurn(NextWindow, Requests, o, Gates, g, due["Gate"])
              /\ \A j \in Requests : upstream[j].left - o[j] \in 0 .. Exchange
              /\ \A i \in Gates : g[i] = downstream[i].left - Crossing
<1>1. PICK m, n \in Nat : DOMAIN upstream = 1 .. m /\ DOMAIN downstream = 1 .. n
      BY DEF IsLine
<1>2. Requests \subseteq 1 .. m /\ Gates \subseteq 1 .. n
      BY <1>1 DEF Requests, Gates
<1>3. PICK taken \in [Requests -> 0 .. Exchange] :
        InTurn(NextWindow, Requests, [j \in Requests |-> upstream[j].left - taken[j]],
               Gates, [i \in Gates |-> downstream[i].left - Crossing], due["Gate"])
      BY DEF WindowsInTime
<1>4. PICK o, g : /\ o = [j \in Requests |-> upstream[j].left - taken[j]]
                  /\ g = [i \in Gates |-> downstream[i].left - Crossing]
      OBVIOUS
<1>5. \A j \in Requests : /\ upstream[j].left \in Int /\ taken[j] \in 0 .. Exchange
                          /\ o[j] = upstream[j].left - taken[j]
      BY <1>4, LineTimes DEF Requests
<1>6. \A i \in Gates : downstream[i].left \in Int /\ g[i] = downstream[i].left - Crossing
      BY <1>4, LineTimes DEF Gates
<1>7. Times(Requests, o) /\ \A j \in Requests : upstream[j].left - o[j] \in 0 .. Exchange
  <2>1. ASSUME NEW j \in Requests PROVE o[j] \in Int /\ upstream[j].left - o[j] \in 0 .. Exchange
    <3>1. PICK a, b, c : a = upstream[j].left /\ b = taken[j] /\ c = o[j]
          OBVIOUS
    <3>2. a \in Int /\ b \in 0 .. Exchange /\ c = a - b
          BY <1>5, <3>1
    <3>3. c \in Int /\ a - c = b
          BY <3>2, ReturnNumbers
    <3> QED BY <3>1, <3>2, <3>3
  <2> QED BY <2>1 DEF Times
<1>8. Times(Gates, g)
      BY <1>6, ReturnNumbers DEF Times
<1>9. InTurn(NextWindow, Requests, o, Gates, g, due["Gate"])
      BY <1>3, <1>4
<1>10. WITNESS m \in Nat, n \in Nat
<1>11. WITNESS o, g
<1> QED BY <1>1, <1>2, <1>6, <1>7, <1>8, <1>9

(* Windows in turn that are found this way are those the invariant speaks  *)
(* of.                                                                     *)
LEMMA WindowsFound ==
    ASSUME LinesInTime', NEW N \in Int, NEW o, NEW g, NextWindow' >= N, NextWindow' \in Int,
           due'["Gate"] \in Int, Times(Requests', o), Times(Gates', g),
           InTurn(N, Requests', o, Gates', g, due'["Gate"]),
           \A j \in Requests' : upstream'[j].left - o[j] \in 0 .. Exchange,
           \A i \in Gates' : g[i] = downstream'[i].left - Crossing
    PROVE  WindowsInTime'
<1>1. PICK taken, h : /\ taken = [j \in Requests' |-> upstream'[j].left - o[j]]
                      /\ h = [i \in Gates' |-> downstream'[i].left - Crossing]
      OBVIOUS
<1>2. taken \in [Requests' -> 0 .. Exchange]
      BY <1>1
<1>3. PICK p : p = [j \in Requests' |-> upstream'[j].left - taken[j]]
      OBVIOUS
<1>4. \A j \in Requests' : p[j] = o[j] - 0
  <2>1. SUFFICES ASSUME NEW j \in Requests' PROVE p[j] = o[j] - 0
        OBVIOUS
  <2>2. PICK a, b, c : a = upstream'[j].left /\ b = taken[j] /\ c = o[j]
        OBVIOUS
  <2>3. a \in Int /\ c \in Int /\ b = a - c /\ p[j] = a - b
        BY <1>1, <1>3, <2>2 DEF Times, Requests, LinesInTime, InOrder
  <2> QED BY <2>2, <2>3
<1>5. \A i \in Gates' : h[i] = g[i] - 0
      BY <1>1 DEF Times
<1>6. InTurn(NextWindow', Requests', p, Gates', h, due'["Gate"])
  <2>1. PICK N2, u, R, D : N2 = NextWindow' /\ u = due'["Gate"] /\ R = Requests' /\ D = Gates'
        OBVIOUS
  <2>2. N2 \in Int /\ u \in Int /\ N2 >= N - 0 /\ u = u - 0 /\ 0 \in Int
        BY <2>1
  <2>3. /\ Times(R, o) /\ Times(D, g) /\ InTurn(N, R, o, D, g, u)
        /\ \A j \in R : p[j] = o[j] - 0
        /\ \A i \in D : h[i] = g[i] - 0
        BY <1>4, <1>5, <2>1
  <2>4. InTurn(N2, R, p, D, h, u)
        BY <2>2, <2>3, InTurnLater
  <2> QED BY <2>1, <2>4
<1> QED BY <1>1, <1>2, <1>3, <1>6 DEF WindowsInTime

(* A frame landed at the peer.  A request among them is the first window.  *)
LEMMA WindowsAfterLand ==
    ASSUME LinesInTime, LinesInTime', IsLine(downstream), IsLine(upstream), WindowsInTime,
           NextWindow \in Int, due["Gate"] \in Int,
           upstream # <<>>, upstream' = Tail(upstream), downstream' = downstream,
           due'["Gate"] = due["Gate"], NextWindow' \in Int, NextWindow' >= NextWindow,
           Head(upstream).left <= 0,
           Head(upstream).frame.kind = "REQUEST" =>
              NextWindow' >= NextWindow + GateInterval \/ NextWindow' >= GateInterval
    PROVE  WindowsInTime'
<1>1. PICK m, n \in Nat : \E o, g :
              /\ DOMAIN upstream = 1 .. m /\ DOMAIN downstream = 1 .. n
              /\ Requests \subseteq 1 .. m /\ Gates \subseteq 1 .. n
              /\ Times(Requests, o) /\ Times(Gates, g)
              /\ InTurn(NextWindow, Requests, o, Gates, g, due["Gate"])
              /\ \A j \in Requests : upstream[j].left - o[j] \in 0 .. Exchange
              /\ \A i \in Gates : g[i] = downstream[i].left - Crossing
      BY WindowsAre
<1>2. PICK o, g :
              /\ DOMAIN upstream = 1 .. m
              /\ Requests \subseteq 1 .. m
              /\ Times(Requests, o) /\ Times(Gates, g)
              /\ InTurn(NextWindow, Requests, o, Gates, g, due["Gate"])
              /\ \A j \in Requests : upstream[j].left - o[j] \in 0 .. Exchange
              /\ \A i \in Gates : g[i] = downstream[i].left - Crossing
      BY <1>1
<1>3. PICK k \in Nat \ {0} :
              /\ Head(upstream) = upstream[1]
              /\ DOMAIN upstream = 1 .. k /\ DOMAIN upstream' = 1 .. k - 1
              /\ \A i \in 1 .. k - 1 : upstream'[i] = upstream[i + 1]
              /\ \A i \in 1 .. k : upstream[i].left \in Int
      BY TakenInOrder DEF LinesInTime
<1>4. PICK R, S, p : /\ R = Requests /\ S = Requests'
                     /\ p = [j \in S |-> o[j + 1]]
      OBVIOUS
<1>5. R \subseteq 1 .. k /\ Times(R, o)
      BY <1>2, <1>3, <1>4
<1>6. \A j : j \in S <=> j \in 1 .. k - 1 /\ j + 1 \in R
  <2>1. \A j \in 1 .. k - 1 : j + 1 \in 1 .. k /\ upstream'[j] = upstream[j + 1]
        BY <1>3
  <2>2. \A j : j \in S <=> j \in 1 .. k - 1 /\ upstream'[j].frame.kind = "REQUEST"
        BY <1>3, <1>4 DEF Requests
  <2>3. \A j \in 1 .. k - 1 : j + 1 \in R <=> upstream[j + 1].frame.kind = "REQUEST"
        BY <1>3, <1>4, <2>1 DEF Requests
  <2> QED BY <2>1, <2>2, <2>3
<1>7. Gates' = Gates /\ \A i \in Gates : g[i] = downstream'[i].left - Crossing
      BY <1>2 DEF Gates
<1>8. 1 \in R => o[1] + GateInterval <= NextWindow'
  <2>1. HAVE 1 \in R
  <2>2. Head(upstream).frame.kind = "REQUEST" /\ upstream[1].left <= 0 /\ upstream[1].left \in Int
        BY <1>3, <1>4, <2>1 DEF Requests
  <2>3. o[1] \in Int /\ upstream[1].left - o[1] \in 0 .. Exchange
        BY <1>2, <1>4, <2>1 DEF Times
  <2>4. o[1] <= NextWindow
    <3>1. \A j \in 1 .. k : ~(j < 1)
          OBVIOUS
    <3>2. \A j \in R : ~(j < 1)
          BY <1>5, <3>1
    <3> QED BY <1>2, <1>4, <2>1, <3>2 DEF InTurn
  <2>5. o[1] <= 0
    <3>1. PICK a, b : a = upstream[1].left /\ b = o[1]
          OBVIOUS
    <3>2. a \in Int /\ b \in Int /\ a <= 0 /\ a - b \in 0 .. Exchange
          BY <2>2, <2>3, <3>1
    <3>3. Exchange \in Nat
          BY ReturnNumbers
    <3>4. b <= 0
          BY <3>2, <3>3
    <3> QED BY <3>1, <3>4
  <2> QED BY <2>2, <2>3, <2>4, <2>5, ReturnNumbers
<1>9. \A j \in S : p[j] = o[j + 1] /\ j + 1 \in R
      BY <1>4, <1>6
<1>10. PICK N, M, t, D : N = NextWindow /\ M = NextWindow' /\ t = due["Gate"] /\ D = Gates
       OBVIOUS
<1>11. InTurn(M, S, p, D, g, t)
  <2>1. /\ N \in Int /\ M \in Int /\ M >= N /\ t \in Int /\ k \in Nat
        /\ Times(D, g) /\ InTurn(N, R, o, D, g, t)
        /\ 1 \in R => o[1] + GateInterval <= M
        BY <1>2, <1>4, <1>8, <1>10
  <2>2. Taken(R, o, S, p, k) /\ Times(R, o)
        BY <1>5, <1>6, <1>9 DEF Taken
  <2> QED BY <2>1, <2>2, InTurnTaken
<1>12. Times(S, p)
       BY <1>5, <1>9 DEF Times
<1>13. \A j \in S : upstream'[j].left - p[j] \in 0 .. Exchange
  <2>1. SUFFICES ASSUME NEW j \in S PROVE upstream'[j].left - p[j] \in 0 .. Exchange
        OBVIOUS
  <2>2. upstream'[j] = upstream[j + 1] /\ p[j] = o[j + 1] /\ j + 1 \in R
        BY <1>3, <1>6, <1>9
  <2> QED BY <1>2, <1>4, <2>2
<1>14. M \in Int /\ NextWindow' >= M /\ due'["Gate"] \in Int
       BY <1>10
<1>15. Times(Requests', p) /\ Times(Gates', g)
       BY <1>2, <1>4, <1>7, <1>12
<1>16. InTurn(M, Requests', p, Gates', g, due'["Gate"])
       BY <1>4, <1>7, <1>10, <1>11
<1>17. \A j \in Requests' : upstream'[j].left - p[j] \in 0 .. Exchange
       BY <1>4, <1>13
<1>18. \A i \in Gates' : g[i] = downstream'[i].left - Crossing
       BY <1>7
<1> QED BY <1>14, <1>15, <1>16, <1>17, <1>18, WindowsFound, ZenonT(30)

(* Neither a window nor a GATE more or less, and the next one no earlier.  *)
LEMMA WindowsKept ==
    ASSUME LinesInTime, LinesInTime', IsLine(downstream), IsLine(upstream), WindowsInTime,
           NextWindow \in Int, due["Gate"] \in Int,
           due'["Gate"] = due["Gate"], NextWindow' \in Int, NextWindow' >= NextWindow,
           Requests' = Requests, \A j \in Requests : upstream'[j] = upstream[j],
           Gates' = Gates, \A i \in Gates : downstream'[i] = downstream[i]
    PROVE  WindowsInTime'
<1>1. PICK m, n \in Nat : \E o, g :
              /\ DOMAIN upstream = 1 .. m /\ DOMAIN downstream = 1 .. n
              /\ Requests \subseteq 1 .. m /\ Gates \subseteq 1 .. n
              /\ Times(Requests, o) /\ Times(Gates, g)
              /\ InTurn(NextWindow, Requests, o, Gates, g, due["Gate"])
              /\ \A j \in Requests : upstream[j].left - o[j] \in 0 .. Exchange
              /\ \A i \in Gates : g[i] = downstream[i].left - Crossing
      BY WindowsAre
<1>2. PICK o, g :
              /\ DOMAIN upstream = 1 .. m /\ DOMAIN downstream = 1 .. n
              /\ Requests \subseteq 1 .. m /\ Gates \subseteq 1 .. n
              /\ Times(Requests, o) /\ Times(Gates, g)
              /\ InTurn(NextWindow, Requests, o, Gates, g, due["Gate"])
              /\ \A j \in Requests : upstream[j].left - o[j] \in 0 .. Exchange
              /\ \A i \in Gates : g[i] = downstream[i].left - Crossing
      BY <1>1
<1>3. \A j \in Requests' : upstream'[j].left - o[j] \in 0 .. Exchange
      BY <1>2
<1>4. \A i \in Gates' : g[i] = downstream'[i].left - Crossing
      BY <1>2
<1>5. Times(Requests', o) /\ Times(Gates', g)
      BY <1>2
<1>6. InTurn(NextWindow, Requests', o, Gates', g, due'["Gate"])
      BY <1>2
<1>7. due'["Gate"] \in Int
      OBVIOUS
<1> QED BY <1>3, <1>4, <1>5, <1>6, <1>7, WindowsFound, ZenonT(30)

(* A frame sent on a line leaves those of another kind where they are.     *)
OfKind(q, k) == {i \in DOMAIN q : q[i].frame.kind = k}

LEMMA OthersStay ==
    ASSUME NEW q, IsLine(q), Len(q) < LineDepth, NEW f, NEW at, NEW k, f.kind # k
    PROVE  /\ OfKind(Sent(q, f, at), k) = OfKind(q, k)
           /\ \A i \in OfKind(q, k) : Sent(q, f, at)[i] = q[i]
<1>1. PICK e : e.frame = f /\ Sent(q, f, at) = Append(q, e)
      BY SentLine
<1>2. PICK n, r : n = Len(q) /\ r = Append(q, e)
      OBVIOUS
<1>3. /\ n \in Nat /\ DOMAIN q = 1 .. n /\ DOMAIN r = 1 .. n + 1
      /\ \A i \in 1 .. n : r[i] = q[i]
      /\ r[n + 1] = e
      BY <1>2, AppendedLine
<1>4. OfKind(r, k) = OfKind(q, k) /\ \A i \in OfKind(q, k) : r[i] = q[i]
      BY <1>1, <1>3 DEF OfKind
<1> QED BY <1>1, <1>2, <1>4

(* Time passes for the windows and for the next one alike.                 *)
LEMMA WindowsAfterPass ==
    ASSUME LinesInTime, LinesInTime', IsLine(downstream), IsLine(upstream), WindowsInTime,
           NextWindow \in Int, due["Gate"] \in Int,
           due'["Gate"] = due["Gate"] - 1, NextWindow' = NextWindow - 1,
           downstream' = Closer(downstream), upstream' = Closer(upstream)
    PROVE  WindowsInTime'
<1>1. PICK m, n \in Nat : \E o, g :
              /\ DOMAIN upstream = 1 .. m /\ DOMAIN downstream = 1 .. n
              /\ Requests \subseteq 1 .. m /\ Gates \subseteq 1 .. n
              /\ Times(Requests, o) /\ Times(Gates, g)
              /\ InTurn(NextWindow, Requests, o, Gates, g, due["Gate"])
              /\ \A j \in Requests : upstream[j].left - o[j] \in 0 .. Exchange
              /\ \A i \in Gates : g[i] = downstream[i].left - Crossing
      BY WindowsAre
<1>2. PICK o, g :
              /\ DOMAIN upstream = 1 .. m /\ DOMAIN downstream = 1 .. n
              /\ Requests \subseteq 1 .. m /\ Gates \subseteq 1 .. n
              /\ Times(Requests, o) /\ Times(Gates, g)
              /\ InTurn(NextWindow, Requests, o, Gates, g, due["Gate"])
              /\ \A j \in Requests : upstream[j].left - o[j] \in 0 .. Exchange
              /\ \A i \in Gates : g[i] = downstream[i].left - Crossing
      BY <1>1
<1>3. /\ DOMAIN upstream' = DOMAIN upstream /\ DOMAIN downstream' = DOMAIN downstream
      /\ \A j \in DOMAIN upstream : /\ upstream'[j].frame = upstream[j].frame
                                    /\ upstream'[j].left = upstream[j].left - 1
                                    /\ upstream[j].left \in Int
      /\ \A j \in DOMAIN downstream : /\ downstream'[j].frame = downstream[j].frame
                                      /\ downstream'[j].left = downstream[j].left - 1
                                      /\ downstream[j].left \in Int
      BY LineTimes DEF Closer
<1>4. Requests' = Requests /\ Gates' = Gates
      BY <1>3 DEF Requests, Gates
<1>5. PICK R, D, p, h : /\ R = Requests /\ D = Gates
                        /\ p = [j \in R |-> o[j] - 1] /\ h = [i \in D |-> g[i] - 1]
      OBVIOUS
<1>6. \A j \in R : p[j] = o[j] - 1 /\ o[j] \in Int /\ j \in DOMAIN upstream
      BY <1>2, <1>5 DEF Times
<1>7. \A i \in D : h[i] = g[i] - 1 /\ g[i] \in Int /\ i \in DOMAIN downstream
      BY <1>2, <1>5 DEF Times
<1>8. InTurn(NextWindow', R, p, D, h, due'["Gate"])
  <2>1. PICK N, M, t, u : N = NextWindow /\ M = NextWindow' /\ t = due["Gate"] /\ u = due'["Gate"]
        OBVIOUS
  <2>2. N \in Int /\ M \in Int /\ 1 \in Int /\ M >= N - 1 /\ t \in Int /\ u \in Int /\ u = t - 1
        BY <2>1
  <2>3. Times(R, o) /\ Times(D, g) /\ InTurn(N, R, o, D, g, t)
        BY <1>2, <1>5, <2>1
  <2>4. (\A j \in R : p[j] = o[j] - 1) /\ \A i \in D : h[i] = g[i] - 1
        BY <1>6, <1>7
  <2>5. InTurn(M, R, p, D, h, u)
        BY <2>2, <2>3, <2>4, InTurnLater
  <2> QED BY <2>1, <2>5
<1>9. Times(Requests', p) /\ Times(Gates', h)
      BY <1>4, <1>5, <1>6, <1>7 DEF Times
<1>10. \A j \in Requests' : upstream'[j].left - p[j] \in 0 .. Exchange
  <2>1. SUFFICES ASSUME NEW j \in R PROVE upstream'[j].left - p[j] \in 0 .. Exchange
        BY <1>4, <1>5
  <2>2. PICK a, b, c, d : a = upstream[j].left /\ b = upstream'[j].left /\ c = o[j] /\ d = p[j]
        OBVIOUS
  <2>3. a \in Int /\ c \in Int /\ b = a - 1 /\ d = c - 1 /\ a - c \in 0 .. Exchange
        BY <1>2, <1>3, <1>5, <1>6, <2>2
  <2>4. b - d = a - c
        BY <2>3
  <2> QED BY <2>2, <2>3, <2>4
<1>11. \A i \in Gates' : h[i] = downstream'[i].left - Crossing
  <2>1. SUFFICES ASSUME NEW i \in D PROVE h[i] = downstream'[i].left - Crossing
        BY <1>4, <1>5
  <2>2. PICK a, b, c, d : a = downstream[i].left /\ b = downstream'[i].left /\ c = g[i] /\ d = h[i]
        OBVIOUS
  <2>3. a \in Int /\ b = a - 1 /\ d = c - 1 /\ c = a - Crossing
        BY <1>2, <1>3, <1>5, <1>7, <2>2
  <2> QED BY <2>2, <2>3, ReturnNumbers
<1>12. NextWindow' \in Int /\ NextWindow' >= NextWindow' /\ due'["Gate"] \in Int
       OBVIOUS
<1>13. InTurn(NextWindow', Requests', p, Gates', h, due'["Gate"])
       BY <1>4, <1>5, <1>8
<1> QED BY <1>9, <1>10, <1>11, <1>12, <1>13, WindowsFound, ZenonT(30)

(* The GATE that was due goes on the line.                                 *)
LEMMA WindowsAfterGate ==
    ASSUME LinesInTime, LinesInTime', IsLine(downstream), IsLine(upstream), WindowsInTime,
           LinesHaveRoom, NextWindow \in Int, due["Gate"] = 0, due'["Gate"] = GateInterval,
           NextWindow' = NextWindow, upstream' = upstream,
           NEW f, f.kind = "GATE", downstream' = Sent(downstream, f, 0)
    PROVE  WindowsInTime'
<1>1. due["Gate"] \in Int /\ due'["Gate"] \in Int
      BY ReturnNumbers
<1>2. PICK m, n \in Nat : \E o, g :
              /\ DOMAIN upstream = 1 .. m /\ DOMAIN downstream = 1 .. n
              /\ Requests \subseteq 1 .. m /\ Gates \subseteq 1 .. n
              /\ Times(Requests, o) /\ Times(Gates, g)
              /\ InTurn(NextWindow, Requests, o, Gates, g, due["Gate"])
              /\ \A j \in Requests : upstream[j].left - o[j] \in 0 .. Exchange
              /\ \A i \in Gates : g[i] = downstream[i].left - Crossing
      BY <1>1, WindowsAre
<1>3. PICK o, g :
              /\ DOMAIN upstream = 1 .. m /\ DOMAIN downstream = 1 .. n
              /\ Requests \subseteq 1 .. m /\ Gates \subseteq 1 .. n
              /\ Times(Requests, o) /\ Times(Gates, g)
              /\ InTurn(NextWindow, Requests, o, Gates, g, due["Gate"])
              /\ \A j \in Requests : upstream[j].left - o[j] \in 0 .. Exchange
              /\ \A i \in Gates : g[i] = downstream[i].left - Crossing
      BY <1>2
<1>4. PICK k \in Nat, left \in Int :
              /\ DOMAIN downstream = 1 .. k /\ DOMAIN downstream' = 1 .. k + 1
              /\ \A i \in 1 .. k : downstream'[i] = downstream[i]
              /\ downstream'[k + 1].frame = f /\ downstream'[k + 1].left = left
              /\ left >= 0 + Crossing
  <2>1. InOrder(downstream) /\ Len(downstream) < LineDepth /\ 0 \in Int
        BY DEF LinesInTime, LinesHaveRoom
  <2> QED BY <2>1, SentInOrder
<1>5. left = Crossing
  <2>1. k + 1 \in DOMAIN downstream'
        BY <1>4
  <2>2. downstream'[k + 1].left <= Crossing
        BY <2>1, ReturnNumbers DEF LinesInTime
  <2> QED BY <1>4, <2>2, ReturnNumbers
<1>6. Requests' = Requests /\ \A j \in Requests : upstream'[j] = upstream[j]
      BY DEF Requests
<1>7. PICK D, E, h : /\ D = Gates /\ E = Gates'
                     /\ h = [i \in E |-> downstream'[i].left - Crossing]
      OBVIOUS
<1>8. \A i : i \in E <=> i \in D \/ i = k + 1
  <2>1. \A i : i \in E <=> i \in 1 .. k + 1 /\ downstream'[i].frame.kind = "GATE"
        BY <1>4, <1>7 DEF Gates
  <2>2. \A i : i \in D <=> i \in 1 .. k /\ downstream[i].frame.kind = "GATE"
        BY <1>4, <1>7 DEF Gates
  <2>3. \A i : i \in 1 .. k + 1 <=> i \in 1 .. k \/ i = k + 1
        OBVIOUS
  <2> QED BY <1>4, <2>1, <2>2, <2>3
<1>9. D \subseteq 1 .. k /\ k + 1 \in E
      BY <1>3, <1>4, <1>7, <1>8
<1>10. \A i \in D : h[i] = g[i]
      BY <1>3, <1>4, <1>7, <1>8, <1>9
<1>11. h[k + 1] = 0
       BY <1>4, <1>5, <1>7, <1>9, ReturnNumbers
<1>12. InTurn(NextWindow', Requests', o, E, h, due'["Gate"])
  <2>1. PICK N, R, t, u : N = NextWindow /\ R = Requests /\ t = due["Gate"] /\ u = due'["Gate"]
        OBVIOUS
  <2>2. N \in Int /\ t \in Int /\ u \in Int /\ u = t + GateInterval /\ h[k + 1] = t
        BY <1>1, <1>11, <2>1, ReturnNumbers
  <2>3. Times(R, o) /\ Times(D, g) /\ InTurn(N, R, o, D, g, t)
        BY <1>3, <1>7, <2>1
  <2>4. D \subseteq 1 .. k /\ k \in Nat
        BY <1>9
  <2>5. PICK l : l = k + 1
        OBVIOUS
  <2>6. l \in Int /\ l \in E /\ D \subseteq E /\ h[l] = t
        BY <1>8, <2>2, <2>4, <2>5
  <2>7. (\A i \in D : i < l) /\ \A i \in E : i \in D \/ i = l
        BY <1>8, <2>4, <2>5
  <2>8. InTurn(N, R, o, E, h, u)
        BY <1>10, <2>2, <2>3, <2>6, <2>7, InTurnOpened
  <2> QED BY <1>6, <2>1, <2>8
<1>13. \A i \in Gates' : h[i] = downstream'[i].left - Crossing
       BY <1>7
<1>14. Times(Requests', o) /\ Times(Gates', h)
  <2>1. \A i \in E : downstream'[i].left \in Int
        BY <1>7 DEF Gates, LinesInTime, InOrder
  <2>2. Times(E, h)
        BY <1>7, <2>1, ReturnNumbers DEF Times
  <2> QED BY <1>3, <1>6, <1>7, <2>2
<1>15. \A j \in Requests' : upstream'[j].left - o[j] \in 0 .. Exchange
       BY <1>3, <1>6
<1>16. InTurn(NextWindow', Requests', o, Gates', h, due'["Gate"])
       BY <1>7, <1>12
<1>17. NextWindow' \in Int /\ NextWindow' >= NextWindow'
       OBVIOUS
<1> QED BY <1>1, <1>13, <1>14, <1>15, <1>16, <1>17, WindowsFound, ZenonT(30)

(* The responder hears a frame.  A GATE it answers with a request, which   *)
(* lands no later than an exchange after the GATE left.                    *)
LEMMA AnsweredInTime ==
    ASSUME LinesInTime, LinesInTime', IsLine(downstream), IsLine(upstream), LinesHaveRoom,
           Landed(downstream), NEW f, NEW at, at = Head(downstream).left,
           NEW T \in Int, T >= 0, T >= at + RequestDelay, T = 0 \/ T = at + RequestDelay,
           upstream' = Sent(upstream, f, T)
    PROVE  \E m \in Nat :
              /\ DOMAIN upstream = 1 .. m /\ DOMAIN upstream' = 1 .. m + 1
              /\ \A j \in 1 .. m : upstream'[j] = upstream[j]
              /\ upstream'[m + 1].frame = f
              /\ upstream'[m + 1].left - (at - Crossing) \in 0 .. Exchange
<1>1. at \in Int /\ at <= 0 /\ at >= 1 - LongestStep /\ 1 \in DOMAIN downstream /\ at = downstream[1].left
  <2>1. PICK k \in Nat \ {0} :
              /\ Head(downstream) = downstream[1] /\ DOMAIN downstream = 1 .. k
              /\ \A i \in 1 .. k : downstream[i].left \in Int
        BY TakenInOrder DEF LinesInTime, Landed
  <2>2. 1 \in DOMAIN downstream /\ at = downstream[1].left /\ at \in Int /\ at <= 0
        BY <2>1 DEF Landed
  <2>3. at \in 1 - since_poll .. Crossing /\ since_poll \in 0 .. LongestStep
        BY <2>2 DEF LinesInTime
  <2> QED BY <2>2, <2>3, ReturnNumbers
<1>2. PICK m \in Nat, left \in Int :
              /\ DOMAIN upstream = 1 .. m /\ DOMAIN upstream' = 1 .. m + 1
              /\ \A i \in 1 .. m : upstream'[i] = upstream[i]
              /\ upstream'[m + 1].frame = f /\ upstream'[m + 1].left = left
              /\ left >= T + Crossing
              /\ left = T + Crossing \/ (m \in 1 .. m /\ left = upstream[m].left)
  <2>1. InOrder(upstream) /\ Len(upstream) < LineDepth
        BY DEF LinesInTime, LinesHaveRoom
  <2> QED BY <2>1, SentInOrder
<1>3. \/ left = T + Crossing
      \/ left <= Crossing
      \/ left <= Crossing + RequestDelay + at
  <2>1. CASE left = T + Crossing
        BY <2>1
  <2>2. CASE m \in 1 .. m /\ left = upstream[m].left
    <3>1. m \in DOMAIN upstream
          BY <1>2, <2>2
    <3>2. \/ upstream[m].left <= Crossing
          \/ upstream[m].left <= Crossing + RequestDelay + downstream[1].left
          BY <1>1, <3>1 DEF LinesInTime
    <3> QED BY <1>1, <2>2, <3>2
  <2> QED BY <1>2, <2>1, <2>2
<1>4. left - (at - Crossing) \in 0 .. Exchange
  <2>1. PICK a : a = at
        OBVIOUS
  <2>2. a \in Int /\ a <= 0 /\ a >= 1 - LongestStep
        BY <1>1, <2>1
  <2>3. left >= T + Crossing /\ T >= 0 /\ (T = 0 \/ T = a + RequestDelay)
        BY <1>2, <2>1
  <2>4. left = T + Crossing \/ left <= Crossing \/ left <= Crossing + RequestDelay + a
        BY <1>3, <2>1
  <2>5. PICK E : E = Exchange
        OBVIOUS
  <2>6. left - (a - Crossing) >= 0
        BY <2>2, <2>3, ReturnNumbers
  <2>7. left - (a - Crossing) <= 2 * Crossing + RequestDelay + LongestStep - 1
        BY <2>2, <2>3, <2>4, ReturnNumbers
  <2>8. left - (a - Crossing) \in 0 .. E
        BY <2>2, <2>5, <2>6, <2>7, ReturnNumbers
  <2> QED BY <2>1, <2>5, <2>8
<1> QED BY <1>2, <1>4

LEMMA WindowsAfterHear ==
    ASSUME LinesInTime, LinesInTime', IsLine(downstream), IsLine(upstream), LinesHaveRoom,
           WindowsInTime, NextWindow \in Int, due["Gate"] \in Int,
           due'["Gate"] = due["Gate"], NextWindow' = NextWindow,
           Landed(downstream), downstream' = Tail(downstream),
           NEW h, NEW at, h = Head(downstream).frame, at = Head(downstream).left,
           h.kind # "GATE" => upstream' = upstream,
           NEW T \in Int, T >= 0, T >= at + RequestDelay, T = 0 \/ T = at + RequestDelay,
           h.kind = "GATE" => \E f : f.kind = "REQUEST" /\ upstream' = Sent(upstream, f, T)
    PROVE  WindowsInTime'
<1>1. PICK m, n \in Nat : \E o, g :
              /\ DOMAIN upstream = 1 .. m /\ DOMAIN downstream = 1 .. n
              /\ Requests \subseteq 1 .. m /\ Gates \subseteq 1 .. n
              /\ Times(Requests, o) /\ Times(Gates, g)
              /\ InTurn(NextWindow, Requests, o, Gates, g, due["Gate"])
              /\ \A j \in Requests : upstream[j].left - o[j] \in 0 .. Exchange
              /\ \A i \in Gates : g[i] = downstream[i].left - Crossing
      BY WindowsAre
<1>2. PICK o, g :
              /\ DOMAIN upstream = 1 .. m /\ DOMAIN downstream = 1 .. n
              /\ Requests \subseteq 1 .. m /\ Gates \subseteq 1 .. n
              /\ Times(Requests, o) /\ Times(Gates, g)
              /\ InTurn(NextWindow, Requests, o, Gates, g, due["Gate"])
              /\ \A j \in Requests : upstream[j].left - o[j] \in 0 .. Exchange
              /\ \A i \in Gates : g[i] = downstream[i].left - Crossing
      BY <1>1
<1>3. PICK k \in Nat \ {0} :
              /\ Head(downstream) = downstream[1]
              /\ DOMAIN downstream = 1 .. k /\ DOMAIN downstream' = 1 .. k - 1
              /\ \A i \in 1 .. k - 1 : downstream'[i] = downstream[i + 1]
              /\ \A i \in 1 .. k : downstream[i].left \in Int
      BY TakenInOrder DEF LinesInTime, Landed
<1>4. PICK D, E, e : D = Gates /\ E = Gates' /\ e = [i \in E |-> g[i + 1]]
      OBVIOUS
<1>5. D \subseteq 1 .. k
      BY <1>3, <1>4 DEF Gates
<1>6. \A i : i \in E <=> i \in 1 .. k - 1 /\ i + 1 \in D
  <2>1. \A i \in 1 .. k - 1 : i + 1 \in 1 .. k /\ downstream'[i] = downstream[i + 1]
        BY <1>3
  <2>2. \A i : i \in E <=> i \in 1 .. k - 1 /\ downstream'[i].frame.kind = "GATE"
        BY <1>3, <1>4 DEF Gates
  <2>3. \A i \in 1 .. k - 1 : i + 1 \in D <=> downstream[i + 1].frame.kind = "GATE"
        BY <1>3, <1>4, <2>1 DEF Gates
  <2>4. \A i \in 1 .. k - 1 : downstream'[i].frame.kind = downstream[i + 1].frame.kind
        BY <2>1
  <2> QED BY <2>2, <2>3, <2>4, Zenon
<1>7. 1 \in D <=> h.kind = "GATE"
      BY <1>3, <1>4 DEF Gates
<1>8. PICK R, S, p, l : /\ R = Requests /\ S = Requests' /\ l = m + 1
                        /\ p = [j \in S |-> IF j \in R THEN o[j] ELSE g[1]]
      OBVIOUS
<1>9. /\ R \subseteq S /\ \A j \in S : j \in R \/ (1 \in D /\ j = l)
      /\ \A j \in R : upstream'[j] = upstream[j]
      /\ 1 \in D => l \in S /\ upstream'[l].left - (at - Crossing) \in 0 .. Exchange
  <2>1. CASE h.kind # "GATE"
    <3>1. S = R /\ upstream' = upstream
          BY <1>8, <2>1 DEF Requests
    <3> QED BY <1>7, <2>1, <3>1
  <2>2. CASE h.kind = "GATE"
    <3>1. PICK f : f.kind = "REQUEST" /\ upstream' = Sent(upstream, f, T)
          BY <2>2
    <3>2. PICK mm \in Nat :
              /\ DOMAIN upstream = 1 .. mm /\ DOMAIN upstream' = 1 .. mm + 1
              /\ \A j \in 1 .. mm : upstream'[j] = upstream[j]
              /\ upstream'[mm + 1].frame = f
              /\ upstream'[mm + 1].left - (at - Crossing) \in 0 .. Exchange
          BY <3>1, AnsweredInTime
    <3>3. mm = m
      <4>1. \A x, y \in Nat : 1 .. x = 1 .. y => x = y
        <5>1. SUFFICES ASSUME NEW x \in Nat, NEW y \in Nat, 1 .. x = 1 .. y PROVE x = y
              OBVIOUS
        <5>2. x \in 1 .. y \/ x = 0
              BY <5>1
        <5>3. y \in 1 .. x \/ y = 0
              BY <5>1
        <5> QED BY <5>2, <5>3
      <4> QED BY <1>2, <3>2, <4>1
    <3>4. \A j : j \in S <=> j \in 1 .. m + 1 /\ upstream'[j].frame.kind = "REQUEST"
          BY <1>8, <3>2, <3>3 DEF Requests
    <3>5. \A j : j \in R <=> j \in 1 .. m /\ upstream[j].frame.kind = "REQUEST"
          BY <1>2, <1>8 DEF Requests
    <3>6. \A j : j \in 1 .. m + 1 <=> j \in 1 .. m \/ j = l
          BY <1>8
    <3>7. l \in S /\ upstream'[l].left - (at - Crossing) \in 0 .. Exchange
          BY <1>8, <3>1, <3>2, <3>3, <3>4, <3>6
    <3> QED BY <1>7, <2>2, <3>2, <3>3, <3>4, <3>5, <3>6, <3>7
  <2> QED BY <2>1, <2>2
<1>10. \A j \in R : j < l /\ j # l /\ p[j] = o[j] /\ o[j] \in Int
      BY <1>2, <1>8, <1>9 DEF Times
<1>11. 1 \in D => p[l] = g[1] /\ g[1] = at - Crossing /\ g[1] \in Int
  <2>1. HAVE 1 \in D
  <2>2. l \in S /\ l \notin R
        BY <1>9, <1>10, <2>1
  <2> QED BY <1>2, <1>3, <1>4, <1>8, <2>1, <2>2 DEF Times
<1>12. \A i \in E : e[i] = g[i + 1] /\ i + 1 \in D
       BY <1>4, <1>6
<1>13. InTurn(NextWindow', S, p, E, e, due'["Gate"])
  <2>1. PICK N, t : N = NextWindow /\ t = due["Gate"]
        OBVIOUS
  <2>2. N \in Int /\ t \in Int /\ k \in Nat
        BY <2>1
  <2>3. l \in Int
        BY <1>8
  <2>4. Times(R, o) /\ Times(D, g) /\ InTurn(N, R, o, D, g, t)
        BY <1>2, <1>4, <1>8, <2>1
  <2>5. (\A j \in R : j < l /\ p[j] = o[j]) /\ (1 \in D => l \in S /\ p[l] = g[1])
        BY <1>9, <1>10, <1>11
  <2>6. D \subseteq Nat \ {0} /\ \A i \in D : i # 1 => i - 1 \in E
        BY <1>5, <1>6
  <2>7. \A i \in E : i \in Nat /\ i + 1 \in D /\ e[i] = g[i + 1]
        BY <1>6, <1>12
  <2>8. Answered(R, o, S, p, l, D, g, E, e)
        BY <1>9, <2>5, <2>6, <2>7 DEF Answered
  <2>9. InTurn(N, S, p, E, e, t)
        BY <2>2, <2>3, <2>4, <2>8, InTurnAnswered
  <2> QED BY <2>1, <2>9
<1>14. Times(S, p) /\ Times(E, e)
  <2>1. \A j \in S : p[j] \in Int
        BY <1>9, <1>10, <1>11
  <2>2. \A i \in E : e[i] \in Int
        BY <1>2, <1>4, <1>12 DEF Times
  <2> QED BY <2>1, <2>2 DEF Times
<1>15. \A j \in S : upstream'[j].left - p[j] \in 0 .. Exchange
  <2>1. ASSUME NEW j \in R PROVE upstream'[j].left - p[j] \in 0 .. Exchange
        BY <1>2, <1>8, <1>9, <1>10
  <2>2. 1 \in D => upstream'[l].left - p[l] \in 0 .. Exchange
        BY <1>9, <1>11
  <2> QED BY <1>9, <2>1, <2>2
<1>16. \A i \in E : e[i] = downstream'[i].left - Crossing
  <2>1. SUFFICES ASSUME NEW i \in E PROVE e[i] = downstream'[i].left - Crossing
        OBVIOUS
  <2>2. i \in 1 .. k - 1 /\ i + 1 \in D /\ e[i] = g[i + 1] /\ downstream'[i] = downstream[i + 1]
        BY <1>3, <1>6, <1>12
  <2> QED BY <1>2, <1>4, <2>2
<1>17. Times(Requests', p) /\ Times(Gates', e)
       BY <1>4, <1>8, <1>14
<1>18. InTurn(NextWindow', Requests', p, Gates', e, due'["Gate"])
       BY <1>4, <1>8, <1>13
<1>19. \A j \in Requests' : upstream'[j].left - p[j] \in 0 .. Exchange
       BY <1>8, <1>15
<1>20. \A i \in Gates' : e[i] = downstream'[i].left - Crossing
       BY <1>4, <1>16
<1>21. NextWindow' \in Int /\ NextWindow' >= NextWindow' /\ due'["Gate"] \in Int
       OBVIOUS
<1> QED BY <1>17, <1>18, <1>19, <1>20, <1>21, WindowsFound, ZenonT(30)

(* The next window follows from the silence, the count and the wait.       *)
LEMMA NextWindowStays ==
    ASSUME settling' = settling, register_requests_seen' = register_requests_seen,
           unregistered' = unregistered, due'["Rediscovery"] = due["Rediscovery"]
    PROVE  NextWindow' = NextWindow
BY DEF NextWindow

(* A step that leaves the responder's wait and what the peer counts.       *)
LEMMA ReturnKept ==
    ASSUME ReturnInTime,
           UNCHANGED <<register_requests_seen, settling, link_up, unregistered>>,
           onu'.llid = onu.llid, mpcp_state' = mpcp_state \/ mpcp_state' \in {"WaitAck", "Registered"},
           link_up => due'["Gate"] \in 0 .. GateInterval,
           due'["Rediscovery"] = due["Rediscovery"],
           mpcp_state = "Discovery" /\ mpcp_state' = "Discovery" =>
              due'["RegisterResponse"] = due["RegisterResponse"],
           FromOld(downstream, downstream', "REGISTER"),
           FromOld(downstream, downstream', "DEREGISTER"),
           Unserved /\ mpcp_state = "Idle" /\ mpcp_state' = "Idle" => WindowsInTime'
    PROVE  ReturnInTime'
<1>1. /\ mpcp_state' = "Idle" => mpcp_state = "Idle"
      /\ mpcp_state' = "Discovery" => mpcp_state = "Discovery"
      OBVIOUS
<1>2. PeerIsTimed'
      BY <1>1 DEF ReturnInTime, PeerIsTimed
<1>3. Unserved' <=> Unserved
      BY DEF Unserved
<1>4. Unserved' /\ mpcp_state' = "Idle" => WindowsInTime'
      BY <1>1, <1>3
<1>5. unregistered' \in Nat /\ (~Unserved' => unregistered' = 0)
      BY <1>3 DEF ReturnInTime
<1>6. ASSUME NEW i \in DOMAIN downstream', downstream'[i].frame.kind = "DEREGISTER", settling'
      PROVE  due'["Rediscovery"] <= RediscoveryDelay - Crossing + downstream'[i].left
  <2>1. PICK j \in DOMAIN downstream : downstream'[i] = downstream[j]
        BY <1>6 DEF FromOld
  <2>2. due["Rediscovery"] <= RediscoveryDelay - Crossing + downstream[j].left
        BY <1>6, <2>1 DEF ReturnInTime
  <2> QED BY <2>1, <2>2
<1>7. ASSUME NEW i \in DOMAIN downstream', downstream'[i].frame.kind = "REGISTER"
      PROVE  unregistered' + downstream'[i].left <= Accepting + ProcessingDelay + Crossing
  <2>1. PICK j \in DOMAIN downstream : downstream'[i] = downstream[j]
        BY <1>7 DEF FromOld
  <2>2. unregistered + downstream[j].left <= Accepting + ProcessingDelay + Crossing
        BY <1>7, <2>1 DEF ReturnInTime
  <2> QED BY <2>1, <2>2
<1>8. mpcp_state' = "Discovery" =>
           unregistered' + due'["RegisterResponse"] <= Accepting + ProcessingDelay
      BY <1>1 DEF ReturnInTime
<1>9. Unserved' /\ mpcp_state' = "Idle" /\ settling' =>
          unregistered' + due'["Rediscovery"] <= RediscoveryDelay - Crossing
      BY <1>1, <1>3 DEF ReturnInTime
<1>10. Accepting' = Accepting
       BY DEF Accepting, Exchange
<1> QED BY <1>2, <1>4, <1>5, <1>6, <1>7, <1>8, <1>9, <1>10 DEF ReturnInTime

(* What has landed at the peer landed just now.                            *)
LEMMA LandedNow ==
    ASSUME AgreeInv, LinesInTime, LinesHaveRoom, Land
    PROVE  /\ upstream # <<>> /\ upstream' = Tail(upstream) /\ downstream' = downstream
           /\ IsLine(upstream) /\ IsLine(downstream)
           /\ 1 \in DOMAIN upstream /\ Head(upstream) = upstream[1] /\ upstream[1].left = 0
           /\ UNCHANGED <<onu, unregistered>> /\ NothingDue
<1>1. /\ upstream # <<>> /\ upstream' = Tail(upstream) /\ UNCHANGED <<onu, unregistered>>
      /\ IsLine(upstream) /\ IsLine(downstream) /\ InOrder(upstream) /\ Head(upstream).left <= 0
      BY DEF Land, Landed, ends, clocks, AgreeInv, LinkShape, LinesInTime
<1>2. emitted' = <<>> /\ NothingDue
      BY DEF Land, on_register_req_refused, on_register_req, on_register_ack, on_oam
<1>3. downstream' = downstream
      BY <1>1, <1>2, CarriedDown DEF Land
<1>4. PICK n \in Nat \ {0} : Head(upstream) = upstream[1] /\ DOMAIN upstream = 1 .. n
      BY <1>1, TakenInOrder
<1>5. 1 \in DOMAIN upstream /\ upstream[1].left \in 0 .. Crossing + RequestDelay
      BY <1>4 DEF LinesInTime
<1>6. upstream[1].left = 0
      BY <1>1, <1>4, <1>5, ReturnNumbers
<1> QED BY <1>1, <1>2, <1>3, <1>4, <1>5, <1>6

(* An acknowledgement or an OAMPDU that lands does not end or begin a wait.*)
LEMMA OtherLandReturns ==
    ASSUME AgreeInv, LinesInTime, LinesInTime', LinesHaveRoom, ExchangeInTime, ReturnInTime, Land,
           Head(upstream).frame.kind # "REQUEST"
    PROVE  ReturnInTime'
<1>1. /\ upstream # <<>> /\ upstream' = Tail(upstream) /\ downstream' = downstream
      /\ IsLine(upstream) /\ IsLine(downstream) /\ Head(upstream).left <= 0
      /\ UNCHANGED <<onu, unregistered>>
      BY LandedNow
<1>2. PICK h : h = Head(upstream).frame
      OBVIOUS
<1>3. DOMAIN due = Timer
      BY DEF AgreeInv, LinkShape
<1>4. /\ UNCHANGED <<register_requests_seen, settling, link_up>>
      /\ mpcp_state' = mpcp_state \/ mpcp_state' = "Registered"
      /\ due'["Gate"] = due["Gate"] /\ due'["Rediscovery"] = due["Rediscovery"]
      /\ due'["RegisterResponse"] = due["RegisterResponse"]
  <2>1. CASE h.kind = "INFO"
    <3>1. on_oam(TRUE, h.flags)
          BY <1>2, <2>1 DEF Land
    <3> QED BY <1>3, <3>1 DEF on_oam, on_discovery_entered, protocol, Timer
  <2>2. CASE h.kind = "ACK"
    <3>1. on_register_ack(TRUE, h.llid, TRUE)
          BY <1>2, <2>2 DEF Land
    <3> QED BY <1>3, <3>1 DEF on_register_ack, Timer
  <2> QED BY <1>2, <2>1, <2>2 DEF Land
<1>5. FromOld(downstream, downstream', "REGISTER") /\ FromOld(downstream, downstream', "DEREGISTER")
      BY <1>1, OldFrames
<1>6. ASSUME Unserved, mpcp_state = "Idle" PROVE WindowsInTime'
  <2>1. WindowsInTime /\ NextWindow \in Int /\ due["Gate"] \in Int
        BY <1>6, NextWindowIs, ReturnNumbers DEF ReturnInTime, Unserved, PeerIsTimed
  <2>2. NextWindow' = NextWindow
        BY <1>1, <1>4, NextWindowStays
  <2>3. NextWindow' \in Int /\ NextWindow' >= NextWindow
        BY <2>1, <2>2
  <2> QED BY <1>1, <1>4, <2>1, <2>3, WindowsAfterLand
<1>7. link_up => due'["Gate"] \in 0 .. GateInterval
      BY <1>4 DEF ReturnInTime, PeerIsTimed
<1> QED BY <1>1, <1>4, <1>5, <1>6, <1>7, ReturnKept

(* A request that lands is an exchange late at most, and of the first      *)
(* window.                                                                 *)
LEMMA FirstRequestInTime ==
    ASSUME LinesInTime, IsLine(downstream), IsLine(upstream), WindowsInTime,
           NextWindow \in Int, 1 \in DOMAIN upstream, upstream[1].frame.kind = "REQUEST",
           upstream[1].left = 0
    PROVE  0 - Exchange <= NextWindow
<1>1. PICK m, n \in Nat : \E o, g :
              /\ DOMAIN upstream = 1 .. m /\ DOMAIN downstream = 1 .. n
              /\ Requests \subseteq 1 .. m /\ Gates \subseteq 1 .. n
              /\ Times(Requests, o) /\ Times(Gates, g)
              /\ InTurn(NextWindow, Requests, o, Gates, g, due["Gate"])
              /\ \A j \in Requests : upstream[j].left - o[j] \in 0 .. Exchange
              /\ \A i \in Gates : g[i] = downstream[i].left - Crossing
      BY WindowsAre
<1>2. PICK o, g :
              /\ DOMAIN upstream = 1 .. m /\ DOMAIN downstream = 1 .. n
              /\ Requests \subseteq 1 .. m /\ Gates \subseteq 1 .. n
              /\ Times(Requests, o) /\ Times(Gates, g)
              /\ InTurn(NextWindow, Requests, o, Gates, g, due["Gate"])
              /\ \A j \in Requests : upstream[j].left - o[j] \in 0 .. Exchange
              /\ \A i \in Gates : g[i] = downstream[i].left - Crossing
      BY <1>1
<1>3. 1 \in Requests
      BY DEF Requests
<1>4. \A j \in 1 .. m : ~(j < 1)
      OBVIOUS
<1>5. o[1] <= NextWindow
      BY <1>2, <1>3, <1>4 DEF InTurn
<1>6. PICK a : a = o[1]
      OBVIOUS
<1>7. a \in Int /\ 0 - a \in 0 .. Exchange
      BY <1>2, <1>3, <1>6 DEF Times
<1>8. 0 - Exchange <= a
      BY <1>7, ReturnNumbers
<1> QED BY <1>5, <1>6, <1>7, <1>8, ReturnNumbers

(* A request that lands is passed over and counted, or accepted.           *)
LEMMA RequestLandReturns ==
    ASSUME AgreeInv, LinesInTime, LinesInTime', LinesHaveRoom, ExchangeInTime, ReturnInTime, Land,
           Head(upstream).frame.kind = "REQUEST"
    PROVE  ReturnInTime'
<1>1. /\ upstream # <<>> /\ upstream' = Tail(upstream) /\ downstream' = downstream
      /\ IsLine(upstream) /\ IsLine(downstream)
      /\ 1 \in DOMAIN upstream /\ upstream[1].frame.kind = "REQUEST" /\ upstream[1].left = 0
      /\ Head(upstream).left <= 0 /\ UNCHANGED <<onu, unregistered>>
      BY LandedNow
<1>2. /\ ~Free(upstream, {"REQUEST"}) /\ ~Free(upstream, {"ACK", "REQUEST"})
      BY <1>1 DEF Free
<1>3. link_up /\ (mpcp_state = "Idle" => onu.llid = NoLlid)
      BY <1>2 DEF AgreeInv, DarkLineIsQuiet, Asking, Granting, Acknowledging, Serving, Leaving, Stranded
<1>4. PICK src \in Onu : on_register_req_refused(src) \/ on_register_req(src)
      BY DEF Land
<1>5. FromOld(downstream, downstream', "REGISTER") /\ FromOld(downstream, downstream', "DEREGISTER")
      BY <1>1, OldFrames
<1>6. /\ link_up' = link_up /\ DOMAIN due = Timer /\ due["Gate"] \in 0 .. GateInterval
      /\ due["Gate"] \in Int
      /\ PeerIsTimed /\ unregistered \in Nat /\ register_requests_seen \in Nat
      /\ NextWindow \in Int
  <2>1. link_up' = link_up /\ DOMAIN due = Timer
        BY <1>4 DEF AgreeInv, LinkShape, on_register_req_refused, on_register_req
  <2>2. PeerIsTimed /\ unregistered \in Nat
        BY DEF ReturnInTime
  <2>3. due["Gate"] \in 0 .. GateInterval /\ register_requests_seen \in Nat
        BY <1>3, <2>2 DEF PeerIsTimed
  <2> QED BY <2>1, <2>2, <2>3, NextWindowIs, ReturnNumbers
<1>7. ASSUME mpcp_state = "Idle" PROVE WindowsInTime
      BY <1>3, <1>7 DEF ReturnInTime, Unserved
<1>8. CASE on_register_req_refused(src)
  <2>1. /\ UNCHANGED <<register_requests_seen, settling, mpcp_state, due>>
        /\ settling \/ mpcp_state # "Idle"
        BY <1>8 DEF on_register_req_refused, protocol
  <2>2. NextWindow' = NextWindow
        BY <1>1, <2>1, NextWindowStays
  <2>3. ASSUME mpcp_state = "Idle" PROVE WindowsInTime'
    <3>1. settling /\ NextWindow >= GateInterval
          BY <1>6, <2>1, <2>3, NextWindowIs, ReturnNumbers
    <3>2. NextWindow' \in Int /\ NextWindow' >= NextWindow /\ NextWindow' >= GateInterval
          BY <1>6, <2>2, <3>1
    <3>3. due'["Gate"] = due["Gate"]
          BY <2>1
    <3> QED BY <1>1, <1>6, <1>7, <2>3, <3>2, <3>3, WindowsAfterLand
  <2>4. link_up => due'["Gate"] \in 0 .. GateInterval
        BY <1>6, <2>1
  <2> QED BY <1>1, <1>5, <1>6, <2>1, <2>3, <2>4, ReturnKept
<1>9. CASE on_register_req(src)
  <2>1. /\ ~settling /\ mpcp_state = "Idle" /\ settling' = settling
        /\ register_requests_seen' = register_requests_seen + 1
        BY <1>9 DEF on_register_req
  <2>2. PICK s, K : s = register_requests_seen /\ K = IgnoredRegisterRequests
        OBVIOUS
  <2>3. s \in Nat /\ K \in Nat /\ s <= K /\ register_requests_seen' = s + 1
        BY <1>6, <2>1, <2>2, ReturnNumbers DEF PeerIsTimed
  <2>4. due["Rediscovery"] = Off
        BY <1>6, <2>1 DEF PeerIsTimed
  <2>5. NextWindow = RediscoveryDelay - Crossing + (s + 1) * GateInterval - unregistered
        BY <1>6, <2>1, <2>2, NextWindowIs
  <2>6. CASE s + 1 <= K
    <3>1. due' = due /\ mpcp_state' = mpcp_state
          BY <1>9, <2>2, <2>3, <2>6 DEF on_register_req
    <3>2. NextWindow' = NextWindow + GateInterval
      <4>1. NextWindow' = RediscoveryDelay - Crossing + (s + 1 + 1) * GateInterval - unregistered
            BY <1>1, <2>1, <2>3 DEF NextWindow
      <4>2. s + 1 + 1 = s + 2
            BY <2>3
      <4>3. PICK p, q : p = (s + 1) * GateInterval /\ q = (s + 2) * GateInterval
            OBVIOUS
      <4>4. p \in Nat /\ q = p + GateInterval
            BY <2>3, <4>3, WindowsPassed
      <4>5. NextWindow' = RediscoveryDelay - Crossing + q - unregistered
            BY <4>1, <4>2, <4>3
      <4>6. NextWindow = RediscoveryDelay - Crossing + p - unregistered
            BY <2>5, <4>3
      <4> QED BY <1>6, <4>4, <4>5, <4>6, ReturnNumbers
    <3>3. /\ NextWindow' \in Int /\ NextWindow' >= NextWindow
          /\ NextWindow' >= NextWindow + GateInterval
          BY <1>6, <3>2, ReturnNumbers
    <3>4. due'["Gate"] = due["Gate"]
          BY <3>1
    <3>5. WindowsInTime'
          BY <1>1, <1>6, <1>7, <2>1, <3>3, <3>4, WindowsAfterLand
    <3>6. PeerIsTimed'
          BY <1>1, <1>3, <1>6, <2>1, <2>2, <2>3, <2>6, <3>1 DEF PeerIsTimed
    <3>7. Unserved /\ Unserved'
          BY <1>1, <1>3, <1>6, <2>1 DEF Unserved
    <3>8. unregistered' \in Nat /\ (~Unserved' => unregistered' = 0)
          BY <1>1, <1>6, <3>7
    <3> QED BY <1>1, <2>1, <3>1, <3>5, <3>6, <3>8 DEF ReturnInTime, Accepting, Exchange
  <2>7. CASE ~(s + 1 <= K)
    <3>1. due' = [due EXCEPT !["RegisterResponse"] = ProcessingDelay] /\ mpcp_state' = "Discovery"
          BY <1>9, <2>2, <2>3, <2>7 DEF on_register_req
    <3>2. /\ due'["Gate"] = due["Gate"] /\ due'["Rediscovery"] = due["Rediscovery"]
          /\ due'["RegisterResponse"] = ProcessingDelay
          BY <1>6, <3>1 DEF Timer
    <3>3. s = K
          BY <2>3, <2>7
    <3>4. unregistered <= Accepting
      <4>1. 0 - Exchange <= NextWindow
            BY <1>1, <1>6, <1>7, <2>1, FirstRequestInTime
      <4>2. PICK p : p = (K + 1) * GateInterval
            OBVIOUS
      <4>3. p \in Nat
            BY <2>3, <4>2, WindowsPassed
      <4>4. 0 - Exchange <= RediscoveryDelay - Crossing + p - unregistered
            BY <2>5, <3>3, <4>1, <4>2
      <4>5. Accepting = RediscoveryDelay - Crossing + p + Exchange
            BY <2>2, <4>2 DEF Accepting
      <4> QED BY <1>6, <4>3, <4>4, <4>5, ReturnNumbers
    <3>5. Accepting \in Int
      <4>1. (IgnoredRegisterRequests + 1) * GateInterval \in Nat
            BY ReturnNumbers, WindowsPassed
      <4> QED BY <4>1, ReturnNumbers DEF Accepting
    <3>6. unregistered' + due'["RegisterResponse"] <= Accepting + ProcessingDelay
          BY <1>1, <1>6, <3>2, <3>4, <3>5, ReturnNumbers
    <3>7. PeerIsTimed'
          BY <1>3, <1>6, <2>1, <2>3, <3>1, <3>2, ReturnNumbers DEF PeerIsTimed
    <3>8. Unserved /\ Unserved'
          BY <1>1, <1>3, <1>6, <2>1 DEF Unserved
    <3>9. unregistered' \in Nat /\ (~Unserved' => unregistered' = 0)
          BY <1>1, <1>6, <3>8
    <3>10. Accepting' = Accepting
           BY DEF Accepting, Exchange
    <3> QED BY <1>1, <2>1, <3>1, <3>2, <3>6, <3>7, <3>9, <3>10 DEF ReturnInTime
  <2> QED BY <2>6, <2>7
<1> QED BY <1>4, <1>8, <1>9

(* What the peer sends is a crossing away.                                 *)
LEMMA SentDown ==
    ASSUME LinesInTime, LinesInTime', IsLine(downstream), LinesHaveRoom,
           NEW f, downstream' = Sent(downstream, f, 0)
    PROVE  \A i \in DOMAIN downstream' :
              \/ \E j \in DOMAIN downstream : downstream'[i] = downstream[j]
              \/ downstream'[i].frame = f /\ downstream'[i].left = Crossing
<1>1. PICK k \in Nat, left \in Int :
              /\ DOMAIN downstream = 1 .. k /\ DOMAIN downstream' = 1 .. k + 1
              /\ \A i \in 1 .. k : downstream'[i] = downstream[i]
              /\ downstream'[k + 1].frame = f /\ downstream'[k + 1].left = left
              /\ left >= 0 + Crossing
  <2>1. InOrder(downstream) /\ Len(downstream) < LineDepth /\ 0 \in Int
        BY DEF LinesInTime, LinesHaveRoom
  <2> QED BY <2>1, SentInOrder
<1>2. left = Crossing
  <2>1. k + 1 \in DOMAIN downstream'
        BY <1>1
  <2>2. downstream'[k + 1].left <= Crossing
        BY <2>1, ReturnNumbers DEF LinesInTime
  <2> QED BY <1>1, <2>2, ReturnNumbers
<1>3. ASSUME NEW i \in 1 .. k + 1
      PROVE  \/ \E j \in DOMAIN downstream : downstream'[i] = downstream[j]
             \/ downstream'[i].frame = f /\ downstream'[i].left = Crossing
  <2>1. CASE i \in 1 .. k
        BY <1>1, <2>1
  <2>2. CASE i = k + 1
        BY <1>1, <1>2, <2>2
  <2> QED BY <2>1, <2>2
<1> QED BY <1>1, <1>3

(* The peer's events that have to do with neither a window nor the         *)
(* registration.                                                           *)
LEMMA QuietFireReturns ==
    ASSUME AgreeInv, LinesInTime, LinesInTime', LinesHaveRoom, ReturnInTime, CarryDown,
           UNCHANGED <<upstream, onu, unregistered, link_up, register_requests_seen, settling,
                       mpcp_state>>,
           due'["Gate"] = due["Gate"], due'["Rediscovery"] = due["Rediscovery"],
           mpcp_state = "Discovery" => due'["RegisterResponse"] = due["RegisterResponse"],
           \/ emitted' = <<>>
           \/ \E f : emitted' = <<f>> /\ f.kind \notin {"GATE", "REGISTER", "DEREGISTER"}
    PROVE  ReturnInTime'
<1>1. IsLine(downstream) /\ IsLine(upstream) /\ Len(downstream) < LineDepth
      BY DEF AgreeInv, LinkShape, LinesHaveRoom
<1>2. /\ FromOld(downstream, downstream', "REGISTER") /\ FromOld(downstream, downstream', "DEREGISTER")
      /\ OfKind(downstream', "GATE") = OfKind(downstream, "GATE")
      /\ \A i \in OfKind(downstream, "GATE") : downstream'[i] = downstream[i]
  <2>1. CASE emitted' = <<>>
    <3>1. downstream' = downstream
          BY <1>1, <2>1, CarriedDown
    <3> QED BY <1>1, <3>1, OldFrames
  <2>2. ASSUME NEW f, emitted' = <<f>>, f.kind \notin {"GATE", "REGISTER", "DEREGISTER"}
        PROVE  /\ FromOld(downstream, downstream', "REGISTER")
               /\ FromOld(downstream, downstream', "DEREGISTER")
               /\ OfKind(downstream', "GATE") = OfKind(downstream, "GATE")
               /\ \A i \in OfKind(downstream, "GATE") : downstream'[i] = downstream[i]
    <3>1. PICK g : g.kind = f.kind /\ downstream' = Sent(downstream, g, 0)
          BY <1>1, <2>2, CarriedDown
    <3>2. g.kind # "GATE" /\ g.kind # "REGISTER" /\ g.kind # "DEREGISTER"
          BY <2>2, <3>1
    <3>3. FromOld(downstream, downstream', "REGISTER") /\ FromOld(downstream, downstream', "DEREGISTER")
          BY <1>1, <3>1, <3>2, OldFrames
    <3>4. /\ OfKind(downstream', "GATE") = OfKind(downstream, "GATE")
          /\ \A i \in OfKind(downstream, "GATE") : downstream'[i] = downstream[i]
          BY <1>1, <3>1, <3>2, OthersStay
    <3> QED BY <3>3, <3>4
  <2> QED BY <2>1, <2>2
<1>3. Gates' = Gates /\ \A i \in Gates : downstream'[i] = downstream[i]
      BY <1>2 DEF Gates, OfKind
<1>4. ASSUME Unserved, mpcp_state = "Idle" PROVE WindowsInTime'
  <2>1. WindowsInTime /\ NextWindow \in Int /\ due["Gate"] \in Int
        BY <1>4, NextWindowIs, ReturnNumbers DEF ReturnInTime, Unserved, PeerIsTimed
  <2>2. NextWindow' = NextWindow
        BY NextWindowStays
  <2>3. NextWindow' \in Int /\ NextWindow' >= NextWindow
        BY <2>1, <2>2
  <2>4. Requests' = Requests /\ \A j \in Requests : upstream'[j] = upstream[j]
        BY DEF Requests
  <2> QED BY <1>1, <1>3, <2>1, <2>3, <2>4, WindowsKept
<1>5. link_up => due'["Gate"] \in 0 .. GateInterval
      BY DEF ReturnInTime, PeerIsTimed
<1> QED BY <1>2, <1>4, <1>5, ReturnKept

(* The window GATE is sent and the next one is due an interval later.      *)
LEMMA GateReturns ==
    ASSUME AgreeInv, LinesInTime, LinesInTime', LinesHaveRoom, ReturnInTime, FireEvent, FireGate
    PROVE  ReturnInTime'
<1>1. /\ IsLine(downstream) /\ IsLine(upstream) /\ Len(downstream) < LineDepth /\ DOMAIN due = Timer
      BY DEF AgreeInv, LinkShape, LinesHaveRoom
<1>2. /\ CarryDown /\ UNCHANGED <<upstream, onu, unregistered>>
      BY DEF FireEvent, ends, clocks
<1>3. /\ due["Gate"] = 0 /\ due'["Gate"] = GateInterval /\ due'["Rediscovery"] = due["Rediscovery"]
      /\ due'["RegisterResponse"] = due["RegisterResponse"]
      /\ emitted' = <<Frame("GATE")>> /\ Frame("GATE").kind = "GATE"
      /\ UNCHANGED <<link_up, register_requests_seen, settling, mpcp_state>>
      BY <1>1 DEF FireGate, Frame, protocol, Timer
<1>4. PICK g : g.kind = "GATE" /\ downstream' = Sent(downstream, g, 0)
      BY <1>1, <1>2, <1>3, CarriedDown
<1>5. FromOld(downstream, downstream', "REGISTER") /\ FromOld(downstream, downstream', "DEREGISTER")
  <2>1. g.kind # "REGISTER" /\ g.kind # "DEREGISTER"
        BY <1>4
  <2> QED BY <1>1, <1>4, <2>1, OldFrames
<1>6. ASSUME Unserved, mpcp_state = "Idle" PROVE WindowsInTime'
  <2>1. WindowsInTime /\ NextWindow \in Int
        BY <1>6, NextWindowIs DEF ReturnInTime, Unserved
  <2>2. NextWindow' = NextWindow
        BY <1>2, <1>3, NextWindowStays
  <2> QED BY <1>1, <1>2, <1>3, <1>4, <2>1, <2>2, WindowsAfterGate
<1>7. due'["Gate"] \in 0 .. GateInterval
      BY <1>3, ReturnNumbers
<1> QED BY <1>2, <1>3, <1>5, <1>6, <1>7, ReturnKept

(* A request is accepted no earlier than an exchange after the silence.    *)
LEMMA AcceptingIs == Accepting \in Int /\ Accepting >= 0 /\ Accepting >= Exchange
<1>1. (IgnoredRegisterRequests + 1) * GateInterval \in Nat
      BY ReturnNumbers, WindowsPassed
<1> QED BY <1>1, ReturnNumbers DEF Accepting

(* The answer to a request is sent when the processing delay is over.      *)
LEMMA AnswerReturns ==
    ASSUME AgreeInv, LinesInTime, LinesInTime', LinesHaveRoom, ReturnInTime, FireEvent,
           FireRegisterResponse, mpcp_state = "Discovery", ~settling
    PROVE  ReturnInTime'
<1>1. /\ IsLine(downstream) /\ IsLine(upstream) /\ Len(downstream) < LineDepth /\ DOMAIN due = Timer
      BY DEF AgreeInv, LinkShape, LinesHaveRoom
<1>2. /\ CarryDown /\ UNCHANGED <<upstream, onu, unregistered>>
      BY DEF FireEvent, ends, clocks
<1>3. /\ due["RegisterResponse"] = 0
      /\ due'["Gate"] = due["Gate"] /\ due'["Rediscovery"] = due["Rediscovery"]
      /\ emitted' = <<Register("REGISTER")>> /\ Register("REGISTER").kind = "REGISTER"
      /\ mpcp_state' = "WaitAck" /\ UNCHANGED <<link_up, register_requests_seen, settling>>
      BY <1>1 DEF FireRegisterResponse, Register, Timer
<1>4. PICK g : g.kind = "REGISTER" /\ downstream' = Sent(downstream, g, 0)
      BY <1>1, <1>2, <1>3, CarriedDown
<1>5. PeerIsTimed'
      BY <1>2, <1>3 DEF ReturnInTime, PeerIsTimed
<1>6. unregistered' \in Nat /\ (~Unserved' => unregistered' = 0)
      BY <1>2, <1>3 DEF ReturnInTime, Unserved
<1>7. unregistered \in Nat /\ unregistered <= Accepting + ProcessingDelay
      BY <1>3, AcceptingIs, ReturnNumbers DEF ReturnInTime
<1>8. ASSUME NEW i \in DOMAIN downstream', downstream'[i].frame.kind = "REGISTER"
      PROVE  unregistered' + downstream'[i].left <= Accepting + ProcessingDelay + Crossing
  <2>1. CASE \E j \in DOMAIN downstream : downstream'[i] = downstream[j]
        BY <1>2, <1>8, <2>1 DEF ReturnInTime
  <2>2. CASE downstream'[i].left = Crossing
        BY <1>2, <1>7, <2>2, AcceptingIs, ReturnNumbers
  <2> QED BY <1>1, <1>4, <2>1, <2>2, SentDown
<1>9. Accepting' = Accepting
      BY DEF Accepting, Exchange
<1> QED BY <1>3, <1>5, <1>6, <1>8, <1>9 DEF ReturnInTime

(* A teardown begins the silence, and finds a responder that has an LLID.  *)
LEMMA TeardownReturns ==
    ASSUME AgreeInv, LinesInTime, LinesInTime', LinesHaveRoom, ExchangeInTime, ReturnInTime,
           FireEvent, FireLifetime, registered_at # None
    PROVE  ReturnInTime'
<1>1. /\ IsLine(downstream) /\ IsLine(upstream) /\ Len(downstream) < LineDepth /\ DOMAIN due = Timer
      BY DEF AgreeInv, LinkShape, LinesHaveRoom
<1>2. /\ CarryDown /\ UNCHANGED <<upstream, onu, unregistered>>
      BY DEF FireEvent, ends, clocks
<1>3. Serving /\ onu.llid # NoLlid
      BY HeldLlid
<1>4. link_up
      BY <1>3 DEF Serving, AgreeInv, DarkLineIsQuiet
<1>5. /\ due'["Gate"] = due["Gate"] /\ due'["Rediscovery"] = RediscoveryDelay
      /\ emitted' = <<Register("DEREGISTER")>> /\ Register("DEREGISTER").kind = "DEREGISTER"
      /\ mpcp_state' = "Idle" /\ settling' = TRUE /\ UNCHANGED <<link_up, register_requests_seen>>
      BY <1>1 DEF FireLifetime, tear_down_registration, Register, Timer
<1>6. PICK g : g.kind = "DEREGISTER" /\ downstream' = Sent(downstream, g, 0)
      BY <1>1, <1>2, <1>5, CarriedDown
<1>7. PeerIsTimed'
      BY <1>4, <1>5, ReturnNumbers DEF ReturnInTime, PeerIsTimed
<1>8. ~Unserved /\ ~Unserved'
      BY <1>2, <1>3 DEF Unserved
<1>9. unregistered = 0 /\ unregistered' = 0
      BY <1>2, <1>8 DEF ReturnInTime
<1>10. ASSUME NEW i \in DOMAIN downstream', downstream'[i].frame.kind = "DEREGISTER"
       PROVE  due'["Rediscovery"] <= RediscoveryDelay - Crossing + downstream'[i].left
  <2>1. \A j \in DOMAIN downstream : downstream[j].frame.kind # "DEREGISTER"
        BY <1>3 DEF Serving, Free
  <2>2. downstream'[i].left = Crossing
        BY <1>1, <1>6, <1>10, <2>1, SentDown
  <2> QED BY <1>5, <2>2, ReturnNumbers
<1>11. ASSUME NEW i \in DOMAIN downstream', downstream'[i].frame.kind = "REGISTER"
       PROVE  unregistered' + downstream'[i].left <= Accepting + ProcessingDelay + Crossing
  <2>1. \A j \in DOMAIN downstream : downstream[j].frame.kind # "REGISTER"
        BY <1>3 DEF Serving, Free
  <2>2. FromOld(downstream, downstream', "REGISTER")
    <3>1. g.kind # "REGISTER"
          BY <1>6
    <3> QED BY <1>1, <1>6, <3>1, OldFrames
  <2> QED BY <1>11, <2>1, <2>2 DEF FromOld
<1>12. Accepting' = Accepting
       BY DEF Accepting, Exchange
<1> QED BY <1>5, <1>7, <1>8, <1>9, <1>10, <1>11, <1>12 DEF ReturnInTime

(* When the silence is over the windows are counted from the first.        *)
LEMMA SilenceOverReturns ==
    ASSUME AgreeInv, LinesInTime, LinesInTime', LinesHaveRoom, ReturnInTime,
           FireEvent, FireRediscovery
    PROVE  ReturnInTime'
<1>1. /\ IsLine(downstream) /\ IsLine(upstream) /\ Len(downstream) < LineDepth /\ DOMAIN due = Timer
      BY DEF AgreeInv, LinkShape, LinesHaveRoom
<1>2. /\ CarryDown /\ UNCHANGED <<upstream, onu, unregistered>>
      BY DEF FireEvent, ends, clocks
<1>3. /\ due["Rediscovery"] = 0 /\ due'["Rediscovery"] = Off
      /\ due'["Gate"] = due["Gate"] /\ due'["RegisterResponse"] = due["RegisterResponse"]
      /\ emitted' = <<>> /\ settling' = FALSE /\ register_requests_seen' = 0
      /\ UNCHANGED <<link_up, mpcp_state>>
      BY <1>1 DEF FireRediscovery, Timer
<1>4. downstream' = downstream
      BY <1>1, <1>2, <1>3, CarriedDown
<1>5. PeerIsTimed /\ unregistered \in Nat /\ settling /\ link_up
  <2>1. PeerIsTimed /\ unregistered \in Nat
        BY DEF ReturnInTime
  <2> QED BY <1>3, <2>1 DEF PeerIsTimed, Off
<1>6. mpcp_state # "Discovery"
      BY <1>5 DEF PeerIsTimed
<1>7. PeerIsTimed'
  <2>1. ~settling' /\ settling' \in BOOLEAN /\ link_up' \in BOOLEAN /\ link_up'
        BY <1>3, <1>5 DEF PeerIsTimed
  <2>2. due'["Gate"] \in 0 .. GateInterval
        BY <1>3, <1>5 DEF PeerIsTimed
  <2>3. /\ register_requests_seen' \in Nat /\ register_requests_seen' = 0
        /\ register_requests_seen' <= IgnoredRegisterRequests
        BY <1>3, ReturnNumbers
  <2> QED BY <1>3, <1>6, <2>1, <2>2, <2>3 DEF PeerIsTimed
<1>8. Unserved' <=> Unserved
      BY <1>2, <1>3 DEF Unserved
<1>9. unregistered' \in Nat /\ (~Unserved' => unregistered' = 0)
      BY <1>2, <1>8 DEF ReturnInTime
<1>10. ASSUME Unserved, mpcp_state = "Idle" PROVE WindowsInTime'
  <2>1. WindowsInTime /\ NextWindow \in Int /\ due["Gate"] \in Int
        /\ unregistered <= RediscoveryDelay - Crossing
        BY <1>3, <1>5, <1>10, NextWindowIs, ReturnNumbers DEF ReturnInTime, Unserved, PeerIsTimed
  <2>2. NextWindow = GateInterval
        BY <1>3, <1>5, NextWindowIs, ReturnNumbers
  <2>3. NextWindow' = RediscoveryDelay - Crossing + (0 + 1) * GateInterval - unregistered
        BY <1>2, <1>3 DEF NextWindow
  <2>4. NextWindow' \in Int /\ NextWindow' >= NextWindow
        BY <1>5, <2>1, <2>2, <2>3, ReturnNumbers
  <2>5. Requests' = Requests /\ \A j \in Requests : upstream'[j] = upstream[j]
        BY <1>2 DEF Requests
  <2>6. Gates' = Gates /\ \A i \in Gates : downstream'[i] = downstream[i]
        BY <1>4 DEF Gates
  <2> QED BY <1>1, <1>3, <2>1, <2>4, <2>5, <2>6, WindowsKept
<1>11. \A i \in DOMAIN downstream' : downstream'[i].frame.kind = "REGISTER" =>
          unregistered' + downstream'[i].left <= Accepting + ProcessingDelay + Crossing
       BY <1>2, <1>4 DEF ReturnInTime
<1>12. Accepting' = Accepting
       BY DEF Accepting, Exchange
<1> QED BY <1>3, <1>7, <1>8, <1>9, <1>6, <1>10, <1>11, <1>12 DEF ReturnInTime

(* Each of the peer's events, by the part of the wait it moves.            *)
LEMMA FireReturns ==
    ASSUME AgreeInv, LinesInTime, LinesInTime', LinesHaveRoom, ExchangeInTime, ReturnInTime, FireEvent
    PROVE  ReturnInTime'
<1>1. /\ CarryDown /\ UNCHANGED <<upstream, onu, unregistered>> /\ Fire /\ DOMAIN due = Timer
      BY DEF FireEvent, ends, clocks, AgreeInv, LinkShape
<1>2. CASE FireNormalGate
  <2>1. \/ emitted' = <<>>
        \/ emitted' = <<Frame("NORMAL_GATE")>> /\ Frame("NORMAL_GATE").kind = "NORMAL_GATE"
        BY <1>2 DEF FireNormalGate, Frame
  <2>2. /\ UNCHANGED <<link_up, register_requests_seen, settling, mpcp_state>>
        /\ due'["Gate"] = due["Gate"] /\ due'["Rediscovery"] = due["Rediscovery"]
        /\ due'["RegisterResponse"] = due["RegisterResponse"]
        BY <1>1, <1>2 DEF FireNormalGate, protocol, Timer
  <2> QED BY <1>1, <2>1, <2>2, QuietFireReturns
<1>3. CASE FireKeepalive
  <2>1. emitted' = <<Frame("INFO")>> /\ Frame("INFO").kind = "INFO"
        BY <1>3 DEF FireKeepalive, Frame
  <2>2. /\ UNCHANGED <<link_up, register_requests_seen, settling, mpcp_state>>
        /\ due'["Gate"] = due["Gate"] /\ due'["Rediscovery"] = due["Rediscovery"]
        /\ due'["RegisterResponse"] = due["RegisterResponse"]
        BY <1>1, <1>3 DEF FireKeepalive, on_discovery_entered, protocol, Timer
  <2> QED BY <1>1, <2>1, <2>2, QuietFireReturns
<1>4. CASE FireAttributePoll
  <2>1. \/ emitted' = <<>>
        \/ emitted' = <<Frame("OTHER")>> /\ Frame("OTHER").kind = "OTHER"
        BY <1>4 DEF FireAttributePoll, Frame
  <2>2. /\ UNCHANGED <<link_up, register_requests_seen, settling, mpcp_state>>
        /\ due'["Gate"] = due["Gate"] /\ due'["Rediscovery"] = due["Rediscovery"]
        /\ due'["RegisterResponse"] = due["RegisterResponse"]
        BY <1>1, <1>4 DEF FireAttributePoll, protocol, Timer
  <2> QED BY <1>1, <2>1, <2>2, QuietFireReturns
<1>5. CASE FireRegisterResponse /\ ~(mpcp_state = "Discovery" /\ ~settling)
  <2>1. /\ UNCHANGED <<link_up, register_requests_seen, settling, mpcp_state>> /\ emitted' = <<>>
        /\ due'["Gate"] = due["Gate"] /\ due'["Rediscovery"] = due["Rediscovery"]
        BY <1>1, <1>5 DEF FireRegisterResponse, Timer
  <2>2. mpcp_state # "Discovery"
        BY <1>5 DEF ReturnInTime, PeerIsTimed
  <2> QED BY <1>1, <2>1, <2>2, QuietFireReturns
<1>6. CASE FireLifetime /\ registered_at = None
  <2>1. /\ UNCHANGED <<link_up, register_requests_seen, settling, mpcp_state>> /\ emitted' = <<>>
        /\ due'["Gate"] = due["Gate"] /\ due'["Rediscovery"] = due["Rediscovery"]
        /\ due'["RegisterResponse"] = due["RegisterResponse"]
        BY <1>1, <1>6 DEF FireLifetime, tear_down_registration, protocol, Timer
  <2> QED BY <1>1, <2>1, QuietFireReturns
<1> QED BY <1>1, <1>2, <1>3, <1>4, <1>5, <1>6, GateReturns, AnswerReturns, TeardownReturns,
           SilenceOverReturns DEF Fire

(* Time passes for the wait and for everything it waits for.               *)
LEMMA PassReturns ==
    ASSUME AgreeInv, LinesInTime, LinesInTime', ReturnInTime, Pass
    PROVE  ReturnInTime'
<1>1. /\ Elapse /\ NothingDue /\ downstream' = Closer(downstream) /\ upstream' = Closer(upstream)
      /\ unregistered' = (IF link_up /\ onu.llid = NoLlid THEN unregistered + 1 ELSE 0)
      /\ onu' = [onu EXCEPT !.next_keepalive = IF onu.armed THEN @ - 1 ELSE @,
                            !.age = IF @ = None THEN None ELSE @ + 1]
      BY DEF Pass, Elapse
<1>2. /\ IsLine(downstream) /\ IsLine(upstream) /\ DOMAIN due = Timer /\ DOMAIN onu = DOMAIN NewOnu
      BY DEF AgreeInv, LinkShape
<1>3. onu'.llid = onu.llid
      BY <1>1, <1>2 DEF NewOnu
<1>4. UNCHANGED <<link_up, register_requests_seen, settling, mpcp_state>>
      BY <1>1 DEF Elapse
<1>5. ASSUME NEW t \in Timer, due[t] \in Nat
      PROVE  due'[t] \in Nat /\ due'[t] = due[t] - 1
  <2>1. due[t] # 0 /\ due[t] # Off
        BY <1>1, <1>5 DEF NothingDue, Off
  <2>2. due'[t] = due[t] - 1
        BY <1>1, <2>1 DEF Elapse
  <2> QED BY <1>5, <2>1, <2>2
<1>6. due["Rediscovery"] = Off => due'["Rediscovery"] = Off
      BY <1>1 DEF Elapse, Timer
<1>7. PeerIsTimed /\ unregistered \in Nat /\ (~Unserved => unregistered = 0)
      BY DEF ReturnInTime
<1>8. /\ settling => due'["Rediscovery"] \in Nat /\ due'["Rediscovery"] = due["Rediscovery"] - 1
      /\ settling => due["Rediscovery"] \in Nat
      BY <1>5, <1>7 DEF PeerIsTimed, Timer
<1>9. /\ mpcp_state = "Discovery" => /\ due["RegisterResponse"] \in Nat
                                     /\ due'["RegisterResponse"] \in Nat
                                     /\ due'["RegisterResponse"] = due["RegisterResponse"] - 1
      BY <1>5, <1>7 DEF PeerIsTimed, Timer
<1>10. link_up => /\ due["Gate"] \in Int /\ due'["Gate"] = due["Gate"] - 1
                  /\ due'["Gate"] \in 0 .. GateInterval
  <2>1. HAVE link_up
  <2>2. due["Gate"] \in Nat /\ due["Gate"] <= GateInterval /\ "Gate" \in Timer
        BY <1>7, <2>1, ReturnNumbers DEF PeerIsTimed, Timer
  <2> QED BY <1>5, <2>2, ReturnNumbers
<1>11. PeerIsTimed'
  <2>1. settling' => due'["Rediscovery"] \in Nat
        BY <1>4, <1>8
  <2>2. ~settling' => due'["Rediscovery"] = Off
        BY <1>4, <1>6, <1>7 DEF PeerIsTimed
  <2>3. mpcp_state' = "Discovery" => ~settling' /\ due'["RegisterResponse"] \in Nat
        BY <1>4, <1>7, <1>9 DEF PeerIsTimed
  <2>4. link_up' => due'["Gate"] \in 0 .. GateInterval
        BY <1>4, <1>10
  <2> QED BY <1>3, <1>4, <1>7, <2>1, <2>2, <2>3, <2>4 DEF PeerIsTimed
<1>12. Unserved' <=> Unserved
       BY <1>3, <1>4 DEF Unserved
<1>13. /\ unregistered' \in Nat /\ (~Unserved' => unregistered' = 0)
       /\ unregistered' <= unregistered + 1
       /\ Unserved => unregistered' = unregistered + 1
       BY <1>1, <1>7, <1>12 DEF Unserved
<1>14. /\ DOMAIN downstream' = DOMAIN downstream
       /\ \A i \in DOMAIN downstream : /\ downstream'[i].frame = downstream[i].frame
                                       /\ downstream'[i].left = downstream[i].left - 1
                                       /\ downstream[i].left \in Int
       BY <1>1, LineTimes DEF Closer
<1>15. ASSUME NEW i \in DOMAIN downstream', downstream'[i].frame.kind = "DEREGISTER", settling'
       PROVE  due'["Rediscovery"] <= RediscoveryDelay - Crossing + downstream'[i].left
  <2>1. due["Rediscovery"] <= RediscoveryDelay - Crossing + downstream[i].left
        BY <1>4, <1>14, <1>15 DEF ReturnInTime
  <2>2. PICK d, e, l, r : /\ d = due["Rediscovery"] /\ e = due'["Rediscovery"]
                          /\ l = downstream[i].left /\ r = downstream'[i].left
        OBVIOUS
  <2>3. d \in Nat /\ e = d - 1 /\ l \in Int /\ r = l - 1 /\ d <= RediscoveryDelay - Crossing + l
        BY <1>4, <1>8, <1>14, <1>15, <2>1, <2>2
  <2>4. e <= RediscoveryDelay - Crossing + r
        BY <2>3, ReturnNumbers
  <2> QED BY <2>2, <2>4
<1>16. ASSUME NEW i \in DOMAIN downstream', downstream'[i].frame.kind = "REGISTER"
       PROVE  unregistered' + downstream'[i].left <= Accepting + ProcessingDelay + Crossing
  <2>1. unregistered + downstream[i].left <= Accepting + ProcessingDelay + Crossing
        BY <1>14, <1>16 DEF ReturnInTime
  <2>2. PICK l, r, w, v : /\ l = downstream[i].left /\ r = downstream'[i].left
                          /\ w = unregistered /\ v = unregistered'
        OBVIOUS
  <2>3. /\ l \in Int /\ r = l - 1 /\ w \in Nat /\ v \in Nat /\ v <= w + 1
        /\ w + l <= Accepting + ProcessingDelay + Crossing
        BY <1>7, <1>13, <1>14, <1>16, <2>1, <2>2
  <2>4. v + r <= Accepting + ProcessingDelay + Crossing
        BY <2>3, AcceptingIs, ReturnNumbers
  <2> QED BY <2>2, <2>4
<1>17. ASSUME mpcp_state' = "Discovery"
       PROVE  unregistered' + due'["RegisterResponse"] <= Accepting + ProcessingDelay
  <2>1. unregistered + due["RegisterResponse"] <= Accepting + ProcessingDelay
        BY <1>4, <1>17 DEF ReturnInTime
  <2> QED BY <1>4, <1>7, <1>9, <1>13, <1>17, <2>1, AcceptingIs, ReturnNumbers
<1>18. ASSUME Unserved', mpcp_state' = "Idle", settling'
       PROVE  unregistered' + due'["Rediscovery"] <= RediscoveryDelay - Crossing
  <2>1. unregistered + due["Rediscovery"] <= RediscoveryDelay - Crossing
        BY <1>4, <1>12, <1>18 DEF ReturnInTime
  <2> QED BY <1>4, <1>7, <1>8, <1>12, <1>13, <1>18, <2>1, ReturnNumbers
<1>19. ASSUME Unserved', mpcp_state' = "Idle" PROVE WindowsInTime'
  <2>1. WindowsInTime /\ NextWindow \in Int /\ link_up /\ Unserved
        BY <1>4, <1>7, <1>12, <1>19, NextWindowIs DEF ReturnInTime, Unserved
  <2>2. NextWindow' = NextWindow - 1
    <3>1. CASE settling
      <4>1. NextWindow' = due'["Rediscovery"] + GateInterval
            BY <1>4, <3>1 DEF NextWindow
      <4> QED BY <1>7, <1>8, <3>1, <4>1, NextWindowIs, ReturnNumbers
    <3>2. CASE ~settling
      <4>1. PICK p : p = (register_requests_seen + 1) * GateInterval
            OBVIOUS
      <4>2. NextWindow' = RediscoveryDelay - Crossing + p - unregistered'
            BY <1>4, <3>2, <4>1 DEF NextWindow
      <4>3. NextWindow = RediscoveryDelay - Crossing + p - unregistered
            BY <3>2, <4>1 DEF NextWindow
      <4>4. p \in Nat
            BY <1>7, <4>1, WindowsPassed DEF PeerIsTimed
      <4> QED BY <1>7, <1>13, <2>1, <4>2, <4>3, <4>4, ReturnNumbers
    <3> QED BY <3>1, <3>2
  <2>3. due["Gate"] \in Int /\ due'["Gate"] = due["Gate"] - 1
        BY <1>10, <2>1
  <2> QED BY <1>1, <1>2, <2>1, <2>2, <2>3, WindowsAfterPass
<1>20. Accepting' = Accepting
       BY DEF Accepting, Exchange
<1> QED BY <1>11, <1>13, <1>15, <1>16, <1>17, <1>18, <1>19, <1>20 DEF ReturnInTime

(* The responder's own OAMPDUs are nothing a registration waits for.       *)
LEMMA PollReturns ==
    ASSUME AgreeInv, LinesInTime, LinesInTime', LinesHaveRoom, ReturnInTime, Poll
    PROVE  ReturnInTime'
<1>1. /\ IsLine(downstream) /\ IsLine(upstream) /\ Len(upstream) < LineDepth
      /\ DOMAIN onu = DOMAIN NewOnu
      BY DEF AgreeInv, LinkShape, LinesHaveRoom
<1>2. /\ OnuAdvance /\ downstream' = downstream
      /\ UNCHANGED <<due, mpcp_state, link_up, settling, register_requests_seen, unregistered>>
      BY DEF Poll, vars, protocol, clocks
<1>3. onu'.llid = onu.llid
      BY <1>1, <1>2 DEF OnuAdvance, NewOnu
<1>4. Requests' = Requests /\ \A j \in Requests : upstream'[j] = upstream[j]
  <2>1. CASE upstream' = upstream
        BY <2>1 DEF Requests
  <2>2. CASE upstream' # upstream
    <3>1. Answer("INFO", NoLlid, onu.next_keepalive)
          BY <1>2, <2>2 DEF OnuAdvance
    <3>2. PICK f : f.kind = "INFO" /\ upstream' = Sent(upstream, f, Max({onu.next_keepalive, 0}))
          BY <3>1, AnswerIsSent
    <3>3. PICK at : at = Max({onu.next_keepalive, 0})
          OBVIOUS
    <3>4. upstream' = Sent(upstream, f, at) /\ f.kind # "REQUEST"
          BY <3>2, <3>3
    <3>5. /\ OfKind(upstream', "REQUEST") = OfKind(upstream, "REQUEST")
          /\ \A i \in OfKind(upstream, "REQUEST") : upstream'[i] = upstream[i]
          BY <1>1, <3>4, OthersStay
    <3> QED BY <3>5 DEF Requests, OfKind
  <2> QED BY <2>1, <2>2
<1>5. ASSUME Unserved, mpcp_state = "Idle" PROVE WindowsInTime'
  <2>1. WindowsInTime /\ NextWindow \in Int /\ due["Gate"] \in Int
        BY <1>5, NextWindowIs, ReturnNumbers DEF ReturnInTime, Unserved, PeerIsTimed
  <2>2. NextWindow' = NextWindow
        BY <1>2, NextWindowStays
  <2>3. NextWindow' \in Int /\ NextWindow' >= NextWindow
        BY <2>1, <2>2
  <2>4. Gates' = Gates /\ \A i \in Gates : downstream'[i] = downstream[i]
        BY <1>2 DEF Gates
  <2>5. due'["Gate"] = due["Gate"]
        BY <1>2
  <2> QED BY <1>1, <1>4, <2>1, <2>3, <2>4, <2>5, WindowsKept
<1>6. FromOld(downstream, downstream', "REGISTER") /\ FromOld(downstream, downstream', "DEREGISTER")
      BY <1>1, <1>2, OldFrames
<1>7. link_up => due'["Gate"] \in 0 .. GateInterval
      BY <1>2 DEF ReturnInTime, PeerIsTimed
<1> QED BY <1>2, <1>3, <1>5, <1>6, <1>7, ReturnKept

(* With no request on its way the GATEs are the first windows.             *)
LEMMA WindowsBegin ==
    ASSUME LinesInTime', Requests' = {}, NextWindow' \in Int, NextWindow' >= GateInterval,
           due'["Gate"] \in 0 .. GateInterval
    PROVE  WindowsInTime'
<1>1. PICK o, g : o = [j \in {} |-> 0] /\ g = [i \in Gates' |-> downstream'[i].left - Crossing]
      OBVIOUS
<1>2. \A i \in Gates' : g[i] = downstream'[i].left - Crossing
      BY <1>1
<1>3. \A i \in Gates' : g[i] \in Int /\ g[i] <= NextWindow'
  <2>1. SUFFICES ASSUME NEW i \in Gates' PROVE g[i] \in Int /\ g[i] <= NextWindow'
        OBVIOUS
  <2>2. downstream'[i].left \in Int /\ downstream'[i].left <= Crossing
        BY ReturnNumbers DEF Gates, LinesInTime, InOrder
  <2>3. g[i] = downstream'[i].left - Crossing
        BY <1>2
  <2> QED BY <2>2, <2>3, ReturnNumbers
<1>4. due'["Gate"] \in Int /\ due'["Gate"] <= NextWindow'
      BY ReturnNumbers
<1>5. InTurn(NextWindow', Requests', o, Gates', g, due'["Gate"])
      BY <1>3, <1>4 DEF InTurn
<1>6. Times(Requests', o) /\ Times(Gates', g)
      BY <1>3 DEF Times
<1>7. (\A j \in Requests' : upstream'[j].left - o[j] \in 0 .. Exchange) /\ NextWindow' >= NextWindow'
      OBVIOUS
<1> QED BY <1>2, <1>4, <1>5, <1>6, <1>7, WindowsFound, ZenonT(30)

(* What the responder hears, without taking or losing an LLID.             *)
LEMMA PassingReturns ==
    ASSUME AgreeInv, LinesInTime, LinesInTime', LinesHaveRoom, ReturnInTime, Hear,
           Head(downstream).frame.kind \notin {"REGISTER", "DEREGISTER"}
    PROVE  ReturnInTime'
<1>1. PICK h, at : h = Head(downstream).frame /\ at = Head(downstream).left
      OBVIOUS
<1>2. /\ IsLine(downstream) /\ IsLine(upstream) /\ DOMAIN onu = DOMAIN NewOnu
      /\ InOrder(downstream)
      /\ Landed(downstream) /\ downstream # <<>> /\ downstream' = Tail(downstream)
      /\ OnuDeliver(h, at)
      /\ unregistered' = (IF onu'.llid = NoLlid THEN unregistered ELSE 0)
      /\ UNCHANGED <<due, mpcp_state, link_up, settling, register_requests_seen>>
      BY <1>1 DEF Hear, Landed, vars, protocol, AgreeInv, LinkShape, LinesInTime
<1>3. onu'.llid = onu.llid
      BY <1>1, <1>2 DEF OnuDeliver, KeepaliveFrom, NewOnu
<1>4. unregistered' = unregistered
      BY <1>2, <1>3 DEF ReturnInTime, Unserved
<1>5. FromOld(downstream, downstream', "REGISTER") /\ FromOld(downstream, downstream', "DEREGISTER")
      BY <1>2, OldFrames
<1>6. ASSUME Unserved, mpcp_state = "Idle" PROVE WindowsInTime'
  <2>1. WindowsInTime /\ NextWindow \in Int /\ due["Gate"] \in Int /\ onu.llid = NoLlid
        BY <1>6, NextWindowIs, ReturnNumbers DEF ReturnInTime, Unserved, PeerIsTimed
  <2>2. NextWindow' = NextWindow /\ due'["Gate"] = due["Gate"]
        BY <1>2, <1>4, NextWindowStays
  <2>3. PICK b : b = at + RequestDelay
        OBVIOUS
  <2>4. b \in Int
    <3>1. PICK n \in Nat \ {0} : /\ Head(downstream) = downstream[1] /\ DOMAIN downstream = 1 .. n
                                 /\ downstream[1].left \in Int
          BY <1>2, TakenInOrder
    <3> QED BY <1>1, <2>3, <3>1, ReturnNumbers
  <2>5. PICK T : T = Max({b, 0})
        OBVIOUS
  <2>6. T \in {b, 0} /\ T >= b /\ T >= 0
    <3>1. 0 \in Int
          OBVIOUS
    <3> QED BY <2>4, <2>5, <3>1, MaxOfTwo
  <2>7. T \in Int /\ T >= 0 /\ T >= at + RequestDelay /\ (T = 0 \/ T = at + RequestDelay)
        BY <2>3, <2>4, <2>6
  <2>8. h.kind # "GATE" => upstream' = upstream
        BY <1>1, <1>2 DEF OnuDeliver
  <2>9. ASSUME h.kind = "GATE"
        PROVE  \E f : f.kind = "REQUEST" /\ upstream' = Sent(upstream, f, T)
    <3>1. Answer("REQUEST", NoLlid, at + RequestDelay)
          BY <1>2, <2>1, <2>9 DEF OnuDeliver
    <3>2. PICK f : f.kind = "REQUEST" /\ upstream' = Sent(upstream, f, Max({at + RequestDelay, 0}))
          BY <3>1, AnswerIsSent
    <3> QED BY <2>3, <2>5, <3>2
  <2> QED BY <1>1, <1>2, <2>1, <2>2, <2>7, <2>8, <2>9, WindowsAfterHear
<1>7. link_up => due'["Gate"] \in 0 .. GateInterval
      BY <1>2 DEF ReturnInTime, PeerIsTimed
<1>8. /\ due'["Rediscovery"] = due["Rediscovery"]
      /\ due'["RegisterResponse"] = due["RegisterResponse"]
      BY <1>2
<1> QED BY <1>2, <1>3, <1>4, <1>5, <1>6, <1>7, <1>8, ReturnKept

(* The grant arrives: the wait is over.                                    *)
LEMMA GrantReturns ==
    ASSUME AgreeInv, LinesInTime, LinesInTime', LinesHaveRoom, ReturnInTime, Hear,
           Head(downstream).frame.kind = "REGISTER"
    PROVE  ReturnInTime'
<1>1. PICK h, at : h = Head(downstream).frame /\ at = Head(downstream).left
      OBVIOUS
<1>2. /\ IsLine(downstream) /\ DOMAIN onu = DOMAIN NewOnu
      /\ downstream # <<>> /\ downstream' = Tail(downstream)
      /\ OnuDeliver(h, at)
      /\ unregistered' = (IF onu'.llid = NoLlid THEN unregistered ELSE 0)
      /\ UNCHANGED <<due, mpcp_state, link_up, settling, register_requests_seen>>
      BY <1>1 DEF Hear, Landed, vars, protocol, AgreeInv, LinkShape
<1>3. Granting
  <2>1. \A q : Free(q, {"REGISTER", "DEREGISTER"}) => Free(q, {"REGISTER"})
        BY DEF Free
  <2>2. ~Free(downstream, {"REGISTER"})
    <3>1. 1 \in DOMAIN downstream /\ Head(downstream) = downstream[1]
          BY <1>2, ShortenedLine
    <3> QED BY <3>1 DEF Free
  <2> QED BY <2>1, <2>2 DEF AgreeInv, Asking, Granting, Acknowledging, Serving, Leaving, Stranded
<1>4. Free(downstream', {"REGISTER"}) /\ h.llid = assigned_llid
      BY <1>1, <1>2, <1>3, TakenSays DEF Granting
<1>5. onu'.llid = h.llid
      BY <1>1, <1>2 DEF OnuDeliver, OnGrant, KeepaliveFrom, NewOnu
<1>6. onu'.llid # NoLlid
      BY <1>4, <1>5, PeerAssumption DEF AgreeInv, LinkShape
<1>7. ~Unserved' /\ unregistered' = 0 /\ mpcp_state' = "WaitAck"
      BY <1>2, <1>3, <1>6 DEF Unserved, Granting
<1>8. PeerIsTimed'
      BY <1>2, <1>7 DEF ReturnInTime, PeerIsTimed
<1>9. FromOld(downstream, downstream', "DEREGISTER")
      BY <1>2, OldFrames
<1>10. ASSUME NEW i \in DOMAIN downstream', downstream'[i].frame.kind = "DEREGISTER", settling'
       PROVE  due'["Rediscovery"] <= RediscoveryDelay - Crossing + downstream'[i].left
       BY <1>2, <1>9, <1>10 DEF FromOld, ReturnInTime
<1>11. \A i \in DOMAIN downstream' : downstream'[i].frame.kind # "REGISTER"
       BY <1>4 DEF Free
<1> QED BY <1>7, <1>8, <1>10, <1>11 DEF ReturnInTime

(* The teardown arrives, a crossing after the silence began.               *)
LEMMA TornDownReturns ==
    ASSUME AgreeInv, LinesInTime, LinesInTime', LinesHaveRoom, ReturnInTime, Hear,
           Head(downstream).frame.kind = "DEREGISTER"
    PROVE  ReturnInTime'
<1>1. PICK h, at : h = Head(downstream).frame /\ at = Head(downstream).left
      OBVIOUS
<1>2. /\ IsLine(downstream) /\ DOMAIN onu = DOMAIN NewOnu /\ InOrder(downstream)
      /\ downstream # <<>> /\ downstream' = Tail(downstream) /\ at <= 0
      /\ OnuDeliver(h, at)
      /\ unregistered' = (IF onu'.llid = NoLlid THEN unregistered ELSE 0)
      /\ UNCHANGED <<due, mpcp_state, link_up, settling, register_requests_seen>>
      BY <1>1 DEF Hear, Landed, vars, protocol, AgreeInv, LinkShape, LinesInTime
<1>3. PICK n \in Nat \ {0} : /\ Head(downstream) = downstream[1] /\ DOMAIN downstream = 1 .. n
                             /\ downstream[1].left \in Int
      BY <1>2, TakenInOrder
<1>4. 1 \in DOMAIN downstream /\ downstream[1].frame.kind = "DEREGISTER" /\ downstream[1].left <= 0
      BY <1>1, <1>2, <1>3
<1>5. Leaving
  <2>1. \A q : Free(q, {"REGISTER", "DEREGISTER"}) => Free(q, {"DEREGISTER"})
        BY DEF Free
  <2>2. ~Free(downstream, {"DEREGISTER"})
        BY <1>4 DEF Free
  <2> QED BY <2>1, <2>2 DEF AgreeInv, Asking, Granting, Acknowledging, Serving, Leaving, Stranded
<1>6. onu.llid # NoLlid /\ mpcp_state = "Idle"
      BY <1>5, PeerAssumption DEF Leaving, AgreeInv, LinkShape
<1>7. onu'.llid = NoLlid /\ upstream' = upstream
      BY <1>1, <1>2 DEF OnuDeliver, OnTeardown, NewOnu
<1>8. unregistered = 0 /\ unregistered' = 0
      BY <1>2, <1>6, <1>7 DEF ReturnInTime, Unserved
<1>9. PeerIsTimed /\ PeerIsTimed'
  <2>1. PeerIsTimed
        BY DEF ReturnInTime
  <2> QED BY <1>2, <1>7, <2>1 DEF PeerIsTimed
<1>10. /\ FromOld(downstream, downstream', "REGISTER") /\ FromOld(downstream, downstream', "DEREGISTER")
       BY <1>2, OldFrames
<1>11. ASSUME NEW i \in DOMAIN downstream', downstream'[i].frame.kind = "DEREGISTER", settling'
       PROVE  due'["Rediscovery"] <= RediscoveryDelay - Crossing + downstream'[i].left
       BY <1>2, <1>10, <1>11 DEF FromOld, ReturnInTime
<1>12. ASSUME NEW i \in DOMAIN downstream', downstream'[i].frame.kind = "REGISTER"
       PROVE  unregistered' + downstream'[i].left <= Accepting + ProcessingDelay + Crossing
       BY <1>8, <1>10, <1>12 DEF FromOld, ReturnInTime
<1>13. settling => due["Rediscovery"] \in Nat /\ due["Rediscovery"] <= RediscoveryDelay - Crossing
  <2>1. HAVE settling
  <2>2. due["Rediscovery"] <= RediscoveryDelay - Crossing + downstream[1].left
        BY <1>4, <2>1 DEF ReturnInTime
  <2>3. due["Rediscovery"] \in Nat
        BY <1>9, <2>1 DEF PeerIsTimed
  <2> QED BY <1>3, <1>4, <2>2, <2>3, ReturnNumbers
<1>14. settling' => unregistered' + due'["Rediscovery"] <= RediscoveryDelay - Crossing
       BY <1>2, <1>8, <1>13
<1>15. link_up => WindowsInTime'
  <2>1. HAVE link_up
  <2>2. Requests' = {}
        BY <1>5, <1>7 DEF Requests, Leaving, Free
  <2>3. NextWindow' \in Int /\ NextWindow' >= GateInterval
    <3>1. CASE settling
      <4>1. NextWindow' = due["Rediscovery"] + GateInterval
            BY <1>2, <3>1 DEF NextWindow
      <4> QED BY <1>13, <3>1, <4>1, ReturnNumbers
    <3>2. CASE ~settling
      <4>1. register_requests_seen = 0
            BY <1>6, <1>9, <3>2 DEF PeerIsTimed
      <4>2. NextWindow' = RediscoveryDelay - Crossing + (0 + 1) * GateInterval - 0
            BY <1>2, <1>8, <3>2, <4>1 DEF NextWindow
      <4> QED BY <4>2, ReturnNumbers
    <3> QED BY <3>1, <3>2
  <2>4. due'["Gate"] \in 0 .. GateInterval
        BY <1>2, <1>9, <2>1 DEF PeerIsTimed
  <2> QED BY <2>2, <2>3, <2>4, WindowsBegin
<1>16. /\ Unserved' => link_up /\ settling' = settling
       /\ mpcp_state' # "Discovery" /\ unregistered' \in Nat
       BY <1>2, <1>6, <1>8 DEF Unserved
<1> QED BY <1>8, <1>9, <1>11, <1>12, <1>14, <1>15, <1>16 DEF ReturnInTime

(* A link that rises finds no window before the first GATE.                *)
LEMMA RaiseReturns ==
    ASSUME AgreeInv, LinesInTime, LinesInTime', ReturnInTime, RaiseLink
    PROVE  ReturnInTime'
<1>1. /\ ~link_up /\ link_up' = TRUE /\ mpcp_state' = "Idle" /\ DOMAIN due = Timer
      /\ UNCHANGED <<upstream, downstream, onu, unregistered, settling, register_requests_seen>>
      /\ due' = [due EXCEPT !["Gate"] = 0, !["Keepalive"] = 0]
      BY DEF RaiseLink, set_link_up, lines, ends, clocks, AgreeInv, LinkShape
<1>2. /\ due'["Gate"] = 0 /\ due'["Rediscovery"] = due["Rediscovery"]
      BY <1>1 DEF Timer
<1>3. PeerIsTimed /\ ~settling /\ register_requests_seen = 0 /\ unregistered = 0
      BY <1>1 DEF ReturnInTime, PeerIsTimed, Unserved
<1>4. PeerIsTimed'
  <2>1. due["Rediscovery"] = Off /\ register_requests_seen \in Nat
        BY <1>3 DEF PeerIsTimed
  <2>2. link_up' \in BOOLEAN /\ settling' \in BOOLEAN
    <3>1. settling \in BOOLEAN /\ TRUE \in BOOLEAN
          BY <1>3 DEF PeerIsTimed
    <3> QED BY <1>1, <3>1, Zenon
  <2>3. due'["Rediscovery"] = Off /\ due'["Gate"] \in 0 .. GateInterval
        BY <1>2, <2>1, ReturnNumbers
  <2>4. ~settling' /\ register_requests_seen' = 0 /\ mpcp_state' = "Idle" /\ link_up'
        BY <1>1, <1>3
  <2>5. 0 \in Nat /\ 0 <= IgnoredRegisterRequests /\ "Idle" # "Discovery"
        BY ReturnNumbers
  <2> QED BY <2>2, <2>3, <2>4, <2>5 DEF PeerIsTimed
<1>5. WindowsInTime'
  <2>1. Requests' = {}
        BY <1>1 DEF Requests, AgreeInv, DarkLineIsQuiet, Free
  <2>2. NextWindow' = RediscoveryDelay - Crossing + (0 + 1) * GateInterval - 0
        BY <1>1, <1>3 DEF NextWindow
  <2>3. NextWindow' \in Int /\ NextWindow' >= GateInterval /\ due'["Gate"] \in 0 .. GateInterval
        BY <1>2, <2>2, ReturnNumbers
  <2> QED BY <2>1, <2>3, WindowsBegin
<1>6. \A i \in DOMAIN downstream' : downstream'[i].frame.kind = "REGISTER" =>
          unregistered' + downstream'[i].left <= Accepting + ProcessingDelay + Crossing
      BY <1>1 DEF ReturnInTime
<1>7. Accepting' = Accepting /\ unregistered' = 0 /\ ~settling'
      BY <1>1, <1>3 DEF Accepting, Exchange
<1> QED BY <1>1, <1>4, <1>5, <1>6, <1>7 DEF ReturnInTime

(* On a dark link nothing waits.                                           *)
LEMMA LowerReturns ==
    ASSUME AgreeInv, ReturnInTime, LowerLink
    PROVE  ReturnInTime'
<1>1. /\ link_up' = FALSE /\ due' = [t \in Timer |-> Off] /\ mpcp_state' = "Idle"
      /\ settling' = FALSE /\ register_requests_seen' = 0 /\ unregistered' = 0
      /\ downstream' = <<>> /\ upstream' = <<>>
      BY DEF LowerLink, set_link_down
<1>2. due'["Rediscovery"] = Off
      BY <1>1 DEF Timer
<1>3. PeerIsTimed'
  <2>1. link_up' \in BOOLEAN /\ settling' \in BOOLEAN
    <3>1. FALSE \in BOOLEAN
          OBVIOUS
    <3> QED BY <1>1, <3>1, Zenon
  <2>2. ~link_up' /\ ~settling' /\ register_requests_seen' = 0 /\ mpcp_state' = "Idle"
        BY <1>1
  <2>3. 0 \in Nat /\ 0 <= IgnoredRegisterRequests /\ "Idle" # "Discovery"
        BY ReturnNumbers
  <2> QED BY <1>2, <2>1, <2>2, <2>3 DEF PeerIsTimed
<1>4. ~Unserved'
      BY <1>1 DEF Unserved
<1> QED BY <1>1, <1>3, <1>4 DEF ReturnInTime

(* At the start the link is dark.                                          *)
LEMMA ReturnInit == ASSUME link_Init PROVE ReturnInTime
<1>1. /\ link_up = FALSE /\ settling = FALSE /\ mpcp_state = "Idle" /\ register_requests_seen = 0
      /\ due = [t \in Timer |-> Off] /\ unregistered = 0 /\ downstream = <<>>
      BY DEF link_Init, Init
<1>2. due["Rediscovery"] = Off
      BY <1>1 DEF Timer
<1>3. PeerIsTimed
  <2>1. link_up \in BOOLEAN /\ settling \in BOOLEAN
    <3>1. FALSE \in BOOLEAN
          OBVIOUS
    <3> QED BY <1>1, <3>1, Zenon
  <2>2. ~link_up /\ ~settling
        BY <1>1
  <2>3. 0 \in Nat /\ 0 <= IgnoredRegisterRequests /\ "Idle" # "Discovery"
        BY ReturnNumbers
  <2> QED BY <1>1, <1>2, <2>1, <2>2, <2>3 DEF PeerIsTimed
<1>4. ~Unserved
      BY <1>1 DEF Unserved
<1> QED BY <1>1, <1>3, <1>4 DEF ReturnInTime

(* A step of nobody leaves every part as it is.                            *)
LEMMA StutterReturns ==
    ASSUME AgreeInv, LinesInTime, ReturnInTime, UNCHANGED link_vars
    PROVE  ReturnInTime'
<1>1. UNCHANGED <<onu, due, downstream, upstream, mpcp_state, link_up, settling,
                  register_requests_seen, unregistered>>
      BY DEF link_vars, vars, protocol, lines, ends, clocks
<1>2. WindowsInTime => WindowsInTime'
  <2>1. Requests' = Requests /\ Gates' = Gates /\ NextWindow' = NextWindow
        BY <1>1, NextWindowStays DEF Requests, Gates
  <2>2. HAVE WindowsInTime
  <2>3. PICK taken \in [Requests -> 0 .. Exchange] :
          InTurn(NextWindow, Requests, [j \in Requests |-> upstream[j].left - taken[j]],
                 Gates, [i \in Gates |-> downstream[i].left - Crossing], due["Gate"])
        BY <2>2 DEF WindowsInTime
  <2> QED BY <1>1, <2>1, <2>3 DEF WindowsInTime, Exchange
<1>3. Unserved' = Unserved /\ Accepting' = Accepting
      BY <1>1 DEF Unserved, Accepting, Exchange
<1>4. PeerIsTimed'
      BY <1>1 DEF ReturnInTime, PeerIsTimed
<1> QED BY <1>1, <1>2, <1>3, <1>4 DEF ReturnInTime

(* Each step of the link, by the lemma on it above.                        *)
LEMMA ReturnNext ==
    ASSUME LifeInv, LifeInv', LinesHaveRoom, ReturnInTime, [link_Next]_link_vars
    PROVE  ReturnInTime'
<1>1. AgreeInv /\ LinesInTime /\ LinesInTime' /\ ExchangeInTime
      BY DEF LifeInv
<1>2. CASE Land
      BY <1>1, <1>2, OtherLandReturns, RequestLandReturns
<1>3. CASE Hear
      BY <1>1, <1>3, PassingReturns, GrantReturns, TornDownReturns
<1> QED BY <1>1, <1>2, <1>3, FireReturns, PassReturns, PollReturns, RaiseReturns, LowerReturns,
           StutterReturns DEF link_Next

(* The first window of a responder without an LLID is not past.            *)
LEMMA FirstWindow ==
    ASSUME LifeInv, ReturnInTime, WindowsInTime, link_up
    PROVE  NextWindow \in Int /\ NextWindow >= 0 - Exchange
<1>1. /\ IsLine(downstream) /\ IsLine(upstream) /\ LinesInTime
      /\ PeerIsTimed /\ unregistered \in Nat
      BY DEF LifeInv, AgreeInv, LinkShape, ReturnInTime
<1>2. PICK m, n \in Nat : \E o, g :
              /\ DOMAIN upstream = 1 .. m /\ DOMAIN downstream = 1 .. n
              /\ Requests \subseteq 1 .. m /\ Gates \subseteq 1 .. n
              /\ Times(Requests, o) /\ Times(Gates, g)
              /\ InTurn(NextWindow, Requests, o, Gates, g, due["Gate"])
              /\ \A j \in Requests : upstream[j].left - o[j] \in 0 .. Exchange
              /\ \A i \in Gates : g[i] = downstream[i].left - Crossing
      BY <1>1, WindowsAre
<1>3. PICK o, g :
              /\ Requests \subseteq 1 .. m /\ Gates \subseteq 1 .. n
              /\ Times(Requests, o) /\ Times(Gates, g)
              /\ InTurn(NextWindow, Requests, o, Gates, g, due["Gate"])
              /\ \A j \in Requests : upstream[j].left - o[j] \in 0 .. Exchange
              /\ \A i \in Gates : g[i] = downstream[i].left - Crossing
      BY <1>2
<1>4. PICK N, t : N = NextWindow /\ t = due["Gate"]
      OBVIOUS
<1>5. N \in Int /\ t \in 0 .. GateInterval /\ t \in Int /\ t >= 0
      BY <1>1, <1>4, NextWindowIs, ReturnNumbers DEF PeerIsTimed
<1>6. Requests \subseteq Nat /\ Gates \subseteq Nat
      BY <1>3
<1>7. (\E j \in Requests : o[j] <= N) \/ (\E i \in Gates : g[i] <= N) \/ t <= N
      BY <1>3, <1>4, <1>5, <1>6, InTurnFirst
<1>8. ASSUME NEW j \in Requests, o[j] <= N PROVE N >= 0 - Exchange
  <2>1. upstream[j].left \in 0 .. Crossing + RequestDelay
        BY <1>1 DEF LinesInTime, Requests
  <2>2. PICK l, x : l = upstream[j].left /\ x = o[j]
        OBVIOUS
  <2>3. l \in Int /\ l >= 0 /\ x \in Int /\ l - x \in 0 .. Exchange /\ x <= N
        BY <1>3, <1>8, <2>1, <2>2, ReturnNumbers DEF Times
  <2> QED BY <1>5, <2>3, ReturnNumbers
<1>9. ASSUME NEW i \in Gates, g[i] <= N PROVE N >= 0 - Exchange
  <2>1. downstream[i].left \in 1 - since_poll .. Crossing /\ since_poll \in 0 .. LongestStep
        BY <1>1 DEF LinesInTime, Gates
  <2>2. PICK l, x : l = downstream[i].left /\ x = g[i]
        OBVIOUS
  <2>3. l \in Int /\ l >= 1 - LongestStep /\ x = l - Crossing /\ x <= N
        BY <1>3, <1>9, <2>1, <2>2, ReturnNumbers
  <2> QED BY <1>5, <2>3, ReturnNumbers
<1>10. N >= 0 - Exchange
       BY <1>5, <1>7, <1>8, <1>9, ReturnNumbers
<1> QED BY <1>4, <1>5, <1>10

(* Hence the wait is over in time, whichever part of it has been reached.  *)
LEMMA ReturnImplies ==
    ASSUME LifeInv, ReturnInTime
    PROVE  ComesBackInTime
<1>1. /\ AgreeInv /\ LinesInTime /\ PeerIsTimed /\ unregistered \in Nat
      BY DEF LifeInv, ReturnInTime
<1>2. PICK p : p = (IgnoredRegisterRequests + 1) * GateInterval
      OBVIOUS
<1>3. p \in Nat /\ p >= GateInterval
      BY <1>2, WindowsPassed, ReturnNumbers
<1>4. Accepting = RediscoveryDelay - Crossing + p + Exchange
      BY <1>2 DEF Accepting
<1>5. LongestWait = RediscoveryDelay + p + 2 * Crossing + RequestDelay + ProcessingDelay
                      + 2 * (LongestStep - 1)
      BY <1>2 DEF LongestWait
<1>6. PICK w, A, L : w = unregistered /\ A = Accepting /\ L = LongestWait
      OBVIOUS
<1>7. /\ w \in Nat /\ A \in Int /\ L \in Int /\ A >= 0 /\ L >= A + ProcessingDelay
      /\ L = A + ProcessingDelay + Crossing + LongestStep - 1
      BY <1>1, <1>3, <1>4, <1>5, <1>6, ReturnNumbers
<1>8. CASE ~Unserved
  <2>1. w = 0
        BY <1>6, <1>8 DEF ReturnInTime
  <2> QED BY <1>6, <1>7, <2>1, ReturnNumbers DEF ComesBackInTime
<1>9. CASE Unserved /\ mpcp_state = "Idle"
  <2>1. WindowsInTime /\ link_up
        BY <1>9 DEF ReturnInTime, Unserved
  <2>2. PICK N : N = NextWindow /\ N \in Int /\ N >= 0 - Exchange
        BY <2>1, FirstWindow
  <2>3. CASE settling
    <3>1. w + due["Rediscovery"] <= RediscoveryDelay - Crossing /\ due["Rediscovery"] \in Nat
          BY <1>6, <1>9, <2>3 DEF ReturnInTime, PeerIsTimed
    <3>2. w <= RediscoveryDelay - Crossing
          BY <1>7, <3>1, ReturnNumbers
    <3>3. w <= A
          BY <1>3, <1>4, <1>6, <1>7, <3>2, ReturnNumbers
    <3> QED BY <1>6, <1>7, <3>3, ReturnNumbers DEF ComesBackInTime
  <2>4. CASE ~settling
    <3>1. PICK s : s = (register_requests_seen + 1) * GateInterval
          OBVIOUS
    <3>2. register_requests_seen \in Nat /\ register_requests_seen <= IgnoredRegisterRequests
          BY <1>1, <1>9, <2>4 DEF PeerIsTimed
    <3>3. s \in Nat /\ s <= p
          BY <1>2, <3>1, <3>2, WindowsPassed, ReturnNumbers
    <3>4. N = RediscoveryDelay - Crossing + s - w
          BY <1>1, <1>6, <2>2, <2>4, <3>1, NextWindowIs
    <3>5. w <= A
          BY <1>3, <1>4, <1>6, <1>7, <2>2, <3>3, <3>4, ReturnNumbers
    <3> QED BY <1>6, <1>7, <3>5, ReturnNumbers DEF ComesBackInTime
  <2> QED BY <2>3, <2>4
<1>10. CASE Unserved /\ mpcp_state = "Discovery"
  <2>1. w + due["RegisterResponse"] <= A + ProcessingDelay /\ due["RegisterResponse"] \in Nat
        BY <1>6, <1>10 DEF ReturnInTime, PeerIsTimed
  <2>2. w <= A + ProcessingDelay
        BY <1>7, <2>1, ReturnNumbers
  <2> QED BY <1>6, <1>7, <2>2, ReturnNumbers DEF ComesBackInTime
<1>11. CASE Unserved /\ mpcp_state \notin {"Idle", "Discovery"}
  <2>1. onu.llid = NoLlid /\ assigned_llid # NoLlid
        BY <1>1, <1>11, PeerAssumption DEF Unserved, AgreeInv, LinkShape
  <2>2. Granting
        BY <1>1, <1>11, <2>1 DEF AgreeInv, Asking, Acknowledging, Serving, Leaving, Stranded
  <2>3. PICK i \in DOMAIN downstream : downstream[i].frame.kind = "REGISTER"
        BY <2>2 DEF Granting, Sole
  <2>4. PICK l : l = downstream[i].left
        OBVIOUS
  <2>5. l \in 1 - since_poll .. Crossing /\ since_poll \in 0 .. LongestStep
        BY <1>1, <2>4 DEF LinesInTime
  <2>6. w + l <= A + ProcessingDelay + Crossing
        BY <1>6, <2>3, <2>4 DEF ReturnInTime
  <2>7. w <= L
        BY <1>7, <2>5, <2>6, ReturnNumbers
  <2> QED BY <1>6, <2>7 DEF ComesBackInTime
<1> QED BY <1>8, <1>9, <1>10, <1>11

(* The windows a responder without an LLID is offered follow each other    *)
(* within an interval, from the silence after its teardown to the grant    *)
(* that ends its wait (peer.rs, onu.rs).                                   *)
THEOREM ReturnInvariance == LinkSpec => []ReturnInTime
<1>1. link_Init => ReturnInTime
      BY ReturnInit
<1>2. LifeInv /\ LifeInv' /\ LinesHaveRoom /\ ReturnInTime /\ [link_Next]_link_vars
        => ReturnInTime'
      BY ReturnNext
<1> QED BY <1>1, <1>2, LifeInvariance, TheLinesHaveRoom, PTL DEF LinkSpec

(* So a responder that lost its LLID, or whose link came up, has one after *)
(* the silence, the requests the peer passes over and one handshake.       *)
THEOREM TheResponderReturns == LinkSpec => []LinkKeepsUp
<1>1. LifeInv /\ ReturnInTime /\ LinesHaveRoom => LinkKeepsUp
      BY ReturnImplies DEF LinkKeepsUp
<1> QED BY <1>1, LifeInvariance, TheLinesHaveRoom, ReturnInvariance, PTL
=================================================================================
