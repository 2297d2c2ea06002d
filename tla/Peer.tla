---------------------------------- MODULE Peer ----------------------------------
(***************************************************************************)
(* The emulated OLT's protocol engine (crates/epon-olt/src/peer.rs):       *)
(* registration, its lifetime, the periodic GATEs and keepalives, OAM      *)
(* discovery and the attribute rotation, all driven by one scheduler.      *)
(*                                                                         *)
(* Time is relative.  due[t] is how long until timer t fires, Off when it  *)
(* is not armed, and a registration's start is kept as its age, so time    *)
(* passes without a bound on the clock.  advance_to is split into Elapse   *)
(* (one unit of link time, while nothing is due) and Fire (one due event); *)
(* module Scheduler shows that the code's heap behaves as this table.      *)
(* Events due at the same instant fire in any order, of which the code     *)
(* takes the order of arming.                                              *)
(*                                                                         *)
(* What the peer sends is drained onto the fibre before anything else      *)
(* happens (Link::advance_to, Olt::carry_downstream), so emitted holds     *)
(* just the frames of the last step.  Log lines, the two frame logs, the   *)
(* attribute index and the frame contents no property reads are left out.  *)
(***************************************************************************)
EXTENDS OamDiscovery, Integers, Sequences

CONSTANTS
    Onu,               \* ONU addresses
    NoOnu,             \* the zero address, before any request was heard
    Llid,              \* LLIDs the host may configure
    NoLlid,
    GateInterval, NormalGateInterval, OamInterval, AttributeInterval,
    RegistrationLifetime, RediscoveryDelay, ProcessingDelay,
    IgnoredRegisterRequests,
    HeardFlags,        \* the flags an OAMPDU from the ONU may carry
    MaxRequests        \* bound: REGISTER_REQs delivered in a run

\* peer_config clamps the configurable intervals to at least 1 ms and the others
\* are positive constants; a zero interval would make advance_to loop for ever.
ASSUME PeerAssumption ==
    /\ GateInterval \in Nat \ {0} /\ NormalGateInterval \in Nat \ {0}
    /\ OamInterval \in Nat \ {0}  /\ AttributeInterval \in Nat \ {0}
    /\ RegistrationLifetime \in Nat \ {0} /\ RediscoveryDelay \in Nat \ {0}
    /\ ProcessingDelay \in Nat
    /\ IgnoredRegisterRequests \in Nat
    /\ HeardFlags \subseteq Flags
    /\ MaxRequests \in Nat
    /\ NoOnu \notin Onu /\ NoLlid \notin Llid

VARIABLES
    due,                     \* Timer -> time to firing, or Off
    mpcp_state,
    onu_mac,
    assigned_llid,
    link_up,
    discovery,
    register_requests_seen,
    registered_at,           \* age of the registration, None without one
    settling,
    llid_assignment,
    registration_complete,
    counters,                \* the registration part of Counters
    emitted,                 \* frames the last step handed to the fibre
    accepted,                \* history: the ONU whose request was last accepted
    asked_to_leave           \* history: that ONU has since asked to deregister

protocol == <<mpcp_state, register_requests_seen, registered_at, settling>>
host     == <<llid_assignment, registration_complete>>
history  == <<accepted, asked_to_leave>>
vars == <<due, onu_mac, assigned_llid, link_up, discovery, counters,
          emitted, protocol, host, history>>

Timer == {"Gate", "Keepalive", "AttributePoll", "RegisterResponse",
          "Lifetime", "Rediscovery", "NormalGate"}
MpcpState == {"Idle", "Discovery", "WaitAck", "Registered"}
\* The counters of REGISTER_REQs, of which the first counts all of them, and of
\* registrations begun and torn down.
Bucket == {"seen", "accepted", "link_settling", "in_flight", "window_passed",
           "deregister", "registrations", "deregistrations"}
Off  == -1
None == -1

Armed(t) == due[t] # Off
NothingDue == \A t \in Timer : due[t] # 0

Emitted == [kind : {"GATE", "NORMAL_GATE", "INFO", "REGISTER", "DEREGISTER", "OTHER"},
            dst : Onu \cup {NoOnu}, llid : Llid \cup {NoLlid}]

Frame(kind) == [kind |-> kind, dst |-> onu_mac, llid |-> NoLlid]
Register(kind) == [kind |-> kind, dst |-> onu_mac, llid |-> assigned_llid]

\* The type invariant in two halves: what is counted, and what is told apart.
TypeTimed ==
    /\ due \in [Timer -> Nat \cup {Off}]
    /\ discovery \in Discovery
    /\ register_requests_seen \in Nat
    /\ registered_at \in Nat \cup {None}
    /\ counters \in [Bucket -> Nat]

TypePlain ==
    /\ mpcp_state \in MpcpState
    /\ onu_mac \in Onu \cup {NoOnu}
    /\ assigned_llid \in Llid
    /\ link_up \in BOOLEAN
    /\ settling \in BOOLEAN
    /\ llid_assignment \in Llid \cup {NoLlid}
    /\ registration_complete \in BOOLEAN
    /\ emitted \in Seq(Emitted)
    /\ accepted \in Onu \cup {NoOnu}
    /\ asked_to_leave \in BOOLEAN

TypeOK == TypeTimed /\ TypePlain

Init ==
    /\ due = [t \in Timer |-> Off]
    /\ mpcp_state = "Idle"
    /\ onu_mac = NoOnu
    /\ assigned_llid \in Llid
    /\ link_up = FALSE
    /\ discovery = DefaultDiscovery
    /\ register_requests_seen = 0
    /\ registered_at = None
    /\ settling = FALSE
    /\ llid_assignment = NoLlid
    /\ registration_complete = FALSE
    /\ counters = [b \in Bucket |-> 0]
    /\ emitted = <<>>
    /\ accepted = NoOnu /\ asked_to_leave = FALSE

--------------------------------------------------------------------------------
\* on_discovery_entered, called when the state changed: the attribute rotation is
\* armed by convergence and disarmed by losing it.
on_discovery_entered(d, was, state) ==
    IF state = was THEN d
    ELSE [d EXCEPT !["AttributePoll"] = IF state = "Converged" THEN 0 ELSE Off]

\* tear_down_registration, from the timers d and counters c its caller leaves.
tear_down_registration(d, c) ==
    IF registered_at = None
    THEN /\ due' = d
         /\ emitted' = <<>>
         /\ counters' = c
         /\ UNCHANGED <<discovery, protocol, registration_complete>>
    ELSE /\ emitted' = <<Register("DEREGISTER")>>
         /\ counters' = [c EXCEPT !["deregistrations"] = @ + 1]
         /\ registered_at' = None
         /\ registration_complete' = FALSE
         /\ mpcp_state' = "Idle"
         /\ discovery' = DefaultDiscovery
         /\ settling' = TRUE
         /\ due' = [d EXCEPT !["NormalGate"] = Off,
                             !["AttributePoll"] = Off,
                             !["Rediscovery"] = RediscoveryDelay]
         /\ UNCHANGED register_requests_seen

--------------------------------------------------------------------------------
\* The loop: time passes while nothing is due, then what is due fires.

Older(age) == IF age = None THEN None ELSE age + 1

Elapse ==
    /\ NothingDue
    /\ due' = [t \in Timer |-> IF due[t] = Off THEN Off ELSE due[t] - 1]
    /\ registered_at' = Older(registered_at)
    /\ emitted' = <<>>
    /\ UNCHANGED <<onu_mac, assigned_llid, link_up, discovery, counters,
                   mpcp_state, register_requests_seen, settling, host, history>>

\* A slip: the GATE is re-armed for the instant it fired at.
GateRearmedAtOnce ==
    /\ due["Gate"] = 0
    /\ emitted' = <<Frame("GATE")>>
    /\ UNCHANGED <<due, onu_mac, assigned_llid, link_up, discovery, counters,
                   protocol, host, history>>

FireGate ==
    /\ due["Gate"] = 0
    /\ due' = [due EXCEPT !["Gate"] = GateInterval]
    /\ emitted' = <<Frame("GATE")>>
    /\ UNCHANGED <<onu_mac, assigned_llid, link_up, discovery, counters,
                   protocol, host, history>>

FireNormalGate ==
    /\ due["NormalGate"] = 0
    /\ IF mpcp_state = "Registered"
       THEN /\ due' = [due EXCEPT !["NormalGate"] = NormalGateInterval]
            /\ emitted' = <<Frame("NORMAL_GATE")>>
       ELSE /\ due' = [due EXCEPT !["NormalGate"] = Off]
            /\ emitted' = <<>>
    /\ UNCHANGED <<onu_mac, assigned_llid, link_up, discovery, counters,
                   protocol, host, history>>

FireKeepalive ==
    /\ due["Keepalive"] = 0
    /\ emitted' = <<Frame("INFO")>>
    /\ discovery' = on_sent(discovery)
    /\ due' = [on_discovery_entered(due, discovery.state, discovery'.state)
                 EXCEPT !["Keepalive"] = OamInterval]
    /\ UNCHANGED <<onu_mac, assigned_llid, link_up, counters,
                   protocol, host, history>>

\* Nothing is read from an ONU whose address is not known, but the rotation goes on.
FireAttributePoll ==
    /\ due["AttributePoll"] = 0
    /\ due' = [due EXCEPT !["AttributePoll"] = AttributeInterval]
    /\ emitted' = IF onu_mac = NoOnu THEN <<>> ELSE <<Frame("OTHER")>>
    /\ UNCHANGED <<onu_mac, assigned_llid, link_up, discovery, counters,
                   protocol, host, history>>

\* answer_registration.
FireRegisterResponse ==
    /\ due["RegisterResponse"] = 0
    /\ due' = [due EXCEPT !["RegisterResponse"] = Off]
    /\ IF mpcp_state = "Discovery" /\ ~settling
       THEN /\ emitted' = <<Register("REGISTER")>>
            /\ llid_assignment' = assigned_llid
            /\ mpcp_state' = "WaitAck"
       ELSE /\ emitted' = <<>>
            /\ UNCHANGED <<llid_assignment, mpcp_state>>
    /\ UNCHANGED <<onu_mac, assigned_llid, link_up, discovery, counters,
                   register_requests_seen, registered_at, settling,
                   registration_complete, history>>

FireLifetime ==
    /\ due["Lifetime"] = 0
    /\ tear_down_registration([due EXCEPT !["Lifetime"] = Off], counters)
    /\ UNCHANGED <<onu_mac, assigned_llid, link_up,
                   llid_assignment, history>>

\* A slip: the silence after a teardown is never lifted.
RediscoveryForgotten ==
    /\ due["Rediscovery"] = 0
    /\ due' = [due EXCEPT !["Rediscovery"] = Off]
    /\ register_requests_seen' = 0
    /\ emitted' = <<>>
    /\ UNCHANGED <<onu_mac, assigned_llid, link_up, discovery, counters,
                   mpcp_state, registered_at, settling, host, history>>

FireRediscovery ==
    /\ due["Rediscovery"] = 0
    /\ due' = [due EXCEPT !["Rediscovery"] = Off]
    /\ settling' = FALSE
    /\ register_requests_seen' = 0
    /\ emitted' = <<>>
    /\ UNCHANGED <<onu_mac, assigned_llid, link_up, discovery, counters,
                   mpcp_state, registered_at, host, history>>

Fire == \/ FireGate \/ FireNormalGate \/ FireKeepalive \/ FireAttributePoll
        \/ FireRegisterResponse \/ FireLifetime \/ FireRediscovery

--------------------------------------------------------------------------------
\* The link.  A call that changes nothing returns early.

set_link_up ==
    /\ ~link_up
    /\ link_up' = TRUE
    /\ mpcp_state' = "Idle"
    /\ due' = [due EXCEPT !["Gate"] = 0, !["Keepalive"] = 0]
    /\ emitted' = <<>>
    /\ UNCHANGED <<onu_mac, assigned_llid, discovery, counters,
                   register_requests_seen, registered_at, settling, host, history>>

set_link_down ==
    /\ link_up
    /\ link_up' = FALSE
    /\ due' = [t \in Timer |-> Off]
    /\ mpcp_state' = "Idle"
    /\ registered_at' = None
    /\ settling' = FALSE
    /\ register_requests_seen' = 0
    /\ discovery' = DefaultDiscovery
    /\ emitted' = <<>>
    /\ UNCHANGED <<onu_mac, assigned_llid, counters, host, history>>

--------------------------------------------------------------------------------
\* The uplink.  Link::advance_to runs the peer up to the arrival before it hands
\* the frame over, so nothing is due when a frame is delivered.  deliver does not
\* look at link_up.

Count(b) == counters' = [counters EXCEPT !["seen"] = @ + 1, ![b] = @ + 1]
MoreRequests == counters["seen"] < MaxRequests

on_deregister(src) ==
    /\ NothingDue /\ MoreRequests
    /\ onu_mac' = src
    /\ tear_down_registration(due, [counters EXCEPT !["seen"] = @ + 1, !["deregister"] = @ + 1])
    /\ asked_to_leave' = (asked_to_leave \/ src = accepted)
    /\ UNCHANGED <<assigned_llid, link_up, llid_assignment, accepted>>

\* A slip: a refused request is seen but lands in no bucket.
RefusedUncounted(src) ==
    /\ NothingDue /\ MoreRequests
    /\ onu_mac' = src
    /\ settling \/ mpcp_state # "Idle"
    /\ emitted' = <<>>
    /\ IF settling THEN Count("link_settling")
                   ELSE counters' = [counters EXCEPT !["seen"] = @ + 1]
    /\ UNCHANGED <<due, assigned_llid, link_up, discovery, protocol, host, history>>

\* Refused: link settling, or a handshake in flight.
on_register_req_refused(src) ==
    /\ NothingDue /\ MoreRequests
    /\ onu_mac' = src
    /\ settling \/ mpcp_state # "Idle"
    /\ emitted' = <<>>
    /\ Count(IF settling THEN "link_settling" ELSE "in_flight")
    /\ UNCHANGED <<due, assigned_llid, link_up, discovery, protocol, host, history>>

\* A slip: the answer to an accepted request is not scheduled.
AcceptWithoutAnswer(src) ==
    /\ NothingDue /\ MoreRequests
    /\ onu_mac' = src
    /\ ~settling /\ mpcp_state = "Idle"
    /\ register_requests_seen' = register_requests_seen + 1
    /\ IF register_requests_seen' <= IgnoredRegisterRequests
       THEN Count("window_passed") /\ UNCHANGED <<mpcp_state, history>>
       ELSE /\ Count("accepted")
            /\ mpcp_state' = "Discovery"
            /\ accepted' = src
            /\ asked_to_leave' = FALSE
    /\ emitted' = <<>>
    /\ UNCHANGED <<due, assigned_llid, link_up, discovery, registered_at, settling, host>>

\* Taken up: the first IgnoredRegisterRequests are passed over, the next accepted.
on_register_req(src) ==
    /\ NothingDue /\ MoreRequests
    /\ onu_mac' = src
    /\ ~settling /\ mpcp_state = "Idle"
    /\ register_requests_seen' = register_requests_seen + 1
    /\ IF register_requests_seen' <= IgnoredRegisterRequests
       THEN Count("window_passed") /\ UNCHANGED <<due, mpcp_state, history>>
       ELSE /\ Count("accepted")
            /\ mpcp_state' = "Discovery"
            /\ due' = [due EXCEPT !["RegisterResponse"] = ProcessingDelay]
            /\ accepted' = src
            /\ asked_to_leave' = FALSE
    /\ emitted' = <<>>
    /\ UNCHANGED <<assigned_llid, link_up, discovery, registered_at, settling, host>>

\* REGISTER_ACK: it must accept, and echo the port and sync time granted, and a
\* handshake must be waiting for it; otherwise it is counted and ignored.
on_register_ack(acknowledges, port, sync_ok) ==
    /\ NothingDue
    /\ IF acknowledges /\ port = assigned_llid /\ sync_ok /\ mpcp_state = "WaitAck"
       THEN /\ mpcp_state' = "Registered"
            /\ registration_complete' = TRUE
            /\ registered_at' = 0
            /\ counters' = [counters EXCEPT !["registrations"] = @ + 1]
            /\ due' = [due EXCEPT !["Lifetime"] = RegistrationLifetime,
                                  !["NormalGate"] = NormalGateInterval]
       ELSE UNCHANGED <<mpcp_state, registration_complete, registered_at, due, counters>>
    /\ emitted' = <<>>
    /\ UNCHANGED <<onu_mac, assigned_llid, link_up, discovery, register_requests_seen,
                   settling, llid_assignment, history>>

\* REPORTs, opcodes only the OLT may send, other opcodes, malformed MPCPDUs and
\* frames that are neither MPCP nor OAM are counted (counters left out here), and the
\* containers of extended OAMPDUs are stored: the protocol state stays as it is.
on_other_frame ==
    /\ NothingDue
    /\ emitted' = <<>>
    /\ UNCHANGED <<due, onu_mac, assigned_llid, link_up, discovery, counters, protocol, host, history>>

on_oam(information, f) ==
    /\ NothingDue
    /\ discovery' = IF information THEN on_peer_information(discovery, f)
                                   ELSE on_peer_flags(discovery, f)
    /\ due' = on_discovery_entered(due, discovery.state, discovery'.state)
    /\ emitted' = <<>>
    /\ UNCHANGED <<onu_mac, assigned_llid, link_up, counters,
                   protocol, host, history>>

--------------------------------------------------------------------------------
\* The host.

set_assigned_llid(llid) ==
    /\ assigned_llid' = llid
    /\ emitted' = <<>>
    /\ UNCHANGED <<due, onu_mac, link_up, discovery, counters,
                   protocol, host, history>>

\* take_llid_assignment and take_registration_complete, as Olt::advance calls them.
take_host_events ==
    /\ llid_assignment' = NoLlid
    /\ registration_complete' = FALSE
    /\ emitted' = <<>>
    /\ UNCHANGED <<due, onu_mac, assigned_llid, link_up, discovery, counters,
                   protocol, history>>

\* send_extended, request_attribute and inject: a frame goes out, nothing else.
host_send ==
    /\ emitted' = <<Frame("OTHER")>>
    /\ UNCHANGED <<due, onu_mac, assigned_llid, link_up, discovery, counters,
                   protocol, host, history>>

rewind_handshake ==
    /\ mpcp_state' = "Idle"
    /\ registration_complete' = FALSE
    /\ registered_at' = None
    /\ register_requests_seen' = 0
    /\ due' = [due EXCEPT !["RegisterResponse"] = Off, !["Lifetime"] = Off]
    /\ emitted' = <<>>
    /\ UNCHANGED <<onu_mac, assigned_llid, link_up, discovery, counters,
                   settling, llid_assignment, history>>

Deliver ==
    \/ \E src \in Onu : on_deregister(src) \/ on_register_req_refused(src) \/ on_register_req(src)
    \/ \E acknowledges, sync_ok \in BOOLEAN, port \in Llid :
           on_register_ack(acknowledges, port, sync_ok)
    \/ \E information \in BOOLEAN, f \in HeardFlags : on_oam(information, f)
    \/ on_other_frame

Host == \/ set_link_up \/ set_link_down \/ rewind_handshake \/ take_host_events \/ host_send
        \/ \E llid \in Llid : set_assigned_llid(llid)

Next == Elapse \/ Fire \/ Deliver \/ Host

\* Every bank tick moves link time on and runs the loop, whatever else happens.
Fairness == SF_vars(Elapse) /\ WF_vars(Fire)

Spec == Init /\ [][Next]_vars
FairSpec == Spec /\ Fairness

--------------------------------------------------------------------------------
\* Properties.

\* A registration lasts exactly its lifetime unless something else ends it: from
\* on_register_ack to the Lifetime event the two always add up.  The timer a torn
\* down registration leaves armed (tear_down_registration does not cancel it) can
\* therefore never cut the next registration short.
LifetimeIsThisRegistrations ==
    registered_at # None =>
        Armed("Lifetime") /\ due["Lifetime"] = RegistrationLifetime - registered_at

\* A registered ONU is on its way to a teardown and is being granted windows.
RegisteredIsServed ==
    mpcp_state = "Registered" =>
        /\ registered_at # None
        /\ due["NormalGate"] \in 0..NormalGateInterval

\* The silence after a teardown always has its end scheduled, and no handshake
\* is under way during it.
SilenceIsScheduled ==
    /\ settling <=> Armed("Rediscovery")
    /\ settling => mpcp_state = "Idle"

\* An accepted request has its answer scheduled, within the processing delay.
AcceptedIsScheduled ==
    mpcp_state = "Discovery" => due["RegisterResponse"] \in 0..ProcessingDelay

\* The attribute rotation runs exactly while discovery is converged, whichever
\* of the keepalive, an OAMPDU, a teardown or the link changed it last.
RotationFollowsDiscovery == Armed("AttributePoll") <=> discovery.state = "Converged"

\* GATEs and keepalives are scheduled exactly while the link is up.
TrafficFollowsLink == \A t \in {"Gate", "Keepalive"} : Armed(t) <=> link_up

\* "Every registration request seen was disposed of exactly once"
\* (Counters::register_requests_accounted_for).
RequestsAccountedFor ==
    counters["seen"] = counters["accepted"] + counters["link_settling"] + counters["in_flight"]
                         + counters["window_passed"] + counters["deregister"]

\* Each registration used up an accepted request of its own, and each teardown a
\* registration of its own, across rewinds, link flaps and stale acknowledgements.
HandshakesAreNotReused ==
    /\ counters["registrations"] + (IF mpcp_state \in {"Discovery", "WaitAck"} THEN 1 ELSE 0)
          <= counters["accepted"]
    /\ counters["deregistrations"] + (IF registered_at # None THEN 1 ELSE 0)
          <= counters["registrations"]

\* What the timers owe the protocol state, and what the counters owe it.
Scheduled ==
    /\ LifetimeIsThisRegistrations
    /\ RegisteredIsServed
    /\ SilenceIsScheduled
    /\ AcceptedIsScheduled
    /\ RotationFollowsDiscovery
    /\ TrafficFollowsLink

Accounted == RequestsAccountedFor /\ HandshakesAreNotReused

\* The conjunction the safety proof is by induction on.
PeerInv == TypeTimed /\ TypePlain /\ Scheduled /\ Accounted

\* advance_to terminates: events that re-arm themselves never keep the loop at one
\* instant, however the host and the ONU interleave with it.
AdvanceTerminates == []<>NothingDue

\* A registration does not last for ever, an accepted request is answered, and the
\* silence after a teardown ends.
HandshakeMovesOn ==
    /\ (mpcp_state = "Registered") ~> (mpcp_state # "Registered")
    /\ (mpcp_state = "Discovery") ~> (mpcp_state # "Discovery")
    /\ settling ~> ~settling

\* Statements of comments and tests that the code does not keep.

\* Timer::NormalGate: "Only armed while registered" (peer.rs).
NormalGateOnlyWhileRegistered == Armed("NormalGate") => mpcp_state = "Registered"

\* on_mpcp, on a request to deregister: "Treating it as a registration is how a
\* model registers an ONU that asked to leave" (peer.rs).
LeaverIsNotGranted ==
    asked_to_leave => \A i \in DOMAIN emitted : emitted[i].kind # "REGISTER"

\* register_req_in_flight: "Refused because a handshake was already in flight"
\* (peer.rs).  The answer goes to the ONU whose request was accepted.
AnswerGoesToTheAccepted ==
    \A i \in DOMAIN emitted : emitted[i].kind = "REGISTER" => emitted[i].dst = accepted

\* set_link: "Down stops it and takes discovery back to the beginning, because the
\* peer has no evidence about an end it can no longer hear" (peer.rs).
DarkLinkIsIdle == ~link_up => mpcp_state = "Idle"
===============================================================================
