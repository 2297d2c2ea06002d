---------------------------------- MODULE Link ----------------------------------
(***************************************************************************)
(* The peer, the two directions of its fibre and the ONU responder, run    *)
(* the way link.rs composes them and `olt check` and the tests of link.rs  *)
(* drive them: Link::advance_to hands the peer what has landed and puts on *)
(* the downstream what it decides, and every so often the loop comes round *)
(* to the responder, which hears everything that has landed by then and    *)
(* answers.  The responder (onu.rs) registers when a discovery GATE finds  *)
(* it without an LLID, acknowledges a grant, and runs OAM discovery.       *)
(*                                                                         *)
(* Time is relative, as in Peer: a frame on the line has the time left to  *)
(* its landing, negative once it has landed and waits for the loop.        *)
(***************************************************************************)
EXTENDS Peer, SequencesExt

CONSTANTS
    Crossing,           \* propagation and clocking out, the same for every frame
    LineDepth,          \* FibreConfig::depth
    Steps,              \* how long the loop may take to come round
    RequestDelay,       \* REQUEST_DELAY
    KeepaliveInterval,  \* KEEPALIVE_INTERVAL of the responder
    Horizon, MaxBreaks  \* bounds: link time, and times the link goes down

LongestStep == Max(Steps)

\* The loop comes round within a keepalive interval, so at most one is due each time.
ASSUME LinkAssumption ==
    /\ Crossing \in Nat \ {0} /\ RediscoveryDelay >= Crossing /\ LineDepth \in Nat \ {0}
    /\ Steps \subseteq Nat \ {0} /\ LongestStep \in Steps /\ LongestStep < KeepaliveInterval
    /\ RequestDelay \in Nat /\ KeepaliveInterval \in Nat
    /\ Horizon \in Nat /\ MaxBreaks \in Nat

\* What the acknowledgement may wait at the responder: for the loop to come round, or
\* behind a request sent in the same turn.
LongestPause == Max({LongestStep - 1, RequestDelay})

\* A period is longer than what was sent in the last one takes to be taken.  The periods
\* are 804 ms (OAM_KEEPALIVE_INTERVAL) and more; a crossing of DEFAULT_DISTANCE_KM takes
\* 100 us, REQUEST_DELAY 200 us and the loop's STEP 100 us, on lines of DEFAULT_DEPTH 32.
ASSUME RoomAssumption ==
    /\ LineDepth > 5 /\ EvaluatingPdus > 1
    /\ GateInterval >= Crossing + LongestStep /\ GateInterval > Crossing + LongestPause
    /\ NormalGateInterval >= Crossing + LongestStep
    /\ OamInterval >= Crossing + LongestStep
    /\ AttributeInterval >= Crossing + LongestStep
    /\ KeepaliveInterval >= Crossing + RequestDelay + 2 * LongestStep - 1

VARIABLES
    downstream, upstream,   \* Fibre::queue, each frame with the time left
    onu,                    \* OnuResponder
    since_poll,             \* time since the loop was last at the responder
    turn,                   \* the loop is at the responder
    elapsed, breaks,        \* link time and link failures so far
    unregistered,           \* history: how long the link is up and the responder without LLID
    cut_off                 \* history: the link went down on a responder that had an LLID

lines   == <<downstream, upstream>>
ends    == <<onu, since_poll, turn>>
clocks  == <<elapsed, breaks, unregistered, cut_off>>
link_vars == <<vars, lines, ends, clocks>>

\* OnuResponder::new.  next_keepalive is meant only when armed, age counts from
\* registered_at, life is the last entry of registration_lives.
NewOnu == [llid |-> NoLlid, discovery |-> DefaultDiscovery, next_keepalive |-> Off,
           armed |-> FALSE, age |-> None, life |-> None]

link_Init ==
    /\ Init
    /\ downstream = <<>> /\ upstream = <<>>
    /\ onu = NewOnu /\ since_poll = 0 /\ turn = FALSE
    /\ elapsed = 0 /\ breaks = 0 /\ unregistered = 0 /\ cut_off = FALSE

--------------------------------------------------------------------------------
\* The fibres.

Landed(q) == q # <<>> /\ Head(q).left <= 0

\* A slip: a frame starts to cross when the one ahead has landed.
SentAfterPrevious(q, frame, at) ==
    LET start == IF q # <<>> /\ Last(q).left > at THEN Last(q).left ELSE at
    IN IF Len(q) >= LineDepth THEN q ELSE Append(q, [frame |-> frame, left |-> start + Crossing])

\* Fibre::send: full loses the frame, and no frame lands ahead of one sent before.
Sent(q, frame, at) ==
    LET earliest == at + Crossing
        left == IF q # <<>> /\ Last(q).left > earliest THEN Last(q).left ELSE earliest
    IN IF Len(q) >= LineDepth THEN q ELSE Append(q, [frame |-> frame, left |-> left])

Closer(q) == [i \in DOMAIN q |-> [frame |-> q[i].frame, left |-> q[i].left - 1]]

\* What the peer decided in this step, one frame at most, goes on the line at the
\* instant it decided it; an Information OAMPDU is built before on_sent counts it.
CarryDown ==
    downstream' =
        IF emitted' = <<>> THEN downstream
        ELSE Sent(downstream, [kind |-> Head(emitted').kind, llid |-> Head(emitted').llid,
                               flags |-> flags(discovery)], 0)

--------------------------------------------------------------------------------
\* The responder, as operators on its record.

\* What the responder wants to send at `at` enters the line no earlier than now.
Answer(kind, llid, at) ==
    upstream' = Sent(upstream, [kind |-> kind, llid |-> llid, flags |-> flags(onu.discovery)],
                     Max({at, 0}))

\* The first grant or OAMPDU starts the keepalive.
KeepaliveFrom(o, at) == IF o.armed THEN o ELSE [o EXCEPT !.armed = TRUE, !.next_keepalive = at]

\* A slip: the grant is acknowledged but not kept.
OnGrantForgetting(o, frame, at) == KeepaliveFrom([o EXCEPT !.age = 0 - at], at)

\* on_mpcp, a REGISTER that grants: taken whatever the responder held before.
OnGrant(o, frame, at) == KeepaliveFrom([o EXCEPT !.llid = frame.llid, !.age = 0 - at], at)

\* on_mpcp, a REGISTER that tears down: registered_at and the keepalive stay.
OnTeardown(o, at) ==
    [o EXCEPT !.llid = NoLlid, !.discovery = DefaultDiscovery,
              !.life = IF o.age = None THEN @ ELSE o.age + at]

\* OnuResponder::deliver, of a frame that landed at `at` (zero or before now), with
\* the answer to it.
OnuDeliver(frame, at) ==
    \/ /\ frame.kind = "GATE" /\ onu' = onu
       /\ IF onu.llid = NoLlid THEN Answer("REQUEST", NoLlid, at + RequestDelay)
                               ELSE upstream' = upstream
    \/ frame.kind = "REGISTER" /\ onu' = OnGrant(onu, frame, at) /\ Answer("ACK", frame.llid, at)
    \/ frame.kind = "DEREGISTER" /\ onu' = OnTeardown(onu, at) /\ upstream' = upstream
    \/ /\ frame.kind = "INFO"
       /\ onu' = KeepaliveFrom([onu EXCEPT !.discovery = on_peer_information(@, frame.flags)], at)
       /\ upstream' = upstream
    \/ frame.kind \in {"NORMAL_GATE", "OTHER"} /\ onu' = onu /\ upstream' = upstream

\* OnuResponder::advance_to.
OnuAdvance ==
    IF ~onu.armed \/ onu.next_keepalive > 0 THEN UNCHANGED <<onu, upstream>>
    ELSE /\ onu' = [onu EXCEPT !.discovery = on_sent(@),
                               !.next_keepalive = @ + KeepaliveInterval]
         /\ Answer("INFO", NoLlid, onu.next_keepalive)

--------------------------------------------------------------------------------
\* The loop.

Quiet == NothingDue /\ ~Landed(upstream)

\* Link::advance_to: what has landed is delivered when the peer's own events up to
\* then are through.
Land ==
    /\ Landed(upstream)
    /\ LET frame == Head(upstream).frame IN
       \/ /\ frame.kind = "REQUEST"
          /\ \E src \in Onu : on_register_req_refused(src) \/ on_register_req(src)
       \/ frame.kind = "ACK" /\ on_register_ack(TRUE, frame.llid, TRUE)
       \/ frame.kind = "INFO" /\ on_oam(TRUE, frame.flags)
    /\ upstream' = Tail(upstream)
    /\ CarryDown
    /\ UNCHANGED <<ends, clocks>>

FireEvent == Fire /\ CarryDown /\ UNCHANGED <<upstream, ends, clocks>>

\* One unit of link time, while the loop is still on its way round.
Pass ==
    /\ ~turn /\ ~Landed(upstream)
    /\ since_poll < LongestStep /\ elapsed < Horizon
    /\ Elapse
    /\ downstream' = Closer(downstream) /\ upstream' = Closer(upstream)
    /\ onu' = [onu EXCEPT !.next_keepalive = IF onu.armed THEN @ - 1 ELSE @,
                          !.age = IF @ = None THEN None ELSE @ + 1]
    /\ since_poll' = since_poll + 1
    /\ elapsed' = elapsed + 1
    /\ unregistered' = IF link_up /\ onu.llid = NoLlid THEN unregistered + 1 ELSE 0
    /\ UNCHANGED <<turn, breaks, cut_off>>

\* The loop is at the responder: it hears what has landed, one frame after the other,
Hear ==
    /\ Quiet /\ since_poll \in Steps
    /\ Landed(downstream)
    /\ OnuDeliver(Head(downstream).frame, Head(downstream).left)
    /\ downstream' = Tail(downstream)
    /\ turn' = TRUE
    /\ unregistered' = IF onu'.llid = NoLlid THEN unregistered ELSE 0
    /\ cut_off' = (cut_off /\ onu'.llid # NoLlid)
    /\ UNCHANGED <<vars, since_poll, elapsed, breaks>>

\* and then runs its own timer, at the end of the turn.
Poll ==
    /\ Quiet /\ since_poll \in Steps
    /\ ~Landed(downstream)
    /\ OnuAdvance
    /\ since_poll' = 0 /\ turn' = FALSE
    /\ UNCHANGED <<vars, downstream, clocks>>

\* Link::set_link, from between two turns of the loop.
RaiseLink ==
    /\ Quiet /\ ~turn /\ set_link_up
    /\ UNCHANGED <<lines, ends, clocks>>

LowerLink ==
    /\ Quiet /\ ~turn /\ breaks < MaxBreaks /\ set_link_down
    /\ downstream' = <<>> /\ upstream' = <<>>
    /\ breaks' = breaks + 1
    /\ unregistered' = 0
    /\ cut_off' = (onu.llid # NoLlid)
    /\ UNCHANGED <<ends, elapsed>>

link_Next == Land \/ FireEvent \/ Pass \/ Hear \/ Poll \/ RaiseLink \/ LowerLink

LinkSpec == link_Init /\ [][link_Next]_link_vars

--------------------------------------------------------------------------------
OnLine(q, kind) == \E i \in DOMAIN q : q[i].frame.kind = kind

\* The two ends agree on who is registered.  A registration at the peer is one at
\* the responder, under the LLID granted; the responder's is one at the peer unless
\* the teardown is on its way or the link went down on it; and a peer that waits for
\* an acknowledgement waits for something that is on the line, since nothing but the
\* acknowledgement or the link going down takes it out of WaitAck.
EndsAgree ==
    /\ mpcp_state = "Registered" => onu.llid = assigned_llid
    /\ onu.llid # NoLlid /\ ~cut_off =>
         mpcp_state \in {"WaitAck", "Registered"} \/ OnLine(downstream, "DEREGISTER")
    /\ mpcp_state = "WaitAck" => OnLine(downstream, "REGISTER") \/ OnLine(upstream, "ACK")

\* Nothing is lost to a full fibre while the loop comes round: what the two ends send
\* in the time of a crossing and a turn of the loop fits the line ("a burst nothing
\* drains is lost rather than stored", link.rs).
LinesHaveRoom == Len(downstream) < LineDepth /\ Len(upstream) < LineDepth

\* What the frames in flight say of the registration, phase by phase.  Of a kind there
\* is none on a line, or just one, which carries the LLID.
Free(q, kinds) == \A i \in DOMAIN q : q[i].frame.kind \notin kinds
Sole(q, kind, llid) ==
    \E i \in DOMAIN q : /\ q[i].frame.kind = kind /\ q[i].frame.llid = llid
                        /\ \A j \in (DOMAIN q) \ {i} : q[j].frame.kind # kind
RequestsAhead(q) ==
    \A i, j \in DOMAIN q : q[i].frame.kind = "ACK" /\ q[j].frame.kind = "REQUEST" => j < i

Asking ==
    /\ mpcp_state \in {"Idle", "Discovery"} /\ onu.llid = NoLlid
    /\ Free(downstream, {"REGISTER", "DEREGISTER"}) /\ Free(upstream, {"ACK"})
Granting ==
    /\ mpcp_state = "WaitAck" /\ onu.llid = NoLlid
    /\ Sole(downstream, "REGISTER", assigned_llid) /\ Free(downstream, {"DEREGISTER"})
    /\ Free(upstream, {"ACK"})
Acknowledging ==
    /\ mpcp_state = "WaitAck" /\ onu.llid = assigned_llid
    /\ Free(downstream, {"REGISTER", "DEREGISTER"})
    /\ Sole(upstream, "ACK", assigned_llid) /\ RequestsAhead(upstream)
Serving ==
    /\ mpcp_state = "Registered" /\ onu.llid = assigned_llid
    /\ Free(downstream, {"REGISTER", "DEREGISTER"}) /\ Free(upstream, {"ACK", "REQUEST"})
Leaving ==
    /\ mpcp_state = "Idle" /\ onu.llid = assigned_llid
    /\ Sole(downstream, "DEREGISTER", assigned_llid) /\ Free(downstream, {"REGISTER"})
    /\ Free(upstream, {"ACK", "REQUEST"})
Stranded ==
    /\ cut_off /\ mpcp_state = "Idle" /\ onu.llid = assigned_llid
    /\ Free(downstream, {"REGISTER", "DEREGISTER"}) /\ Free(upstream, {"ACK", "REQUEST"})

\* A dark line brings no request, so the peer stays where the failure left it.
DarkLineIsQuiet ==
    ~link_up => /\ mpcp_state = "Idle" /\ due["Gate"] = Off
                /\ Free(downstream, {"GATE"}) /\ Free(upstream, {"REQUEST"})

IsLine(q) == q \in Seq(Range(q))
LinkShape ==
    /\ DOMAIN due = Timer /\ DOMAIN onu = DOMAIN NewOnu
    /\ IsLine(downstream) /\ IsLine(upstream)
    /\ assigned_llid \in Llid /\ registered_at \in Nat \cup {None}

\* The conjunction the proof of EndsAgree is by induction on.
AgreeInv ==
    /\ LinkShape
    /\ Asking \/ Granting \/ Acknowledging \/ Serving \/ Leaving \/ Stranded
    /\ mpcp_state = "Registered" <=> registered_at # None
    /\ DarkLineIsQuiet

\* "What the far end observes is the minute plus the exchange" (link.rs): a life
\* measured at the responder, grant landing to teardown landing, exceeds the peer's
\* lifetime by the two crossings of the handshake and by what the acknowledgement
\* waits: for the loop to come round, or behind a request sent in the same turn.
LifeIsLifetimePlusExchange ==
    onu.life # None =>
        onu.life - RegistrationLifetime - 2 * Crossing \in 0 .. Max({LongestStep - 1, RequestDelay})

\* What that proof is by induction on.  A frame to the responder takes a crossing and
\* waits less than a turn; one from it waits behind a request, and no request was
\* answered later than what the responder has yet to hear allows.
InOrder(q) ==
    /\ \A i \in DOMAIN q : q[i].left \in Int
    /\ \A i, j \in DOMAIN q : i < j => q[i].left <= q[j].left

LinesInTime ==
    /\ InOrder(downstream) /\ InOrder(upstream) /\ since_poll \in 0 .. LongestStep
    /\ \A i \in DOMAIN downstream : downstream[i].left \in 1 - since_poll .. Crossing
    /\ \A j \in DOMAIN upstream : upstream[j].left \in 0 .. Crossing + RequestDelay
    /\ \A i \in DOMAIN downstream, j \in DOMAIN upstream :
          \/ upstream[j].left <= Crossing
          \/ upstream[j].left <= Crossing + RequestDelay + downstream[i].left

\* What the acknowledgement waited is in the responder's age from the grant on, and in
\* its life at the end.
Waited(time) == time \in 0 .. Max({LongestStep - 1, RequestDelay})

ExchangeInTime ==
    /\ onu.age \in Nat \cup {None} /\ onu.next_keepalive \in Int
    /\ onu.llid # NoLlid => onu.age # None
    /\ \A i \in DOMAIN upstream :
          upstream[i].frame.kind = "ACK" => Waited(onu.age + upstream[i].left - Crossing)
    /\ registered_at # None =>
          /\ due["Lifetime"] \in Nat /\ due["Lifetime"] = RegistrationLifetime - registered_at
          /\ Waited(onu.age - registered_at - Crossing)
    /\ \A i \in DOMAIN downstream :
          downstream[i].frame.kind = "DEREGISTER" =>
             Waited(onu.age + downstream[i].left - RegistrationLifetime - 2 * Crossing)
    /\ onu.life # None => Waited(onu.life - RegistrationLifetime - 2 * Crossing)

LifeInv == AgreeInv /\ LinesInTime /\ ExchangeInTime

\* What the proof that the lines have room is by induction on: of each kind there is one
\* frame at most on a line.  That of the peer's timer t was sent when t was armed last,
\* and will be heard before it fires again.
Single(q, kind, latest) ==
    \A i \in DOMAIN q : q[i].frame.kind = kind =>
       /\ q[i].left <= latest
       /\ \A j \in DOMAIN q : q[j].frame.kind = kind => j = i

SentBy(t, interval) == IF due[t] = Off THEN Crossing ELSE due[t] - interval + Crossing

Kinds(q, kinds) == \A i \in DOMAIN q : q[i].frame.kind \in kinds

\* A read of the rotation is heard before the next one, and before discovery is back at
\* convergence: for that the responder must be heard twice, or this end speak twice.
RotationHasRoom ==
    /\ Single(downstream, "OTHER", Crossing)
    /\ \A i \in DOMAIN downstream : downstream[i].frame.kind = "OTHER" =>
         /\ discovery.state = "Converged" =>
              downstream[i].left <= SentBy("AttributePoll", AttributeInterval)
         /\ discovery.state = "LocalStable" =>
              /\ onu.armed /\ downstream[i].left + LongestStep <= onu.next_keepalive + Crossing
              /\ \A j \in DOMAIN upstream : upstream[j].frame.kind = "INFO" =>
                   downstream[i].left + LongestStep <= upstream[j].left
         /\ discovery.state = "LocalEvaluating" =>
              \/ discovery.sent = 0
              \/ /\ discovery.sent = 1
                 /\ downstream[i].left <= SentBy("Keepalive", OamInterval)

DownstreamHasRoom ==
    /\ Kinds(downstream, {"GATE", "NORMAL_GATE", "INFO", "OTHER", "REGISTER", "DEREGISTER"})
    /\ Single(downstream, "GATE", SentBy("Gate", GateInterval))
    /\ Single(downstream, "NORMAL_GATE", SentBy("NormalGate", NormalGateInterval))
    /\ Single(downstream, "INFO", SentBy("Keepalive", OamInterval))
    /\ RotationHasRoom

\* What is on the line longer than a crossing is a request, or waits behind one.
BehindRequests(q) ==
    \A j \in DOMAIN q : q[j].left > Crossing =>
       \E k \in 1 .. j : q[k].frame.kind = "REQUEST" /\ q[j].left <= q[k].left

\* A request answers a GATE, and an OAMPDU of the responder is behind its keepalive.
UpstreamHasRoom ==
    /\ Kinds(upstream, {"REQUEST", "ACK", "INFO"})
    /\ Single(upstream, "REQUEST", SentBy("Gate", GateInterval) + Crossing + LongestPause)
    /\ \A i \in DOMAIN downstream : downstream[i].frame.kind = "GATE" =>
         Single(upstream, "REQUEST", downstream[i].left - GateInterval + Crossing + LongestPause)
    /\ BehindRequests(upstream)
    /\ Single(upstream, "INFO", onu.next_keepalive - KeepaliveInterval
                                  + Crossing + RequestDelay + LongestStep - 1)
    /\ onu.armed \/ Free(upstream, {"INFO"})

\* The timers and the discovery behind it.
TimersTick ==
    /\ \A t \in Timer : due[t] \in Nat \cup {Off}
    /\ onu.armed => onu.next_keepalive >= 1 - since_poll
    /\ DOMAIN discovery = DOMAIN DefaultDiscovery
    /\ discovery.state \in DiscoveryState /\ discovery.sent \in Nat
    /\ discovery.state = "Converged" <=> due["AttributePoll"] # Off
    /\ ~link_up => /\ discovery.state = "LocalEvaluating" /\ discovery.sent = 0
                   /\ due["Keepalive"] = Off /\ Free(downstream, {"INFO", "OTHER"})

RoomInv == TimersTick /\ DownstreamHasRoom /\ UpstreamHasRoom

\* A responder without an LLID on a link that is up gets one within the silence
\* after a teardown, the windows the peer passes over, and one handshake.  (After a
\* teardown the silence has begun one crossing earlier, and after the link rose
\* there is none.)
LongestWait ==
    RediscoveryDelay + (IgnoredRegisterRequests + 1) * GateInterval
      + 2 * Crossing + RequestDelay + ProcessingDelay + 2 * (LongestStep - 1)
ComesBackInTime == unregistered <= LongestWait

\* Both ends keep up with the line: what they send finds room on it, and a responder
\* that lost its LLID is back in time.
LinkKeepsUp == LinesHaveRoom /\ ComesBackInTime

\* What the proof that it is back in time is by induction on.  A window is a request
\* on the upstream, a GATE on the downstream that will be answered by one, or the GATE
\* that is due, in this order.  The windows o at R, g at D and t are in turn if each
\* opens by `next` or within an interval of one ahead of it.
InTurn(next, R, o, D, g, t) ==
    /\ \A j \in R : \/ o[j] <= next
                    \/ \E k \in R : k < j /\ o[j] <= o[k] + GateInterval
    /\ \A i \in D : \/ g[i] <= next
                    \/ \E k \in R : g[i] <= o[k] + GateInterval
                    \/ \E k \in D : k < i /\ g[i] <= g[k] + GateInterval
    /\ \/ t <= next
       \/ \E k \in R : t <= o[k] + GateInterval
       \/ \E k \in D : t <= g[k] + GateInterval

Requests == {j \in DOMAIN upstream : upstream[j].frame.kind = "REQUEST"}
Gates == {i \in DOMAIN downstream : downstream[i].frame.kind = "GATE"}

\* From a GATE leaving the peer to the request that answers it landing there.
Exchange == 2 * Crossing + RequestDelay + LongestStep - 1

\* When the next window the peer counts is open at the latest.
NextWindow ==
    IF settling THEN due["Rediscovery"] + GateInterval
    ELSE RediscoveryDelay - Crossing + (register_requests_seen + 1) * GateInterval - unregistered

WindowsInTime ==
    \E taken \in [Requests -> 0 .. Exchange] :
        InTurn(NextWindow, Requests, [j \in Requests |-> upstream[j].left - taken[j]],
               Gates, [i \in Gates |-> downstream[i].left - Crossing], due["Gate"])

\* By when the peer has accepted a request at the latest.
Accepting ==
    RediscoveryDelay - Crossing + (IgnoredRegisterRequests + 1) * GateInterval + Exchange

PeerIsTimed ==
    /\ register_requests_seen \in Nat /\ settling \in BOOLEAN /\ link_up \in BOOLEAN
    /\ link_up => due["Gate"] \in 0 .. GateInterval
    /\ settling => due["Rediscovery"] \in Nat
    /\ ~settling => due["Rediscovery"] = Off
    /\ mpcp_state = "Discovery" => ~settling /\ due["RegisterResponse"] \in Nat
    /\ mpcp_state = "Idle" /\ ~settling => register_requests_seen <= IgnoredRegisterRequests
    /\ mpcp_state = "Idle" /\ ~settling /\ onu.llid # NoLlid => register_requests_seen = 0
    /\ ~link_up => ~settling /\ register_requests_seen = 0

Unserved == link_up /\ onu.llid = NoLlid

\* In the silence after a teardown, waiting for a window, for the answer to a request,
\* and for the grant to land.
ReturnInTime ==
    /\ PeerIsTimed
    /\ unregistered \in Nat /\ (~Unserved => unregistered = 0)
    /\ \A i \in DOMAIN downstream : downstream[i].frame.kind = "DEREGISTER" /\ settling =>
          due["Rediscovery"] <= RediscoveryDelay - Crossing + downstream[i].left
    /\ Unserved /\ mpcp_state = "Idle" /\ settling =>
          unregistered + due["Rediscovery"] <= RediscoveryDelay - Crossing
    /\ Unserved /\ mpcp_state = "Idle" => WindowsInTime
    /\ mpcp_state = "Discovery" =>
          unregistered + due["RegisterResponse"] <= Accepting + ProcessingDelay
    /\ \A i \in DOMAIN downstream : downstream[i].frame.kind = "REGISTER" =>
          unregistered + downstream[i].left <= Accepting + ProcessingDelay + Crossing

\* A statement the code does not keep.

\* "it does the smallest thing that keeps a link alive" (onu.rs): a link that comes
\* back up finds a responder that registers again.  It does not when the link went
\* down on a registration: the responder keeps its LLID and answers no GATE.
SurvivesAnOutage == cut_off /\ link_up => OnLine(downstream, "DEREGISTER")
===============================================================================
