------------------------------- MODULE Uplink -------------------------------
(***************************************************************************)
(* The upstream half of the OLT port (olt/mod.rs, olt/mailbox.rs,          *)
(* olt/report.rs): what the firmware's contexts push through the transmit  *)
(* port is reassembled into frames, the MAC answers grants from its report *)
(* template, the bank synthesizes a request on a burst trigger, and all    *)
(* three go on the same line to the peer.  The peer is reduced to whether  *)
(* it knows the ONU's address, whether a request is open, whether it has   *)
(* registered the ONU on the strength of one, and how many ordinary grants *)
(* it has opened (Peer.tla is the whole of it).  The downstream half is    *)
(* OltPort.tla.                                                            *)
(***************************************************************************)
EXTENDS Integers, Sequences, SequencesExt

CONSTANTS
    Ports,           \* transmit blocks, one per firmware context
    UpWords,         \* words a submission is announced with
    TemplateLengths, \* lengths the firmware may write to the template
    MinMpcpdu,       \* MIN_MPCPDU_LEN
    UpDepth,         \* frames the upstream holds
    Crossing,        \* ticks a frame takes to cross
    RiseTicks,       \* LINK_UP_DELAY_TICKS
    GrantsPerTick,   \* ordinary grants the peer may open within one tick
    MaxSubmissions, MaxTriggers, MaxUpTicks, MaxBreaks   \* bounds of the instance

ASSUME UplinkAssumption ==
    /\ UpWords \in Nat \ {0} /\ UpDepth \in Nat \ {0}
    /\ Crossing \in Nat \ {0} /\ RiseTicks \in Nat \ {0}
    /\ GrantsPerTick \subseteq Nat /\ TemplateLengths \subseteq Nat
    /\ "none" \notin Ports

VARIABLES
    context,         \* per block, the submission its context is pushing: [id, kind, pushed]
    tx_assembler,    \* TxAssembler.pending: [port, id, kind, words], port NoPort for None
    report_template, \* Template: [length, programmed]
    real_tx_seen,    \* Olt.real_tx_seen
    grants_answered, \* Olt.grants_answered
    upstream,        \* Link.upstream: frames, each with the tick it lands at
    fibre_up, rise,   \* Olt.link_up, Olt.link_up_delay
    far_end,         \* the peer: [known, asked, registered, granted]
    up_tick,         \* ticks elapsed
    made             \* history: [ids, reports, triggers, breaks]

uplink_vars == <<context, tx_assembler, report_template, real_tx_seen, grants_answered,
                 upstream, fibre_up, rise, far_end, up_tick, made>>

NoPort == "none"
NoPending == [port |-> NoPort, id |-> 0, kind |-> "data", words |-> <<>>]
AtRest == [id |-> 0, kind |-> "data", pushed |-> 0]
NewPeer == [known |-> FALSE, asked |-> FALSE, registered |-> FALSE, granted |-> 0]

(* Olt::new: the line is live from the start and rises after the delay.    *)
uplink_Init ==
    /\ context = [p \in Ports |-> AtRest]
    /\ tx_assembler = NoPending
    /\ report_template = [length |-> 0, programmed |-> FALSE]
    /\ real_tx_seen = FALSE /\ grants_answered = 0
    /\ upstream = <<>>
    /\ fibre_up = FALSE /\ rise = RiseTicks
    /\ far_end = NewPeer
    /\ up_tick = 0
    /\ made = [ids |-> 0, reports |-> 0, triggers |-> 0, breaks |-> 0]

(* Template::is_armed.                                                     *)
is_armed == report_template.programmed /\ report_template.length >= MinMpcpdu

(* Olt::on_tx_frame: on the line whether or not the line is up, and lost   *)
(* when the line is full.                                                  *)
on_tx_frame(line, frame, at) ==
    IF Len(line) >= UpDepth THEN line
    ELSE Append(line, [frame |-> frame, arrives_at |-> at + Crossing,
                       session |-> made.breaks])

-----------------------------------------------------------------------------
(* Command::Write on a block's command port: TxAssembler::begin abandons   *)
(* whatever was being assembled, for this block or another.                *)
AnnounceFrame(p, kind) ==
    /\ made.ids < MaxSubmissions
    /\ context[p].id = 0
    /\ context' = [context EXCEPT ![p] = [id |-> made.ids + 1, kind |-> kind, pushed |-> 0]]
    /\ tx_assembler' = [port |-> p, id |-> made.ids + 1, kind |-> kind, words |-> <<>>]
    /\ made' = [made EXCEPT !.ids = @ + 1]
    /\ UNCHANGED <<report_template, real_tx_seen, grants_answered, upstream, fibre_up, rise,
                   far_end, up_tick>>

(* Olt::on_captured_tx: the first frame captured rewinds the handshake the *)
(* synthetic path may have driven.                                         *)
on_captured_tx(frame) ==
    /\ upstream' = on_tx_frame(upstream, frame, up_tick)
    /\ real_tx_seen' = TRUE
    /\ far_end' = IF real_tx_seen THEN far_end
                  ELSE [far_end EXCEPT !.asked = FALSE, !.registered = FALSE]

\* A slip: while a frame is put together, words of every block are taken.
TakesAny(p) == tx_assembler.port # NoPort

(* TxAssembler::push_word is for the block that announced last.            *)
Takes(p) == tx_assembler.port = p

(* A word on a block's data port; the last word makes the frame.           *)
PushData(p) ==
    LET word  == <<context[p].id, context[p].pushed + 1>>
        words == Append(tx_assembler.words, word)
        done  == context[p].pushed + 1 = UpWords
    IN /\ context[p].id # 0
       /\ context' = [context EXCEPT ![p] = IF done THEN AtRest
                                            ELSE [context[p] EXCEPT !.pushed = @ + 1]]
       /\ \/ /\ ~Takes(p)
             /\ UNCHANGED <<tx_assembler, upstream, real_tx_seen, far_end>>
          \/ /\ Takes(p) /\ Len(words) < UpWords
             /\ tx_assembler' = [tx_assembler EXCEPT !.words = words]
             /\ UNCHANGED <<upstream, real_tx_seen, far_end>>
          \/ /\ Takes(p) /\ Len(words) = UpWords
             /\ tx_assembler' = NoPending
             /\ on_captured_tx([kind |-> tx_assembler.kind, words |-> words])
       /\ UNCHANGED <<report_template, grants_answered, fibre_up, rise, up_tick, made>>

(* Template::observe_write of the length word: it alone arms the template. *)
WriteTemplate(n) ==
    /\ report_template' = [length |-> n, programmed |-> TRUE]
    /\ UNCHANGED <<context, tx_assembler, real_tx_seen, grants_answered, upstream, fibre_up,
                   rise, far_end, up_tick, made>>

(* PeripheralBank::handle_mpcp_burst_trigger: not while the line is down,  *)
(* and not once the firmware has sent a frame of its own.                  *)
BurstTrigger ==
    /\ made.triggers < MaxTriggers
    /\ fibre_up /\ ~real_tx_seen
    /\ upstream' = on_tx_frame(upstream, [kind |-> "burst", words |-> <<>>], up_tick)
    /\ made' = [made EXCEPT !.triggers = @ + 1]
    /\ UNCHANGED <<context, tx_assembler, report_template, real_tx_seen, grants_answered,
                   fibre_up, rise, far_end, up_tick>>

-----------------------------------------------------------------------------
(* Olt::answer_grants and emit_report: what has been granted by now counts *)
(* as answered, with a REPORT when the template is armed and the ONU's     *)
(* address is known, sent at the time the tick has moved to.               *)
answer_grants(line, granted, known, now) ==
    LET reports == granted > grants_answered /\ is_armed /\ known
    IN /\ grants_answered' = granted
       /\ upstream' = IF reports
                      THEN on_tx_frame(line, [kind |-> "report",
                                              words |-> <<report_template.length>>], now)
                      ELSE line
       /\ made' = [made EXCEPT !.reports = @ + (IF reports THEN 1 ELSE 0)]

(* Olt::tick: the deferred rise, then Link::advance_to (what has landed is *)
(* delivered, then the peer's own events), then the grants.  The peer      *)
(* registers only an ONU that asked, and grants only a registered one.     *)
uplink_tick ==
    LET now   == up_tick + 1
        rises == rise = 1 /\ ~fibre_up
        was   == far_end.registered /\ ~rises
    IN /\ up_tick < MaxUpTicks
       /\ up_tick' = now
       /\ rise' = IF rise > 0 THEN rise - 1 ELSE 0
       /\ fibre_up' = (fibre_up \/ rises)
       /\ \E landed \in 0 .. Len(upstream), registered \in BOOLEAN, n \in GrantsPerTick :
            LET rest  == SubSeq(upstream, landed + 1, Len(upstream))
                hears == \E i \in 1 .. landed : upstream[i].frame.kind \in {"request", "burst"}
            IN /\ \A i \in 1 .. landed : upstream[i].arrives_at <= now
               /\ landed < Len(upstream) => upstream[landed + 1].arrives_at > now
               /\ registered => was \/ far_end.asked \/ hears
               /\ n > 0 => was \/ registered
               /\ far_end' = [known |-> far_end.known \/ hears,
                              asked |-> far_end.asked \/ hears,
                              registered |-> registered, granted |-> far_end.granted + n]
               /\ answer_grants(rest, far_end.granted + n, far_end.known \/ hears, now)
       /\ UNCHANGED <<context, tx_assembler, report_template, real_tx_seen>>

(* Olt::set_link_up and Link::set_link: the peer starts over either way,   *)
(* and going down empties the line; the transmit port is left alone.       *)
set_line(up) ==
    /\ up # fibre_up
    /\ fibre_up' = up
    /\ far_end' = [far_end EXCEPT !.registered = FALSE, !.asked = @ /\ up]
    /\ IF up THEN UNCHANGED <<upstream, made>>
       ELSE /\ made.breaks < MaxBreaks
            /\ upstream' = <<>>
            /\ made' = [made EXCEPT !.breaks = @ + 1]
    /\ UNCHANGED <<context, tx_assembler, report_template, real_tx_seen, grants_answered,
                   rise, up_tick>>

(* Olt::reset_cold (reset_warm is the same), with the processor's reset: a *)
(* line that is up or about to rise rises again after the delay.           *)
uplink_reset ==
    /\ made.breaks < MaxBreaks
    /\ context' = [p \in Ports |-> AtRest]
    /\ tx_assembler' = NoPending
    /\ report_template' = [length |-> 0, programmed |-> FALSE]
    /\ real_tx_seen' = FALSE /\ grants_answered' = 0
    /\ upstream' = <<>>
    /\ fibre_up' = FALSE
    /\ rise' = IF fibre_up \/ rise > 0 THEN RiseTicks ELSE 0
    /\ far_end' = NewPeer
    /\ made' = [made EXCEPT !.breaks = @ + 1, !.reports = 0]
    /\ UNCHANGED up_tick

uplink_Next ==
    \/ \E p \in Ports : \/ \E kind \in {"request", "data"} : AnnounceFrame(p, kind)
                        \/ PushData(p)
    \/ \E n \in TemplateLengths : WriteTemplate(n)
    \/ BurstTrigger
    \/ uplink_tick
    \/ \E up \in BOOLEAN : set_line(up)
    \/ uplink_reset

-----------------------------------------------------------------------------
IsFirmwareFrame(f) == f.kind \in {"request", "data"}

(* A frame on the line is whole and belongs where it is: a firmware frame  *)
(* is the words of one submission, all of them and in order, however the   *)
(* contexts interleave; a synthetic request is never sent behind one; the  *)
(* MAC reports no more often than it was granted, from an armed template;  *)
(* and nothing crosses a break of the line.                                *)
UplinkIsWhole ==
    /\ \A i \in DOMAIN upstream : LET f == upstream[i].frame IN
         /\ IsFirmwareFrame(f) =>
              \E id \in 1 .. made.ids : f.words = [n \in 1 .. UpWords |-> <<id, n>>]
         /\ f.kind = "report" => f.words[1] >= MinMpcpdu
         /\ upstream[i].session = made.breaks
    /\ \A i, j \in DOMAIN upstream :
         i < j /\ IsFirmwareFrame(upstream[i].frame) => upstream[j].frame.kind # "burst"
    /\ made.reports <= far_end.granted

(* What olt/mod.rs:655 says of the rewind, "so the first real request      *)
(* meets the first real response": no synthetic request is left to reach   *)
(* the peer behind it.  The code does not keep it: a synthetic request     *)
(* still on the line when the first frame is captured lands after the      *)
(* rewind.                                                                 *)
FirstRequestMeetsFirstResponse ==
    real_tx_seen => \A i \in DOMAIN upstream : upstream[i].frame.kind # "burst"
=============================================================================
