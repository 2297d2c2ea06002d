------------------------------- MODULE Codecs -------------------------------
(***************************************************************************)
(* Frames as bytes: what the writers of the epon-olt crate put on the      *)
(* fibre (types.rs, mpcp.rs, oam.rs, extended.rs), what its readers make   *)
(* of them, and the words a frame crosses the OLT mailbox in               *)
(* (olt/mailbox.rs).  A PDU is chosen, written, possibly cut short on the  *)
(* way and read again; a submission is announced and pushed word by word.  *)
(*                                                                         *)
(* Offsets are the code's, from zero; a 16-bit value is a pair of bytes, a *)
(* 32-bit one four.  Addresses, timestamps and OUIs are fixed bytes: they  *)
(* are copied in both directions and nothing is decided by them.           *)
(***************************************************************************)
EXTENDS Integers, Sequences, FiniteSets, SequencesExt

CONSTANTS
    MpcpSamples,       \* MPCP PDUs that are written
    OamSamples,        \* the flags words of Information PDUs
    RequestSamples,    \* descriptor lists of extended get-requests
    ResponseSamples,   \* container lists of extended get-responses
    Cuts,              \* lengths a frame may be cut to
    Announced,         \* lengths a submission is announced with
    MaxWords           \* MAX_WORDS

(* The length field of the command has eleven bits, and MAX_WORDS holds    *)
(* the words of all of them but one.                                       *)
ASSUME CodecAssumption == /\ Announced \subseteq 0 .. 2047
                          /\ MaxWords \in Nat /\ MaxWords >= 512

VARIABLES
    pdu,               \* what is to be written
    wire,              \* the frame
    asm,               \* TxAssembler.pending: length and words so far, or none
    out                \* what the last submission came to

codec_vars == <<pdu, wire, asm, out>>

MIN_FRAME_LEN == 60
ETHERNET_HEADER_LEN == 14
At(f, off) == f[off + 1]
Has(f, off) == off < Len(f)
Slice(f, off, n) == SubSeq(f, off + 1, off + n)
pad_to(f, n) == IF Len(f) >= n THEN f ELSE f \o [i \in 1 .. n - Len(f) |-> 0]

Dst == <<1, 128, 194, 0, 0, 1>>
Src == <<2, 0, 0, 0, 0, 9>>
Stamp == <<0, 1, 2, 3>>
EtherMpcp == <<136, 8>>
EtherSlow == <<136, 9>>
of_frame(f) == IF Has(f, 13) THEN Slice(f, 12, 2) ELSE <<>>

-----------------------------------------------------------------------------
(* MPCP.                                                                   *)
Opcode == [Gate |-> 2, Report |-> 3, RegisterReq |-> 4, Register |-> 5, RegisterAck |-> 6]
OpcodeName(v) == IF \E k \in DOMAIN Opcode : Opcode[k] = v
                   THEN CHOOSE k \in DOMAIN Opcode : Opcode[k] = v ELSE "Other"

mpcp_writer(kind) == Dst \o Src \o EtherMpcp \o <<0, Opcode[kind]>> \o Stamp

(* GateFlags::as_u8 / from_u8: three bits of count, the discovery bit, and *)
(* the force-report bits above.                                            *)
gate_flags(g) == (g.count % 8) + (IF g.discovery THEN 8 ELSE 0) + 16 * (g.force % 16)
gate_flags_of(v) == [count |-> v % 8, discovery |-> (v \div 8) % 2 = 1, force |-> v \div 16]

(* mpcp::gate, register, register_ack, register_req, report_with_length    *)
mpcp_body(p) ==
    CASE p.kind = "Gate" -> <<gate_flags(p.flags)>> \o p.grant \o p.window
      [] p.kind = "Register" -> p.llid \o <<p.flag>> \o p.sync \o <<0, 32, 32>>
      [] p.kind = "RegisterAck" -> <<p.flag>> \o p.llid \o p.sync
      [] p.kind = "RegisterReq" -> <<p.flag, p.pending>> \o p.info \o <<32, 32>>
      [] p.kind = "Report" -> <<1, 1>> \o p.queue
mpcp_frame(p) == pad_to(mpcp_writer(p.kind) \o mpcp_body(p), MIN_FRAME_LEN)

(* Pdu::parse: a header that is not all there gives nothing; body bytes    *)
(* that are missing read as zero, a grant that is not all there is none.   *)
mpcp_parse(f) ==
    IF of_frame(f) # EtherMpcp \/ ~Has(f, 19) THEN <<>>
    ELSE LET body(i) == IF Has(f, 20 + i) THEN At(f, 20 + i) ELSE 0
             pair(i) == <<body(i), body(i + 1)>>
             kind == IF At(f, 14) = 0 THEN OpcodeName(At(f, 15)) ELSE "Other"
         IN << CASE kind = "Gate" ->
                      LET fl == gate_flags_of(body(0))
                      IN [kind |-> kind, flags |-> fl,
                          grant |-> IF fl.count > 0 /\ Len(f) >= 27 THEN pair(1) \o pair(3) \o pair(5)
                                                                    ELSE <<>>]
                 [] kind = "Register" ->
                      [kind |-> kind, llid |-> pair(0), flag |-> body(2), sync |-> pair(3)]
                 [] kind = "RegisterAck" ->
                      [kind |-> kind, flag |-> body(0), llid |-> pair(1), sync |-> pair(3)]
                 [] kind = "RegisterReq" ->
                      [kind |-> kind, flag |-> body(0), pending |-> body(1), info |-> pair(2)]
                 [] OTHER -> [kind |-> kind] >>

(* onu.rs discovery_window: the ONU finds the information word at a fixed  *)
(* place, behind a grant.                                                  *)
discovery_window(f) == IF Has(f, 30) THEN Slice(f, 29, 2) ELSE <<>>

(* What the reader should get back of a PDU.                               *)
MpcpFields(p) == CASE p.kind = "Gate" -> [kind |-> "Gate", flags |-> p.flags, grant |-> p.grant]
                   [] p.kind = "Register" ->
                        [kind |-> p.kind, llid |-> p.llid, flag |-> p.flag, sync |-> p.sync]
                   [] p.kind = "RegisterAck" ->
                        [kind |-> p.kind, flag |-> p.flag, llid |-> p.llid, sync |-> p.sync]
                   [] p.kind = "RegisterReq" ->
                        [kind |-> p.kind, flag |-> p.flag, pending |-> p.pending, info |-> p.info]
                   [] p.kind = "Report" -> [kind |-> p.kind]

-----------------------------------------------------------------------------
(* OAM.                                                                    *)
FlagBits == <<"link_fault", "dying_gasp", "critical_event", "local_evaluating",
              "local_stable", "remote_evaluating", "remote_stable">>
(* Flags::as_u16 / from_u16                                                *)
flags_word(fl) == FoldLeft(LAMBDA acc, i : acc + (IF FlagBits[i] \in fl THEN 2 ^ (i - 1) ELSE 0),
                           0, [i \in 1 .. 7 |-> i])
flags_of(v) == {FlagBits[i] : i \in {k \in 1 .. 7 : (v \div 2 ^ (k - 1)) % 2 = 1}}

Code == [Information |-> 0, OrganizationSpecific |-> 254]
InfoTlv == <<1, 16, 1, 0, 0, 0, 20, 6, 0, 0, 16, 0, 0, 0, 0, 0>>

oam_writer(fl, code) == Dst \o Src \o EtherSlow \o <<3, 0, flags_word(fl), code>>
oam_information(fl) == pad_to(oam_writer(fl, Code.Information) \o InfoTlv \o <<0, 0>>, MIN_FRAME_LEN)

oam_parse(f) == IF of_frame(f) # EtherSlow \/ ~Has(f, 17) THEN <<>>
                ELSE << [subtype |-> At(f, 14), flags |-> flags_of(At(f, 16)), code |-> At(f, 17)] >>

(* dissect_oam's walk over the TLVs: offsets and lengths of the ones shown.*)
tlv_walk(f, start) ==
    LET walk[off \in Nat] ==
          IF ~Has(f, off + 1) \/ At(f, off) = 0 THEN <<>>
          ELSE LET len == At(f, off + 1)
                   step == IF len < 2 THEN 2 ELSE len
               IN <<[kind |-> At(f, off), off |-> off, len |-> step]>>
                  \o (IF step > Len(f) - off THEN <<>> ELSE walk[off + step])
    IN walk[start]

-----------------------------------------------------------------------------
(* Extended OAM: descriptors <<branch, leaf hi, leaf lo>>, containers with *)
(* a length octet that is not a plain count.                               *)
FULL_WIDTH == 128
ObjectContext == 214
Stats == {<<215, 3, 1>>, <<215, 3, 2>>}

(* Length::of_value, which refuses what would be read as something else.   *)
of_value(n) == CASE n = FULL_WIDTH -> <<0>>
                 [] n \in 1 .. 127 -> <<n>>
                 [] OTHER -> <<>>

(* Length::data_len of from_u8: 0 is full width, a set top bit a status.   *)
data_len(v) == CASE v = 0 -> FULL_WIDTH [] v \in 1 .. 127 -> v [] OTHER -> 0

ext_writer(opcode) == oam_writer({}, Code.OrganizationSpecific) \o <<0, 16, 0, opcode>>
GetRequest == 1
GetResponse == 2
Terminator == <<0, 0, 0, 0>>

get_request(ds) == pad_to(ext_writer(GetRequest) \o FlattenSeq(ds) \o Terminator, MIN_FRAME_LEN)
get_response(cs) ==
    pad_to(ext_writer(GetResponse)
             \o FlattenSeq([i \in DOMAIN cs |-> cs[i].descriptor \o <<cs[i].length>> \o cs[i].value])
             \o Terminator, MIN_FRAME_LEN)

(* request_parameter_len: an object context is written out in full even in *)
(* a request, statistics take three parameter bytes.                       *)
ParameterLen(d) == IF d \in Stats THEN 3 ELSE 0

(* parse_variables: until the terminator or fewer than three bytes; values *)
(* that are not all there are taken as far as they go.                     *)
parse_variables(b, opcode) ==
    LET Capped(n, left) == IF n < left THEN n ELSE left
        Variable(d, n, v) == <<[descriptor |-> d, length |-> n, value |-> v]>>
        parse[at \in Nat] ==
          LET d == Slice(b, at, 3)
              left == Len(b) - at
          IN IF left < 3 \/ d = <<0, 0, 0>> THEN <<>>
             ELSE IF opcode = GetRequest /\ d[1] # ObjectContext
               THEN LET take == Capped(ParameterLen(d), left - 3)
                    IN Variable(d, -1, Slice(b, at + 3, take)) \o parse[at + 3 + take]
             ELSE IF left < 4 THEN <<>>
             ELSE LET take == Capped(data_len(At(b, at + 3)), left - 4)
                  IN Variable(d, At(b, at + 3), Slice(b, at + 4, take)) \o parse[at + 4 + take]
    IN parse[0]

ext_parse(f) ==
    LET head == oam_parse(f)
    IN IF head = <<>> \/ ~Has(f, 21) THEN <<>>
       ELSE IF head[1].subtype # 3 \/ head[1].code # Code.OrganizationSpecific THEN <<>>
       ELSE parse_variables(SubSeq(f, 23, Len(f)), At(f, 21))

-----------------------------------------------------------------------------
(* The mailbox.                                                            *)

(* word_count: the header word on its own, the remainder rounded up.       *)
word_count(len) ==
    LET total == len + 6
        n == IF total \div 4 < 2 THEN 0 ELSE (total \div 4) - 2
    IN 1 + n + (IF total % 4 # 0 THEN 1 ELSE 0)

(* encode_frame: a status word, eleven bits of length with two bytes of    *)
(* the frame, then four bytes a word.                                      *)
encode_words(len) == 2 + (IF len > 2 THEN (len - 2 + 3) \div 4 ELSE 0)
encode_length(len) == (len + 6) % 2048

NoSubmission == [len |-> 0, words |-> 0]
Idle == [kind |-> "none", len |-> 0, words |-> 0]

(* TxAssembler::begin: shorter than a header is ignored, a submission that *)
(* never completed is dropped.                                             *)
begin(len) ==
    /\ len >= ETHERNET_HEADER_LEN
    /\ asm' = [len |-> len, words |-> 0]
    /\ out' = IF asm = NoSubmission THEN Idle ELSE [Idle EXCEPT !.kind = "dropped"]
    /\ UNCHANGED <<pdu, wire>>

Complete_words(a) == a.words >= word_count(a.len)

(* TxAssembler::push_word: the bytes behind the two of padding.            *)
push_word ==
    /\ asm # NoSubmission
    /\ LET a == [asm EXCEPT !.words = @ + 1]
       IN \/ /\ a.words > MaxWords
             /\ asm' = NoSubmission
             /\ out' = [kind |-> "dropped", len |-> a.len, words |-> a.words]
          \/ /\ a.words <= MaxWords /\ ~Complete_words(a)
             /\ asm' = a /\ out' = Idle
          \/ /\ a.words <= MaxWords /\ Complete_words(a)
             /\ asm' = NoSubmission
             /\ out' = [kind |-> IF 4 * a.words >= 2 + a.len THEN "frame" ELSE "dropped",
                        len |-> a.len, words |-> a.words]
    /\ UNCHANGED <<pdu, wire>>

-----------------------------------------------------------------------------
FrameOf(p) == CASE p.what = "mpcp" -> mpcp_frame(p.of)
                [] p.what = "oam" -> oam_information(p.of)
                [] p.what = "request" -> get_request(p.of)
                [] p.what = "response" -> get_response(p.of)

codec_Init ==
    /\ \/ \E p \in MpcpSamples : pdu = [what |-> "mpcp", of |-> p]
       \/ \E p \in OamSamples : pdu = [what |-> "oam", of |-> p]
       \/ \E p \in RequestSamples : pdu = [what |-> "request", of |-> p]
       \/ \E p \in ResponseSamples : pdu = [what |-> "response", of |-> p]
       \/ pdu = [what |-> "none"]
    /\ wire = <<>> /\ asm = NoSubmission /\ out = Idle

Write == /\ pdu.what # "none" /\ wire = <<>>
         /\ wire' = FrameOf(pdu)
         /\ UNCHANGED <<pdu, asm, out>>

(* A frame that is not all there.                                          *)
Cut == /\ wire # <<>>
       /\ \E n \in Cuts : n < Len(wire) /\ wire' = SubSeq(wire, 1, n)
       /\ UNCHANGED <<pdu, asm, out>>

Submit == pdu.what = "none" /\ \E len \in Announced : begin(len)
Push == pdu.what = "none" /\ push_word

codec_Next == Write \/ Cut \/ Submit \/ Push

-----------------------------------------------------------------------------
Whole == wire # <<>> /\ wire = FrameOf(pdu)

(* Whatever is written is read back: the fields of an MPCP PDU with the    *)
(* discovery information where the ONU looks for it, the flags of an OAM   *)
(* PDU with its one TLV, and the whole list of an extended PDU, also when  *)
(* it ends in a full-width value or a status.                              *)
WritersAndReadersAgree ==
    Whole =>
      /\ pdu.what = "mpcp" =>
           /\ mpcp_parse(wire) = <<MpcpFields(pdu.of)>>
           /\ pdu.of.kind = "Gate" => (pdu.of.window # <<>> =>
                                         discovery_window(wire) = Slice(pdu.of.window, 2, 2))
           /\ oam_parse(wire) = <<>>
      /\ pdu.what = "oam" =>
           /\ oam_parse(wire) = <<[subtype |-> 3, flags |-> pdu.of, code |-> Code.Information]>>
           /\ tlv_walk(wire, 18) = <<[kind |-> 1, off |-> 18, len |-> 16]>>
           /\ mpcp_parse(wire) = <<>> /\ ext_parse(wire) = <<>>
      /\ pdu.what = "request" =>
           ext_parse(wire) = [i \in DOMAIN pdu.of |->
                                [descriptor |-> pdu.of[i], length |-> -1, value |-> <<>>]]
      /\ pdu.what = "response" => ext_parse(wire) = pdu.of

(* A frame cut short never turns into a different one: no grant of a cut   *)
(* GATE but the one that was sent, no variable but a first part of the     *)
(* list (its last value possibly short).                                   *)
CutsInventNothing ==
    wire # <<>> =>
      /\ pdu.what = "mpcp" =>
           LET got == mpcp_parse(wire)
           IN got # <<>> => /\ got[1].kind = pdu.of.kind
                            /\ pdu.of.kind = "Gate" => got[1].grant \in {<<>>, pdu.of.grant}
      /\ pdu.what \in {"request", "response"} =>
           LET got == ext_parse(wire)
           IN /\ Len(got) <= Len(pdu.of)
              /\ \A i \in DOMAIN got :
                   IF pdu.what = "request" THEN got[i].descriptor = pdu.of[i]
                   ELSE got[i] = pdu.of[i]
                        \/ /\ i = Len(got) /\ got[i].descriptor = pdu.of[i].descriptor
                           /\ IsPrefix(got[i].value, pdu.of[i].value)

(* A submission comes out with exactly the words its bytes need: none of   *)
(* the lengths the command can announce waits for a word that never comes  *)
(* or is cut, and only 2047 bytes, the largest of them, does not fit.      *)
SubmissionsFit ==
    /\ out.kind = "frame" => 4 * out.words >= 2 + out.len /\ 4 * (out.words - 1) < 2 + out.len
    /\ out.kind = "dropped" /\ out.len > 0 => out.len = 2047
    /\ asm # NoSubmission => asm.words < MaxWords \/ asm.len = 2047

(* Downstream, the words hold the frame and the length field says so, for  *)
(* every length the eleven bits can tell.                                  *)
MailboxWordsHold ==
    \A len \in {l \in Announced : l < 2042} :
        encode_length(len) - 6 = len /\ 4 * (encode_words(len) - 1) >= 2 + len
=============================================================================
