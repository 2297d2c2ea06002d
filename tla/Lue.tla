-------------------------------- MODULE Lue --------------------------------
(***************************************************************************)
(* The lookup engine: rules the firmware stores entry by entry through a   *)
(* command port (lue/port.rs), the way a rule is laid out over entries     *)
(* (lue/rule.rs), the matching of a frame against them (lue/engine.rs) and *)
(* the queue the OLT port files the frame under (olt/mod.rs).  The port    *)
(* and the frames have nothing to do with each other's timing: frames land *)
(* on bank ticks, also while the firmware is half way through a rule.      *)
(*                                                                         *)
(* A quad is a clause entry, whose fourth word is the link or the first    *)
(* action, or four plain words.  Words that are actions are records; Zero  *)
(* is the zero word.  Values of frame fields are LueBits wide (64 in the   *)
(* code).                                                                  *)
(***************************************************************************)
EXTENDS Integers, Sequences, SequencesExt, FiniteSets, FiniteSetsExt

CONSTANTS
    LueBits,           \* width of an operand
    MaxRuleEntries,    \* MAX_RULE_ENTRIES
    LueEntries,        \* entries of the table the classifier is bound to
    Plans,             \* rule sets the firmware may program: sequences of rules
    Frames,            \* frames that may land
    TagTypes,          \* TAG_ETHERTYPES
    ControlTypes,      \* MPCP, slow protocol, EAPOL
    MaxPortOps         \* bound on the port's commands

ASSUME LueAssumption == /\ LueBits \in Nat \ {0} /\ MaxRuleEntries \in Nat \ {0}
                        /\ LueEntries \in Nat \ {0} /\ MaxPortOps \in Nat

VARIABLES
    lue_table,         \* the entries present, by index
    regs,              \* the quad in the data registers
    port,              \* commands given, whatever PortCounters files them under
    plan,              \* the rule set being programmed
    order,             \* entries are written from the front or from the back
    filed,             \* how many of them have been written
    engine,            \* EngineCounters, summed over the frames
    routed             \* the last frame with the queue it went to

lue_vars == <<lue_table, regs, port, plan, order, filed, engine, routed>>

Zero == [prio |-> 0, sel |-> 0, sub |-> 0, field |-> 0, extra |-> 0]
ZeroQuad == [clause |-> <<>>, link |-> FALSE, words |-> <<Zero, Zero, Zero, Zero>>]

-----------------------------------------------------------------------------
(* Clauses.                                                                *)
EtherTypeField == 2
DestField == 0
SourceField == 1
TagFields == {3, 4}
ExtractorField == 16
LengthField == 36

(* field_presence: a field is there for certain in every Ethernet frame,   *)
(* or a tag is absent because the EtherType says so, or it is not known.   *)
field_presence(field, frame) ==
    CASE frame.short -> "Unknown"
      [] ~frame.short /\ field \in TagFields ->
           IF frame.ethertype \in TagTypes THEN "Unknown" ELSE "Absent"
      [] ~frame.short /\ field \notin TagFields ->
           IF field \in {DestField, SourceField, EtherTypeField} THEN "Present" ELSE "Unknown"

(* extract_field: the value, as a sequence that is empty when no frame     *)
(* field stands behind the code.                                           *)
extract_field(field, frame) ==
    CASE frame.short -> <<>>
      [] ~frame.short /\ field = EtherTypeField -> <<frame.ethertype>>
      [] ~frame.short /\ field = DestField -> <<frame.dst>>
      [] ~frame.short /\ field = SourceField -> <<frame.src>>
      [] ~frame.short /\ field = LengthField -> <<frame.len>>
      [] ~frame.short /\ field = ExtractorField ->
           IF field_presence(3, frame) = "Absent" THEN frame.payload ELSE <<>>
      [] OTHER -> <<>>

(* Clause::compared_bits, saturating.                                      *)
compared_bits(c) == LET left == LueBits - c.shift - c.anchor
                    IN IF left < 0 THEN 0 ELSE left

window(c, x) == (x \div 2 ^ c.anchor) % 2 ^ compared_bits(c)

(* compare: over the window, not over the whole value.                     *)
compare(c, value) ==
    LET v == window(c, value)
        o == window(c, c.operand)
    IN CASE c.op = "Never"  -> "no"
         [] c.op = "Always" -> "yes"
         [] c.op = "Eq" -> IF v = o THEN "yes" ELSE "no"
         [] c.op = "Ne" -> IF v # o THEN "yes" ELSE "no"
         [] c.op = "Le" -> IF v <= o THEN "yes" ELSE "no"
         [] c.op = "Ge" -> IF v >= o THEN "yes" ELSE "no"
         [] OTHER -> "undecidable_operator"

(* Engine::test_clause: "yes", "no", or the counter of the refusal.        *)
test_clause(c, frame) ==
    CASE c.op \in {"Exists", "NotExists"} ->
           LET p == field_presence(c.field, frame)
           IN IF p = "Unknown" THEN "undecidable_presence"
              ELSE IF (p = "Present") = (c.op = "Exists") THEN "yes" ELSE "no"
      [] c.op \notin {"Exists", "NotExists"} /\ compared_bits(c) = 0 -> "undecidable_window"
      [] OTHER -> LET value == extract_field(c.field, frame)
                  IN IF value = <<>> THEN "undecidable_field" ELSE compare(c, value[1])

-----------------------------------------------------------------------------
(* Action words: priority, selector, sub-index and field.  `extra` stands  *)
(* for bits the decoded form has no place for: such a word stays raw and   *)
(* means nothing but its priority.                                         *)
destination_queue(a) == IF a.extra = 0 /\ a.sel = 2 /\ a.sub = 0
                          THEN <<a.field % 32>> ELSE <<>>

FirstQueue(actions) ==
    LET named == {i \in DOMAIN actions : destination_queue(actions[i]) # <<>>}
    IN IF named = {} THEN <<>> ELSE destination_queue(actions[Min(named)])

(* Rule::encode: the link word after every clause, the first action over   *)
(* the last one, the others spilled into plain quads, padded with zeros.   *)
Rule_encode(rule) ==
    LET n == Len(rule.clauses)
        spill == IF rule.actions = <<>> THEN <<>> ELSE Tail(rule.actions)
        Word(k) == IF k <= Len(spill) THEN spill[k] ELSE Zero
        chain == [i \in 1 .. n |->
                    [clause |-> <<rule.clauses[i]>>, link |-> i < n \/ rule.actions = <<>>,
                     words |-> IF i < n \/ rule.actions = <<>> THEN <<>>
                                                               ELSE <<rule.actions[1]>>]]
        quads == [q \in 1 .. (Len(spill) + 3) \div 4 |->
                    [clause |-> <<>>, link |-> FALSE,
                     words |-> [w \in 1 .. 4 |-> Word(4 * (q - 1) + w)]]]
    IN IF n = 0 THEN <<>> ELSE chain \o quads

-----------------------------------------------------------------------------
Present(t, i) == i \in DOMAIN t
IsClause(t, i) == t[i].clause # <<>>
HasZero(quad) == \E w \in DOMAIN quad.words : quad.words[w] = Zero

(* Where the chain of clauses from `start` ends: at the entry bound, at a  *)
(* missing entry, at a plain quad or at a clause that is not linked.       *)
ChainStop(t, start) ==
    Min({k \in 0 .. MaxRuleEntries :
           k < MaxRuleEntries /\ Present(t, start + k) /\ IsClause(t, start + k)
             => ~t[start + k].link})

(* How many plain quads behind the chain belong to the action list: up to  *)
(* one with a zero word, a clause, a missing entry or the bound.           *)
SpillStop(t, from, room) ==
    Min({j \in 0 .. room :
           \/ j = room \/ ~Present(t, from + j)
           \/ IsClause(t, from + j)
           \/ j > 0 /\ HasZero(t[from + j - 1])})

(* A slip: the padding taken for actions.                               *)
UpToEnd(words) == words

UpToZero(words) == LET zeros == {i \in DOMAIN words : words[i] = Zero}
                   IN IF zeros = {} THEN words ELSE SubSeq(words, 1, Min(zeros) - 1)

Refused(why, span) == [error |-> why, span |-> span, clauses |-> <<>>, actions |-> <<>>]

Clauses(t, start, n) == [i \in 1 .. n |-> t[start + i - 1].clause[1]]

(* What is wrong, if anything, with the entry the chain stops at.          *)
LastEntry(t, start, k) ==
    IF k = MaxRuleEntries THEN "TooLong"
    ELSE IF ~Present(t, start + k) THEN "RanPastTheEnd"
    ELSE IF ~IsClause(t, start + k) THEN "NotAClause" ELSE ""

(* The rule of k + 1 clauses, with the m quads of spilled actions.         *)
Assembled(t, start, k, m) ==
    [error |-> "", span |-> k + 1 + m, clauses |-> Clauses(t, start, k + 1),
     actions |-> t[start + k].words
                   \o UpToZero(FlattenSeq([j \in 1 .. m |-> t[start + k + j].words]))]

FromChain(t, start, k) ==
    LET error == LastEntry(t, start, k)
    IN CASE error = "NotAClause" -> Refused(error, k + 1)
         [] error = "" -> Assembled(t, start, k,
                            SpillStop(t, start + k + 1, MaxRuleEntries - (k + 1)))
         [] OTHER -> Refused(error, k)

(* Rule::decode.                                                           *)
Rule_decode(t, start) == FromChain(t, start, ChainStop(t, start))

(* LuePort::rule_starts: read forward, skipping what each rule covers.     *)
rule_starts(t) ==
    LET keys == SetToSortSeq(DOMAIN t, <)
        Step(acc, i) ==
            IF i <= acc.through THEN acc
            ELSE [starts |-> Append(acc.starts, i),
                  through |-> i + Max({1, Rule_decode(t, i).span}) - 1]
    IN FoldLeft(Step, [starts |-> <<>>, through |-> -1], keys).starts

-----------------------------------------------------------------------------
Refusals == {"undecidable_field", "undecidable_presence", "undecidable_window",
             "undecidable_operator", "undecidable_entry", "unterminated_rules", "no_rules"}
NoVerdicts == [c \in Refusals \cup {"frames_classified", "matched", "no_match"} |-> 0]
Undecidable(why) == [kind |-> why, priority |-> 0, actions |-> <<>>]
NoMatch == [kind |-> "no_match", priority |-> 0, actions |-> <<>>]

(* Engine::evaluate_rule: the first clause that cannot be decided refuses  *)
(* the rule, even when an earlier one already said no.                     *)
Judged(rule, tests) ==
    LET undecided == {i \in DOMAIN tests : tests[i] \notin {"yes", "no"}}
    IN IF undecided # {} THEN Undecidable(tests[Min(undecided)])
       ELSE IF \A i \in DOMAIN tests : tests[i] = "yes"
         THEN [kind |-> "matched", priority |-> rule.actions[1].prio, actions |-> rule.actions]
       ELSE NoMatch

evaluate_rule(rule, frame) ==
    CASE rule.error = "NotAClause" -> Undecidable("undecidable_entry")
      [] rule.error \in {"RanPastTheEnd", "TooLong"} -> Undecidable("unterminated_rules")
      [] rule.error = "" ->
           Judged(rule, [i \in DOMAIN rule.clauses |-> test_clause(rule.clauses[i], frame)])

(* Lue::classify and Engine::classify: the rules in order, the highest     *)
(* priority wins and the first of equals; one undecidable rule refuses the *)
(* frame, and its own counters only are added.                             *)
Better(acc, v) == IF v.kind \in Refusals THEN v
                  ELSE IF /\ v.kind = "matched"
                          /\ acc.kind = "no_match" \/ v.priority > acc.priority THEN v
                  ELSE acc

InOrder(t, starts, frame) ==
    LET Step(acc, s) == IF acc.kind \in Refusals THEN acc
                        ELSE Better(acc, evaluate_rule(Rule_decode(t, s), frame))
    IN IF starts = <<>> THEN Undecidable("no_rules") ELSE FoldLeft(Step, NoMatch, starts)

classify(t, frame) == InOrder(t, rule_starts(t), frame)

(* Slot::for_frame: two queues by EtherType.                               *)
for_frame(frame) == IF ~frame.short /\ frame.ethertype \in ControlTypes THEN 16 ELSE 15

(* Olt::choose_slot with the gate open: a match that names a queue decides,*)
(* everything else falls back.                                             *)
SlotOf(v, frame) == IF v.kind = "matched" /\ FirstQueue(v.actions) # <<>>
                      THEN FirstQueue(v.actions)[1] ELSE for_frame(frame)
choose_slot(t, frame) == SlotOf(classify(t, frame), frame)

-----------------------------------------------------------------------------
Quads == FlattenSeq([r \in DOMAIN plan |-> Rule_encode(plan[r])])
(* The table with the first n rules of the plan, complete.                 *)
TableOf(quads) == [i \in 0 .. Len(quads) - 1 |-> quads[i + 1]]
Complete(n) == TableOf(FlattenSeq([r \in 1 .. n |-> Rule_encode(plan[r])]))

lue_Init ==
    /\ lue_table = TableOf(<<>>) /\ regs = ZeroQuad
    /\ port = 0
    /\ plan \in Plans /\ order \in {"front", "back"} /\ filed = 0
    /\ engine = NoVerdicts /\ routed = <<>>

(* The entry the firmware has to write next.                               *)
NextIndex == IF order = "front" THEN filed ELSE Len(Quads) - 1 - filed

(* write_data, slot by slot: nothing looks at the registers before the     *)
(* command comes.                                                          *)
lue_write_data ==
    /\ filed < Len(Quads) /\ regs' = Quads[NextIndex + 1]
    /\ UNCHANGED <<lue_table, port, plan, order, filed, engine, routed>>

LueWithin == port < MaxPortOps

(* write_cmd with GO and WRITE: a zero quad takes the entry out.           *)
lue_write_entry(index) ==
    /\ LueWithin
    /\ lue_table' = IF regs = ZeroQuad
                      THEN [i \in DOMAIN lue_table \ {index} |-> lue_table[i]]
                      ELSE [i \in DOMAIN lue_table \cup {index} |->
                              IF i = index THEN regs ELSE lue_table[i]]
    /\ port' = port + 1
    /\ UNCHANGED <<regs, plan, order, engine, routed>>

ProgramNext == /\ filed < Len(Quads) /\ regs = Quads[NextIndex + 1]
               /\ lue_write_entry(NextIndex) /\ filed' = filed + 1

(* The firmware takes back what it wrote last.                             *)
StageZero == /\ filed > 0 /\ regs # ZeroQuad /\ regs' = ZeroQuad
             /\ UNCHANGED <<lue_table, port, plan, order, filed, engine, routed>>

RemoveLast == /\ filed > 0 /\ regs = ZeroQuad
              /\ lue_write_entry(IF order = "front" THEN filed - 1 ELSE Len(Quads) - filed)
              /\ filed' = filed - 1

(* write_cmd with GO alone: an empty entry reads as zero.                  *)
lue_read_entry ==
    /\ LueWithin
    /\ \E index \in 0 .. LueEntries - 1 :
         regs' = IF Present(lue_table, index) THEN lue_table[index] ELSE ZeroQuad
    /\ port' = port + 1
    /\ UNCHANGED <<lue_table, plan, order, filed, engine, routed>>

(* write_cmd without GO (a narrow write among them, since the port never   *)
(* shows GO) or with an operation the port does not know.                  *)
lue_idle_cmd ==
    /\ LueWithin
    /\ port' = port + 1
    /\ UNCHANGED <<lue_table, regs, plan, order, filed, engine, routed>>

(* load_frames_into_mailbox: a frame lands on a tick.                      *)
FrameLands ==
    /\ routed = <<>>
    /\ \E frame \in Frames : \E v \in {classify(lue_table, frame)} :
            /\ routed' = <<frame, SlotOf(v, frame)>>
            /\ engine' = [engine EXCEPT !.frames_classified = @ + 1, ![v.kind] = @ + 1]
    /\ UNCHANGED <<lue_table, regs, port, plan, order, filed>>

(* The frame leaves the picture.                                           *)
FrameTaken == /\ routed # <<>> /\ routed' = <<>> /\ engine' = NoVerdicts
              /\ UNCHANGED <<lue_table, regs, port, plan, order, filed>>

lue_reset == /\ lue_table' = TableOf(<<>>) /\ regs' = ZeroQuad /\ filed' = 0
             /\ port' = 0
             /\ UNCHANGED <<plan, order, engine, routed>>

lue_Next == \/ lue_write_data \/ ProgramNext \/ StageZero \/ RemoveLast
            \/ lue_read_entry \/ lue_idle_cmd \/ FrameLands \/ FrameTaken \/ lue_reset

-----------------------------------------------------------------------------
(* Rules laid out one behind the other are read back as the rules they     *)
(* were: no entry of an action list becomes a rule of its own, no rule     *)
(* swallows the next.                                                      *)
RulesReadBack ==
    filed = Len(Quads) =>
        LET starts == rule_starts(lue_table)
        IN /\ Len(starts) = Len(plan)
           /\ \A r \in DOMAIN plan :
                \E got \in {Rule_decode(lue_table, starts[r])} :
                   /\ got.error = ""
                   /\ got.clauses = plan[r].clauses /\ got.actions = plan[r].actions

(* While rules are written front to back (or taken back from the end), a   *)
(* frame that lands goes where the complete rules, the complete rules and  *)
(* the one under way, or no rules at all would send it: half a rule never  *)
(* sends a frame to a queue of its own.                                    *)
HalfRulesDecideNothing ==
    order = "front" =>
        \A frame \in Frames :
            choose_slot(lue_table, frame) \in
                {for_frame(frame)} \cup {choose_slot(Complete(n), frame) : n \in 0 .. Len(plan)}
=============================================================================
