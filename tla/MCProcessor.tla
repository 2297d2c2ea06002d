---------------------------- MODULE MCProcessor ----------------------------
(* The processor's instruction set and its memory system.  The two share   *)
(* no state in these models (CpuCore has the steps between instructions),  *)
(* so one of them moves in each behaviour.                                 *)
EXTENDS Isa, MemorySystem

VARIABLE part

(* The boot loader's byte in the first line of flash.                      *)
MCBootImage == [a \in {0} |-> 1]

(* Line 0 changes both ways, line 1 once, line 2 only evicts the others.   *)
MCValues == [a \in 0 .. 5 |-> CASE a = 0 -> {0, 1} [] a = 2 -> {1} [] OTHER -> {0}]

(* Snapshots and fetched code are not combined.                            *)
OneExtra == saved = None \/ (icache = NoCode /\ enabled /\ im)

-----------------------------------------------------------------------------
Code(w) == decode(w)
RegForm(m, sub, b, c, a) == Code(General(m, 0, sub, TRUE, b, c, a))
AluCode(op) == Index(AluOp, op) - 1

(* Majors 4 and 5 with every operation, and of the field of b its ends and *)
(* the part of the number 62 (a long immediate) it holds; the short forms  *)
(* with every operation and, in majors 14 and 15, every register in the    *)
(* second field. Of other register fields, immediates and displacements    *)
(* the ends of the ranges, and the places where the short numbering skips. *)
Of(majors, n, ends) == {h \in 0 .. 2^16 - 1 : h \div 2^11 \in majors /\ h % 2^n \in ends}
MCHalves == UNION {{h \in Of({4, 5}, 1, {0, 1}) : (h \div 2^8) % 8 \in {0, 6, 7}},
                   {h \in Of({12, 13}, 3, {0, 3, 4, 7}) : (h \div 2^5) % 8 \in {0, 3, 4, 7}},
                   {h \in Of({14, 15}, 1, {0, 1}) : (h \div 2^8) % 8 \in {0, 3, 4, 7}},
                   Of(0..3, 8, {0, 1, 2, 3, 127, 128, 129, 254, 255}),
                   Of(16..24, 5, {0, 1, 15, 16, 31}),
                   Of(25..27, 8, {0, 1, 127, 128, 254, 255}),
                   Of(28..31, 6, {0, 1, 31, 32, 62, 63})}
MCLows == {0, 32, 46, 63, 64 * 62, 64 * 33 + 2, 32768 + 64 * 5 + 7, 7 * 4096 + 62 * 64 + 1,
           7 * 4096 + 64 + 16, 7 * 4096 + 64 + 35, 32768 + 3 * 4096 + 63 * 64 + 12,
           65535, 4096 * 3 + 2048 + 512 + 128 + 64 + 1, 1 + 32, 30 * 64, 29 * 64 + 32768}

Regs(S) == [S -> Word]
Edges == {0, 7, 8, 15}
WideTasks ==
    {Task("wide", op, r, {}, <<RegForm(4, AluCode(op), 0, 2, 0),
                               RegForm(4, AluCode(IF op = "Add" THEN "Adc" ELSE "Sbc"), 1, 3, 1)>>) :
       op \in {"Add", "Sub"}, r \in [0..3 -> Edges]}
CompareTasks ==
    {Task("compare", op, r, {}, <<RegForm(4, AluCode(op), 0, 2, 0)>>) :
       op \in {"Cmp", "Btst"}, r \in Regs({0, 2})}
(* Shifts by less than the width, by the width, past it and by the most.   *)
ShiftTasks ==
    {Task("shift", op, r, fl, <<RegForm(5, Index(ExtDualOp, op), 0, 2, 0)>>) :
       op \in {"Asl", "Lsr", "Asr", "Ror"}, r \in {f \in Regs({0, 2}) : f[2] \in {0, 1, 3, 4, 5, 15}}, fl \in {{}, {"C"}}}
PureTasks == {Task("pure", "none", r, {}, <<>>) : r \in Regs({0, 2})}

StackTasks == {Task("stack", "none", r, {},
                    <<Code(<<24 * 2^11 + 7 * 32 + 1, 0>>),
                      Code(<<24 * 2^11 + 256 + 6 * 32 + 1, 0>>)>>) : r \in Regs({0, 28})}
(* ST.aa r0,[r2,o] and LD.x r1,[r2,o'] where o' reads what was stored.     *)
StoreLoad(z, x, aa) ==
    LET st == Store(Reg(0), Reg(2), Imm(4), z, aa, FALSE)
        back == IF aa = "PreWrite" THEN Imm(0) ELSE IF aa = "PostWrite" THEN Imm(-4) ELSE Imm(4)
        ld == Load(Reg(1), Reg(2), back, z, x, IF aa = "Scaled" THEN aa ELSE "None", FALSE)
    IN <<Code(encode32(st)), Code(encode32(ld))>>
MemoryTasks ==
    {[Task("memory", "none", r, {}, StoreLoad(z, x, aa))
      EXCEPT !.size = Size(z), !.signed = x,
             !.moved = IF aa \in {"PreWrite", "PostWrite"} THEN 4 ELSE 0] :
       z \in {"Word", "Byte", "HalfWord"}, x \in BOOLEAN,
       aa \in {"None", "PreWrite", "PostWrite", "Scaled"},
       r \in {f \in Regs({0, 2}) : f[0] \in {0, 1, 6, 9, 15}}}

Aux(a) == [t |-> "aux", v |-> a]
FlagsOf(S) == [t |-> "flags", v |-> S]
Long(i) == Decoded(i, 4, FALSE)
KernelCode ==
    {Long(StoreAux(Imm(5), Aux(a))) : a \in {"INT_VECTOR_BASE", "CONTROL0", "IRQ_LV12",
                                             "LP_END", "DC_CTRL", "IDENTITY", "ABSENT", "STATUS32"}}
    \cup {Long(StoreAux(FlagsOf({"A1"}), Aux(a))) : a \in {"STATUS32_L1", "STATUS32_L2"}}
    \cup {Long(LoadAux(Reg(0), Aux(a))) : a \in {"LP_START", "BTA", "PC", "ABSENT"}}
    \cup {Long(Flag(FlagsOf(S), Always)) : S \in {{}, {"H"}, {"Z", "A1", "E1"}, {"U", "V"}}}
    \cup {Long(Jump(Reg(r), Always, FALSE, l, r > 28)) : r \in {0, 29, 30}, l \in BOOLEAN}
    \cup {Long(Zero("Sleep", u)) : u \in {0, 8, 24}}
    \cup {Long(Zero(op, 0)) : op \in {"Swi", "Rtie", "Brk", "Nop"}}
    \cup {Long(Alu("Mov", Reg(r), NoOperand, Imm(3), FALSE, Always)) : r \in {0, 29, 61}}
    \cup {Long(Single("Ex", Reg(0), Reg(2), FALSE, Always)), Long(Loop(8, "EQ")),
          Long(Loop(8, "NE")), Long(Branch(8, Always, TRUE, TRUE)),
          Long(BranchCompare("Breq", Reg(0), Reg(2), 8, FALSE)),
          Long(Single("Ex", Reg(PCL), Reg(2), FALSE, Always))}
    \cup {Long(Store(Reg(x), Reg(b), Imm(1), "Byte", "PreWrite", FALSE)) :
             x \in {0, 29, 61}, b \in {0, PCL}}
    \cup {Long(Load(Reg(x), Reg(b), Imm(1), "HalfWord", TRUE, "PostWrite", FALSE)) :
             x \in {0, 29, 40}, b \in {2, 61, PCL}}
    \cup {Long(Alu("Add", Reg(x), Reg(y), Imm(1), TRUE, Always)) : x \in {0, 61, PCL}, y \in {0, 61}}
Start4 == [n \in {0, 2, 29, 30} |-> n % 16]
InUserMode(code) == Task("user", "none", Start4, {"U", "E1", "Z"}, code)
(* Two instructions, where the first does not trap in user mode.           *)
Goes(x) == execute(x, Machine(InUserMode(<<x>>))).exc = "none"
UserTasks ==
    {InUserMode(<<x, y>>) : x \in {k \in KernelCode : Goes(k)}, y \in KernelCode}
    \cup {InUserMode(<<x>>) : x \in KernelCode}
    \cup {Task("user", "none", Start4, fl, <<x>>) : fl \in {{}, {"E2", "C"}}, x \in KernelCode}

MCTasks == UNION {WideTasks, CompareTasks, ShiftTasks, PureTasks, StackTasks,
                  MemoryTasks, UserTasks}

-----------------------------------------------------------------------------
(* The part that does not move: a machine with nothing to do, or memory as *)
(* it is after power-on.                                                   *)
Idle == Task("idle", "none", [n \in {0} |-> 0], {}, <<>>)

Init == \/ part = "isa" /\ isa_Init /\ mem_Init
        \/ part = "memory" /\ Start(Idle) /\ mem_Init

Next == \/ part = "isa" /\ isa_Next /\ UNCHANGED <<part, mem_vars>>
        \/ part = "memory" /\ mem_Next /\ UNCHANGED <<part, isa_vars>>

Spec == Init /\ [][Next]_<<part, isa_vars, mem_vars>>
=============================================================================
