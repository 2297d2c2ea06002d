-------------------------------- MODULE Isa --------------------------------
(***************************************************************************)
(* Decoder and executor together: a machine runs a short straight-line     *)
(* program.  A task gives the program, the registers and flags it starts   *)
(* from, and what it is for; the properties relate the machine to the task *)
(* and the two halves of the instruction set, decoding and execution, to   *)
(* independent definitions of what they should do.                         *)
(***************************************************************************)
EXTENDS Executor

CONSTANTS
    Tasks,      \* records: kind, op, code, r, fl, word, size, signed, moved
    FirstHalves,     \* first halves of instruction words
    Lows        \* low halves tried with every first half of a 32-bit word

ASSUME TaskAssumption ==
    \A t \in Tasks : /\ DOMAIN t.r \subseteq 0..60 /\ \A n \in DOMAIN t.r : t.r[n] \in Word
                     /\ \A n \in DOMAIN t.code : t.code[n] # Err

VARIABLES task, cpu, prog

isa_vars == <<task, cpu, prog>>

AuxStored == {"LP_START", "LP_END", "STATUS32_L1", "STATUS32_L2", "INT_VECTOR_BASE",
              "CONTROL0", "IRQ_LV12", "ERSTATUS", "BTA_L1", "BTA_L2", "DC_CTRL"}
Machine(t) ==
    [r |-> [n \in 0..60 |-> IF n \in DOMAIN t.r THEN t.r[n] ELSE 0],
     fl |-> t.fl, pc |-> 4, bta |-> 0, delay |-> NoOperand, halted |-> FALSE,
     sleeping |-> FALSE, pc_written |-> FALSE, link_executed |-> FALSE, exc |-> "none",
     limm |-> 2^W - 3, mem |-> [a \in Word |-> a % 2^Quarter],
     aux |-> [a \in AuxStored |-> IF a \in {"STATUS32_L1", "STATUS32_L2", "ERSTATUS"}
                                  THEN {"E1", "A2"} ELSE 0]]

Task(kind, op, r, fl, code) ==
    [kind |-> kind, op |-> op, r |-> r, fl |-> fl, code |-> code, word |-> 0,
     size |-> 0, signed |-> FALSE, moved |-> 0]
(* A half that is a whole instruction is executed, in a machine of zeros.  *)
WordTask(h) ==
    LET d == decode(<<h, 0>>)
        whole == d # Err /\ ~is_32bit_instruction(major_opcode(h))
    IN [Task("word", "none", [n \in {0} |-> 0], {}, IF whole THEN <<d>> ELSE <<>>)
        EXCEPT !.word = h]

Start(t) == task = t /\ cpu = Machine(t) /\ prog = t.code
isa_Init == \/ \E t \in Tasks : Start(t)
            \/ \E h \in FirstHalves : Start(WordTask(h))

(* One instruction of Cpu::step, delay slots, loops and interrupts apart;  *)
(* a halted or sleeping core executes none.                                *)
Stopped == prog = <<>> \/ cpu.exc # "none" \/ cpu.halted \/ cpu.sleeping
Step == /\ ~Stopped
        /\ cpu' = execute(Head(prog), [cpu EXCEPT !.pc_written = FALSE])
        /\ prog' = Tail(prog)
        /\ UNCHANGED task
Done == Stopped /\ UNCHANGED isa_vars
isa_Next == Step \/ Done

-----------------------------------------------------------------------------
(* The canonical 32-bit encoding of an instruction, where it has one.      *)
(* MOV_S to register 62 is left out: the short decoder takes the           *)
(* destination for a long immediate and makes the instruction six bytes    *)
(* long.  So are the conditional one-operand forms, whose condition is     *)
(* read from the field that holds the operation.                           *)

General(m, p, sub, f, b, c, a) ==
    <<m * 2^11 + (b % 8) * 2^8 + p * 64 + sub,
      (IF f THEN 2^15 ELSE 0) + (b \div 8) * 2^12 + c * 64 + a>>
Index(table, x) == (CHOOSE k \in DOMAIN table : table[k] = x)
CodeOf(cc) == IF cc = Always THEN 0 ELSE Index(ConditionCode, cc) - 1
RegOf(o) == IF o.t = "reg" THEN o.v ELSE LIMM
Fits(o, lo, hi) == o.t = "imm" => o.v \in lo .. hi
IsReg(o) == o.t \in {"reg", "limm"}

(* B, C and A of the two-source formats: the P field is 0 or 1 when there  *)
(* is no condition, 3 when there is one and the destination is the source. *)
TwoSource(m, sub, i) ==
    LET b == IF i.src1.t = "none" THEN RegOf(i.dst) ELSE RegOf(i.src1)
        a == IF i.src1.t = "none" \/ i.dst.t = "none" THEN 0 ELSE RegOf(i.dst)
        c == IF i.src2.t = "imm" THEN i.src2.v ELSE RegOf(i.src2)
        imm == i.src2.t = "imm"
    IN IF imm /\ i.src2.v \notin 0..63
       THEN General(m, 2, sub, i.set_flags, b, i.src2.v % 64, (i.src2.v % 2^12) \div 64)
       ELSE IF i.cc = Always
       THEN General(m, IF imm THEN 1 ELSE 0, sub, i.set_flags, b, c, a)
       ELSE General(m, 3, sub, i.set_flags, b, c, CodeOf(i.cc) + (IF imm THEN 32 ELSE 0))
TwoSourceFits(i) ==
    /\ i.src1.t # "imm" /\ Fits(i.src2, -2048, 2047)
    /\ i.src2.t = "imm" /\ i.src2.v \notin 0..63 =>
         i.cc = Always /\ (i.dst = i.src1 \/ i.src1.t = "none" \/ i.dst.t = "none")
    /\ i.cc # Always => (i.dst = i.src1 \/ i.src1.t = "none" \/ i.dst.t = "none")
    /\ i.dst.t # "imm" /\ i.dst.t # "limm" /\ i.dst # Reg(LIMM)

encodable(i) ==
    CASE i.k \in {"Alu", "ExtArith"} ->
           IF i.src2.t = "none" THEN i.cc = Always /\ i.src1.t # "imm" ELSE TwoSourceFits(i)
      [] i.k = "SingleOp" -> i.cc = Always /\ Fits(i.src, 0, 63)
      [] i.k = "Load" -> IsReg(i.base) /\ Fits(i.offset, -256, 255)
      [] i.k = "Store" -> IsReg(i.base) /\ IsReg(i.src) /\ Fits(i.offset, -256, 255)
      [] i.k = "Branch" -> ~i.link /\ (i.cc # Always => i.offset \in -(2^20) .. 2^20 - 1)
      [] i.k = "BranchCompare" -> i.offset \in -256 .. 255 /\ Fits(i.src2, 0, 63)
                                  /\ i.src1.t # "imm"
      [] i.k = "Jump" -> IsReg(i.target)
      [] OTHER -> FALSE

Table(i) == IF i.k = "Alu" THEN Index(AluOp, i.op) - 1
            ELSE IF i.op \in {ExtDualOp[n] : n \in DOMAIN ExtDualOp} THEN Index(ExtDualOp, i.op)
            ELSE Index(ExtSingleOp, i.op) - 1
S9(o) == (IF o < 0 THEN 2^15 ELSE 0)
encode32(i) ==
    CASE i.k = "Alu" -> TwoSource(4, Table(i), i)
      [] i.k = "ExtArith" /\ i.src2.t # "none" -> TwoSource(5, Table(i), i)
      [] i.k = "ExtArith" /\ i.src2.t = "none" ->
           General(5, 0, 47, i.set_flags, RegOf(i.dst), RegOf(i.src1), Table(i))
      [] i.k = "SingleOp" ->
           LET imm == i.src.t = "imm" IN
           General(4, IF imm THEN 1 ELSE 0, 47, i.set_flags, RegOf(i.dst),
                   IF imm THEN i.src.v ELSE RegOf(i.src), Index(SingleOp, i.op) - 1)
      [] i.k = "Load" /\ i.offset.t = "imm" ->
           <<2 * 2^11 + (RegOf(i.base) % 8) * 2^8 + (i.offset.v % 2^8),
             S9(i.offset.v) + (RegOf(i.base) \div 8) * 2^12
             + (IF i.cache_bypass THEN 2^11 ELSE 0)
             + (Index(WritebackMode, i.writeback) - 1) * 2^9 + (Index(DataSize, i.size) - 1) * 2^7
             + (IF i.sign_extend THEN 2^6 ELSE 0) + RegOf(i.dst)>>
      [] i.k = "Load" /\ i.offset.t # "imm" ->
           General(4, Index(WritebackMode, i.writeback) - 1,
                   48 + (Index(DataSize, i.size) - 1) * 2 + (IF i.sign_extend THEN 1 ELSE 0),
                   i.cache_bypass, RegOf(i.base), RegOf(i.offset), RegOf(i.dst))
      [] i.k = "Store" ->
           <<3 * 2^11 + (RegOf(i.base) % 8) * 2^8 + (i.offset.v % 2^8),
             S9(i.offset.v) + (RegOf(i.base) \div 8) * 2^12 + RegOf(i.src) * 64
             + (IF i.cache_bypass THEN 32 ELSE 0) + (Index(WritebackMode, i.writeback) - 1) * 8
             + (Index(DataSize, i.size) - 1) * 2>>
      [] i.k = "Branch" /\ i.cc # Always ->
           LET o == (i.offset % 2^21) \div 2 IN
           <<(o % 2^10) * 2, (o \div 2^10) * 64 + (IF i.delay THEN 32 ELSE 0) + CodeOf(i.cc)>>
      [] i.k = "Branch" /\ i.cc = Always ->
           LET o == (i.offset % 2^25) \div 2 IN
           <<(o % 2^10) * 2 + 1, ((o \div 2^10) % 2^10) * 64 + (IF i.delay THEN 32 ELSE 0)
                                 + o \div 2^20>>
      [] i.k = "BranchCompare" ->
           LET imm == i.src2.t = "imm" IN
           <<2^11 + (RegOf(i.src1) % 8) * 2^8 + (((i.offset % 2^9) \div 2) % 2^7) * 2 + 1,
             S9(i.offset) + (RegOf(i.src1) \div 8) * 2^12
             + (IF imm THEN i.src2.v ELSE RegOf(i.src2)) * 64 + (IF i.delay THEN 32 ELSE 0)
             + (IF imm THEN 16 ELSE 0) + Index(BrCompareKind, i.op)>>
      [] i.k = "Jump" ->
           General(4, IF i.cc = Always THEN 0 ELSE 3,
                   32 + (IF i.delay THEN 1 ELSE 0) + (IF i.link THEN 2 ELSE 0), FALSE, 0,
                   RegOf(i.target), CodeOf(i.cc))

SameMeaning(d) == decode(encode32(d.inst)) = [d EXCEPT !.size = 4]

(* One instruction, one meaning: whatever the 16-bit and the 32-bit        *)
(* decoders make of a word, the canonical long form of that instruction    *)
(* decodes to the same operation, operands and need of a long immediate.   *)
(* A short form abbreviates a long one, no two operand formats disagree,   *)
(* and every displacement keeps its sign and its ends.                     *)
EveryFormHasOneMeaning ==
    task.kind = "word" =>
        IF is_32bit_instruction(major_opcode(task.word))
        THEN \A lo \in Lows : LET d == decode(<<task.word, lo>>) IN
               d # Err /\ encodable(d.inst) => SameMeaning(d)
        ELSE LET d == decode(<<task.word, 0>>) IN d # Err /\ encodable(d.inst) => SameMeaning(d)

-----------------------------------------------------------------------------
(* What a finished program must have computed from the task's registers.   *)

Finished(kind) == task.kind = kind /\ prog = <<>> /\ cpu.exc = "none"
Was(n) == task.r[n]
Now(n) == cpu.r[n]
Is(f) == f \in cpu.fl
Wide(hi, lo) == hi * 2^W + lo
SignedWide(x) == IF x >= 2^(2 * W - 1) THEN x - 2^(2 * W) ELSE x

(* ADD.F, ADC.F and SUB.F, SBC.F on the halves of a double word are the    *)
(* double-word operation, carry and overflow included.                     *)
WideSum == Wide(Was(1), Was(0)) + Wide(Was(3), Was(2))
WideDifference == Wide(Was(1), Was(0)) - Wide(Was(3), Was(2))
Exactly(x, signed) ==
    /\ Wide(Now(1), Now(0)) = x % 2^(2 * W)
    /\ Is("C") = (x \notin 0 .. 2^(2 * W) - 1)
    /\ Is("V") = (signed \notin -(2^(2 * W - 1)) .. 2^(2 * W - 1) - 1)
WideArithmetic ==
    Finished("wide") =>
      LET x == SignedWide(Wide(Was(1), Was(0)))
          y == SignedWide(Wide(Was(3), Was(2)))
      IN IF task.op = "Add" THEN Exactly(WideSum, x + y)
         ELSE Exactly(WideDifference, x - y)

(* After CMP the condition codes and the fused compare-and-branch agree on *)
(* the order of the operands, and BTST with BBIT on a bit.                 *)
FusedPairs == {<<"EQ", "Breq">>, <<"NE", "Brne">>, <<"LT", "Brlt">>, <<"GE", "Brge">>,
               <<"CS", "Brlo">>, <<"CC", "Brhs">>}
ComparesAgree ==
    Finished("compare") =>
      IF task.op = "Cmp"
      THEN /\ \A p \in FusedPairs : evaluate(p[1], cpu.fl) = taken(p[2], Was(0), Was(2))
           /\ evaluate("GT", cpu.fl) = taken("Brlt", Was(2), Was(0))
           /\ evaluate("HI", cpu.fl) = taken("Brlo", Was(2), Was(0))
           /\ evaluate("LE", cpu.fl) # evaluate("GT", cpu.fl)
           /\ evaluate("LS", cpu.fl) # evaluate("HI", cpu.fl)
      ELSE evaluate("EQ", cpu.fl) = taken("Bbit0", Was(0), Was(2))

(* A barrel shift by n is n shifts by one, the carry included; a rotation  *)
(* by a multiple of the width leaves the carry as it was.                  *)
Repeated(op, a) ==
    LET f[n \in 0 .. 2^W - 1] ==
          IF n = 0 THEN Plain(a) ELSE compute_single(op, f[n - 1].r, 0)
    IN f
ShiftsCompose ==
    Finished("shift") =>
      LET n == Was(2)
          x == Repeated(task.op, Was(0))[n]
      IN /\ Now(0) = x.r
         /\ Is("C") = IF task.op = "Ror" /\ n % W = 0 THEN "C" \in task.fl
                      ELSE IF n = 0 THEN "C" \in task.fl ELSE "C" \in x.on

(* The two multiplications of a pair are the halves of the exact product,  *)
(* MAX is one operand and MIN the other, NORM is the shift that brings the *)
(* sign bit next to its complement, and saturation clamps.                 *)
Exact(op, a, b) == compute_ext(op, a, b, Reg(2)).r
PureOperationsAreExact ==
    Finished("pure") =>
      LET a == Was(0)
          b == Was(2)
          R(op) == compute_alu(op, a, b, 0).r
          x == Signed(a)
          y == Signed(b)
      IN /\ Wide(R("Mpyhu"), R("Mpyu")) = a * b
         /\ SignedWide(Wide(R("Mpyh"), R("Mpy"))) = x * y
         /\ {Signed(R("Max")), Signed(R("Min"))} = {x, y}
         /\ Signed(R("Max")) >= Signed(R("Min"))
         /\ R("Bxor") = IF BitOf(a, b % W) THEN R("Bclr") ELSE R("Bset")
         /\ (R("And") + R("Xor")) = R("Or") /\ R("Bic") = a - R("And")
         /\ x \notin {0, -1} => LET n == Exact("Norm", a, 0) IN
              /\ Signed(a) * 2^n = Signed(Mod(a * 2^n))
              /\ Signed(a) * 2^(n + 1) # Signed(Mod(a * 2^(n + 1)))
         /\ b # MIN => Exact("Asls", a, b) = Exact("Asrs", a, Mod(-b))
         /\ y \in 0 .. W - 1 => Signed(Exact("Asls", a, b)) = Clamp(x * 2^y, W)
         /\ Exact("Negs", a, 0) = Exact("Subs", 0, a)
         /\ Exact("Abss", a, 0) = IF x < 0 THEN Exact("Negs", a, 0) ELSE a
         /\ Exact("Subsdw", a, b) = Exact("Swap", Exact("Subsdw", Exact("Swap", a, 0),
                                                        Exact("Swap", b, 0)), 0)

(* What the executor computes is what arithmetic says it should be.        *)
ArithmeticIsExact ==
    WideArithmetic /\ ComparesAgree /\ ShiftsCompose /\ PureOperationsAreExact

(* A pushed register pops back and the stack pointer returns; a store and  *)
(* a load of the same size at the same address give the stored part, sign- *)
(* extended when asked; nothing outside the addressed bytes changes.       *)
AccessesAgree ==
    /\ Finished("stack") => /\ Now(1) = Was(0) /\ Now(28) = Was(28)
                            /\ Now(0) = Was(0)
    /\ Finished("memory") =>
         LET bits == Quarter * task.size
             kept == Was(0) % 2^bits
             changed == {a \in Word : cpu.mem[a] # Machine(task).mem[a]}
         IN /\ Now(1) = IF task.signed THEN Mod(sign_extend(kept, bits)) ELSE kept
            /\ \A a, b \in changed : a \div task.size = b \div task.size
            /\ Now(2) = Mod(Was(2) + task.moved)

(* What a program computes is what its operations are defined to compute,  *)
(* in registers and in memory.                                             *)
OperationsAreExact == ArithmeticIsExact /\ AccessesAgree

(* An instruction that faults has changed nothing, so that the handler can *)
(* mend the cause and go back to it.  The exceptions are a load or store   *)
(* that writes back to PCL and EX into PCL: they fault on the register     *)
(* after memory or the loaded register was written.                        *)
WritesPclLate(i) ==
    \/ i.k \in {"Load", "Store"} /\ i.base = Reg(PCL) /\ i.writeback \in {"PreWrite", "PostWrite"}
    \/ i.k = "SingleOp" /\ i.dst = Reg(PCL) /\ i.op = "Ex"
FaultsArePrecise ==
    [][cpu'.exc # "none" /\ cpu.exc = "none" /\ ~WritesPclLate(Head(prog).inst) =>
         cpu' = [cpu EXCEPT !.exc = cpu'.exc, !.pc_written = FALSE]]_isa_vars

(* In user mode no sequence of instructions reaches the kernel's part of   *)
(* the machine: the user flag and the interrupt state of STATUS32, the     *)
(* saved status words, the vector base and the interrupt links.  SLEEP,    *)
(* which sets E1 and E2 from its operand in either mode, is the exception. *)
KernelFlags == {"U", "A1", "A2", "AE", "DE", "L", "H"}
UserModeIsClosed ==
    [][User(cpu) =>
         /\ cpu'.fl \cap KernelFlags = cpu.fl \cap KernelFlags
         /\ cpu'.fl \cap {"E1", "E2"} # cpu.fl \cap {"E1", "E2"} => cpu'.sleeping
         /\ \A a \in Privileged \cap AuxStored : cpu'.aux[a] = cpu.aux[a]
         /\ cpu'.r[29] = cpu.r[29] /\ cpu'.r[30] = cpu.r[30]
         /\ ~cpu.halted /\ cpu'.halted => Head(prog).inst = Zero("Brk", 0)]_isa_vars
=============================================================================
