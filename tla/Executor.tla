------------------------------ MODULE Executor ------------------------------
(***************************************************************************)
(* The instruction executor (executor/, cpu/registers.rs,                  *)
(* cpu/condition.rs): what one decoded instruction does to the registers,  *)
(* the flags and memory.  A register holds W bits, a byte W/4 and a        *)
(* half-word W/2 of them, so that every operand can be enumerated; the     *)
(* code's 32 is W.  A STATUS32 value is the set of its flags.  Memory is   *)
(* flat and big-endian here: the caches are in MemorySystem.               *)
(***************************************************************************)
EXTENDS Decoder, Bitwise, FiniteSets

CONSTANT W

ASSUME WidthAssumption == W \in {4, 8}

Half == W \div 2
Quarter == W \div 4
Word == 0 .. 2^W - 1
Mod(x) == x % 2^W
TopBit(a) == a >= 2^(W - 1)
SignedOf(a, n) == sign_extend(a % 2^n, n)
Signed(a) == SignedOf(a, W)
Complement(a) == 2^W - 1 - a
Clamp(x, n) == IF x >= 2^(n - 1) THEN 2^(n - 1) - 1
               ELSE IF x < -(2^(n - 1)) THEN -(2^(n - 1)) ELSE x
MIN == 2^(W - 1)
BitOf(a, i) == (a \div 2^i) % 2 = 1

-----------------------------------------------------------------------------
(* condition.rs *)
evaluate(cc, f) ==
    LET z == "Z" \in f
        n == "N" \in f
        c == "C" \in f
        v == "V" \in f
    IN CASE cc \in {"AL", Always} -> TRUE
         [] cc = "EQ" -> z
         [] cc = "NE" -> ~z
         [] cc = "PL" -> ~n
         [] cc = "MI" -> n
         [] cc = "CS" -> c
         [] cc = "CC" -> ~c
         [] cc = "VS" -> v
         [] cc = "VC" -> ~v
         [] cc = "GT" -> n = v /\ ~z
         [] cc = "GE" -> n = v
         [] cc = "LT" -> n # v
         [] cc = "LE" -> z \/ n # v
         [] cc = "HI" -> ~c /\ ~z
         [] cc = "LS" -> c \/ z
         [] cc = "PNZ" -> ~n /\ ~z

-----------------------------------------------------------------------------
(* alu.rs: a result, the value Z and N are taken from, the flags among C   *)
(* and V that the operation touches and those it sets.                     *)

Outcome(r, zn, touched, on) == [r |-> r, zn |-> zn, touched |-> touched, on |-> on]
Plain(r) == Outcome(r, r, {}, {})
On(c, v) == (IF c THEN {"C"} ELSE {}) \cup (IF v THEN {"V"} ELSE {})

Sum(a, b, carry) ==
    LET r == Mod(a + b + carry) IN
    Outcome(r, r, {"C", "V"},
            On(a + b + carry >= 2^W, TopBit(a) # TopBit(r) /\ TopBit(b) # TopBit(r)))

(* A carry with the sense of an adder: set when there is no borrow.        *)
DifferenceNoBorrow(a, b, borrow) ==
    LET r == Mod(a - b - borrow) IN
    Outcome(r, r, {"C", "V"},
            On(a - b - borrow >= 0, TopBit(a) # TopBit(b) /\ TopBit(a) # TopBit(r)))
Difference(a, b, borrow) ==
    LET r == Mod(a - b - borrow) IN
    Outcome(r, r, {"C", "V"},
            On(a - b - borrow < 0, TopBit(a) # TopBit(b) /\ TopBit(a) # TopBit(r)))

Mask(b) == 2^(b % W)
Shifted(b, n) == Mod(b * 2^n)
Selecting(r, cmp) == [cmp EXCEPT !.r = r]

(* multiply.rs *)
mpy(a, b) == Mod(Signed(a) * Signed(b))
mpyh(a, b) == Mod((Signed(a) * Signed(b)) \div 2^W)
mpyu(a, b) == Mod(a * b)
mpyhu(a, b) == Mod((a * b) \div 2^W)

compute_alu(op, a, b, carry) ==
    CASE op = "Add" -> Sum(a, b, 0)
      [] op = "Adc" -> Sum(a, b, carry)
      [] op \in {"Sub", "Cmp"} -> Difference(a, b, 0)
      [] op = "Sbc" -> Difference(a, b, carry)
      [] op \in {"Rsub", "Rcmp"} -> Difference(b, a, 0)
      [] op \in {"And", "Tst"} -> Plain(a & b)
      [] op = "Or" -> Plain(a | b)
      [] op = "Bic" -> Plain(a & Complement(b))
      [] op = "Xor" -> Plain(a ^^ b)
      [] op = "Max" -> Selecting(IF Signed(a) >= Signed(b) THEN a ELSE b, Difference(a, b, 0))
      [] op = "Min" -> Selecting(IF Signed(a) <= Signed(b) THEN a ELSE b, Difference(a, b, 0))
      [] op = "Mov" -> Plain(b)
      [] op = "Bset" -> Plain(a | Mask(b))
      [] op = "Bclr" -> Plain(a & Complement(Mask(b)))
      [] op = "Btst" -> Plain(a & Mask(b))
      [] op = "Bxor" -> Plain(a ^^ Mask(b))
      [] op = "Bmsk" -> Plain(a % (2 * Mask(b)))
      [] op = "Add1" -> Sum(a, Shifted(b, 1), 0)
      [] op = "Add2" -> Sum(a, Shifted(b, 2), 0)
      [] op = "Add3" -> Sum(a, Shifted(b, 3), 0)
      [] op = "Sub1" -> Difference(a, Shifted(b, 1), 0)
      [] op = "Sub2" -> Difference(a, Shifted(b, 2), 0)
      [] op = "Sub3" -> Difference(a, Shifted(b, 3), 0)
      [] op = "Mpy" -> Plain(mpy(a, b))
      [] op = "Mpyh" -> Plain(mpyh(a, b))
      [] op = "Mpyu" -> Plain(mpyu(a, b))
      [] op = "Mpyhu" -> Plain(mpyhu(a, b))

-----------------------------------------------------------------------------
(* single_op.rs, EX apart                                                  *)
Carrying(r, c) == Outcome(r, r, {"C"}, On(c, FALSE))
compute_single(op, a, carry) ==
    CASE op = "Asl" -> Carrying(Shifted(a, 1), TopBit(a))
      [] op = "Asr" -> Carrying(Mod(Signed(a) \div 2), BitOf(a, 0))
      [] op = "Lsr" -> Carrying(a \div 2, BitOf(a, 0))
      [] op = "Ror" -> Carrying(a \div 2 + (a % 2) * 2^(W - 1), BitOf(a, 0))
      [] op = "Rrc" -> Carrying(a \div 2 + carry * 2^(W - 1), BitOf(a, 0))
      [] op = "Rlc" -> Carrying(Shifted(a, 1) + carry, TopBit(a))
      [] op = "Sexb" -> Plain(Mod(SignedOf(a, Quarter)))
      [] op = "Sexw" -> Plain(Mod(SignedOf(a, Half)))
      [] op = "Extb" -> Plain(a % 2^Quarter)
      [] op = "Extw" -> Plain(a % 2^Half)
      [] op = "Abs" -> LET r == IF TopBit(a) THEN Mod(-a) ELSE a
                       IN Outcome(r, r, {"C", "V"}, On(TopBit(a), a = MIN))
      [] op = "Not" -> Plain(Complement(a))

-----------------------------------------------------------------------------
(* extended.rs *)
asl(a, b) == IF b >= W THEN Carrying(0, b = W /\ BitOf(a, 0))
             ELSE IF b = 0 THEN Plain(a)
             ELSE Carrying(Shifted(a, b), BitOf(a, W - b))
lsr(a, b) == IF b >= W THEN Carrying(0, b = W /\ TopBit(a))
             ELSE IF b = 0 THEN Plain(a)
             ELSE Carrying(a \div 2^b, BitOf(a, b - 1))
asr(a, b) == IF b >= W THEN Carrying(IF TopBit(a) THEN 2^W - 1 ELSE 0, TopBit(a))
             ELSE IF b = 0 THEN Plain(a)
             ELSE Carrying(Mod(Signed(a) \div 2^b), BitOf(a, b - 1))
ror(a, b) == LET n == b % W
                 r == a \div 2^n + (a % 2^n) * 2^(W - n)
             IN IF n = 0 THEN Plain(a) ELSE Carrying(r, BitOf(a, n - 1))

(* The shift amounts of ASLS and ASRS are clamped to W-1 and negated; the  *)
(* negation of MIN wraps to itself and shifts by nothing.                  *)
ShiftBy(n) == IF n > W - 1 THEN W - 1 ELSE n
SatLeft(a, n) == Mod(Clamp(Signed(a) * 2^ShiftBy(n), W))
SatRight(a, n) == Mod(Signed(a) \div 2^ShiftBy(n))
asls(a, n) == IF n = -MIN THEN a ELSE IF n < 0 THEN SatRight(a, -n) ELSE SatLeft(a, n)
asrs(a, n) == IF n = -MIN THEN a ELSE IF n < 0 THEN SatLeft(a, -n) ELSE SatRight(a, n)

(* Saturating in each half of the word; `sign` is 1 or -1.                 *)
Halves(a, b, sign) ==
    LET sat(x, y) == Clamp(SignedOf(x, Half) + sign * SignedOf(y, Half), Half) % 2^Half
    IN sat(a \div 2^Half, b \div 2^Half) * 2^Half + sat(a, b)
Divaw(a, b) == IF Shifted(a, 1) >= b THEN Mod(Shifted(a, 1) - b + 1) ELSE a

leading_zeros(a, n) == CHOOSE k \in 0..n : a < 2^(n - k) /\ (k = n \/ a >= 2^(n - k - 1))
normalise(a, n) == IF a \in {0, 2^n - 1} THEN n - 1
                   ELSE IF a < 2^(n - 1) THEN leading_zeros(a, n) - 1
                   ELSE leading_zeros(2^n - 1 - a, n) - 1

compute_ext(op, a, b, src2) ==
    LET n == IF src2 = NoOperand THEN 1 ELSE Signed(b) IN
    CASE op = "Asl" -> asl(a, b)
      [] op = "Lsr" -> lsr(a, b)
      [] op = "Asr" -> asr(a, b)
      [] op = "Ror" -> ror(a, b)
      [] op = "Adds" -> Plain(Mod(Clamp(Signed(a) + Signed(b), W)))
      [] op = "Subs" -> Plain(Mod(Clamp(Signed(a) - Signed(b), W)))
      [] op = "Addsdw" -> Plain(Halves(a, b, 1))
      [] op = "Subsdw" -> Plain(Halves(a, b, -1))
      [] op = "Divaw" -> Plain(Divaw(a, b))
      [] op = "Asls" -> Plain(asls(a, n))
      [] op = "Asrs" -> Plain(asrs(a, n))
      [] op = "Sat16" -> Plain(Mod(Clamp(Signed(a), Half)))
      [] op = "Rnd16" -> LET r == Mod(Clamp(Signed(a) + 2^(Half - 1), W))
                         IN Plain(r - (r % 2^Half))
      [] op = "Abss" -> Plain(IF a = MIN THEN MIN - 1 ELSE IF TopBit(a) THEN Mod(-a) ELSE a)
      [] op = "Abssw" -> LET v == SignedOf(a, Half)
                         IN Plain(Clamp(IF v < 0 THEN -v ELSE v, Half))
      [] op = "Negs" -> Plain(IF a = MIN THEN MIN - 1 ELSE Mod(-a))
      [] op = "Negsw" -> Plain(Mod(Clamp(-SignedOf(a, Half), Half)))
      [] op = "Norm" -> Plain(normalise(a, W))
      [] op = "Normw" -> Plain(normalise(a % 2^Half, Half))
      [] op = "Swap" -> Plain((a % 2^Half) * 2^Half + a \div 2^Half)

-----------------------------------------------------------------------------
(* The machine an instruction acts on: the registers r, the program        *)
(* counter, the flags fl that are set, the auxiliary registers aux, memory *)
(* mem, the branch bookkeeping of CpuState and the exception raised.       *)

User(s) == "U" \in s.fl
Carry(s) == IF "C" \in s.fl THEN 1 ELSE 0
Fault(s, e) == [s EXCEPT !.exc = e]

RegFault(r, s) == IF r = 61 THEN "InstructionError"
                  ELSE IF r \in {29, 30} /\ User(s) THEN "PrivilegeViolation" ELSE "none"
read_core_reg(r, s) == CASE r = LIMM -> 0
                         [] r = PCL -> s.pc - (s.pc % 4)
                         [] OTHER -> s.r[r]
write_core_reg(r, v, s) ==
    LET e == IF r = PCL THEN "InstructionError" ELSE RegFault(r, s) IN
    IF e # "none" THEN Fault(s, e)
    ELSE IF r = LIMM THEN s ELSE [s EXCEPT !.r[r] = v]

OperandFault(o, s) == IF o.t = "reg" THEN RegFault(o.v, s) ELSE "none"
FaultIn(os, s) == IF \E k \in DOMAIN os : OperandFault(os[k], s) # "none"
                  THEN OperandFault(os[CHOOSE k \in DOMAIN os :
                         /\ OperandFault(os[k], s) # "none"
                         /\ \A j \in 1 .. k - 1 : OperandFault(os[j], s) = "none"], s)
                  ELSE "none"
resolve_value(o, s) == CASE o.t = "reg" -> read_core_reg(o.v, s)
                         [] o.t = "imm" -> Mod(o.v)
                         [] o.t = "limm" -> s.limm
                         [] o.t = "none" -> 0
                         [] OTHER -> o.v
write_dest(o, v, s) == IF o.t = "reg" THEN write_core_reg(o.v, v, s) ELSE s

(* The destination first, then the flags: a destination that may not be    *)
(* written leaves them alone.                                              *)
Commit(i, o, s) ==
    LET t == write_dest(i.dst, o.r, s) IN
    IF t.exc # "none" \/ ~i.set_flags THEN t
    ELSE [t EXCEPT !.fl = (@ \ (o.touched \cup {"Z", "N"})) \cup o.on
                          \cup (IF o.zn = 0 THEN {"Z"} ELSE {})
                          \cup (IF TopBit(o.zn) THEN {"N"} ELSE {})]

execute_alu(i, s) ==
    LET e == FaultIn(<<i.src1, i.src2>>, s) IN
    IF ~evaluate(i.cc, s.fl) THEN s
    ELSE IF e # "none" THEN Fault(s, e)
    ELSE Commit(i, compute_alu(i.op, resolve_value(i.src1, s), resolve_value(i.src2, s),
                               Carry(s)), s)

execute_ext_arith(i, s) ==
    LET e == FaultIn(<<i.src1, i.src2>>, s) IN
    IF ~evaluate(i.cc, s.fl) THEN s
    ELSE IF e # "none" THEN Fault(s, e)
    ELSE Commit(i, compute_ext(i.op, resolve_value(i.src1, s), resolve_value(i.src2, s),
                               i.src2), s)

(* Memory: n bytes from address a, the most significant first.             *)
ReadMem(m, a, n) ==
    LET B(k) == m[Mod(a + k)] * 2^(Quarter * (n - 1 - k)) IN
    CASE n = 1 -> B(0) [] n = 2 -> B(0) + B(1) [] n = 4 -> B(0) + B(1) + B(2) + B(3)
WriteMem(m, a, n, v) ==
    [x \in DOMAIN m |-> IF Mod(x - a) < n
                        THEN (v \div 2^(Quarter * (n - 1 - Mod(x - a)))) % 2^Quarter ELSE m[x]]
Aligned(a, n) == a - (a % n)

(* EX is not aligned down; its address is resolved before its register.    *)
execute_single_op(i, s) ==
    LET e == FaultIn(<<i.src>> \o (IF i.op = "Ex" THEN <<i.dst>> ELSE <<>>), s)
        a == resolve_value(i.src, s)
    IN IF ~evaluate(i.cc, s.fl) THEN s
       ELSE IF e # "none" THEN Fault(s, e)
       ELSE IF i.op = "Ex"
            THEN write_dest(i.dst, ReadMem(s.mem, a, 4),
                            [s EXCEPT !.mem = WriteMem(@, a, 4, resolve_value(i.dst, s))])
       ELSE Commit(i, compute_single(i.op, a, Carry(s)), s)

compute_ea(base, offset, n, writeback) ==
    CASE writeback \in {"None", "PreWrite"} -> Mod(base + offset)
      [] writeback = "PostWrite" -> base
      [] writeback = "Scaled" -> Mod(base + offset * n)

(* The base register is written back after the access, and after the       *)
(* loaded value: where they are one register the base wins.                *)
WriteBack(i, base, offset, s) ==
    IF s.exc = "none" /\ i.writeback \in {"PreWrite", "PostWrite"} /\ i.base.t = "reg"
    THEN write_core_reg(i.base.v, Mod(base + offset), s) ELSE s

execute_load(i, s) ==
    LET e == FaultIn(<<i.base, i.offset>>, s)
        base == resolve_value(i.base, s)
        offset == resolve_value(i.offset, s)
        n == Size(i.size)
        v == ReadMem(s.mem, Aligned(compute_ea(base, offset, n, i.writeback), n), n)
    IN IF i.dst.t = "reg" /\ i.dst.v \in 32..60 THEN Fault(s, "InstructionError")
       ELSE IF e # "none" THEN Fault(s, e)
       ELSE WriteBack(i, base, offset,
                      write_dest(i.dst, IF i.sign_extend /\ n < 4
                                        THEN Mod(SignedOf(v, n * Quarter)) ELSE v, s))

execute_store(i, s) ==
    LET e == FaultIn(<<i.base, i.offset, i.src>>, s)
        base == resolve_value(i.base, s)
        offset == resolve_value(i.offset, s)
        n == Size(i.size)
        a == Aligned(compute_ea(base, offset, n, i.writeback), n)
    IN IF e # "none" THEN Fault(s, e)
       ELSE WriteBack(i, base, offset,
                      [s EXCEPT !.mem = WriteMem(@, a, n, resolve_value(i.src, s))])

-----------------------------------------------------------------------------
(* branch.rs *)
Redirect(s, target, delay, link, next) ==
    IF delay THEN [s EXCEPT !.delay = [target |-> target, is_link |-> link]]
    ELSE [s EXCEPT !.pc = target, !.pc_written = TRUE,
                   !.r = IF link THEN [@ EXCEPT ![REG_BLINK] = next] ELSE @,
                   !.link_executed = @ \/ link]
NextPc(d, s) == Mod(s.pc + total_size(d))
Relative(i, s) == Mod(s.pc - (s.pc % 4) + i.offset)

execute_branch(d, s) ==
    IF ~evaluate(d.inst.cc, s.fl) THEN s
    ELSE Redirect([s EXCEPT !.bta = Relative(d.inst, s)], Relative(d.inst, s), d.inst.delay,
                  d.inst.link, NextPc(d, s))

taken(kind, a, b) ==
    CASE kind = "Breq" -> a = b
      [] kind = "Brne" -> a # b
      [] kind = "Brlt" -> Signed(a) < Signed(b)
      [] kind = "Brge" -> Signed(a) >= Signed(b)
      [] kind = "Brlo" -> a < b
      [] kind = "Brhs" -> a >= b
      [] kind = "Bbit0" -> ~BitOf(a, b % W)
      [] kind = "Bbit1" -> BitOf(a, b % W)

execute_branch_compare(d, s) ==
    LET i == d.inst
        e == FaultIn(<<i.src1, i.src2>>, s)
    IN IF e # "none" THEN Fault(s, e)
       ELSE IF ~taken(i.op, resolve_value(i.src1, s), resolve_value(i.src2, s)) THEN s
       ELSE Redirect([s EXCEPT !.bta = Relative(i, s)], Relative(i, s), i.delay, FALSE, 0)

(* Through an interrupt link register the saved STATUS32 and BTA come back.*)
Restored(r, s) == IF r = 29 THEN [s EXCEPT !.fl = s.aux["STATUS32_L1"], !.bta = s.aux["BTA_L1"]]
                  ELSE [s EXCEPT !.fl = s.aux["STATUS32_L2"], !.bta = s.aux["BTA_L2"]]
(* BTA aimed before the target register is checked.                        *)
JumpAimingFirst(d, s) ==
    LET i == d.inst
        target == s.r[i.target.v]
        aimed == [s EXCEPT !.bta = target]
    IN IF ~evaluate(i.cc, s.fl) THEN s
       ELSE IF OperandFault(i.target, s) # "none" THEN Fault(aimed, OperandFault(i.target, s))
       ELSE Redirect(aimed, target, i.delay, i.link, NextPc(d, s))
execute_jump(d, s) ==
    LET i == d.inst
        e == OperandFault(i.target, s)
        target == resolve_value(i.target, s)
        aimed == [s EXCEPT !.bta = target]
    IN IF ~evaluate(i.cc, s.fl) THEN s
       ELSE IF e # "none" THEN Fault(s, e)
       ELSE Redirect(IF i.flag_restore /\ i.target.t = "reg" THEN Restored(i.target.v, aimed)
                     ELSE aimed, target, i.delay, i.link, NextPc(d, s))

-----------------------------------------------------------------------------
(* special.rs *)
execute_zero_op(i, s) ==
    CASE i.op \in {"Nop", "Sync"} -> s
      [] i.op = "Sleep" ->
           [s EXCEPT !.sleeping = TRUE,
                     !.fl = IF i.param = 0 THEN @
                            ELSE (@ \ {"E1", "E2"})
                                 \cup (IF BitOf(i.param, 3) THEN {"E1"} ELSE {})
                                 \cup (IF BitOf(i.param, 4) THEN {"E2"} ELSE {})]
      [] i.op \in {"Swi", "Trap"} -> Fault(s, "Trap")
      [] i.op = "Brk" -> [s EXCEPT !.halted = TRUE]
      [] i.op = "Rtie" -> Fault(s, "InstructionError")

(* A loop whose condition fails is jumped over.                            *)
execute_loop(d, s) ==
    IF evaluate(d.inst.cc, s.fl)
    THEN [s EXCEPT !.fl = @ \ {"L"}, !.aux = [@ EXCEPT !["LP_START"] = NextPc(d, s),
                                                       !["LP_END"] = Relative(d.inst, s)]]
    ELSE [s EXCEPT !.pc = Relative(d.inst, s), !.pc_written = TRUE]

UserFlags == {"Z", "N", "C", "V"}
(* FLAG writing all of STATUS32 in either mode.                            *)
FlagWithoutMode(i, s) ==
    IF ~evaluate(i.cc, s.fl) THEN s ELSE [s EXCEPT !.fl = resolve_value(i.src, s)]
execute_flag(i, s) ==
    LET e == OperandFault(i.src, s)
        v == resolve_value(i.src, s)
    IN IF ~evaluate(i.cc, s.fl) THEN s
       ELSE IF e # "none" THEN Fault(s, e)
       ELSE IF "H" \in v
            THEN IF User(s) THEN Fault(s, "PrivilegeViolation")
                 ELSE [s EXCEPT !.halted = TRUE, !.fl = v]
       ELSE IF User(s) THEN [s EXCEPT !.fl = (@ \ UserFlags) \cup (v \cap UserFlags)]
       ELSE [s EXCEPT !.fl = v]

-----------------------------------------------------------------------------
(* registers.rs: the auxiliary registers.                                  *)
Privileged == {"STATUS32", "STATUS32_L1", "STATUS32_L2", "INT_VECTOR_BASE", "ITRIGGER",
               "IRQ_LEV", "IRQ_HINT", "ERET", "ERBTA", "ERSTATUS", "EFA", "IRQ_PULSE_CANCEL"}
ReadOnly == {"STATUS", "IDENTITY", "DEBUG", "PC", "ECR", "ICAUSE1", "ICAUSE2", "IRQ_PENDING",
             "BTA", "BCR"}
IDENTITY_VALUE == 4

read_aux_reg(a, s) == CASE a = "STATUS32" -> s.fl
                        [] a = "PC" -> s.pc - (s.pc % 2)
                        [] a = "BTA" -> s.bta
                        [] a \in DOMAIN s.aux -> s.aux[a]
                        [] OTHER -> IDENTITY_VALUE

Without(v, b) == v & Complement(b)
write_aux_reg(a, v, s) ==
    LET old == s.aux[a]
        new == CASE a \in {"LP_START", "LP_END"} -> Without(v, 1)
                 [] a = "INT_VECTOR_BASE" -> v - (v % 2^Half)
                 [] a \in {"CONTROL0", "CONTROL1"} -> Without(v, 8) | (old & 8)
                 [] a = "IRQ_LV12" -> Without(old, v)
                 [] a = "DC_CTRL" -> Without(v, 8)
                 [] OTHER -> v
    IN IF User(s) /\ a \in Privileged THEN Fault(s, "PrivilegeViolation")
       ELSE IF a = "STATUS32" THEN Fault(s, "InstructionError")
       ELSE IF a \in ReadOnly \/ a \notin DOMAIN s.aux THEN s
       ELSE [s EXCEPT !.aux[a] = new]

execute_load_aux(i, s) ==
    LET e == OperandFault(i.addr, s) IN
    IF e # "none" THEN Fault(s, e)
    ELSE write_dest(i.dst, read_aux_reg(resolve_value(i.addr, s), s), s)
execute_store_aux(i, s) ==
    LET e == FaultIn(<<i.addr, i.src>>, s) IN
    IF e # "none" THEN Fault(s, e)
    ELSE write_aux_reg(resolve_value(i.addr, s), resolve_value(i.src, s), s)

execute(d, s) ==
    LET k == d.inst.k IN
    CASE k = "Alu" -> execute_alu(d.inst, s)
      [] k = "ExtArith" -> execute_ext_arith(d.inst, s)
      [] k = "SingleOp" -> execute_single_op(d.inst, s)
      [] k = "ZeroOp" -> execute_zero_op(d.inst, s)
      [] k = "Branch" -> execute_branch(d, s)
      [] k = "BranchCompare" -> execute_branch_compare(d, s)
      [] k = "Jump" -> execute_jump(d, s)
      [] k = "Load" -> execute_load(d.inst, s)
      [] k = "Store" -> execute_store(d.inst, s)
      [] k = "Loop" -> execute_loop(d, s)
      [] k = "LoadAux" -> execute_load_aux(d.inst, s)
      [] k = "StoreAux" -> execute_store_aux(d.inst, s)
      [] k = "Flag" -> execute_flag(d.inst, s)
=============================================================================
