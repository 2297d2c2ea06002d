------------------------------- MODULE Decoder -------------------------------
(***************************************************************************)
(* The instruction decoder (decoder/): a 32-bit word is the pair of its    *)
(* 16-bit halves <<hi, lo>>, no field of the format straddles them except  *)
(* the ones the code itself puts together.  An immediate is the signed     *)
(* number the code sign-extends; a long immediate that follows the         *)
(* instruction is the operand Limm.                                        *)
(***************************************************************************)
EXTENDS Integers, Sequences

(* fields.rs *)
extract_bits(x, h, l) == (x \div 2^l) % 2^(h - l + 1)
bit(x, i) == extract_bits(x, i, i) = 1
sign_extend(v, n) == IF v >= 2^(n - 1) THEN v - 2^n ELSE v

Hi(w) == w[1]
Lo(w) == w[2]
major_opcode(half) == extract_bits(half, 15, 11)
is_32bit_instruction(m) == m < 12
extract_b_reg(w) == extract_bits(Lo(w), 14, 12) * 8 + extract_bits(Hi(w), 10, 8)
extract_c_reg(w) == extract_bits(Lo(w), 11, 6)
extract_a_reg(w) == extract_bits(Lo(w), 5, 0)
extract_f_bit(w) == bit(Lo(w), 15)
extract_p_field(w) == extract_bits(Hi(w), 7, 6)
extract_subopcode_04(w) == extract_bits(Hi(w), 5, 0)
(* A slip: the two halves of the immediate the wrong way round. *)
extract_s12_swapped(w) == sign_extend(extract_c_reg(w) * 64 + extract_a_reg(w), 12)
extract_s12(w) == sign_extend(extract_a_reg(w) * 64 + extract_c_reg(w), 12)
extract_condition_q(w) == extract_bits(Lo(w), 4, 0)
extract_n_bit(w) == bit(Lo(w), 5)
map_16bit_reg(e) == IF e < 4 THEN e ELSE e + 8
extract_h_reg_16(h) == extract_bits(h, 2, 0) * 8 + extract_bits(h, 7, 5)

(* instruction.rs *)
REG_GP == 26
REG_SP == 28
REG_BLINK == 31
LIMM == 62
PCL == 63
Reg(r) == [t |-> "reg", v |-> r]
Imm(x) == [t |-> "imm", v |-> x]
Limm == [t |-> "limm", v |-> 0]
NoOperand == [t |-> "none", v |-> 0]
resolve_operand(r, has_limm) ==
    IF r # LIMM THEN Reg(r) ELSE IF has_limm THEN Limm ELSE Imm(0)

AluOp == <<"Add", "Adc", "Sub", "Sbc", "And", "Or", "Bic", "Xor", "Max", "Min",
           "Mov", "Tst", "Cmp", "Rcmp", "Rsub", "Bset", "Bclr", "Btst", "Bxor",
           "Bmsk", "Add1", "Add2", "Add3", "Sub1", "Sub2", "Sub3", "Mpy", "Mpyh",
           "Mpyhu", "Mpyu">>
is_test_only(op) == op \in {"Tst", "Cmp", "Rcmp", "Btst"}
is_mov(op) == op = "Mov"
SingleOp == <<"Asl", "Asr", "Lsr", "Ror", "Rrc", "Sexb", "Sexw", "Extb", "Extw",
              "Abs", "Not", "Rlc", "Ex">>
ZeroOp == [i \in 1..5 |-> <<"Sleep", "Swi", "Sync", "Rtie", "Brk">>[i]]
ExtSingleOp == <<"Swap", "Norm", "Sat16", "Rnd16", "Abssw", "Abss", "Negsw", "Negs",
                 "Normw">>
ExtDualOp == [s \in {0, 1, 2, 3, 6, 7, 8, 10, 11, 40, 41} |->
               CASE s < 4 -> <<"Asl", "Lsr", "Asr", "Ror">>[s + 1]
                 [] s \in 6..8 -> <<"Adds", "Subs", "Divaw">>[s - 5]
                 [] s \in {10, 11} -> <<"Asls", "Asrs">>[s - 9]
                 [] OTHER -> <<"Addsdw", "Subsdw">>[s - 39]]
DataSize == <<"Word", "Byte", "HalfWord">>
WritebackMode == <<"None", "PreWrite", "PostWrite", "Scaled">>
BrCompareKind == [s \in 0..5 \cup {14, 15} |->
                   CASE s = 14 -> "Bbit0" [] s = 15 -> "Bbit1"
                     [] OTHER -> <<"Breq", "Brne", "Brlt", "Brge", "Brlo", "Brhs">>[s + 1]]
ConditionCode == <<"AL", "EQ", "NE", "PL", "MI", "CS", "CC", "VS", "VC", "GT", "GE",
                   "LT", "LE", "HI", "LS", "PNZ">>
Always == "none"

Err == [inst |-> [k |-> "InstructionError"], size |-> 0, has_limm |-> FALSE]
Decoded(i, n, l) == [inst |-> i, size |-> n, has_limm |-> l]

Alu(op, d, x, y, f, c) ==
    [k |-> "Alu", op |-> op, dst |-> d, src1 |-> x, src2 |-> y, set_flags |-> f, cc |-> c]
ExtArith(op, d, x, y, f, c) ==
    [k |-> "ExtArith", op |-> op, dst |-> d, src1 |-> x, src2 |-> y, set_flags |-> f, cc |-> c]
Single(op, d, x, f, c) ==
    [k |-> "SingleOp", op |-> op, dst |-> d, src |-> x, set_flags |-> f, cc |-> c]
Zero(op, u) == [k |-> "ZeroOp", op |-> op, param |-> u]
Branch(o, c, d, l) == [k |-> "Branch", offset |-> o, cc |-> c, delay |-> d, link |-> l]
BranchCompare(kind, x, y, o, d) ==
    [k |-> "BranchCompare", op |-> kind, src1 |-> x, src2 |-> y, offset |-> o, delay |-> d]
Jump(t, c, d, l, r) ==
    [k |-> "Jump", target |-> t, cc |-> c, delay |-> d, link |-> l, flag_restore |-> r]
Load(d, b, o, z, x, wb, di) ==
    [k |-> "Load", dst |-> d, base |-> b, offset |-> o, size |-> z, sign_extend |-> x,
     writeback |-> wb, cache_bypass |-> di]
Store(s, b, o, z, wb, di) ==
    [k |-> "Store", src |-> s, base |-> b, offset |-> o, size |-> z,
     writeback |-> wb, cache_bypass |-> di]
Loop(o, c) == [k |-> "Loop", offset |-> o, cc |-> c]
LoadAux(d, a) == [k |-> "LoadAux", dst |-> d, addr |-> a]
StoreAux(s, a) == [k |-> "StoreAux", src |-> s, addr |-> a]
Flag(s, c) == [k |-> "Flag", src |-> s, cc |-> c]

-----------------------------------------------------------------------------
(* decode32.rs *)

(* The condition of the P = 11 format; codes above 15 are not instructions.*)
Condition(w) == ConditionCode[extract_condition_q(w) + 1]
BadCondition(w) == extract_condition_q(w) > 15

decode_branch(w) ==
    LET low == extract_bits(Hi(w), 10, 1)
        high == extract_bits(Lo(w), 15, 6)
        far == extract_bits(Lo(w), 3, 0)
    IN IF ~bit(Hi(w), 0)
       THEN IF BadCondition(w) THEN Err
            ELSE Decoded(Branch(sign_extend((high * 2^10 + low) * 2, 21), Condition(w),
                                extract_n_bit(w), FALSE), 4, FALSE)
       ELSE IF bit(Lo(w), 4) THEN Err
            ELSE Decoded(Branch(sign_extend((far * 2^20 + high * 2^10 + low) * 2, 25), Always,
                                extract_n_bit(w), FALSE), 4, FALSE)

decode_branch_link(w) ==
    LET low == extract_bits(Hi(w), 10, 2)
        mid == extract_bits(Lo(w), 15, 6)
        far == extract_bits(Lo(w), 3, 0)
    IN IF ~bit(Hi(w), 1)
       THEN IF BadCondition(w) THEN Err
            ELSE Decoded(Branch(sign_extend((mid * 2^9 + low) * 4, 21), Condition(w),
                                extract_n_bit(w), TRUE), 4, FALSE)
       ELSE Decoded(Branch(sign_extend((far * 2^19 + mid * 2^9 + low) * 4, 25), Always,
                           extract_n_bit(w), TRUE), 4, FALSE)

decode_branch_compare(w) ==
    LET b == extract_b_reg(w)
        c == extract_c_reg(w)
        sub == extract_bits(Lo(w), 3, 0)
        imm == bit(Lo(w), 4)
        offset == sign_extend(extract_bits(Lo(w), 15, 15) * 2^8
                              + extract_bits(Hi(w), 7, 1) * 2, 9)
    IN IF sub \notin DOMAIN BrCompareKind THEN Err
       ELSE Decoded(BranchCompare(BrCompareKind[sub], resolve_operand(b, TRUE),
                                  IF imm THEN Imm(c) ELSE resolve_operand(c, TRUE),
                                  offset, extract_n_bit(w)),
                    4, b = LIMM \/ (~imm /\ c = LIMM))

BadDestination(a) == a \in 32..60 \/ a = PCL
Discard(a) == IF a = LIMM THEN NoOperand ELSE Reg(a)
offset_s9(w) == sign_extend(extract_bits(Lo(w), 15, 15) * 2^8 + extract_bits(Hi(w), 7, 0), 9)

decode_load(w) ==
    LET b == extract_b_reg(w)
        a == extract_a_reg(w)
        aa == extract_bits(Lo(w), 10, 9)
        zz == extract_bits(Lo(w), 8, 7)
    IN IF zz = 3 \/ (b = LIMM /\ aa \in {1, 2}) \/ BadDestination(a) THEN Err
       ELSE Decoded(Load(Discard(a), resolve_operand(b, TRUE), Imm(offset_s9(w)),
                         DataSize[zz + 1], bit(Lo(w), 6), WritebackMode[aa + 1],
                         bit(Lo(w), 11)), 4, b = LIMM)

decode_store(w) ==
    LET b == extract_b_reg(w)
        c == extract_c_reg(w)
        aa == extract_bits(Lo(w), 4, 3)
        zz == extract_bits(Lo(w), 2, 1)
    IN IF zz = 3 \/ (b = LIMM /\ aa \in {1, 2}) THEN Err
       ELSE Decoded(Store(resolve_operand(c, TRUE), resolve_operand(b, TRUE),
                          Imm(offset_s9(w)), DataSize[zz + 1], WritebackMode[aa + 1],
                          bit(Lo(w), 5)), 4, b = LIMM \/ c = LIMM)

decode_load_reg_reg(w) ==
    LET b == extract_b_reg(w)
        c == extract_c_reg(w)
        a == extract_a_reg(w)
        zz == extract_bits(Hi(w), 2, 1)
    IN IF zz = 3 \/ BadDestination(a) THEN Err
       ELSE Decoded(Load(Discard(a), resolve_operand(b, TRUE), resolve_operand(c, TRUE),
                         DataSize[zz + 1], bit(Hi(w), 0),
                         WritebackMode[extract_p_field(w) + 1], extract_f_bit(w)),
                    4, b = LIMM \/ c = LIMM)

(* The operand formats: REG_REG, REG_U6, REG_S12, COND_REG and COND_U6.    *)
Conditional(w) == extract_p_field(w) = 3
ByRegister(w) == extract_p_field(w) = 0 \/ (Conditional(w) /\ ~bit(Lo(w), 5))
IllFormed(w) == Conditional(w) /\ BadCondition(w)
CondOf(w) == IF Conditional(w) THEN Condition(w) ELSE Always
Source(w, has_limm) ==
    IF ByRegister(w) THEN resolve_operand(extract_c_reg(w), has_limm)
    ELSE IF extract_p_field(w) = 2 THEN Imm(extract_s12(w)) ELSE Imm(extract_c_reg(w))
SourceIsLimm(w) == ByRegister(w) /\ extract_c_reg(w) = LIMM

(* Where MOV and the tests are concerned a B of 62 does not ask for a long *)
(* immediate in the register formats; in the others only MOV is excepted.  *)
needs_limm(w, op) ==
    \/ SourceIsLimm(w)
    \/ /\ extract_b_reg(w) = LIMM
       /\ ~is_mov(op)
       /\ ByRegister(w) => ~is_test_only(op)

Operands(w, op) ==
    LET b == extract_b_reg(w)
        limm == needs_limm(w, op)
        three == extract_p_field(w) \in {0, 1}
    IN [dst  |-> IF is_mov(op) THEN Reg(b)
                 ELSE IF is_test_only(op) THEN NoOperand
                 ELSE IF three THEN resolve_operand(extract_a_reg(w), limm) ELSE Reg(b),
        src1 |-> IF is_mov(op) THEN NoOperand ELSE resolve_operand(b, limm),
        src2 |-> Source(w, limm)]

decode_alu_op(w, op) ==
    LET o == Operands(w, op) IN
    IF IllFormed(w) THEN Err
    ELSE Decoded(Alu(op, o.dst, o.src1, o.src2, extract_f_bit(w), CondOf(w)), 4,
                 needs_limm(w, op))

decode_zero_op(w) ==
    LET b == extract_b_reg(w) IN
    IF b \notin DOMAIN ZeroOp THEN Err
    ELSE Decoded(Zero(ZeroOp[b], IF b = 1 THEN extract_c_reg(w) ELSE 0), 4, FALSE)

decode_single_op(w) ==
    LET sop == extract_a_reg(w) IN
    IF extract_p_field(w) = 2 THEN Err
    ELSE IF sop = 63 THEN decode_zero_op(w)
    ELSE IF sop + 1 \notin DOMAIN SingleOp \/ IllFormed(w) THEN Err
    ELSE Decoded(Single(SingleOp[sop + 1], Reg(extract_b_reg(w)), Source(w, TRUE),
                        extract_f_bit(w), CondOf(w)), 4, SourceIsLimm(w))

(* An interrupt link register restores STATUS32 with or without the F bit; *)
(* F with any other register, or with a conditional immediate, is illegal. *)
decode_jump(w, sub) ==
    LET ilink == ByRegister(w) /\ extract_c_reg(w) \in {29, 30}
        illegal == extract_f_bit(w) /\ ~ilink /\ extract_p_field(w) \in {0, 3}
    IN IF IllFormed(w) \/ illegal THEN Err
       ELSE Decoded(Jump(Source(w, TRUE), CondOf(w), sub \in {33, 35}, sub \in {34, 35},
                         ilink), 4, SourceIsLimm(w))

decode_loop(w) ==
    IF extract_p_field(w) = 0 \/ IllFormed(w) THEN Err
    ELSE Decoded(Loop(IF extract_p_field(w) = 2 THEN extract_s12(w) * 2
                      ELSE extract_c_reg(w) * 2, CondOf(w)), 4, FALSE)

decode_flag(w) == IF extract_p_field(w) = 2 \/ IllFormed(w) THEN Err
                  ELSE Decoded(Flag(Source(w, TRUE), CondOf(w)), 4, SourceIsLimm(w))

decode_lr(w) == IF Conditional(w) THEN Err
                ELSE Decoded(LoadAux(Reg(extract_b_reg(w)), Source(w, TRUE)), 4, SourceIsLimm(w))

decode_sr(w) == IF Conditional(w) THEN Err
                ELSE Decoded(StoreAux(resolve_operand(extract_b_reg(w), TRUE), Source(w, TRUE)),
                             4, SourceIsLimm(w) \/ extract_b_reg(w) = LIMM)

decode_special_ops(w, sub) ==
    CASE sub \in 32..35 -> decode_jump(w, sub)
      [] sub = 40 -> decode_loop(w)
      [] sub = 41 -> decode_flag(w)
      [] sub = 42 -> decode_lr(w)
      [] sub = 43 -> decode_sr(w)
      [] OTHER -> Err

decode_general_ops(w) ==
    LET sub == extract_subopcode_04(w) IN
    CASE sub \in 48..55 -> decode_load_reg_reg(w)
      [] sub = 47 -> decode_single_op(w)
      [] sub \in 32..63 \ (48..55 \cup {47}) -> decode_special_ops(w, sub)
      [] sub + 1 \in DOMAIN AluOp -> decode_alu_op(w, AluOp[sub + 1])
      [] OTHER -> Err

decode_extension_ops(w) ==
    LET sub == extract_subopcode_04(w)
        p == extract_p_field(w)
        sop == extract_a_reg(w)
        o == Operands(w, "Ext")
    IN IF sub = 47
       THEN IF sop + 1 \notin DOMAIN ExtSingleOp \/ p \notin {0, 1} THEN Err
            ELSE Decoded(ExtArith(ExtSingleOp[sop + 1], Reg(extract_b_reg(w)),
                                  Source(w, TRUE), NoOperand, extract_f_bit(w), Always),
                         4, SourceIsLimm(w))
       ELSE IF sub \notin DOMAIN ExtDualOp \/ IllFormed(w) THEN Err
            ELSE Decoded(ExtArith(ExtDualOp[sub], o.dst, o.src1, o.src2, extract_f_bit(w),
                                  CondOf(w)), 4, needs_limm(w, "Ext"))

decode_32bit(w) ==
    LET m == major_opcode(Hi(w)) IN
    CASE m = 0 -> decode_branch(w)
      [] m = 1 -> IF bit(Hi(w), 0) THEN decode_branch_compare(w) ELSE decode_branch_link(w)
      [] m = 2 -> decode_load(w)
      [] m = 3 -> decode_store(w)
      [] m = 4 -> decode_general_ops(w)
      [] m = 5 -> decode_extension_ops(w)
      [] OTHER -> Err

-----------------------------------------------------------------------------
(* decode16.rs: fields of a half-word h.                                   *)

RegB(h) == Reg(map_16bit_reg(extract_bits(h, 10, 8)))
RegC(h) == Reg(map_16bit_reg(extract_bits(h, 7, 5)))
RegA(h) == Reg(map_16bit_reg(extract_bits(h, 2, 0)))
U5(h) == extract_bits(h, 4, 0)
Short(i) == Decoded(i, 2, FALSE)
ShortAlu(op, d, x, y) == Short(Alu(op, d, x, y, is_test_only(op), Always))
ShortExt(op, d, x, y) == Short(ExtArith(op, d, x, y, FALSE, Always))
ShortLoad(d, b, o, z, x) == Short(Load(d, b, o, z, x, "None", FALSE))
ShortStore(s, b, o, z) == Short(Store(s, b, o, z, "None", FALSE))
ShortBranch(o, c, l) == Short(Branch(o, c, FALSE, l))
Size(z) == CASE z = "Word" -> 4 [] z = "HalfWord" -> 2 [] z = "Byte" -> 1

decode_0c_ld_add_reg(h) ==
    LET i == extract_bits(h, 4, 3) IN
    IF i = 3 THEN ShortAlu("Add", RegA(h), RegB(h), RegC(h))
    ELSE ShortLoad(RegA(h), RegB(h), RegC(h), DataSize[i + 1], FALSE)

decode_0d_add_sub_shift_imm(h) ==
    LET i == extract_bits(h, 4, 3)
        u3 == Imm(extract_bits(h, 2, 0))
    IN IF i < 2 THEN ShortAlu(<<"Add", "Sub">>[i + 1], RegC(h), RegB(h), u3)
       ELSE ShortExt(<<"Asl", "Asr">>[i - 1], RegC(h), RegB(h), u3)

decode_0e_mov_cmp_add_high(h) ==
    LET i == extract_bits(h, 4, 3)
        high == extract_h_reg_16(h)
        y == resolve_operand(high, TRUE)
        b == RegB(h)
        inst == <<Alu("Add", b, b, y, FALSE, Always),
                  Alu("Mov", b, NoOperand, y, FALSE, Always),
                  Alu("Cmp", NoOperand, b, y, TRUE, Always),
                  Alu("Mov", Reg(high), NoOperand, b, FALSE, Always)>>[i + 1]
    IN IF i = 3 /\ high = PCL THEN Err ELSE Decoded(inst, 2, high = LIMM)

(* J_S, JL_S with and without a delay slot, SUB_S.NE; NOP_S and the        *)
(* returns through BLINK.                                                  *)
decode_0f_single_op(h) ==
    LET c == extract_bits(h, 7, 5) IN
    IF c < 4 THEN Short(Jump(RegB(h), Always, c \in {1, 3}, c \in {2, 3}, FALSE))
    ELSE IF c = 6 THEN Short(Alu("Sub", RegB(h), RegB(h), RegB(h), FALSE, "NE"))
    ELSE Err
decode_0f_zero_op(h) ==
    LET b == extract_bits(h, 10, 8) IN
    IF b = 0 THEN Short(Zero("Nop", 0))
    ELSE IF b < 4 THEN Err
    ELSE Short(Jump(Reg(REG_BLINK), <<"EQ", "NE", Always, Always>>[b - 3], b = 7, FALSE, FALSE))

General2 == [i \in {2, 4, 5, 6, 7, 11, 20, 21, 22} |->
              CASE i = 2 -> "Sub" [] i = 11 -> "Tst"
                [] i > 19 -> <<"Add1", "Add2", "Add3">>[i - 19]
                [] OTHER -> <<"And", "Or", "Bic", "Xor">>[i - 3]]
General1 == [i \in 13..18 \cup 27..29 |->
              IF i < 19 THEN <<"Sexb", "Sexw", "Extb", "Extw", "Abs", "Not">>[i - 12]
              ELSE <<"Asl", "Asr", "Lsr">>[i - 26]]
decode_0f_general(h) ==
    LET i == U5(h)
        b == RegB(h)
        c == RegC(h)
    IN CASE i = 0 /\ extract_bits(h, 7, 5) = 7 -> decode_0f_zero_op(h)
         [] i = 0 /\ extract_bits(h, 7, 5) # 7 -> decode_0f_single_op(h)
         [] i \in DOMAIN General2 ->
              ShortAlu(General2[i], IF i = 11 THEN NoOperand ELSE b, b, c)
         [] i \in DOMAIN General1 -> Short(Single(General1[i], b, c, FALSE, Always))
         [] i = 19 -> ShortAlu("Sub", b, Imm(0), c)
         [] i \in 24..26 -> ShortExt(<<"Asl", "Lsr", "Asr">>[i - 23], b, b, c)
         [] i = 30 -> Short(Zero("Trap", extract_bits(h, 10, 5)))
         [] i = 31 -> Short(Zero("Brk", 0))
         [] OTHER -> Err

decode_ld_offset(h, z, x) == ShortLoad(RegC(h), RegB(h), Imm(U5(h) * Size(z)), z, x)
decode_st_offset(h, z) == ShortStore(RegC(h), RegB(h), Imm(U5(h) * Size(z)), z)

decode_17_shift_sub_bit(h) ==
    LET i == extract_bits(h, 7, 5)
        b == RegB(h)
    IN IF i < 3 THEN ShortExt(<<"Asl", "Lsr", "Asr">>[i + 1], b, b, Imm(U5(h)))
       ELSE ShortAlu(<<"Sub", "Bset", "Bclr", "Bmsk", "Btst">>[i - 2],
                     IF i = 7 THEN NoOperand ELSE b, b, Imm(U5(h)))

decode_18_sp_based(h) ==
    LET i == extract_bits(h, 7, 5)
        b == RegB(h)
        sp == Reg(REG_SP)
        u7 == Imm(U5(h) * 4)
        which == IF U5(h) = 17 THEN Reg(REG_BLINK) ELSE b
    IN CASE i < 2 -> ShortLoad(b, sp, u7, DataSize[i + 1], FALSE)
         [] i \in {2, 3} -> ShortStore(b, sp, u7, DataSize[i - 1])
         [] i = 4 -> ShortAlu("Add", b, sp, u7)
         [] i = 5 /\ extract_bits(h, 10, 8) < 2 ->
              ShortAlu(<<"Add", "Sub">>[extract_bits(h, 10, 8) + 1], sp, sp, u7)
         [] i = 6 /\ U5(h) \in {1, 17} ->
              Short(Load(which, sp, Imm(4), "Word", FALSE, "PostWrite", FALSE))
         [] i = 7 /\ U5(h) \in {1, 17} ->
              Short(Store(which, sp, Imm(-4), "Word", "PreWrite", FALSE))
         [] OTHER -> Err

decode_19_gp_relative(h) ==
    LET i == extract_bits(h, 10, 9)
        s9 == sign_extend(extract_bits(h, 8, 0), 9)
        gp == Reg(REG_GP)
    IN IF i = 3 THEN ShortAlu("Add", Reg(0), gp, Imm(s9 * 4))
       ELSE LET z == DataSize[i + 1] IN ShortLoad(Reg(0), gp, Imm(s9 * Size(z)), z, FALSE)

decode_1a_pcl_relative(h) ==
    ShortLoad(RegB(h), Reg(PCL), Imm(extract_bits(h, 7, 0) * 4), "Word", FALSE)
decode_1b_mov_imm(h) == ShortAlu("Mov", RegB(h), NoOperand, Imm(extract_bits(h, 7, 0)))
decode_1c_add_cmp_imm(h) ==
    LET u7 == Imm(extract_bits(h, 6, 0)) IN
    IF bit(h, 7) THEN ShortAlu("Cmp", NoOperand, RegB(h), u7)
    ELSE ShortAlu("Add", RegB(h), RegB(h), u7)
decode_1d_brcc(h) ==
    Short(BranchCompare(IF bit(h, 7) THEN "Brne" ELSE "Breq", RegB(h), Imm(0),
                        sign_extend(extract_bits(h, 6, 0) * 2, 8), FALSE))
decode_1e_bcc(h) ==
    LET sub == extract_bits(h, 10, 9) IN
    IF sub < 3 THEN ShortBranch(sign_extend(extract_bits(h, 8, 0) * 2, 10),
                                <<Always, "EQ", "NE">>[sub + 1], FALSE)
    ELSE ShortBranch(sign_extend(extract_bits(h, 5, 0) * 2, 7),
                     <<"GT", "GE", "LT", "LE", "HI", "CC", "CS", "LS">>
                       [extract_bits(h, 8, 6) + 1], FALSE)
decode_1f_bl(h) == ShortBranch(sign_extend(extract_bits(h, 10, 0) * 4, 13), Always, TRUE)

decode_16bit(h) ==
    LET m == major_opcode(h) IN
    CASE m = 12 -> decode_0c_ld_add_reg(h)
      [] m = 13 -> decode_0d_add_sub_shift_imm(h)
      [] m = 14 -> decode_0e_mov_cmp_add_high(h)
      [] m = 15 -> decode_0f_general(h)
      [] m \in 16..19 -> decode_ld_offset(h, <<"Word", "Byte", "HalfWord", "HalfWord">>[m - 15],
                                          m = 19)
      [] m \in 20..22 -> decode_st_offset(h, DataSize[m - 19])
      [] m = 23 -> decode_17_shift_sub_bit(h)
      [] m = 24 -> decode_18_sp_based(h)
      [] m = 25 -> decode_19_gp_relative(h)
      [] m = 26 -> decode_1a_pcl_relative(h)
      [] m = 27 -> decode_1b_mov_imm(h)
      [] m = 28 -> decode_1c_add_cmp_imm(h)
      [] m = 29 -> decode_1d_brcc(h)
      [] m = 30 -> decode_1e_bcc(h)
      [] m = 31 -> decode_1f_bl(h)

(* decode_with: the major opcode of the first half tells the length.       *)
decode(w) == IF is_32bit_instruction(major_opcode(Hi(w))) THEN decode_32bit(w)
             ELSE decode_16bit(Hi(w))
total_size(d) == d.size + (IF d.has_limm THEN 4 ELSE 0)
=============================================================================
