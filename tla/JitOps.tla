------------------------------- MODULE JitOps -------------------------------
(***************************************************************************)
(* The arithmetic instructions, conditional jumps, loads and calls of the  *)
(* Thumb-2 compiler (libebpf/src/jit_thumb2.c) against the interpreter     *)
(* (libebpf/src/ebpf_vm.c).  An eBPF register is a pair of ARM registers   *)
(* or two words of the scratch space; the compiler emits a few             *)
(* instructions on the halves.  The model compiles one eBPF instruction    *)
(* and runs what was emitted, as the processor decodes it.                 *)
(***************************************************************************)
EXTENDS Thumb2, TLC

CONSTANTS Values,     \* of eBPF registers
          Immediates, \* of instructions other than shifts
          Placements, \* pairs of eBPF registers, destination and source
          Offsets,    \* of loads
          imm5, imm8, imm12, \* the largest numbers in fields of an encoded load
          Other       \* the value of the other eBPF registers, plus their number

SignedJumps == {"JSGT", "JSGE", "JSLT", "JSLE"}
UnsignedJumps == {"JEQ", "JNE", "JGT", "JGE", "JLT", "JLE"}
Jumps == SignedJumps \cup UnsignedJumps \cup {"JSET"}
Shifts == {"LSH", "RSH", "ARSH"}
Alu == {"ADD", "SUB", "OR", "AND", "XOR", "MUL", "DIV", "MOD", "MOV"} \cup Shifts

VARIABLES
  inst,   \* op, is64, imm: its source is the immediate, d and s: its registers,
          \* size and off of a load
  dst,    \* the operands before it; an immediate has the width of one
  src,    \* ARM register, but in LDDW
  done    \* "no", then "yes", or "taken" after a jump that was taken

vars == <<inst, dst, src, done, cpu>>

Pair(hi, lo) == [hi |-> hi, lo |-> lo]
tmp_callee == Pair(5, 4)
tmp == Pair(7, 6)
tmp2 == Pair(9, 8)

(* Registers 2 to 5 and 7 to 10 are in the scratch space; 9 and 10 are     *)
(* left out.                                                               *)
bpf2a32 == (0 :> Pair(1, 0)) @@ (1 :> Pair(3, 2)) @@ (6 :> Pair(5, 4))
           @@ (7 :> Pair(-1, -2)) @@ (8 :> Pair(-3, -4)) @@ (2 :> Pair(-5, -6))
           @@ (3 :> Pair(-7, -8)) @@ (4 :> Pair(-9, -10)) @@ (5 :> Pair(-11, -12))
ArmRegisters == -12 .. 9 \cup {IP, LR}
is_stacked(reg) == reg < 0
-----------------------------------------------------------------------------
(* Where an operand is used, and the code that brings it there and back.   *)
reg32(reg, t) == IF is_stacked(reg) THEN t ELSE reg
reg64(reg, t) == IF is_stacked(reg.lo) THEN t ELSE reg

arm_bpf_get_reg32(reg, t) == IF is_stacked(reg) THEN <<Mov(t, reg)>> ELSE <<>>

arm_bpf_get_reg64(reg, t) ==
  IF is_stacked(reg.lo) THEN <<Mov(t.lo, reg.lo), Mov(t.hi, reg.hi)>> ELSE <<>>

arm_bpf_put_reg32_held(reg, from) ==
  IF is_stacked(reg) \/ reg = from THEN <<>> ELSE <<Mov(reg, from)>>

arm_bpf_put_reg32(reg, from) == IF reg = from THEN <<>> ELSE <<Mov(reg, from)>>

arm_bpf_put_reg64(reg, from) ==
  arm_bpf_put_reg32(reg.lo, from.lo) \o arm_bpf_put_reg32(reg.hi, from.hi)

emit_mov_imm(rd, val) == <<K("movi", rd, rd, val)>>

emit_mov_i64(reg, val) ==
  LET rd == reg64(reg, tmp)
  IN  emit_mov_imm(rd.lo, Lo(val)) \o emit_mov_imm(rd.hi, Hi(val)) \o arm_bpf_put_reg64(reg, rd)

emit_mov_se_imm64(is64, reg, val) ==
  IF is64 THEN emit_mov_i64(reg, IF val >= W \div 2 THEN val + (W - 1) * W ELSE val)
  ELSE emit_mov_imm(reg.lo, val)

emit_a32_mov_reg(from, to) ==
  arm_bpf_get_reg32(from, tmp.hi) \o arm_bpf_put_reg32(to, reg32(from, tmp.hi))

emit_mov_reg64(is64, to, from) ==
  IF ~is64 THEN emit_a32_mov_reg(from.lo, to.lo)
  ELSE IF is_stacked(from.lo) /\ is_stacked(to.lo)
  THEN arm_bpf_get_reg64(from, tmp) \o arm_bpf_put_reg64(to, tmp)
  ELSE <<Mov(to.lo, from.lo), Mov(to.hi, from.hi)>>
-----------------------------------------------------------------------------
(* One half of an operation on registers rd and rn. *)
emit_add_reg_nocarry(rd, rn, hi) == I("adds", rd, rn, rd)

emit_add_reg(rd, rn, hi) == I(IF hi THEN "adc" ELSE "adds", rd, rn, rd)

emit_sub_reg(rd, rn, hi) == I(IF hi THEN "sbc" ELSE "subs", rd, rd, rn)

(* The 16-bit encoding puts rd one bit too far to the left: it is the      *)
(* instruction on other registers, and MUL where rd has bit 2 set.         *)
thumb16_ORR_REG_T1(rd, rm) == I(IF rd >= 4 THEN "mul" ELSE "orr", rm, rm, 2 * (rd % 4))

emit_orr_reg(rd, rn) == IF rd < 8 /\ rn < 8 THEN thumb16_ORR_REG_T1(rd, rn) ELSE I("orr", rd, rd, rn)

(* ROR by 0 is RRX. *)
emit_eor_reg(rd, rn) ==
  IF rn \in 1 .. 7 /\ rd \in 1 .. 7 THEN I("eor", rd, rd, rn) ELSE I("eor_rrx", rd, rn, rd)

emit_alu32_reg(rd, rn, hi, op) ==
  CASE op = "ADD" -> <<emit_add_reg(rd, rn, hi)>>
    [] op = "SUB" -> <<emit_sub_reg(rd, rn, hi)>>
    [] op = "OR" -> <<emit_orr_reg(rd, rn)>>
    [] op = "AND" -> <<I("and", rd, rd, rn)>>
    [] op = "XOR" -> <<emit_eor_reg(rd, rn)>>
    [] op = "MUL" -> <<I("mul", rd, rn, rd)>>
    [] op = "LSH" -> <<I("lsl", rd, rd, rn)>>
    [] op = "RSH" -> <<I("lsr", rd, rd, rn)>>
    [] op = "ARSH" -> <<I("asr", rd, rd, rn)>>

emit_alu64_reg(is64, to, from, op) ==
  LET rd == reg64(to, tmp)
      rs == reg64(from, tmp2)
  IN  arm_bpf_get_reg64(to, tmp)
      \o (IF is64
          THEN arm_bpf_get_reg64(from, tmp2)
               \o emit_alu32_reg(rd.lo, rs.lo, FALSE, op) \o emit_alu32_reg(rd.hi, rs.hi, TRUE, op)
          ELSE arm_bpf_get_reg32(from.lo, tmp2.lo) \o emit_alu32_reg(rd.lo, rs.lo, FALSE, op))
      \o arm_bpf_put_reg64(to, rd)

emit_alu32_imm(to, val, op) ==
  LET rd == reg32(to, tmp.hi)
  IN  arm_bpf_get_reg32(to, tmp.hi)
      \o <<CASE op = "LSH" -> K("lsli", rd, rd, val)
             [] op = "RSH" -> K("lsri", rd, rd, val)
             [] op = "ARSH" -> K("asri", rd, rd, val)
             [] op = "NEG" -> K("rsbi", rd, rd, 0)>>
      \o arm_bpf_put_reg32(to, rd)

(* Of the low halves; an immediate is cut to half its width. *)
HalfWord == 2 ^ (Bits \div 2)

emit_u32_div_mod(to, from, imm, val, op) ==
  LET rd == reg32(to.lo, tmp2.lo)
      rt == IF imm THEN tmp2.hi ELSE reg32(from.lo, tmp2.hi)
  IN  arm_bpf_get_reg32(to.lo, tmp2.lo)
      \o (IF imm THEN emit_mov_imm(rt, val % HalfWord) ELSE arm_bpf_get_reg32(from.lo, tmp2.hi))
      \o (IF op = "DIV" THEN <<I("udiv", rd, rd, rt)>>
          ELSE <<I("udiv", IP, rd, rt), Ik("mls", rd, rd, rt, IP)>>)
      \o arm_bpf_put_reg32(to.lo, rd)
-----------------------------------------------------------------------------
(* Shifts of both halves. *)
emit_lsh64_reg(to, from) ==
  LET rt == reg32(from.lo, tmp2.lo)
      rd == reg64(to, tmp)
  IN  arm_bpf_get_reg32(from.lo, tmp2.lo) \o arm_bpf_get_reg64(to, tmp)
      \o <<K("subi", IP, rt, Bits), I("lsl", tmp2.hi, rd.hi, rt),
           I("lsl", IP, rd.lo, IP), I("orr", IP, tmp2.hi, IP),
           K("rsbi", tmp2.hi, rt, Bits),
           I("lsl", tmp2.hi, rd.lo, tmp2.hi), I("orr", IP, tmp2.hi, IP),
           I("lsl", tmp2.hi, rd.lo, rt)>>
      \o arm_bpf_put_reg32(to.lo, tmp2.hi) \o arm_bpf_put_reg32(to.hi, IP)

(* LSLS.W with the two low bits of the amount in the place of the type.    *)
LslsW(d, x, val) ==
  LET amount == val - (val % 4)
  IN  CASE val % 4 = 0 -> K("lsli", d, x, amount)
        [] val % 4 = 1 -> K("lsri", d, x, amount)
        [] val % 4 = 2 -> K("asri", d, x, amount)
        [] val % 4 = 3 -> K("rori", d, x, amount)

emit_lsh64_imm(to, val) ==
  LET rd == reg64(to, tmp)
  IN  arm_bpf_get_reg64(to, tmp)
      \o (IF val < Bits
          THEN <<LslsW(tmp2.hi, rd.hi, val),
                 Ik("orr_lsr", rd.hi, tmp2.hi, rd.lo, (Bits - val) % Bits), K("lsli", rd.lo, rd.lo, val)>>
          ELSE <<IF val = Bits THEN Mov(rd.hi, rd.lo) ELSE K("lsli", rd.hi, rd.lo, val - Bits),
                 I("eor", rd.lo, rd.lo, rd.lo)>>)
      \o arm_bpf_put_reg64(to, rd)

emit_a32_rsh_r64(to, from) ==
  LET rt == reg32(from.lo, tmp2.lo)
      rd == reg64(to, tmp)
  IN  arm_bpf_get_reg32(from.lo, tmp2.lo) \o arm_bpf_get_reg64(to, tmp)
      \o <<K("rsbi", IP, rt, Bits), K("subi", tmp2.hi, rt, Bits), I("lsr", LR, rd.lo, rt),
           I("lsl", rd.hi, rd.hi, IP), I("orr", LR, LR, rd.hi),
           I("lsr", rd.hi, rd.hi, tmp2.hi), I("orr", LR, LR, rd.hi), I("lsr", IP, rd.hi, rt)>>
      \o arm_bpf_put_reg32(to.lo, LR) \o arm_bpf_put_reg32(to.hi, IP)

emit_a32_rsh_i64_early(to, val) ==
  LET rd == reg64(to, tmp)
  IN  arm_bpf_get_reg64(to, tmp)
      \o (CASE val = 0 -> <<>>
            [] val \in 1 .. Bits - 1 ->
                 <<K("lsri", tmp2.lo, rd.lo, val), K("lsri", rd.hi, rd.hi, val),
                   Ik("orr", rd.lo, tmp2.lo, rd.hi, Bits - val)>>
            [] val = Bits -> <<Mov(rd.lo, rd.hi)>> \o emit_mov_imm(rd.hi, 0)
            [] val > Bits -> <<K("lsri", rd.lo, rd.hi, val - Bits)>> \o emit_mov_imm(rd.hi, 0))
      \o arm_bpf_put_reg64(to, rd)

emit_a32_rsh_i64(to, val) ==
  LET rd == reg64(to, tmp)
  IN  arm_bpf_get_reg64(to, tmp)
      \o (CASE val = 0 -> <<>>
            [] val \in 1 .. Bits - 1 ->
                 <<K("lsri", tmp2.lo, rd.lo, val), Ik("orr", rd.lo, tmp2.lo, rd.hi, Bits - val),
                   K("lsri", rd.hi, rd.hi, val)>>
            [] val = Bits -> <<Mov(rd.lo, rd.hi)>> \o emit_mov_imm(rd.hi, 0)
            [] val > Bits -> <<K("lsri", rd.lo, rd.hi, val - Bits)>> \o emit_mov_imm(rd.hi, 0))
      \o arm_bpf_put_reg64(to, rd)

emit_a32_arsh_r64(to, from) ==
  LET rt == reg32(from.lo, tmp2.lo)
      rd == reg64(to, tmp)
  IN  arm_bpf_get_reg32(from.lo, tmp2.lo) \o arm_bpf_get_reg64(to, tmp)
      \o <<K("rsbi", IP, rt, Bits), K("subi", tmp2.hi, rt, Bits), I("lsr", LR, rd.lo, rt),
           I("lsl", rd.hi, rd.hi, tmp2.hi), I("orrs", LR, LR, rd.hi),
           I("asr", rd.hi, rd.hi, tmp2.hi), I("orrpl", LR, LR, rd.hi), I("asr", IP, rd.hi, rt)>>
      \o arm_bpf_put_reg32(to.lo, LR) \o arm_bpf_put_reg32(to.hi, IP)

emit_a32_arsh_i64(to, val) ==
  LET rd == reg64(to, tmp)
      sign == <<K("asri", rd.hi, rd.hi, Bits - 1)>>
  IN  arm_bpf_get_reg64(to, tmp)
      \o (CASE val = 0 -> <<>>
            [] val \in 1 .. Bits - 1 ->
                 <<K("lsri", tmp2.lo, rd.lo, val), Ik("orr", rd.lo, tmp2.lo, rd.hi, Bits - val),
                   K("asri", rd.hi, rd.hi, val)>>
            [] val = Bits -> <<Mov(rd.lo, rd.hi)>> \o sign
            [] val > Bits -> <<K("asri", rd.lo, rd.hi, val - Bits)>> \o sign)
      \o arm_bpf_put_reg64(to, rd)

(* The high half is negated without the borrow of the low one. *)
emit_a32_neg64(to) ==
  LET rd == reg64(to, tmp)
  IN  arm_bpf_get_reg64(to, tmp)
      \o <<K("rsbi", rd.lo, rd.lo, 0), K("rsbi", rd.hi, rd.hi, 0)>> \o arm_bpf_put_reg64(to, rd)

emit_a32_mul_r64(to, from) ==
  LET rd == reg64(to, tmp)
      rt == reg64(from, tmp2)
  IN  arm_bpf_get_reg64(to, tmp) \o arm_bpf_get_reg64(from, tmp2)
      \o <<I("mul", IP, rd.lo, rt.hi), I("mul", LR, rd.hi, rt.lo), I("add", LR, LR, IP),
           Ik("umull", rd.hi, rd.lo, rt.lo, IP), I("add", rd.hi, rd.hi, LR)>>
      \o arm_bpf_put_reg32(to.lo, IP) \o arm_bpf_put_reg32(to.hi, rd.hi)
-----------------------------------------------------------------------------
(* Loads.  An offset goes into the instruction if is_ldst_imm says so, and *)
(* is added to the address before otherwise.                               *)
Abs(n) == IF n < 0 THEN -n ELSE n

is_ldst_imm(off, size) ==
  Abs(off) <= (CASE size = "H" -> imm8 [] size = "DW" -> imm12 - 4 [] OTHER -> imm12)

(* The 16-bit LDRH counts half-words, and a base register above 7 runs     *)
(* into its offset; the 32-bit one is encoded for positive offsets.        *)
emit_ldrh_i(rt, rn, off) ==
  IF Abs(off) <= imm5
  THEN K("H", rt, rn % 8, 2 * ((off % (imm5 + 1)) | (rn \div 8)))
  ELSE K("H", rt, rn, off % (imm8 + 1))

emit_ld(to, rm, off, size) ==
  LET rd == reg64(to, tmp)
  IN  (CASE size \in {"B", "W"} -> <<K(size, rd.lo, rm, off)>>
         [] size = "H" -> <<emit_ldrh_i(rd.lo, rm, off)>>
         [] size = "DW" -> <<K("W", rd.lo, rm, off), K("W", rd.hi, rm, off + 4)>>)
      \o arm_bpf_put_reg64(to, rd)

emit_ldx_reg_unsaved(to, rn, off, size) ==
  IF ~is_ldst_imm(off, size)
  THEN emit_mov_imm(tmp.hi, off % W) \o <<I("add", tmp.hi, tmp.hi, rn)>> \o emit_ld(to, tmp.hi, 0, size)
  ELSE emit_ld(to, rn, off, size)

(* The base is saved if the first load would overwrite it. *)
emit_ldx_reg(to, rn, off, size) ==
  CASE ~is_ldst_imm(off, size) ->
         emit_mov_imm(tmp.hi, off % W) \o <<I("add", tmp.hi, tmp.hi, rn)>> \o emit_ld(to, tmp.hi, 0, size)
    [] is_ldst_imm(off, size) /\ reg64(to, tmp).lo = rn ->
         emit_a32_mov_reg(rn, tmp.hi) \o emit_ld(to, tmp.hi, off, size)
    [] OTHER -> emit_ld(to, rn, off, size)

build_load(to, from, off, size) ==
  arm_bpf_get_reg32(from.lo, tmp2.lo) \o emit_ldx_reg(to, reg32(from.lo, tmp2.lo), off, size)

(* Whether what is encoded is a load at all: LDR has room for imm8 below   *)
(* and above, LDRB for imm5 above only, if the registers are low, else for *)
(* imm8 on both sides and for imm12 above.                                 *)
Encodable(to, from, off, size) ==
  LET low == reg32(from.lo, tmp2.lo) < 8 \/ reg64(to, tmp).lo = from.lo
  IN  is_ldst_imm(off, size) =>
        CASE size = "W" -> Abs(off) <= imm8
          [] size = "DW" -> Abs(off) <= imm8 /\ Abs(off + 4) <= imm8
          [] size = "B" -> off >= 0 \/ (Abs(off) <= imm8 /\ (low => Abs(off) > imm5))
          [] size = "H" -> TRUE

(* A call: the first two arguments in ARM registers, the others on the     *)
(* stack, from the last to the third.                                      *)
emit_push_r64(reg) ==
  LET rt == reg64(reg, tmp2) IN arm_bpf_get_reg64(reg, tmp2) \o <<I("push", rt.lo, rt.lo, rt.hi)>>

build_call_forward ==
  emit_mov_reg64(TRUE, bpf2a32[0], bpf2a32[1]) \o emit_mov_reg64(TRUE, bpf2a32[1], bpf2a32[2])
  \o emit_push_r64(bpf2a32[3]) \o emit_push_r64(bpf2a32[4]) \o emit_push_r64(bpf2a32[5])
  \o emit_mov_imm(tmp.lo, 0) \o <<K("blx", tmp.lo, tmp.lo, 0), K("add_sp", 0, 0, 6)>>

build_call ==
  emit_mov_reg64(TRUE, bpf2a32[0], bpf2a32[1]) \o emit_mov_reg64(TRUE, bpf2a32[1], bpf2a32[2])
  \o emit_push_r64(bpf2a32[5]) \o emit_push_r64(bpf2a32[4]) \o emit_push_r64(bpf2a32[3])
  \o emit_mov_imm(tmp.lo, 0) \o <<K("blx", tmp.lo, tmp.lo, 0), K("add_sp", 0, 0, 6)>>
-----------------------------------------------------------------------------
emit_cmp_cond_swapped(rd, rt, rm, rn, op) ==
  CASE op = "JSET" -> <<I("add", IP, rt, rn), I("add", LR, rd, rm), I("orrs", IP, LR, IP)>>
    [] op \in UnsignedJumps -> <<Cmp(rd, rm), Cmp(rn, rt)>>
    [] op \in {"JSLE", "JSGT"} -> <<Cmp(rn, rt), I("sbcs", IP, rm, rd)>>
    [] op \in {"JSLT", "JSGE"} -> <<Cmp(rt, rn), I("sbcs", IP, rd, rm)>>

emit_cmp_cond(rd, rt, rm, rn, op) ==
  CASE op = "JSET" -> <<I("add", IP, rt, rn), I("add", LR, rd, rm), I("orrs", IP, LR, IP)>>
    [] op \in UnsignedJumps -> <<Cmp(rd, rm), Cmp(rt, rn)>>
    [] op \in {"JSLE", "JSGT"} -> <<Cmp(rn, rt), I("sbcs", IP, rm, rd)>>
    [] op \in {"JSLT", "JSGE"} -> <<Cmp(rt, rn), I("sbcs", IP, rd, rm)>>

(* The condition of the branch.  The parameter op is a signed byte, so the *)
(* labels of JLT, JLE, JSLT and JSLE (0xa0 to 0xd0) match none of its      *)
(* values: no branch is emitted for these.                                 *)
emit_jump(op) ==
  CASE op \in {"JNE", "JSET"} -> "NE"
    [] op = "JEQ" -> "EQ"
    [] op = "JGT" -> "HI"
    [] op = "JGE" -> "CS"
    [] op = "JSGT" -> "LT"
    [] op = "JSGE" -> "GE"
    [] op \in {"JLT", "JLE", "JSLT", "JSLE"} -> "none"

Branches(op) == op \in Jumps /\ emit_jump(op) # "none"

(* The code of an instruction, up to the branch of a jump. *)
build_jump(op, imm, to, from, val) ==
  LET rd == reg64(to, tmp)
      rm == IF imm THEN tmp2.hi ELSE reg32(from.hi, tmp2.hi)
      rn == IF imm THEN tmp2.lo ELSE reg32(from.lo, tmp2.lo)
  IN  (IF imm THEN emit_mov_se_imm64(TRUE, tmp2, val)
       ELSE arm_bpf_get_reg32(from.hi, tmp2.hi) \o arm_bpf_get_reg32(from.lo, tmp2.lo))
      \o arm_bpf_get_reg64(to, tmp) \o emit_cmp_cond(rd.hi, rd.lo, rm, rn, op)

build_shift(op, is64, imm, to, from, val) ==
  CASE ~is64 /\ imm -> IF val = 0 THEN <<>> ELSE emit_alu32_imm(to.lo, val, op)
    [] ~is64 /\ ~imm -> emit_alu64_reg(is64, to, from, op)
    [] is64 /\ op = "LSH" -> IF imm THEN emit_lsh64_imm(to, val) ELSE emit_lsh64_reg(to, from)
    [] is64 /\ op = "RSH" -> IF imm THEN emit_a32_rsh_i64(to, val) ELSE emit_a32_rsh_r64(to, from)
    [] is64 /\ op = "ARSH" -> IF imm THEN emit_a32_arsh_i64(to, val) ELSE emit_a32_arsh_r64(to, from)

build_inst(op, is64, imm, to, from, val) ==
  LET constant == IF imm THEN emit_mov_se_imm64(is64, tmp2, val) ELSE <<>>
      operand == IF imm THEN tmp2 ELSE from
  IN  CASE op \in Jumps -> build_jump(op, imm, to, from, val)
        [] op \in Shifts -> build_shift(op, is64, imm, to, from, val)
        [] op \in {"DIV", "MOD"} -> emit_u32_div_mod(to, from, imm, val, op)
        [] op = "MOV" -> IF imm THEN emit_mov_se_imm64(is64, to, val) ELSE emit_mov_reg64(is64, to, from)
        [] op = "LDDW" -> emit_mov_i64(to, val)
        [] op = "CALL" -> build_call
        [] op = "NEG" -> IF is64 THEN emit_a32_neg64(to) ELSE emit_alu32_imm(to.lo, 0, op)
        [] op = "MUL" /\ is64 -> constant \o emit_a32_mul_r64(to, operand)
        [] OTHER -> constant \o emit_alu64_reg(is64, to, operand, op)
-----------------------------------------------------------------------------
(* The instructions compiled: shifts by constants are smaller than the     *)
(* register, and MOV32 of a constant goes to a register (to the scratch    *)
(* space, emit_mov_imm encodes no instruction at all).                     *)
Inst ==
  {i \in [op : Jumps \cup Alu \cup {"NEG", "LDDW"}, is64 : BOOLEAN, imm : BOOLEAN,
          d : DOMAIN bpf2a32, s : DOMAIN bpf2a32, size : {"DW"}, off : {0}] :
     /\ i.op \in Jumps \cup {"LDDW"} => i.is64
     /\ i.op \in {"NEG", "LDDW"} => i.imm
     /\ i.op = "MOV" /\ i.imm /\ ~i.is64 => ~is_stacked(bpf2a32[i.d].lo)
     /\ <<i.d, i.s>> \in Placements
     /\ i.imm => \A p \in Placements : p[1] = i.d => i.s <= p[2]}
  \cup {i \in [op : {"LDX"}, is64 : {TRUE}, imm : {FALSE}, d : DOMAIN bpf2a32, s : DOMAIN bpf2a32,
               size : {"B", "H", "W", "DW"}, off : Offsets] :
          <<i.d, i.s>> \in Placements /\ Encodable(bpf2a32[i.d], bpf2a32[i.s], i.off, i.size)}
  \cup {[op |-> "CALL", is64 |-> TRUE, imm |-> TRUE, d |-> 0, s |-> 1, size |-> "DW", off |-> 0]}

Sources(i, a) ==
  CASE i.op \in {"LDDW", "CALL"} -> Values   \* of a call: its result
    [] i.op = "NEG" -> {0}
    [] i.op \in Shifts /\ i.imm -> 0 .. (IF i.is64 THEN 2 * Bits ELSE Bits) - 1
    [] i.imm /\ i.op \notin Shifts \cup {"LDDW", "NEG", "CALL"} -> Immediates
    [] ~i.imm -> IF i.d = i.s THEN {a} ELSE Values

(* What eBPF register b holds before the instruction. *)
Before(b) == IF b = inst.d THEN dst ELSE IF b = inst.s /\ ~inst.imm THEN src ELSE Other + b

Init ==
  /\ inst \in Inst /\ dst \in (IF inst.op = "LDX" /\ inst.d # inst.s THEN {Other} ELSE Values)
  /\ src \in Sources(inst, dst)
  /\ done = "no"
  /\ r = [n \in ArmRegisters |->
            IF \E b \in DOMAIN bpf2a32 : n \in {bpf2a32[b].hi, bpf2a32[b].lo}
            THEN LET b == CHOOSE b \in DOMAIN bpf2a32 : n \in {bpf2a32[b].hi, bpf2a32[b].lo}
                 IN  IF n = bpf2a32[b].hi THEN Hi(Before(b)) ELSE Lo(Before(b))
            ELSE 0]
  /\ code = IF inst.op = "LDX" THEN build_load(bpf2a32[inst.d], bpf2a32[inst.s], inst.off, inst.size)
            ELSE build_inst(inst.op, inst.is64, inst.imm, bpf2a32[inst.d], bpf2a32[inst.s], src)
  /\ stack = <<>>
  /\ flags \in [n : {FALSE}, z : {FALSE}, c : BOOLEAN, v : {FALSE}]

execute == Step /\ UNCHANGED <<inst, dst, src, done>>

(* The helper function returns src; the registers it need not keep are     *)
(* lost.                                                                   *)
helper ==
  /\ Fetch({"blx"})
  /\ r' = [n \in ArmRegisters |-> CASE n = 0 -> Lo(src) [] n = 1 -> Hi(src)
                                    [] n \in {2, 3, IP, LR} -> 0 [] OTHER -> r[n]]
  /\ UNCHANGED <<inst, dst, src, done, stack, flags>>

branch ==
  /\ code = <<>> /\ done = "no"
  /\ done' = IF Branches(inst.op) /\ Holds(emit_jump(inst.op)) THEN "taken" ELSE "yes"
  /\ UNCHANGED <<inst, dst, src, cpu>>

Next == execute \/ helper \/ branch

Spec == Init /\ [][Next]_vars
-----------------------------------------------------------------------------
(* The interpreter. *)
SignExtended == IF src >= W \div 2 THEN src + (W - 1) * W ELSE src

Compared ==
  IF ~inst.imm \/ inst.op \in {"JGT", "JGE", "JLT", "JLE"} THEN src ELSE SignExtended

Taken ==
  LET b == Compared
      sd == Signed(dst, W * W)
      sb == Signed(b, W * W)
  IN  CASE inst.op = "JEQ" -> dst = b
        [] inst.op = "JNE" -> dst # b
        [] inst.op = "JGT" -> dst > b
        [] inst.op = "JGE" -> dst >= b
        [] inst.op = "JLT" -> dst < b
        [] inst.op = "JLE" -> dst <= b
        [] inst.op = "JSGT" -> sd > sb
        [] inst.op = "JSGE" -> sd >= sb
        [] inst.op = "JSLT" -> sd < sb
        [] inst.op = "JSLE" -> sd <= sb
        [] inst.op = "JSET" -> (dst & b) # 0

(* An operation on numbers of m values; products modulo m do not depend on *)
(* the sign, and those of signed numbers are within the integers of TLC.   *)
Result(a, b, m) ==
  CASE inst.op = "ADD" -> (a + b) % m
    [] inst.op = "SUB" -> (a - b) % m
    [] inst.op = "MUL" -> (Signed(a, m) * Signed(b, m)) % m
    [] inst.op = "DIV" -> a \div b
    [] inst.op = "MOD" -> a % b
    [] inst.op = "OR" -> a | b
    [] inst.op = "AND" -> a & b
    [] inst.op = "XOR" -> a ^^ b
    [] inst.op \in {"MOV", "LDDW"} -> b
    [] inst.op = "NEG" -> (-a) % m
    [] inst.op = "LSH" -> (a * 2 ^ b) % m
    [] inst.op = "RSH" -> a \div 2 ^ b
    [] inst.op = "ARSH" -> (Signed(a, m) \div 2 ^ b) % m

(* Loads, from an address that has the width of an ARM register. *)
exec_load ==
  LET a == Lo(src + inst.off)
  IN  IF inst.size = "DW" THEN Contents(a, "W") + W * Contents(a + 4, "W") ELSE Contents(a, inst.size)

(* 64-bit DIV by a register, which the interpreter divides by the field    *)
(* imm, and which the compiler treats as 32-bit, is compared by no         *)
(* property.                                                               *)
exec32 == Result(Lo(dst), Lo(src), W)
exec64 == Result(dst, IF inst.imm /\ inst.op # "LDDW" THEN SignExtended ELSE src, W * W)
-----------------------------------------------------------------------------
TypeOK ==
  /\ inst \in Inst /\ dst \in 0 .. W * W - 1 /\ src \in 0 .. W * W - 1
  /\ r \in [ArmRegisters -> Word] /\ Len(stack) <= 6
  /\ flags \in [{"n", "z", "c", "v"} -> BOOLEAN]
  /\ done \in {"no", "yes", "taken"}

Register(b) == r[bpf2a32[b].hi] * W + r[bpf2a32[b].lo]
JumpAgrees == done # "no" => (done = "taken") = Taken
After(ops, is64) == done = "yes" /\ inst.op \in ops /\ inst.is64 = is64

(* The signed jumps, compiled to a comparison of the low halves and a      *)
(* subtraction with carry of the high ones, decide as the interpreter      *)
(* does, for registers and immediates; the equality and unsigned jumps,    *)
(* compiled to two comparisons of which the second overwrites the flags of *)
(* the first, do so whenever the high halves are equal.  JLT, JLE, JSLT    *)
(* and JSLE, which get no branch, are left out.                            *)
JumpsAgree ==
  /\ Branches(inst.op)
  /\ inst.op \in SignedJumps \/ (inst.op \in UnsignedJumps /\ Hi(dst) = Hi(Compared))
  => JumpAgrees

(* What _emit_cmp_cond says of these jumps: the low halves are compared    *)
(* only if the high halves are equal, so the high halves count.            *)
LowOnlyIfHighEqual ==
  Branches(inst.op) /\ inst.op \in UnsignedJumps /\ ~inst.imm => JumpAgrees

(* 64-bit addition, subtraction, multiplication, conjunction and moves,    *)
(* compiled to operations on the halves that pass a carry or partial       *)
(* products in ARM registers, leave what the interpreter computes in the   *)
(* destination, wherever the two operands are and when they are the same.  *)
(* So do OR when its source is in a temporary register, XOR of registers   *)
(* for which its 16-bit encoding is used, and NEG when no borrow reaches   *)
(* the high half.                                                          *)
WideOpsAgree ==
  LET covered ==
        /\ inst.op = "OR" => inst.imm \/ is_stacked(bpf2a32[inst.s].lo)
        /\ inst.op = "XOR" => ~inst.imm /\ {inst.d, inst.s} \subseteq {1, 6}
        /\ inst.op = "NEG" => Lo(dst) = 0
  IN  After({"ADD", "SUB", "MUL", "AND", "MOV", "LDDW", "OR", "XOR", "NEG"}, TRUE) /\ covered
        => Register(inst.d) = exec64

(* 64-bit shifts move bits between the halves as the interpreter does:     *)
(* right shifts by every constant, left shifts by constants of which the   *)
(* encoding of LSLS.W is right, shifts by a register of exactly one half,  *)
(* right shifts by a register of values that fit the low half, and left    *)
(* shifts by a register that move nothing between the halves or all of it. *)
ShiftsAgree ==
  LET amount == src
      covered == IF inst.imm THEN inst.op # "LSH" \/ amount >= Bits \/ amount % 4 = 0
                 ELSE IF inst.op = "LSH" THEN amount = 0 \/ amount >= Bits
                 ELSE amount = Bits \/ Hi(dst) = 0
  IN  After(Shifts, TRUE) /\ amount < 2 * Bits /\ covered => Register(inst.d) = exec64

(* 32-bit operations leave the low half that the interpreter computes in   *)
(* the destination, for shifts smaller than the half and divisors that are *)
(* not zero (and, if constant, not cut by emit_u32_div_mod).               *)
LowHalvesAgree ==
  LET covered ==
        \/ After({"ADD", "SUB", "MUL", "AND", "MOV", "NEG"}, FALSE)
        \/ After(Shifts, FALSE) /\ src < Bits
        \/ After({"DIV"}, FALSE) /\ Lo(src) # 0 /\ (inst.imm => src < HalfWord)
  IN  covered => Lo(Register(inst.d)) = exec32

(* A load reads the bytes the interpreter reads into the low half of its   *)
(* destination, and into both halves for a double word, from near and far  *)
(* addresses, also into the register that held the address; a half-word    *)
(* at offset 0 or at one that needs the 32-bit LDRH.                       *)
LoadsAgree ==
  LET near == Abs(inst.off) <= imm5
      covered == inst.size = "H" => \/ ~is_ldst_imm(inst.off, "H")
                                    \/ ~near /\ inst.off > 0
                                    \/ inst.off = 0 /\ ~is_stacked(bpf2a32[inst.s].lo)
  IN  After({"LDX"}, TRUE) /\ covered =>
        /\ Lo(Register(inst.d)) = Lo(exec_load)
        /\ inst.size = "DW" => Register(inst.d) = exec_load

(* A helper function is called with the five eBPF argument registers as    *)
(* its 64-bit arguments, in the ARM registers and on the stack as the      *)
(* calling convention has them; its result goes to register 0 and the      *)
(* stack pointer is where it was.                                          *)
CallsPassArguments ==
  inst.op = "CALL" =>
    /\ code # <<>> /\ Op = "blx" =>
         <<r[0], r[1], r[2], r[3]>> \o stack =
           <<Lo(Before(1)), Hi(Before(1)), Lo(Before(2)), Hi(Before(2)), Lo(Before(3)), Hi(Before(3)),
             Lo(Before(4)), Hi(Before(4)), Lo(Before(5)), Hi(Before(5))>>
    /\ done # "no" => Register(0) = src /\ stack = <<>>

(* The code of an instruction works in temporary registers: no eBPF        *)
(* register but its destination changes, and a jump changes none; a call   *)
(* may change its first argument.  OR of two low registers, whose encoding *)
(* names others, is left out.                                              *)
OthersUntouched ==
  done # "no" /\ inst.op # "OR" =>
    \A b \in DOMAIN bpf2a32 :
      (b # inst.d \/ inst.op \in Jumps) /\ (inst.op = "CALL" => b # 1) => Register(b) = Before(b)
=============================================================================
