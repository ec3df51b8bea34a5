------------------------------- MODULE Thumb2 -------------------------------
(***************************************************************************)
(* The instructions of an ARMv7-M processor that the compiler of           *)
(* libebpf/src/jit_thumb2.c emits for arithmetic, conditional jumps, loads *)
(* and calls, on registers of Bits bits; the sizes of memory accesses have *)
(* the same proportions.  The words of the scratch space on the stack      *)
(* are registers with negative numbers; a load or a store of one is a mov. *)
(* Of the flags, only those that a later emitted instruction reads are set. *)
(***************************************************************************)
EXTENDS Integers, Sequences, Bitwise

CONSTANT Bits  \* of an ARM register

ASSUME BitsAssumption == Bits \in Nat \ {0}

W == 2 ^ Bits
Word == 0 .. W - 1
Hi(x) == x \div W
Lo(x) == x % W

(* The number a pattern of m values stands for, in two's complement. *)
Signed(x, m) == IF x >= m \div 2 THEN x - m ELSE x

IP == 12
LR == 14

(* Instruction i with destination d, register operands x and y, constant k. *)
I(i, d, x, y) == [i |-> i, d |-> d, x |-> x, y |-> y, k |-> 0]
K(i, d, x, k) == [i |-> i, d |-> d, x |-> x, y |-> x, k |-> k]
Mov(d, x) == I("mov", d, x, x)
Cmp(x, y) == I("cmp", x, x, y)
Ik(i, d, x, y, k) == [i |-> i, d |-> d, x |-> x, y |-> y, k |-> k]

VARIABLES
  r,      \* the registers and the scratch space
  code,   \* the emitted instructions that have not run
  stack,  \* the words that were pushed, the last one first
  flags   \* APSR

cpu == <<r, code, stack, flags>>
-----------------------------------------------------------------------------
AddWithCarry(x, y, c) ==
  LET sum == x + y + c
      value == sum % W
  IN  [value |-> value,
       flags |-> [n |-> Signed(value, W) < 0, z |-> value = 0, c |-> sum >= W,
                  v |-> Signed(x, W) + Signed(y, W) + c # Signed(value, W)]]

Inv(x) == W - 1 - x
Carry == IF flags.c THEN 1 ELSE 0

(* Shifts by a register, whose value may be Bits or more. *)
Lsl(x, n) == IF n >= Bits THEN 0 ELSE (x * 2 ^ n) % W
Lsr(x, n) == IF n >= Bits THEN 0 ELSE x \div 2 ^ n
Asr(x, n) == (Signed(x, W) \div 2 ^ (IF n >= Bits THEN Bits ELSE n)) % W
Rrx(x) == Carry * (W \div 2) + x \div 2
Ror(x, n) == (x \div 2 ^ n + x * 2 ^ (Bits - n)) % W

Op == Head(code).i
D == Head(code).d
X == r[Head(code).x]
Y == r[Head(code).y]
Const == Head(code).k

(* What memory holds, as the number of the given size at an address.       *)
SizeOf == [B |-> 2 ^ (Bits \div 4), H |-> 2 ^ (Bits \div 2), W |-> W]
Contents(a, size) == (37 * (a % W) + 11) % SizeOf[size]

Fetch(ops) == code # <<>> /\ Op \in ops /\ code' = Tail(code)

Sum ==
  CASE Op \in {"add", "adds"} -> AddWithCarry(X, Y, 0)
    [] Op = "adc" -> AddWithCarry(X, Y, Carry)
    [] Op \in {"subs", "cmp"} -> AddWithCarry(X, Inv(Y), 1)
    [] Op \in {"sbc", "sbcs"} -> AddWithCarry(X, Inv(Y), Carry)
    [] Op = "rsbi" -> AddWithCarry(Inv(X), Const, 1)
    [] Op = "subi" -> AddWithCarry(X, Inv(Const), 1)

(* An immediate shift of 0 is one by Bits for LSR and ASR, RRX for ROR. *)
ByConst == IF Const = 0 THEN Bits ELSE Const

Value ==
  CASE Op = "mov" -> X
    [] Op = "movi" -> Const
    [] Op = "and" -> X & Y
    [] Op = "eor" -> X ^^ Y
    [] Op = "eor_rrx" -> X ^^ Rrx(Y)
    [] Op = "orr" -> X | Lsl(Y, Const)
    [] Op = "orr_lsr" -> X | Lsr(Y, ByConst)
    [] Op = "mul" -> (X * Y) % W
    [] Op = "mls" -> (r[Const] - X * Y) % W
    [] Op = "udiv" -> IF Y = 0 THEN 0 ELSE X \div Y
    [] Op = "lsl" -> Lsl(X, Y)
    [] Op = "lsr" -> Lsr(X, Y)
    [] Op = "asr" -> Asr(X, Y)
    [] Op = "lsli" -> Lsl(X, Const)
    [] Op = "lsri" -> Lsr(X, ByConst)
    [] Op = "asri" -> Asr(X, ByConst)
    [] Op = "rori" -> IF Const = 0 THEN Rrx(X) ELSE Ror(X, Const)

cmp == Fetch({"cmp"}) /\ flags' = Sum.flags /\ UNCHANGED <<r, stack>>

add_flags ==
  /\ Fetch({"adds", "subs", "sbcs"})
  /\ r' = [r EXCEPT ![D] = Sum.value] /\ flags' = Sum.flags
  /\ UNCHANGED stack

add ==
  /\ Fetch({"add", "adc", "sbc", "rsbi", "subi"})
  /\ r' = [r EXCEPT ![D] = Sum.value] /\ UNCHANGED <<flags, stack>>

data ==
  /\ Fetch({"mov", "movi", "and", "eor", "eor_rrx", "orr", "orr_lsr", "mul", "mls", "udiv",
            "lsl", "lsr", "asr", "lsli", "lsri", "asri", "rori"})
  /\ r' = [r EXCEPT ![D] = Value] /\ UNCHANGED <<flags, stack>>

orrs ==
  /\ Fetch({"orrs"})
  /\ r' = [r EXCEPT ![D] = X | Y]
  /\ flags' = [flags EXCEPT !.n = Signed(X | Y, W) < 0, !.z = (X | Y) = 0]
  /\ UNCHANGED stack

(* In an IT block for PL. *)
orrpl ==
  /\ Fetch({"orrpl"})
  /\ r' = IF flags.n THEN r ELSE [r EXCEPT ![D] = X | Y]
  /\ UNCHANGED <<flags, stack>>

(* D gets the high half, register k the low one. *)
umull ==
  /\ Fetch({"umull"})
  /\ r' = [r EXCEPT ![D] = Hi(X * Y), ![Const] = Lo(X * Y)]
  /\ UNCHANGED <<flags, stack>>

(* A load from the address in X plus the constant. *)
load ==
  /\ Fetch({"B", "H", "W"})
  /\ r' = [r EXCEPT ![D] = Contents(X + Const, Op)]
  /\ UNCHANGED <<flags, stack>>

(* Two registers are pushed, the one with the smaller number at the lower  *)
(* address; the stack pointer moves back over k words.                     *)
push ==
  /\ Fetch({"push"})
  /\ stack' = (IF Head(code).x < Head(code).y THEN <<X, Y>> ELSE <<Y, X>>) \o stack
  /\ UNCHANGED <<r, flags>>

add_sp ==
  /\ Fetch({"add_sp"})
  /\ stack' = SubSeq(stack, Const + 1, Len(stack))
  /\ UNCHANGED <<r, flags>>

Holds(cond) ==
  CASE cond = "NE" -> ~flags.z
    [] cond = "EQ" -> flags.z
    [] cond = "HI" -> flags.c /\ ~flags.z
    [] cond = "LS" -> ~flags.c \/ flags.z
    [] cond = "CS" -> flags.c
    [] cond = "CC" -> ~flags.c
    [] cond = "LT" -> flags.n # flags.v
    [] cond = "GE" -> flags.n = flags.v

Step == cmp \/ add_flags \/ add \/ data \/ orrs \/ orrpl \/ umull \/ load \/ push \/ add_sp
=============================================================================
