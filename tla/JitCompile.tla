----------------------------- MODULE JitCompile -----------------------------
(***************************************************************************)
(* The two passes of the Thumb-2 compiler, libebpf/src/jit_thumb2.c.  The  *)
(* first pass emits nothing and records where the code of each eBPF        *)
(* instruction ends; every branch in it has offset 0.  The second pass     *)
(* computes the branches from these addresses and writes the code.         *)
(*                                                                         *)
(* An eBPF instruction is a record: its kind, the length len of the code   *)
(* that does not depend on the pass (of the comparison, for a conditional  *)
(* jump), its jump offset off, and whether it compares with an immediate.  *)
(* Addresses are byte offsets from the start of the code.                  *)
(***************************************************************************)
EXTENDS Integers, Sequences

CONSTANTS Program,      \* programs that may be compiled
          PrologueLen,  \* length of the code of build_prologue
          EpilogueLen,  \* length of the code of build_epilogue
          B4Above,      \* longer programs use long conditional branches
          CondRange,    \* offsets of the short conditional branch
          LongRange,    \* offsets of the long conditional branch
          BranchRange,  \* offsets of the short branch
          FarRange,     \* offsets of the long branch
          BufferLen,    \* sizeof(jit_buffer)
          Before        \* the word before the array of offsets

(* What clang produces: LDDW takes two slots, and a jump goes to an        *)
(* instruction or to the end.                                              *)
WellFormed(p) ==
  /\ p # <<>>
  /\ \A i \in DOMAIN p : p[i].kind = "slot" <=> (i > 1 /\ p[i - 1].kind = "lddw")
  /\ \A i \in DOMAIN p : p[i].kind = "lddw" => i < Len(p)
  /\ \A i \in DOMAIN p : p[i].kind \in {"jcond", "ja"} =>
       /\ i + p[i].off \in 0 .. Len(p)
       /\ i + p[i].off # Len(p) => p[i + p[i].off + 1].kind # "slot"

Inst == [kind : {"straight", "lddw", "slot", "jcond", "ja", "exit", "todo"},
         len : Nat, off : Int, imm : BOOLEAN]

(* Every branch between two places of a program that fits the buffer is    *)
(* in range of the short branch and of the long conditional one.           *)
ASSUME JitAssumption ==
  /\ Program \subseteq Seq(Inst) /\ \A p \in Program : WellFormed(p)
  /\ PrologueLen \in Nat /\ EpilogueLen \in Nat /\ BufferLen \in Nat
  /\ B4Above \in Nat /\ Before \in Int
  /\ 0 \in CondRange /\ 0 \in LongRange /\ 0 \in BranchRange
  /\ (PrologueLen - BufferLen - 4) .. (BufferLen - PrologueLen) \subseteq LongRange \cap BranchRange

VARIABLES
  prog,
  phase,       \* "pre" and "gen" are the passes (needGen), "done" after them
  pc,          \* the instruction build_body is at
  idx,         \* state->idx
  offsets,     \* state->offsets
  epilogue_offset,
  failed,      \* build_inst has returned -1
  begin,       \* history: where the code of an instruction begins
  branch,      \* history: the branches written, by instruction
  grown        \* history: a branch differs in length between the passes

vars == <<prog, phase, pc, idx, offsets, epilogue_offset, failed, begin, branch, grown>>

inst_num == Len(prog)
Pc == 0 .. inst_num - 1
inst == prog[pc + 1]
needGen == phase = "gen"
NoBranch == [to |-> 0, lands |-> 0, size |-> 0]

Init ==
  /\ prog \in Program
  /\ phase = "pre" /\ pc = 0 /\ idx = PrologueLen
  /\ offsets = [k \in Pc |-> 0] /\ epilogue_offset = 0 /\ failed = FALSE
  /\ begin = [k \in Pc |-> 0] /\ branch = [k \in Pc |-> NoBranch] /\ grown = FALSE

use_b4 == inst_num > B4Above

(* The branch to offset off: its length, which is 0 when none can reach.   *)
emit_b_cond_shortest(off) ==
  IF off \in CondRange THEN 2 ELSE IF off \in LongRange THEN 4 ELSE 0

emit_b_cond(off) ==
  IF ~use_b4 /\ off \in CondRange THEN 2 ELSE IF off \in LongRange THEN 4 ELSE 0

emit_b(off) ==
  IF off \in BranchRange THEN 2 ELSE IF off \in FarRange THEN 4 ELSE 0

bsize == IF use_b4 THEN 4 ELSE 2

(* From the branch, of length size at the end of instruction from, to the  *)
(* end of instruction to.                                                  *)
OffsetAt(k) == IF k < 0 THEN Before ELSE offsets[k]

bpf2a32_offset_from_end(from, to, size) ==
  IF needGen THEN OffsetAt(to) - offsets[from] - 4 ELSE 0

bpf2a32_offset(from, to, size) ==
  IF needGen THEN OffsetAt(to) - (offsets[from] - size) - 4 ELSE 0

EpilogueOffset == IF needGen THEN epilogue_offset - idx - 4 ELSE 0

(* Emits straight code of length len and a branch of length size, which is *)
(* at offset off from its target, and goes on with instruction next.       *)
Emitted(len, off, size, to, next) ==
  /\ idx' = idx + len + size
  /\ pc' = next
  /\ IF needGen
     THEN /\ begin' = [begin EXCEPT ![pc] = idx]
          /\ branch' = [branch EXCEPT ![pc] = [to |-> to, lands |-> idx + len + off + 4, size |-> size]]
          /\ UNCHANGED offsets
     ELSE /\ offsets' = [offsets EXCEPT ![next - 1] = idx + len + size]
          /\ UNCHANGED <<begin, branch>>
  /\ UNCHANGED <<prog, phase, epilogue_offset, failed>>
-----------------------------------------------------------------------------
(* build_inst, by what the instruction is; each with its part of build_body. *)
Building == phase \in {"pre", "gen"} /\ pc < inst_num /\ ~failed

straight ==
  /\ Building /\ inst.kind = "straight"
  /\ Emitted(inst.len, 0, 0, pc, pc + 1)
  /\ UNCHANGED grown

(* Two slots; only the end of the second is recorded. *)
lddw ==
  /\ Building /\ inst.kind = "lddw"
  /\ Emitted(inst.len, 0, 0, pc, pc + 2)
  /\ UNCHANGED grown

(* A conditional jump; one to the next instruction, comparing with an      *)
(* immediate, is left out.  JLT, JLE, JSLT and JSLE, for which _emit_jump  *)
(* emits no branch, are straight code here.                                *)
jump_cond ==
  LET off == bpf2a32_offset(pc, pc + inst.off, bsize)
      size == emit_b_cond(off)
  IN  /\ Building /\ inst.kind = "jcond"
      /\ IF inst.imm /\ inst.off = 0
         THEN Emitted(0, 0, 0, pc, pc + 1) /\ UNCHANGED grown
         ELSE /\ Emitted(inst.len, off, size, pc + inst.off + 1, pc + 1)
              /\ grown' = (grown \/ size # emit_b_cond(0))

ja ==
  LET off == bpf2a32_offset(pc, pc + inst.off, 2)
      size == emit_b(off)
  IN  /\ Building /\ inst.kind = "ja"
      /\ IF inst.off = 0
         THEN Emitted(0, 0, 0, pc, pc + 1) /\ UNCHANGED grown
         ELSE /\ Emitted(0, off, size, pc + inst.off + 1, pc + 1)
              /\ grown' = (grown \/ size # emit_b(0))

(* EXIT: the last instruction runs into the epilogue. *)
exit ==
  LET size == emit_b(EpilogueOffset)
  IN  /\ Building /\ inst.kind = "exit"
      /\ IF pc = inst_num - 1
         THEN Emitted(0, 0, 0, pc, pc + 1) /\ UNCHANGED grown
         ELSE /\ Emitted(0, EpilogueOffset, size, inst_num, pc + 1)
              /\ grown' = (grown \/ size # emit_b(0))

(* An instruction that is not implemented ends the pass. *)
todo ==
  /\ Building /\ inst.kind = "todo"
  /\ failed' = TRUE
  /\ offsets' = IF needGen THEN offsets ELSE [offsets EXCEPT ![pc] = idx]
  /\ UNCHANGED <<prog, phase, pc, idx, epilogue_offset, begin, branch, grown>>

(* jit_compile, after each pass. *)
PassOver == failed \/ pc = inst_num

end_of_prepass ==
  /\ phase = "pre" /\ PassOver
  /\ epilogue_offset' = idx
  /\ phase' = "gen" /\ pc' = 0 /\ idx' = PrologueLen /\ failed' = FALSE
  /\ UNCHANGED <<prog, offsets, begin, branch, grown>>

end_of_genpass ==
  /\ phase = "gen" /\ PassOver
  /\ phase' = "done" /\ idx' = idx + EpilogueLen
  /\ UNCHANGED <<prog, pc, offsets, epilogue_offset, failed, begin, branch, grown>>

Next ==
  \/ straight \/ lddw \/ jump_cond \/ ja \/ exit \/ todo
  \/ end_of_prepass \/ end_of_genpass

Spec == Init /\ [][Next]_vars
-----------------------------------------------------------------------------
TypeOK ==
  /\ prog \in Seq(Inst) /\ phase \in {"pre", "gen", "done"}
  /\ pc \in 0 .. inst_num /\ idx \in Nat
  /\ offsets \in [Pc -> Nat] /\ epilogue_offset \in Nat
  /\ begin \in [Pc -> Nat]
  /\ branch \in [Pc -> [to : 0 .. inst_num, lands : Int, size : {0, 2, 4}]]
  /\ failed \in BOOLEAN /\ grown \in BOOLEAN

(* Every instruction is implemented and none jumps to the first one, whose *)
(* beginning no element of offsets holds.                                  *)
Compilable ==
  \A k \in Pc : /\ prog[k + 1].kind # "todo"
                /\ prog[k + 1].kind \in {"jcond", "ja"} => k + prog[k + 1].off + 1 # 0

(* By the first pass, the code fits jit_buffer, whose length nothing checks. *)
Fits == phase # "pre" /\ epilogue_offset + EpilogueLen <= BufferLen

(* Where the code of an instruction, or the epilogue, really is. *)
Address(k) == IF k = inst_num THEN idx - EpilogueLen ELSE begin[k]

(* The addresses that bpf2a32_offset and epilogue_offset compute from the  *)
(* first pass are those of the second: every branch that was written goes  *)
(* to the first byte of the code of its target, unless the length of a     *)
(* branch has changed between the passes.                                  *)
BranchesLand ==
  phase = "done" /\ Compilable /\ ~grown =>
    \A k \in Pc : branch[k].size # 0 => branch[k].lands = Address(branch[k].to)

(* The length of a branch changes between the passes only in a program     *)
(* short enough for _use_b4 to allow short conditional branches: a longer  *)
(* one, as far as it fits the buffer, is compiled to the addresses of the  *)
(* first pass.                                                             *)
LongProgramsAgree == Compilable /\ Fits /\ use_b4 => ~grown

(* What build_inst says of JA: the branch is always 2 bytes, so that       *)
(* bpf2a32_offset may be told so before the offset is known.               *)
AlwaysTwoBytes ==
  Compilable /\ Fits => \A k \in Pc : prog[k + 1].kind = "ja" => branch[k].size \in {0, 2}

(* What jit_compile says of the first pass: it calculates the offsets, so  *)
(* the second ends where the first did.                                    *)
PrePassCalculatesOffsets ==
  phase = "done" /\ Compilable /\ Fits => idx - EpilogueLen = epilogue_offset
=============================================================================
