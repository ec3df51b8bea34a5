-------------------------- MODULE JitCompileProofs --------------------------
(***************************************************************************)
(* Proofs about JitCompile for every well-formed program.  The first pass  *)
(* leaves in offsets a chain: the code of each instruction begins where    *)
(* that of the one before it ends.  The second pass follows the chain as   *)
(* long as no branch has changed its length.                               *)
(***************************************************************************)
EXTENDS JitCompile, TLAPS

(* Where the code of instruction k begins, by the ends o of the instructions. *)
Start(o, k) == IF k = 0 THEN PrologueLen ELSE o[k - 1]

Kind(k) == prog[k + 1].kind
Follow(k) == IF Kind(k) = "lddw" THEN k + 2 ELSE k + 1

(* The instructions of a program, without the second slots of LDDW. *)
Slot(k) == k < inst_num /\ Kind(k) = "slot"

(* The length of the code of instruction k in the first pass. *)
PreSize(k) ==
  LET q == prog[k + 1]
  IN  CASE q.kind \in {"straight", "lddw"} -> q.len
        [] q.kind = "jcond" -> IF q.imm /\ q.off = 0 THEN 0 ELSE q.len + bsize
        [] q.kind = "ja" -> IF q.off = 0 THEN 0 ELSE 2
        [] q.kind = "exit" -> IF k = inst_num - 1 THEN 0 ELSE 2
        [] OTHER -> 0

(* The chain, for the instructions before n, and its bounds. *)
Chain(o, n) ==
  /\ \A k \in 0 .. n - 1 : ~Slot(k) => Start(o, Follow(k)) = Start(o, k) + PreSize(k)
  /\ \A k \in 0 .. n : ~Slot(k) => PrologueLen <= Start(o, k) /\ Start(o, k) <= Start(o, n)

PreInv == phase = "pre" => ~grown /\ idx = Start(offsets, pc) /\ Chain(offsets, pc)

ChainDone == phase # "pre" => Chain(offsets, inst_num) /\ epilogue_offset = Start(offsets, inst_num)

GenInv ==
  phase = "gen" /\ ~grown =>
    /\ idx = Start(offsets, pc)
    /\ \A k \in 0 .. pc - 1 : ~Slot(k) => begin[k] = Start(offsets, k)

LandInv ==
  phase # "pre" =>
    \A k \in Pc :
      /\ ~Slot(branch[k].to)
      /\ ~grown /\ branch[k].size # 0 => branch[k].lands = Start(offsets, branch[k].to)

DoneInv ==
  phase = "done" /\ ~grown =>
    /\ idx - EpilogueLen = epilogue_offset
    /\ \A k \in Pc : ~Slot(k) => begin[k] = Start(offsets, k)

(* The first pass writes no branch. *)
Unwritten == phase = "pre" => branch = [k \in Pc |-> NoBranch]

Place == phase = "done" => pc = inst_num

IInv ==
  /\ TypeOK /\ WellFormed(prog) /\ ~Slot(pc) /\ Unwritten
  /\ Compilable => /\ ~failed /\ Place
                   /\ PreInv /\ ChainDone /\ GenInv /\ LandInv /\ DoneInv
                   /\ LongProgramsAgree /\ AlwaysTwoBytes
-----------------------------------------------------------------------------
(* The record of an instruction has its type. *)
LEMMA InstType ==
  ASSUME TypeOK, NEW k \in Pc
  PROVE  /\ inst_num \in Nat /\ prog[k + 1] \in Inst
         /\ prog[k + 1].len \in Nat /\ prog[k + 1].off \in Int
         /\ prog[k + 1].imm \in BOOLEAN
  <1>1. prog \in Seq(Inst)
    BY DEF TypeOK
  <1>2. inst_num \in Nat /\ k + 1 \in 1 .. Len(prog)
    BY <1>1 DEF inst_num, Pc
  <1>3. prog[k + 1] \in Inst
    BY <1>1, <1>2
  <1> QED
    BY <1>2, <1>3 DEF Inst

(* What well-formedness says of an instruction that is not a second slot:  *)
(* it is followed by one, or by the end, and so are its jumps.             *)
LEMMA FollowFacts ==
  ASSUME TypeOK, WellFormed(prog), NEW k \in Pc, ~Slot(k)
  PROVE  /\ Follow(k) \in {k + 1, k + 2} /\ Follow(k) \in 1 .. inst_num /\ ~Slot(Follow(k))
         /\ Kind(k) # "slot"
         /\ Kind(k) # "lddw" => Follow(k) = k + 1
         /\ Kind(k) = "lddw" => Follow(k) = k + 2 /\ Slot(k + 1)
  <1>1. inst_num \in Nat /\ inst_num = Len(prog) /\ k \in Nat /\ k < inst_num
    BY InstType DEF inst_num, Pc
  <1>2. DOMAIN prog = 1 .. inst_num
    BY <1>1 DEF TypeOK
  <1>3. Kind(k) # "slot"
    BY <1>1 DEF Slot
  <1>4. k + 1 \in DOMAIN prog
    BY <1>1, <1>2
  <1>5. CASE Kind(k) = "lddw"
    <2>1. k + 1 < inst_num
      BY <1>1, <1>4, <1>5 DEF WellFormed, Kind
    <2>2. k + 2 \in DOMAIN prog /\ (k + 2) - 1 = k + 1 /\ k + 2 > 1
      BY <1>1, <1>2, <2>1
    <2>3. prog[k + 2].kind = "slot"
      BY <1>5, <2>2 DEF WellFormed, Kind
    <2>4. Slot(k + 1)
      BY <1>1, <2>1, <2>3 DEF Slot, Kind
    <2>5. ASSUME k + 2 < inst_num PROVE prog[k + 3].kind # "slot"
      <3>1. k + 3 \in DOMAIN prog /\ (k + 3) - 1 = k + 2
        BY <1>1, <1>2, <2>5
      <3>2. prog[k + 2].kind # "lddw"
        BY <2>3
      <3> QED
        BY <3>1, <3>2 DEF WellFormed
    <2>6. ~Slot(k + 2)
      BY <1>1, <2>5 DEF Slot, Kind
    <2> QED
      BY <1>1, <1>3, <1>5, <2>1, <2>4, <2>6 DEF Follow
  <1>6. CASE Kind(k) # "lddw"
    <2>1. ASSUME k + 1 < inst_num PROVE prog[k + 2].kind # "slot"
      <3>1. k + 2 \in DOMAIN prog /\ (k + 2) - 1 = k + 1
        BY <1>1, <1>2, <2>1
      <3> QED
        BY <1>6, <3>1 DEF WellFormed, Kind
    <2>2. ~Slot(k + 1)
      BY <1>1, <2>1 DEF Slot, Kind
    <2> QED
      BY <1>1, <1>3, <1>6, <2>2 DEF Follow
  <1> QED
    BY <1>5, <1>6

(* A jump goes to an instruction or to the end, never to a second slot. *)
LEMMA TargetFacts ==
  ASSUME TypeOK, WellFormed(prog), NEW k \in Pc, Kind(k) \in {"jcond", "ja"}
  PROVE  /\ k + prog[k + 1].off + 1 \in 0 .. inst_num
         /\ ~Slot(k + prog[k + 1].off + 1)
  <1> DEFINE d == prog[k + 1].off
  <1>1. inst_num \in Nat /\ inst_num = Len(prog) /\ k \in Nat /\ k < inst_num /\ d \in Int
    BY InstType DEF inst_num, Pc
  <1>2. k + 1 \in DOMAIN prog
    BY <1>1 DEF TypeOK
  <1>3. /\ (k + 1) + d \in 0 .. Len(prog)
        /\ (k + 1) + d # Len(prog) => prog[(k + 1) + d + 1].kind # "slot"
    BY <1>2 DEF WellFormed, Kind
  <1>4. (k + 1) + d = k + d + 1 /\ (k + 1) + d + 1 = (k + d + 1) + 1
    BY <1>1
  <1>5. k + d + 1 \in 0 .. inst_num
    BY <1>1, <1>3, <1>4
  <1>6. ~Slot(k + d + 1)
    BY <1>1, <1>3, <1>4, <1>5 DEF Slot, Kind
  <1> QED
    BY <1>5, <1>6

(* The length of a branch is 0, 2 or 4, and one of offset 0 has the length *)
(* that the callers of bpf2a32_offset assume.                              *)
LEMMA BranchSize ==
  /\ \A off : emit_b_cond(off) \in {0, 2, 4} /\ emit_b(off) \in {0, 2, 4}
  /\ emit_b_cond(0) = bsize /\ emit_b(0) = 2 /\ bsize \in {2, 4}
  BY JitAssumption DEF emit_b_cond, emit_b, bsize

(* An emission keeps the types. *)
LEMMA EmittedType ==
  ASSUME TypeOK, WellFormed(prog), Building, ~Slot(pc),
         NEW len \in Nat, NEW off \in Int, NEW size \in {0, 2, 4}, NEW to \in 0 .. inst_num,
         Emitted(len, off, size, to, Follow(pc)), grown' \in BOOLEAN
  PROVE  TypeOK' /\ WellFormed(prog)'
  <1>1. pc \in Pc /\ inst_num \in Nat
    BY InstType DEF Building, TypeOK, Pc, inst_num
  <1>2. Follow(pc) \in 1 .. inst_num /\ Follow(pc) - 1 \in Pc
    BY <1>1, FollowFacts DEF Pc
  <1>3. prog' = prog /\ inst_num' = inst_num /\ Pc' = Pc
    BY DEF Emitted, inst_num, Pc
  <1>4. idx + len + size \in Nat /\ idx + len + off + 4 \in Int
    BY DEF TypeOK
  <1>5. offsets' \in [Pc -> Nat] /\ begin' \in [Pc -> Nat]
    BY <1>1, <1>2, <1>4 DEF TypeOK, Emitted
  <1>6. branch' \in [Pc -> [to : 0 .. inst_num, lands : Int, size : {0, 2, 4}]]
    <2> DEFINE R == [to : 0 .. inst_num, lands : Int, size : {0, 2, 4}]
               r == [to |-> to, lands |-> idx + len + off + 4, size |-> size]
    <2>1. r \in R
      BY <1>4
    <2>2. branch' = branch \/ branch' = [branch EXCEPT ![pc] = r]
      BY DEF Emitted
    <2>3. branch \in [Pc -> R]
      BY DEF TypeOK
    <2> HIDE DEF R, r
    <2>4. branch' \in [Pc -> R]
      BY <1>1, <2>1, <2>2, <2>3
    <2> QED
      BY <2>4 DEF R
  <1>7. pc' \in 0 .. inst_num /\ idx' \in Nat
    BY <1>1, <1>2, <1>4 DEF Emitted
  <1> QED
    BY <1>3, <1>5, <1>6, <1>7 DEF TypeOK, Emitted

(* The first pass records no branch. *)
LEMMA EmittedUnwritten ==
  ASSUME IInv, NEW len, NEW off, NEW size, NEW to, NEW next, Emitted(len, off, size, to, next)
  PROVE  Unwritten'
  <1>1. phase' = phase /\ Pc' = Pc /\ (phase = "pre" => branch' = branch)
    BY DEF Emitted, needGen, Pc, inst_num
  <1>2. Unwritten
    BY DEF IInv
  <1> QED
    BY <1>1, <1>2 DEF Unwritten

(* In the first pass an emission extends the chain by one instruction.     *)
LEMMA EmittedPre ==
  ASSUME IInv, Compilable, Building, phase = "pre",
         NEW len \in Nat, NEW off \in Int, NEW size \in {0, 2, 4}, NEW to \in 0 .. inst_num,
         Emitted(len, off, size, to, Follow(pc)),
         len + size = PreSize(pc), grown' = grown
  PROVE  IInv'
  <1>1. TypeOK /\ WellFormed(prog) /\ ~failed /\ ~Slot(pc) /\ ~grown /\ idx = Start(offsets, pc) /\ Chain(offsets, pc)
    BY DEF IInv, Place, PreInv
  <1>2. TypeOK' /\ WellFormed(prog)'
    <2>1. grown' \in BOOLEAN
      BY <1>1 DEF TypeOK
    <2> QED
      BY <1>1, <2>1, EmittedType
  <1>3. pc \in Pc /\ inst_num \in Nat /\ pc \in Nat /\ pc < inst_num
    BY <1>1, InstType DEF Building, TypeOK, Pc, inst_num
  <1>4. /\ prog' = prog /\ inst_num' = inst_num /\ Pc' = Pc /\ phase' = "pre" /\ failed' = failed
        /\ pc' = Follow(pc) /\ idx' = idx + len + size
        /\ offsets' = [offsets EXCEPT ![Follow(pc) - 1] = idx + len + size]
    BY DEF Emitted, inst_num, Pc, needGen
  <1>5. \A k : Slot(k)' = Slot(k) /\ Follow(k)' = Follow(k) /\ PreSize(k)' = PreSize(k)
    BY <1>4 DEF Slot, Follow, Kind, PreSize, bsize, use_b4, inst_num
  <1> DEFINE nx == Follow(pc)
  <1>6. nx \in {pc + 1, pc + 2} /\ nx \in 1 .. inst_num /\ ~Slot(nx)
        /\ (nx = pc + 2 => Slot(pc + 1))
    BY <1>1, <1>3, FollowFacts
  <1>7. offsets \in [Pc -> Nat] /\ PrologueLen \in Nat /\ idx \in Nat
    BY <1>1, JitAssumption DEF TypeOK
  <1>8. Start(offsets', nx) = idx + len + size
    <2>1. nx - 1 \in Pc /\ nx # 0
      BY <1>3, <1>6 DEF Pc
    <2>2. offsets'[nx - 1] = idx + len + size
      BY <1>4, <1>7, <2>1
    <2> QED
      BY <2>1, <2>2 DEF Start
  <1>9. \A k \in 0 .. inst_num : k # nx => Start(offsets', k) = Start(offsets, k)
    BY SMTT(30), <1>3, <1>4, <1>6, <1>7 DEF Start, Pc
  <1>10. \A k \in 0 .. pc - 1 : ~Slot(k) => Follow(k) \in 1 .. pc
    <2> SUFFICES ASSUME NEW k \in 0 .. pc - 1, ~Slot(k) PROVE Follow(k) \in 1 .. pc
      OBVIOUS
    <2>1. k \in Pc
      BY <1>3 DEF Pc
    <2>2. Follow(k) \in {k + 1, k + 2} /\ (Follow(k) = k + 2 => Slot(k + 1))
      BY <1>1, <2>1, <1>3, FollowFacts DEF Pc
    <2> QED
      BY <1>1, <1>3, <2>2
  <1>11. \A k \in 0 .. nx - 1 : ~Slot(k) => Start(offsets', Follow(k)) = Start(offsets', k) + PreSize(k)
    <2> SUFFICES ASSUME NEW k \in 0 .. nx - 1, ~Slot(k)
                 PROVE  Start(offsets', Follow(k)) = Start(offsets', k) + PreSize(k)
      OBVIOUS
    <2>1. k \in 0 .. inst_num /\ k # nx
      BY <1>3, <1>6
    <2>2. CASE k < pc
      <3>1. k \in 0 .. pc - 1
        BY <1>3, <2>2, <1>6
      <3>2. Start(offsets, Follow(k)) = Start(offsets, k) + PreSize(k)
        BY <1>1, <3>1 DEF Chain
      <3>3. Follow(k) \in 0 .. inst_num /\ Follow(k) # nx
        BY <1>3, <1>6, <1>10, <3>1
      <3> QED
        BY <1>9, <2>1, <3>2, <3>3
    <2>3. CASE k = pc
      <3>1. Start(offsets', k) = idx
        BY <1>1, <1>9, <2>1, <2>3
      <3> QED
        BY <1>8, <2>3, <3>1, <1>7
    <2>4. k < pc \/ k = pc
      BY <1>3, <1>6
    <2> QED
      BY <2>2, <2>3, <2>4
  <1>12. \A k \in 0 .. nx : ~Slot(k) => PrologueLen <= Start(offsets', k) /\ Start(offsets', k) <= Start(offsets', nx)
    <2> SUFFICES ASSUME NEW k \in 0 .. nx, ~Slot(k)
                 PROVE  PrologueLen <= Start(offsets', k) /\ Start(offsets', k) <= Start(offsets', nx)
      OBVIOUS
    <2>1. PrologueLen <= idx
      <3>1. pc \in 0 .. pc
        BY <1>3
      <3> QED
        BY <1>1, <3>1 DEF Chain
    <2>2. CASE k = nx
      BY <1>7, <1>8, <2>1, <2>2
    <2>3. CASE k # nx
      <3>1. k \in 0 .. pc /\ k \in 0 .. inst_num
        BY <1>3, <1>6, <2>3
      <3>2. PrologueLen <= Start(offsets, k) /\ Start(offsets, k) <= idx
        BY <1>1, <3>1 DEF Chain
      <3>3. Start(offsets, k) \in Int
        BY <1>3, <1>7, <3>1 DEF Start, Pc
      <3> QED
        BY <1>7, <1>8, <1>9, <2>3, <3>1, <3>2, <3>3
    <2> QED
      BY <2>2, <2>3
  <1>13. Chain(offsets, pc)'
    BY <1>4, <1>5, <1>11, <1>12 DEF Chain
  <1>14. idx' = Start(offsets', pc')
    BY <1>4, <1>8
  <1>15. ~Slot(pc)'
    BY <1>4, <1>6 DEF Slot, Kind, inst_num
  <1> QED
    BY <1>1, <1>2, <1>4, <1>13, <1>14, <1>15, EmittedUnwritten
    DEF IInv, Place, PreInv, ChainDone, GenInv, LandInv, DoneInv, LongProgramsAgree,
        AlwaysTwoBytes, Fits

(* In the second pass an emission follows the chain, unless its length is  *)
(* not the one of the first pass.                                          *)
LEMMA EmittedGen ==
  ASSUME IInv, Compilable, Building, phase = "gen",
         NEW len \in Nat, NEW off \in Int, NEW size \in {0, 2, 4}, NEW to \in 0 .. inst_num,
         Emitted(len, off, size, to, Follow(pc)),
         grown' \in BOOLEAN, grown => grown',
         ~grown' => len + size = PreSize(pc),
         ~Slot(to),
         ~grown /\ size # 0 => idx + len + off + 4 = Start(offsets, to),
         Fits /\ use_b4 => ~grown',
         Fits /\ Kind(pc) = "ja" => size \in {0, 2}
  PROVE  IInv'
  <1>1. /\ TypeOK /\ WellFormed(prog) /\ ~failed /\ ~Slot(pc)
        /\ Chain(offsets, inst_num) /\ epilogue_offset = Start(offsets, inst_num)
        /\ GenInv /\ LandInv /\ AlwaysTwoBytes
    BY DEF IInv, Place, ChainDone
  <1>2. TypeOK' /\ WellFormed(prog)'
    BY <1>1, EmittedType
  <1>3. pc \in Pc /\ inst_num \in Nat /\ pc \in Nat /\ pc < inst_num
    BY <1>1, InstType DEF Building, TypeOK, Pc, inst_num
  <1>4. /\ prog' = prog /\ inst_num' = inst_num /\ Pc' = Pc /\ phase' = "gen" /\ failed' = failed
        /\ pc' = Follow(pc) /\ idx' = idx + len + size /\ offsets' = offsets
        /\ epilogue_offset' = epilogue_offset
        /\ begin' = [begin EXCEPT ![pc] = idx]
        /\ branch' = [branch EXCEPT ![pc] = [to |-> to, lands |-> idx + len + off + 4, size |-> size]]
    BY DEF Emitted, inst_num, Pc, needGen
  <1>5. \A k : Slot(k)' = Slot(k) /\ Follow(k)' = Follow(k) /\ PreSize(k)' = PreSize(k)
    BY <1>4 DEF Slot, Follow, Kind, PreSize, bsize, use_b4, inst_num
  <1>6. /\ Follow(pc) \in {pc + 1, pc + 2} /\ Follow(pc) \in 1 .. inst_num /\ ~Slot(Follow(pc))
        /\ (Follow(pc) = pc + 2 => Slot(pc + 1))
    BY <1>1, <1>3, FollowFacts
  <1>7. ~Slot(pc)' /\ Place'
    BY <1>4, <1>6 DEF Place, Slot, Kind, inst_num
  <1>8. ChainDone'
    BY <1>1, <1>4, <1>5 DEF ChainDone, Chain
  <1>9. GenInv'
    <2> SUFFICES ASSUME ~grown'
                 PROVE  /\ idx' = Start(offsets, Follow(pc))
                        /\ \A k \in 0 .. Follow(pc) - 1 : ~Slot(k) => begin'[k] = Start(offsets, k)
      BY <1>4, <1>5 DEF GenInv
    <2>1. ~grown /\ idx = Start(offsets, pc)
          /\ \A k \in 0 .. pc - 1 : ~Slot(k) => begin[k] = Start(offsets, k)
      BY <1>1 DEF GenInv
    <2>2. pc \in 0 .. inst_num - 1
      BY <1>3
    <2>3. Start(offsets, Follow(pc)) = Start(offsets, pc) + PreSize(pc)
      BY <1>1, <2>2 DEF Chain
    <2>4. idx \in Nat /\ begin \in [Pc -> Nat]
      BY <1>1 DEF TypeOK
    <2>5. idx' = Start(offsets, Follow(pc))
      <3>1. len + size = PreSize(pc)
        OBVIOUS
      <3>2. idx + len + size = idx + (len + size)
        BY <2>4
      <3> QED
        BY <1>4, <2>1, <2>3, <3>1, <3>2
    <2>6. \A k \in 0 .. Follow(pc) - 1 : ~Slot(k) => begin'[k] = Start(offsets, k)
      <3> SUFFICES ASSUME NEW k \in 0 .. Follow(pc) - 1, ~Slot(k)
                   PROVE  begin'[k] = Start(offsets, k)
        OBVIOUS
      <3>1. k \in 0 .. pc - 1 \/ k = pc
        BY <1>3, <1>6
      <3>2. k \in Pc
        BY <1>3, <3>1 DEF Pc
      <3> QED
        BY <1>3, <1>4, <2>1, <2>4, <3>1, <3>2
    <2> QED
      BY <2>5, <2>6
  <1>10. \A k \in Pc : branch'[k] = IF k = pc THEN [to |-> to, lands |-> idx + len + off + 4, size |-> size]
                                   ELSE branch[k]
    BY <1>1, <1>3, <1>4 DEF TypeOK
  <1>11. LandInv'
    <2> SUFFICES ASSUME NEW k \in Pc
                 PROVE  /\ ~Slot(branch'[k].to)
                        /\ ~grown' /\ branch'[k].size # 0 =>
                             branch'[k].lands = Start(offsets, branch'[k].to)
      <3>1. \A x : Slot(x)' = Slot(x)
        BY <1>5
      <3> QED
        BY <1>4 DEF LandInv, Slot, Kind, inst_num
    <2>1. CASE k = pc
      <3>1. branch'[k].to = to /\ branch'[k].lands = idx + len + off + 4 /\ branch'[k].size = size
        BY <1>10, <2>1
      <3> QED
        BY <3>1
    <2>2. CASE k # pc
      <3>1. branch'[k] = branch[k]
        BY <1>10, <2>2
      <3> QED
        BY <1>1, <3>1 DEF LandInv
    <2> QED
      BY <2>1, <2>2
  <1>12. LongProgramsAgree'
    BY <1>4 DEF LongProgramsAgree, Fits, use_b4, inst_num
  <1>13. AlwaysTwoBytes'
    <2> SUFFICES ASSUME Fits, NEW k \in Pc, Kind(k) = "ja" PROVE branch'[k].size \in {0, 2}
      BY <1>4 DEF AlwaysTwoBytes, Fits, Kind
    <2>1. CASE k = pc
      BY <1>10, <2>1
    <2>2. CASE k # pc
      <3>1. branch'[k] = branch[k]
        BY <1>10, <2>2
      <3> QED
        BY <1>1, <3>1 DEF AlwaysTwoBytes, Kind
    <2> QED
      BY <2>1, <2>2
  <1> QED
    BY <1>1, <1>2, <1>4, <1>7, <1>8, <1>9, <1>11, <1>12, <1>13, EmittedUnwritten
    DEF IInv, PreInv, DoneInv

(* Any emission of the code keeps the invariant.                           *)
LEMMA EmittedStep ==
  ASSUME IInv, Building,
         NEW len \in Nat, NEW off \in Int, NEW size \in {0, 2, 4}, NEW to \in 0 .. inst_num,
         Emitted(len, off, size, to, Follow(pc)),
         grown' \in BOOLEAN, grown => grown',
         phase = "pre" => grown' = grown /\ len + size = PreSize(pc),
         phase = "gen" /\ Compilable =>
           /\ ~grown' => len + size = PreSize(pc)
           /\ ~Slot(to)
           /\ ~grown /\ size # 0 => idx + len + off + 4 = Start(offsets, to)
           /\ Fits /\ use_b4 => ~grown'
           /\ Fits /\ Kind(pc) = "ja" => size \in {0, 2}
  PROVE  IInv'
  <1>1. CASE Compilable /\ phase = "pre"
    BY <1>1, EmittedPre
  <1>2. CASE Compilable /\ phase = "gen"
    BY <1>2, EmittedGen
  <1>3. CASE ~Compilable
    <2>1. TypeOK' /\ WellFormed(prog)'
      BY EmittedType DEF IInv
    <2>2. prog' = prog /\ inst_num' = inst_num /\ Pc' = Pc /\ pc' = Follow(pc)
      BY DEF Emitted, inst_num, Pc
    <2>3. ~Compilable'
      BY <1>3, <2>2 DEF Compilable
    <2>4. pc \in Pc
      BY InstType DEF Building, IInv, TypeOK, Pc, inst_num
    <2>5. ~Slot(Follow(pc))
      BY <2>4, FollowFacts DEF IInv
    <2>6. ~Slot(pc)'
      BY <2>2, <2>5 DEF Slot, Kind, inst_num
    <2> QED
      BY <2>1, <2>3, <2>6, EmittedUnwritten DEF IInv
  <1> QED
    BY <1>1, <1>2, <1>3 DEF Building

(* What bpf2a32_offset computes, for a branch of length s.                 *)
LEMMA JumpOffset ==
  ASSUME IInv, Building, Kind(pc) \in {"jcond", "ja"}, NEW s \in {2, 4}
  PROVE  /\ bpf2a32_offset(pc, pc + inst.off, s) \in Int
         /\ phase = "gen" /\ Compilable =>
              /\ bpf2a32_offset(pc, pc + inst.off, s)
                   = Start(offsets, pc + inst.off + 1) - Start(offsets, pc + 1) + s - 4
              /\ Start(offsets, pc + inst.off + 1) \in Int /\ Start(offsets, pc + 1) \in Int
              /\ Fits => bpf2a32_offset(pc, pc + inst.off, s) \in LongRange \cap BranchRange
  <1> DEFINE to == pc + inst.off + 1
             off == bpf2a32_offset(pc, pc + inst.off, s)
  <1>1. TypeOK /\ WellFormed(prog) /\ ~Slot(pc)
    BY DEF IInv
  <1>2. pc \in Pc /\ inst_num \in Nat /\ pc \in Nat /\ pc < inst_num /\ inst.off \in Int
    BY <1>1, InstType DEF Building, TypeOK, Pc, inst_num, inst
  <1>3. to \in 0 .. inst_num /\ ~Slot(to)
    BY <1>1, <1>2, TargetFacts DEF inst
  <1>4. offsets \in [Pc -> Nat] /\ Before \in Int /\ PrologueLen \in Nat
    BY <1>1, JitAssumption DEF TypeOK
  <1>5. offsets[pc] \in Nat /\ OffsetAt(pc + inst.off) \in Int
    BY <1>2, <1>3, <1>4 DEF OffsetAt, Pc
  <1>6. off \in Int
    BY <1>5 DEF bpf2a32_offset
  <1>7. ASSUME phase = "gen", Compilable
        PROVE  /\ off = Start(offsets, to) - Start(offsets, pc + 1) + s - 4
               /\ Start(offsets, to) \in Int /\ Start(offsets, pc + 1) \in Int
               /\ Fits => off \in LongRange \cap BranchRange
    <2>1. to # 0
      BY <1>2, <1>7 DEF Compilable, Kind, inst
    <2>2. OffsetAt(pc + inst.off) = Start(offsets, to) /\ offsets[pc] = Start(offsets, pc + 1)
      BY <1>2, <1>3, <2>1 DEF OffsetAt, Start
    <2>3. off = Start(offsets, to) - Start(offsets, pc + 1) + s - 4
      BY <1>5, <1>7, <2>2 DEF bpf2a32_offset, needGen
    <2>4. ~Slot(pc + 1) /\ pc + 1 \in 0 .. inst_num
      BY <1>1, <1>2, FollowFacts
    <2>5. Chain(offsets, inst_num) /\ epilogue_offset = Start(offsets, inst_num)
      BY <1>7 DEF IInv, ChainDone
    <2>6. /\ PrologueLen <= Start(offsets, to) /\ Start(offsets, to) <= epilogue_offset
          /\ PrologueLen <= Start(offsets, pc + 1) /\ Start(offsets, pc + 1) <= epilogue_offset
      BY <1>3, <2>4, <2>5 DEF Chain
    <2>7. ASSUME Fits PROVE off \in LongRange \cap BranchRange
      <3>1. epilogue_offset + EpilogueLen <= BufferLen /\ EpilogueLen \in Nat /\ BufferLen \in Nat
            /\ epilogue_offset \in Nat
        BY <1>1, <2>7, JitAssumption DEF Fits, TypeOK
      <3>2. off \in (PrologueLen - BufferLen - 4) .. (BufferLen - PrologueLen)
        BY <1>4, <1>5, <1>6, <2>2, <2>3, <2>6, <3>1
      <3> QED
        BY <3>2, JitAssumption
    <2> QED
      BY <1>5, <2>2, <2>3, <2>7
  <1> QED
    BY <1>6, <1>7
-----------------------------------------------------------------------------
(* What every step of build_body starts from.                              *)
LEMMA AtInst ==
  ASSUME IInv, Building
  PROVE  /\ pc \in Pc /\ pc \in Nat /\ inst_num \in Nat /\ pc \in 0 .. inst_num
         /\ pc < inst_num /\ idx \in Nat /\ grown \in BOOLEAN
         /\ inst.len \in Nat /\ inst.off \in Int /\ inst.imm \in BOOLEAN
         /\ inst.kind = Kind(pc) /\ ~Slot(pc)
         /\ Kind(pc) # "lddw" => Follow(pc) = pc + 1
         /\ Kind(pc) = "lddw" => Follow(pc) = pc + 2
         /\ Compilable /\ Fits /\ use_b4 => ~grown
         /\ phase = "pre" /\ Compilable => ~grown
         /\ phase = "gen" /\ Compilable /\ ~grown => idx = Start(offsets, pc)
         /\ phase = "gen" /\ Compilable =>
              Chain(offsets, inst_num) /\ epilogue_offset = Start(offsets, inst_num)
  <1>1. TypeOK /\ WellFormed(prog) /\ ~Slot(pc)
    BY DEF IInv
  <1>2. pc \in Pc /\ inst_num \in Nat /\ pc \in Nat /\ pc < inst_num
    BY <1>1, InstType DEF Building, TypeOK, Pc, inst_num
  <1>3. inst.len \in Nat /\ inst.off \in Int /\ inst.imm \in BOOLEAN
    BY <1>1, <1>2, InstType DEF inst
  <1>4. (Kind(pc) # "lddw" => Follow(pc) = pc + 1) /\ (Kind(pc) = "lddw" => Follow(pc) = pc + 2)
    BY <1>1, <1>2, FollowFacts
  <1>5. Compilable => PreInv /\ ChainDone /\ GenInv /\ LongProgramsAgree
    BY DEF IInv
  <1> QED
    BY <1>1, <1>2, <1>3, <1>4, <1>5
    DEF TypeOK, Kind, inst, PreInv, ChainDone, GenInv, LongProgramsAgree

(* Straight code, and LDDW with its two slots. *)
LEMMA StraightStep ==
  ASSUME IInv, straight \/ lddw
  PROVE  IInv'
  <1>1. Building /\ inst.kind \in {"straight", "lddw"} /\ grown' = grown
    BY DEF straight, lddw
  <1>2. Emitted(inst.len, 0, 0, pc, Follow(pc))
    BY <1>1, AtInst DEF straight, lddw
  <1>3. PreSize(pc) = inst.len
    BY <1>1 DEF PreSize, inst
  <1> QED
    BY <1>1, <1>2, <1>3, AtInst, EmittedStep

(* An instruction that needs no code. *)
LEMMA NothingStep ==
  ASSUME IInv, Building, Emitted(0, 0, 0, pc, pc + 1), grown' = grown,
         PreSize(pc) = 0, Kind(pc) # "lddw"
  PROVE  IInv'
  <1>1. Emitted(0, 0, 0, pc, Follow(pc))
    BY AtInst
  <1> QED
    BY <1>1, AtInst, EmittedStep

(* A conditional jump, left out or emitted. *)
LEMMA JumpCondStep ==
  ASSUME IInv, jump_cond
  PROVE  IInv'
  <1> DEFINE off == bpf2a32_offset(pc, pc + inst.off, bsize)
             size == emit_b_cond(off)
             to == pc + inst.off + 1
  <1>1. Building /\ inst.kind = "jcond" /\ Kind(pc) = "jcond"
    BY AtInst DEF jump_cond
  <1>2. CASE inst.imm /\ inst.off = 0
    <2>1. Emitted(0, 0, 0, pc, pc + 1) /\ grown' = grown
      BY <1>2 DEF jump_cond
    <2>2. PreSize(pc) = 0
      BY <1>1, <1>2 DEF PreSize, inst
    <2> QED
      BY <1>1, <2>1, <2>2, NothingStep
  <1>3. CASE ~(inst.imm /\ inst.off = 0)
    <2>1. Emitted(inst.len, off, size, to, pc + 1) /\ grown' = (grown \/ size # emit_b_cond(0))
      BY <1>3 DEF jump_cond
    <2>2. PreSize(pc) = inst.len + bsize
      BY <1>1, <1>3 DEF PreSize, inst
    <2>3. off \in Int /\ size \in {0, 2, 4} /\ emit_b_cond(0) = bsize /\ bsize \in {2, 4}
      BY <1>1, JumpOffset, BranchSize
    <2>4. to \in 0 .. inst_num /\ ~Slot(to)
      BY <1>1, AtInst, TargetFacts DEF IInv, inst
    <2>5. ASSUME phase = "pre" PROVE size = bsize
      BY <2>3, <2>5 DEF bpf2a32_offset, needGen
    <2>6. ASSUME phase = "gen", Compilable, ~grown, size # 0
          PROVE  idx + inst.len + off + 4 = Start(offsets, to)
      <3>1. /\ off = Start(offsets, to) - Start(offsets, pc + 1) + bsize - 4
            /\ Start(offsets, to) \in Int /\ Start(offsets, pc + 1) \in Int
        BY <1>1, <2>3, <2>6, JumpOffset
      <3>2. idx = Start(offsets, pc) /\ Chain(offsets, inst_num) /\ idx \in Nat
            /\ inst.len \in Nat /\ Follow(pc) = pc + 1
        BY <1>1, <2>6, AtInst
      <3>3. Start(offsets, pc + 1) = idx + inst.len + bsize
        <4>1. pc \in 0 .. inst_num - 1 /\ ~Slot(pc)
          BY <1>1, AtInst
        <4>2. Start(offsets, Follow(pc)) = Start(offsets, pc) + PreSize(pc)
          BY <3>2, <4>1 DEF Chain
        <4> QED
          BY <2>2, <2>3, <3>2, <4>2
      <3> HIDE DEF off, to
      <3> QED
        BY <2>3, <3>1, <3>2, <3>3
    <2>7. ASSUME phase = "gen", Compilable, Fits, use_b4 PROVE ~grown'
      <3>1. off \in LongRange /\ ~grown
        BY <1>1, <2>3, <2>7, JumpOffset, AtInst
      <3>2. size = 4 /\ bsize = 4
        BY <2>7, <3>1 DEF emit_b_cond, bsize
      <3> QED
        BY <2>1, <2>3, <3>1, <3>2
    <2>8. Emitted(inst.len, off, size, to, Follow(pc)) /\ inst.len \in Nat /\ grown \in BOOLEAN
      BY <1>1, <2>1, AtInst
    <2>9. /\ grown' \in BOOLEAN
          /\ grown => grown'
          /\ phase = "pre" => grown' = grown /\ inst.len + size = PreSize(pc)
          /\ ~grown' => inst.len + size = PreSize(pc)
      <3>1. size = bsize => inst.len + size = PreSize(pc)
        BY <2>2
      <3> HIDE DEF size
      <3> QED
        BY <2>1, <2>3, <2>5, <2>8, <3>1, Zenon
    <2> HIDE DEF off, size, to
    <2> QED
      BY <1>1, <2>3, <2>4, <2>6, <2>7, <2>8, <2>9, EmittedStep
  <1> QED
    BY <1>2, <1>3

(* JA, left out or emitted. *)
LEMMA JaStep ==
  ASSUME IInv, ja
  PROVE  IInv'
  <1> DEFINE off == bpf2a32_offset(pc, pc + inst.off, 2)
             size == emit_b(off)
             to == pc + inst.off + 1
  <1>1. Building /\ inst.kind = "ja" /\ Kind(pc) = "ja"
    BY AtInst DEF ja
  <1>2. CASE inst.off = 0
    <2>1. Emitted(0, 0, 0, pc, pc + 1) /\ grown' = grown
      BY <1>2 DEF ja
    <2>2. PreSize(pc) = 0
      BY <1>1, <1>2 DEF PreSize, inst
    <2> QED
      BY <1>1, <2>1, <2>2, NothingStep
  <1>3. CASE inst.off # 0
    <2>1. Emitted(0, off, size, to, pc + 1) /\ grown' = (grown \/ size # emit_b(0))
      BY <1>3 DEF ja
    <2>2. PreSize(pc) = 2
      BY <1>1, <1>3 DEF PreSize, inst
    <2>3. off \in Int /\ size \in {0, 2, 4} /\ emit_b(0) = 2
      BY <1>1, JumpOffset, BranchSize
    <2>4. to \in 0 .. inst_num /\ ~Slot(to)
      BY <1>1, AtInst, TargetFacts DEF IInv, inst
    <2>5. ASSUME phase = "pre" PROVE size = 2
      BY <2>3, <2>5 DEF bpf2a32_offset, needGen
    <2>6. ASSUME phase = "gen", Compilable, ~grown, size # 0
          PROVE  idx + 0 + off + 4 = Start(offsets, to)
      <3>1. /\ off = Start(offsets, to) - Start(offsets, pc + 1) + 2 - 4
            /\ Start(offsets, to) \in Int /\ Start(offsets, pc + 1) \in Int
        BY <1>1, <2>6, JumpOffset
      <3>2. idx = Start(offsets, pc) /\ Chain(offsets, inst_num) /\ idx \in Nat
            /\ Follow(pc) = pc + 1
        BY <1>1, <2>6, AtInst
      <3>3. Start(offsets, pc + 1) = idx + 2
        <4>1. pc \in 0 .. inst_num - 1 /\ ~Slot(pc)
          BY <1>1, AtInst
        <4> QED
          BY <2>2, <3>2, <4>1 DEF Chain
      <3> HIDE DEF off, to
      <3> QED
        BY <2>3, <3>1, <3>2, <3>3
    <2>7. ASSUME phase = "gen", Compilable, Fits PROVE size = 2
      BY <1>1, <2>7, JumpOffset DEF emit_b
    <2>8. ASSUME phase = "gen", Compilable, Fits, use_b4 PROVE ~grown'
      <3>1. ~grown
        BY <1>1, <2>8, AtInst
      <3> QED
        BY <2>1, <2>3, <2>7, <2>8, <3>1
    <2>9. Emitted(0, off, size, to, Follow(pc)) /\ grown \in BOOLEAN
      BY <1>1, <2>1, AtInst
    <2>10. /\ grown' \in BOOLEAN
           /\ grown => grown'
           /\ phase = "pre" => grown' = grown /\ 0 + size = PreSize(pc)
           /\ ~grown' => 0 + size = PreSize(pc)
      <3>1. size = 2 => 0 + size = PreSize(pc)
        BY <2>2
      <3> HIDE DEF size
      <3> QED
        BY <2>1, <2>3, <2>5, <2>9, <3>1, Zenon
    <2> HIDE DEF off, size, to
    <2> QED
      BY <1>1, <2>3, <2>4, <2>6, <2>7, <2>8, <2>9, <2>10, EmittedStep
  <1> QED
    BY <1>2, <1>3

(* EXIT, at the end of the program or before it. *)
LEMMA ExitStep ==
  ASSUME IInv, exit
  PROVE  IInv'
  <1> DEFINE off == EpilogueOffset
             size == emit_b(off)
  <1>1. Building /\ inst.kind = "exit" /\ Kind(pc) = "exit"
    BY AtInst DEF exit
  <1>2. CASE pc = inst_num - 1
    <2>1. Emitted(0, 0, 0, pc, pc + 1) /\ grown' = grown
      BY <1>2 DEF exit
    <2>2. PreSize(pc) = 0
      BY <1>1, <1>2 DEF PreSize, inst
    <2> QED
      BY <1>1, <2>1, <2>2, NothingStep
  <1>3. CASE pc # inst_num - 1
    <2>1. Emitted(0, off, size, inst_num, pc + 1) /\ grown' = (grown \/ size # emit_b(0))
      BY <1>3 DEF exit
    <2>2. PreSize(pc) = 2
      BY <1>1, <1>3 DEF PreSize, inst
    <2>3. off \in Int /\ size \in {0, 2, 4} /\ emit_b(0) = 2 /\ epilogue_offset \in Nat /\ idx \in Nat
      BY <1>1, BranchSize DEF EpilogueOffset, IInv, TypeOK
    <2>4. inst_num \in 0 .. inst_num /\ ~Slot(inst_num)
      BY <1>1, AtInst DEF Slot
    <2>5. ASSUME phase = "pre" PROVE size = 2
      BY <2>3, <2>5 DEF EpilogueOffset, needGen
    <2>6. ASSUME phase = "gen", Compilable, ~grown, size # 0
          PROVE  idx + 0 + off + 4 = Start(offsets, inst_num)
      <3>1. epilogue_offset = Start(offsets, inst_num)
        BY <1>1, <2>6, AtInst
      <3>2. off = epilogue_offset - idx - 4
        BY <2>6 DEF EpilogueOffset, needGen
      <3> QED
        BY <2>3, <3>1, <3>2
    <2>7. ASSUME phase = "gen", Compilable, Fits, use_b4 PROVE ~grown'
      <3>1. ~grown
        BY <1>1, <2>7, AtInst
      <3>2. /\ idx = Start(offsets, pc) /\ Chain(offsets, inst_num) /\ ~Slot(pc)
            /\ epilogue_offset = Start(offsets, inst_num) /\ pc \in 0 .. inst_num
        BY <1>1, <2>7, <3>1, AtInst
      <3>3. PrologueLen <= idx /\ idx <= epilogue_offset
        BY <3>2 DEF Chain
      <3>4. epilogue_offset + EpilogueLen <= BufferLen /\ EpilogueLen \in Nat /\ BufferLen \in Nat
            /\ PrologueLen \in Nat
        BY <2>7, JitAssumption DEF Fits
      <3>5. off = epilogue_offset - idx - 4
        BY <2>7 DEF EpilogueOffset, needGen
      <3>6. off \in (PrologueLen - BufferLen - 4) .. (BufferLen - PrologueLen)
        BY <2>3, <3>3, <3>4, <3>5
      <3>7. size = 2
        BY <3>6, JitAssumption DEF emit_b
      <3> QED
        BY <2>1, <2>3, <3>1, <3>7
    <2>8. Emitted(0, off, size, inst_num, Follow(pc)) /\ grown \in BOOLEAN
      BY <1>1, <2>1, AtInst
    <2>9. /\ grown' \in BOOLEAN
          /\ grown => grown'
          /\ phase = "pre" => grown' = grown /\ 0 + size = PreSize(pc)
          /\ ~grown' => 0 + size = PreSize(pc)
      <3>1. size = 2 => 0 + size = PreSize(pc)
        BY <2>2
      <3> HIDE DEF size
      <3> QED
        BY <2>1, <2>3, <2>5, <2>8, <3>1, Zenon
    <2> HIDE DEF off, size
    <2> QED
      BY <1>1, <2>3, <2>4, <2>6, <2>7, <2>8, <2>9, EmittedStep
  <1> QED
    BY <1>2, <1>3

(* Only a program that is not compilable fails. *)
LEMMA TodoStep ==
  ASSUME IInv, todo
  PROVE  IInv'
  <1>1. Building /\ inst.kind = "todo"
    BY DEF todo
  <1>2. pc \in Pc /\ idx \in Nat
    BY <1>1, AtInst
  <1>3. prog' = prog /\ inst_num' = inst_num /\ Pc' = Pc /\ pc' = pc
    BY DEF todo, inst_num, Pc
  <1>4. ~Compilable /\ ~Compilable'
    BY <1>1, <1>2, <1>3 DEF Compilable, inst
  <1>5. offsets' \in [Pc -> Nat]
    BY <1>2 DEF todo, IInv, TypeOK
  <1>6. TypeOK'
    BY <1>3, <1>5 DEF todo, IInv, TypeOK
  <1>7. Unwritten'
    BY <1>3 DEF todo, IInv, Unwritten
  <1> QED
    BY <1>3, <1>4, <1>6, <1>7 DEF IInv, Slot, Kind, inst_num

(* After the first pass the chain is complete. *)
LEMMA PrepassStep ==
  ASSUME IInv, end_of_prepass
  PROVE  IInv'
  <1>1. /\ phase = "pre" /\ PassOver /\ epilogue_offset' = idx /\ phase' = "gen" /\ pc' = 0
        /\ idx' = PrologueLen /\ failed' = FALSE /\ prog' = prog /\ offsets' = offsets
        /\ begin' = begin /\ branch' = branch /\ grown' = grown
        /\ inst_num' = inst_num /\ Pc' = Pc
    BY DEF end_of_prepass, inst_num, Pc
  <1>2. TypeOK /\ WellFormed(prog) /\ inst_num \in Nat /\ inst_num = Len(prog) /\ PrologueLen \in Nat
    BY JitAssumption DEF IInv, TypeOK, inst_num
  <1>3. TypeOK' /\ WellFormed(prog)'
    <2>1. /\ prog' \in Seq(Inst) /\ phase' \in {"pre", "gen", "done"}
          /\ pc' \in 0 .. inst_num /\ idx' \in Nat /\ epilogue_offset' \in Nat
      BY <1>1, <1>2 DEF TypeOK
    <2>2. failed' \in BOOLEAN /\ grown' \in BOOLEAN
      BY <1>1, <1>2, Zenon DEF TypeOK
    <2> QED
      BY <1>1, <1>2, <2>1, <2>2 DEF TypeOK
  <1>4. \A k : Slot(k)' = Slot(k) /\ Follow(k)' = Follow(k) /\ PreSize(k)' = PreSize(k)
    BY <1>1 DEF Slot, Follow, Kind, PreSize, bsize, use_b4, inst_num
  <1>5. ~Slot(0)
    <2>1. DOMAIN prog = 1 .. inst_num
      BY <1>2 DEF TypeOK
    <2>2. ASSUME 0 < inst_num PROVE prog[1].kind # "slot"
      <3>1. 1 \in DOMAIN prog
        BY <1>2, <2>1, <2>2
      <3> QED
        BY <1>2, <3>1 DEF WellFormed
    <2> QED
      BY <2>2 DEF Slot, Kind
  <1>6. ~Slot(pc)'
    BY <1>1, <1>5 DEF Slot, Kind, inst_num
  <1>7. Compilable' = Compilable
    BY <1>1 DEF Compilable
  <1>8. ASSUME Compilable
        PROVE  /\ ~failed' /\ Place' /\ PreInv' /\ ChainDone' /\ GenInv' /\ LandInv' /\ DoneInv'
               /\ LongProgramsAgree' /\ AlwaysTwoBytes'
    <2>1. ~grown /\ idx = Start(offsets, pc) /\ Chain(offsets, pc) /\ pc = inst_num
      BY <1>1, <1>8 DEF IInv, PreInv, PassOver
    <2>2. ChainDone'
      BY <1>1, <1>4, <2>1 DEF ChainDone, Chain
    <2>3. GenInv'
      BY <1>1 DEF GenInv, Start
    <2>4. Unwritten
      BY <1>1, <1>8 DEF IInv
    <2>5. \A k \in Pc : branch[k].to = 0 /\ branch[k].size = 0
      BY <1>1, <2>4 DEF Unwritten, NoBranch
    <2>6. LandInv'
      BY <1>1, <1>5, <2>5 DEF LandInv, Slot, Kind, inst_num
    <2>7. AlwaysTwoBytes'
      BY <1>1, <2>5 DEF AlwaysTwoBytes
    <2> QED
      BY <1>1, <2>1, <2>2, <2>3, <2>6, <2>7 DEF Place, PreInv, DoneInv, LongProgramsAgree
  <1>9. Unwritten'
    BY <1>1 DEF Unwritten
  <1> QED
    BY <1>3, <1>6, <1>7, <1>8, <1>9 DEF IInv

(* After the second pass the epilogue begins where the chain ends. *)
LEMMA GenpassStep ==
  ASSUME IInv, end_of_genpass
  PROVE  IInv'
  <1>1. /\ phase = "gen" /\ PassOver /\ epilogue_offset' = epilogue_offset /\ phase' = "done"
        /\ pc' = pc /\ idx' = idx + EpilogueLen /\ failed' = failed /\ prog' = prog
        /\ offsets' = offsets /\ begin' = begin /\ branch' = branch /\ grown' = grown
        /\ inst_num' = inst_num /\ Pc' = Pc
    BY DEF end_of_genpass, inst_num, Pc
  <1>2. TypeOK /\ WellFormed(prog) /\ EpilogueLen \in Nat /\ idx \in Nat
    BY JitAssumption DEF IInv, TypeOK
  <1>3. TypeOK' /\ WellFormed(prog)'
    BY <1>1, <1>2 DEF TypeOK
  <1>4. \A k : Slot(k)' = Slot(k) /\ Follow(k)' = Follow(k) /\ PreSize(k)' = PreSize(k)
    BY <1>1 DEF Slot, Follow, Kind, PreSize, bsize, use_b4, inst_num
  <1>5. ~Slot(pc)'
    BY <1>1 DEF IInv, Slot, Kind, inst_num
  <1>6. Compilable' = Compilable
    BY <1>1 DEF Compilable
  <1>7. ASSUME Compilable
        PROVE  /\ ~failed' /\ Place' /\ PreInv' /\ ChainDone' /\ GenInv' /\ LandInv' /\ DoneInv'
               /\ LongProgramsAgree' /\ AlwaysTwoBytes'
    <2>1. /\ ~failed /\ pc = inst_num /\ ChainDone /\ GenInv /\ LandInv
          /\ LongProgramsAgree /\ AlwaysTwoBytes
      BY <1>1, <1>7 DEF IInv, PassOver
    <2>2. ChainDone'
      BY <1>1, <1>4, <2>1 DEF ChainDone, Chain
    <2>3. LandInv'
      BY <1>1, <2>1 DEF LandInv, Slot, Kind, inst_num
    <2>4. DoneInv'
      <3>1. (idx + EpilogueLen) - EpilogueLen = idx
        BY <1>2
      <3> QED
        BY <1>1, <1>4, <2>1, <3>1 DEF DoneInv, GenInv, ChainDone, Pc
    <2>5. LongProgramsAgree' /\ AlwaysTwoBytes'
      BY <1>1, <2>1 DEF LongProgramsAgree, AlwaysTwoBytes, Fits, use_b4, Compilable
    <2> QED
      BY <1>1, <2>1, <2>2, <2>3, <2>4, <2>5 DEF Place, PreInv, GenInv
  <1>8. Unwritten'
    BY <1>1 DEF Unwritten
  <1> QED
    BY <1>3, <1>5, <1>6, <1>7, <1>8 DEF IInv

(* jit_compile starts with an empty chain. *)
LEMMA InitInv == Init => IInv
  <1> SUFFICES ASSUME Init PROVE IInv
    OBVIOUS
  <1>1. /\ prog \in Seq(Inst) /\ WellFormed(prog) /\ PrologueLen \in Nat
        /\ phase = "pre" /\ pc = 0 /\ idx = PrologueLen
        /\ offsets = [k \in Pc |-> 0] /\ epilogue_offset = 0 /\ failed = FALSE
        /\ begin = [k \in Pc |-> 0] /\ branch = [k \in Pc |-> NoBranch] /\ grown = FALSE
    BY JitAssumption DEF Init
  <1>2. inst_num \in Nat /\ inst_num = Len(prog) /\ DOMAIN prog = 1 .. inst_num
    BY <1>1 DEF inst_num
  <1>3. NoBranch \in [to : 0 .. inst_num, lands : Int, size : {0, 2, 4}]
    BY <1>2 DEF NoBranch
  <1>4. TypeOK
    <2>1. branch \in [Pc -> [to : 0 .. inst_num, lands : Int, size : {0, 2, 4}]]
      BY <1>1, <1>3
    <2>2. offsets \in [Pc -> Nat] /\ begin \in [Pc -> Nat]
      BY <1>1
    <2>3. failed \in BOOLEAN /\ grown \in BOOLEAN
      BY <1>1, Zenon
    <2>4. phase \in {"pre", "gen", "done"} /\ pc \in 0 .. inst_num /\ idx \in Nat
          /\ epilogue_offset \in Nat
      BY <1>1, <1>2
    <2> QED
      BY <1>1, <2>1, <2>2, <2>3, <2>4 DEF TypeOK
  <1>5. ~Slot(0)
    <2>1. ASSUME 0 < inst_num PROVE prog[1].kind # "slot"
      <3>1. 1 \in DOMAIN prog
        BY <1>2, <2>1
      <3> QED
        BY <1>1, <3>1 DEF WellFormed
    <2> QED
      BY <2>1 DEF Slot, Kind
  <1>6. PreInv
    BY <1>1 DEF PreInv, Chain, Start
  <1>7. LongProgramsAgree /\ AlwaysTwoBytes
    BY <1>1 DEF LongProgramsAgree, AlwaysTwoBytes, Fits
  <1> QED
    BY <1>1, <1>4, <1>5, <1>6, <1>7
    DEF IInv, Unwritten, Place, ChainDone, GenInv, LandInv, DoneInv

(* Every step keeps the invariant. *)
LEMMA StepInv == IInv /\ [Next]_vars => IInv'
  <1> SUFFICES ASSUME IInv, [Next]_vars PROVE IInv'
    OBVIOUS
  <1>1. CASE straight \/ lddw
    BY <1>1, StraightStep
  <1>2. CASE jump_cond
    BY <1>2, JumpCondStep
  <1>3. CASE ja
    BY <1>3, JaStep
  <1>4. CASE exit
    BY <1>4, ExitStep
  <1>5. CASE todo
    BY <1>5, TodoStep
  <1>6. CASE end_of_prepass
    BY <1>6, PrepassStep
  <1>7. CASE end_of_genpass
    BY <1>7, GenpassStep
  <1>8. CASE UNCHANGED vars
    <2>1. /\ prog' = prog /\ phase' = phase /\ pc' = pc /\ idx' = idx /\ offsets' = offsets
          /\ epilogue_offset' = epilogue_offset /\ failed' = failed /\ begin' = begin
          /\ branch' = branch /\ grown' = grown
      BY <1>8 DEF vars
    <2>2. /\ inst_num' = inst_num /\ Pc' = Pc /\ use_b4' = use_b4 /\ bsize' = bsize
          /\ \A k : Slot(k)' = Slot(k) /\ Follow(k)' = Follow(k) /\ PreSize(k)' = PreSize(k)
      BY <2>1 DEF inst_num, Pc, use_b4, bsize, Slot, Follow, PreSize, Kind
    <2>3. TypeOK' /\ WellFormed(prog)' /\ ~Slot(pc)' /\ Unwritten'
      BY <2>1, <2>2 DEF IInv, TypeOK, Unwritten
    <2>4. (Compilable' <=> Compilable) /\ (Place' <=> Place)
      BY <2>1, <2>2 DEF Compilable, Place, Kind
    <2>5. (PreInv' <=> PreInv) /\ (ChainDone' <=> ChainDone)
      BY <2>1, <2>2 DEF PreInv, ChainDone, Chain
    <2>6. (GenInv' <=> GenInv) /\ (LandInv' <=> LandInv) /\ (DoneInv' <=> DoneInv)
      BY <2>1, <2>2 DEF GenInv, LandInv, DoneInv
    <2>7. LongProgramsAgree' <=> LongProgramsAgree
      BY <2>1, <2>2, <2>4 DEF LongProgramsAgree, Fits
    <2>8. AlwaysTwoBytes' <=> AlwaysTwoBytes
      <3>1. Fits' <=> Fits
        BY <2>1 DEF Fits
      <3> QED
        BY <2>1, <2>2, <2>4, <3>1 DEF AlwaysTwoBytes
    <2> QED
      BY <2>1, <2>3, <2>4, <2>5, <2>6, <2>7, <2>8 DEF IInv
  <1> QED
    BY <1>1, <1>2, <1>3, <1>4, <1>5, <1>6, <1>7, <1>8 DEF Next

(* So it always holds. *)
LEMMA Invariance == Spec => []IInv
  BY InitInv, StepInv, PTL DEF Spec

(* The state of jit_compile keeps its types: in particular build_body      *)
(* leaves the program exactly at its end, also after an LDDW.              *)
THEOREM TypeCorrect == Spec => []TypeOK
  <1>1. IInv => TypeOK
    BY DEF IInv
  <1> QED
    BY <1>1, Invariance, PTL

(* For every program that clang may produce and the compiler implements,   *)
(* and all lengths of its code: the branches that bpf2a32_offset computes  *)
(* from the first pass land on the first byte of their targets, as long as *)
(* no branch changes its length between the passes.                        *)
THEOREM Landing == Spec => []BranchesLand
  <1>1. IInv => BranchesLand
    <2> SUFFICES ASSUME IInv, phase = "done", Compilable, ~grown, NEW k \in Pc, branch[k].size # 0
                 PROVE  branch[k].lands = Address(branch[k].to)
      BY DEF BranchesLand
    <2>1. LandInv /\ DoneInv /\ ChainDone /\ TypeOK
      BY DEF IInv
    <2>2. branch[k].to \in 0 .. inst_num /\ inst_num \in Nat
      BY <2>1 DEF TypeOK, inst_num
    <2>3. ~Slot(branch[k].to) /\ branch[k].lands = Start(offsets, branch[k].to)
      BY <2>1 DEF LandInv
    <2>4. CASE branch[k].to = inst_num
      BY <2>1, <2>3, <2>4 DEF DoneInv, ChainDone, Address
    <2>5. CASE branch[k].to # inst_num
      <3>1. branch[k].to \in Pc
        BY <2>2, <2>5 DEF Pc
      <3> QED
        BY <2>1, <2>3, <2>5, <3>1 DEF DoneInv, Address
    <2> QED
      BY <2>4, <2>5
  <1> QED
    BY <1>1, Invariance, PTL

(* A program long enough for _use_b4 whose code fits jit_buffer has no     *)
(* branch whose length changes between the passes.                         *)
THEOREM LongAgree == Spec => []LongProgramsAgree
  <1>1. IInv => LongProgramsAgree
    BY DEF IInv, LongProgramsAgree
  <1> QED
    BY <1>1, Invariance, PTL

(* The branch of JA is 2 bytes long in every program whose code fits, as   *)
(* the comment in build_inst says.                                         *)
THEOREM TwoBytes == Spec => []AlwaysTwoBytes
  <1>1. IInv => AlwaysTwoBytes
    BY DEF IInv, AlwaysTwoBytes
  <1> QED
    BY <1>1, Invariance, PTL
=============================================================================
