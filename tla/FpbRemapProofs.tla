--------------------------- MODULE FpbRemapProofs ---------------------------
(***************************************************************************)
(* Proofs, for any threads, any function, any patches and any number of    *)
(* comparators, of the safety properties of FpbRemap.                      *)
(***************************************************************************)
EXTENDS FpbRemap, WellFoundedInduction, TLAPS

(* A set of naturals has a least element. *)
LEMMA LeastIsLeast ==
  ASSUME NEW S \in SUBSET Nat, S # {}
  PROVE  Least(S) \in S /\ \A y \in S : Least(S) <= y
<1>1. PICK x \in S : \A y \in S : ~(<<y, x>> \in OpToRel(<, Nat))
  BY Zenon, NatLessThanWellFounded, WFMin
<1>2. ASSUME NEW y \in S PROVE x <= y
  <2>1. x \in Nat /\ y \in Nat
    BY Zenon
  <2>2. y < x => <<y, x>> \in OpToRel(<, Nat)
    BY Zenon, <2>1 DEF OpToRel
  <2>3. ~(y < x)
    BY <1>1, <2>2, Zenon
  <2> QED
    BY <2>1, <2>3
<1> QED
  BY Zenon, <1>2 DEF Least

(* The words of the function. *)
LEMMA Words ==
  /\ N \in Nat /\ N >= 2 /\ 2 * Word(N) = N
  /\ \A l \in Nat : Word(l) \in Nat /\ 2 * Word(l) <= l /\ l <= 2 * Word(l) + 1
  /\ ~Aligned(NoLoc)
  /\ FPB_CB_REG \in Nat /\ FPB_CB_REG >= 1 /\ FPB_CB_REG + 1 = MAX_BP /\ MAX_BP \in Nat
BY FpbRemapAssumption DEF Word, Aligned, NoLoc, FPB_CB_REG

(* The location a word starts at. *)
LEMMA Locations ==
  ASSUME NEW w
  PROVE  /\ w \in 0 .. Word(N) + 1 => 2 * w \in 0 .. N + 2
         /\ w \in 0 .. Word(N) => 2 * w \in 0 .. N
         /\ w \in 0 .. Word(N) - 1 => 2 * w \in 0 .. N - 1
<1>1. N \in Nat /\ Word(N) \in Nat /\ 2 * Word(N) = N
  BY Zenon, Words
<1> DEFINE W == Word(N)
<1>2. W \in Nat /\ 2 * W = N
  BY Zenon, <1>1
<1> HIDE DEF W
<1>3. /\ w \in 0 .. W + 1 => 2 * w \in 0 .. N + 2
      /\ w \in 0 .. W => 2 * w \in 0 .. N
      /\ w \in 0 .. W - 1 => 2 * w \in 0 .. N - 1
  BY <1>1, <1>2
<1> QED
  BY Zenon, <1>3 DEF W

(* The callback's comparator is the last one, after the first three. *)
LEMMA Callback ==
  /\ FPB_CB_REG \in Idx /\ 0 \in Idx /\ 0 < FPB_CB_REG /\ FPB_CB_REG # NoLoc /\ 0 # FPB_CB_REG
  /\ 1 \in Idx /\ 2 \in Idx /\ 1 < FPB_CB_REG /\ 2 < FPB_CB_REG /\ 1 # FPB_CB_REG /\ 2 # FPB_CB_REG
BY FpbRemapAssumption DEF FPB_CB_REG, Idx, NoLoc

(* The comparator after one below the callback's. *)
LEMMA Following ==
  ASSUME NEW i \in Idx, i < FPB_CB_REG
  PROVE  i + 1 \in Idx /\ (i # FPB_CB_REG - 1 => i + 1 < FPB_CB_REG)
BY FpbRemapAssumption DEF FPB_CB_REG, Idx

(* The comparators that compare fetches, and among them those of patches. *)
LEMMA Comparators ==
  /\ \A i \in 0 .. MAX_BP - 1 : i \in Idx
  /\ \A i \in Idx : i < FPB_CB_REG => i # FPB_CB_REG /\ i < MAX_BP
  /\ \A i \in 0 .. FPB_CB_REG - 1 : i \in Idx /\ i < FPB_CB_REG
BY FpbRemapAssumption DEF FPB_CB_REG, Idx

(* The word of a location is not the empty comparator's. *)
LEMMA WordIsWord == \A l \in Nat : Word(l) # NoLoc
BY DEF Word, NoLoc

(* Where control goes from a location of the function. *)
LEMMA FlowInside ==
  ASSUME NEW l \in 0 .. N - 1, NEW k \in Flow[l], k # N
  PROVE  k \in 0 .. N - 1 /\ k \in Nat
BY FpbRemapAssumption

(* The next word-aligned instruction is at most one word past its end. *)
LEMMA NextInside ==
  ASSUME NEW l \in 0 .. N
  PROVE  Next_aligned(l) \in 0 .. N + 2
<1> DEFINE S == {s \in Starts \cup {N, N + 2} : s > l /\ Aligned(s)}
<1>a. Starts \cup {N, N + 2} \subseteq Nat /\ N + 2 > l /\ Aligned(N + 2)
  BY FpbRemapAssumption DEF Aligned
<1>1. S \in SUBSET Nat /\ N + 2 \in S
  BY Zenon, <1>a
<1>2. Least(S) \in S /\ Least(S) <= N + 2
  BY Zenon, <1>1, LeastIsLeast
<1> QED
  BY <1>1, <1>2 DEF Next_aligned
-----------------------------------------------------------------------------
(* The type invariant with the ranges it needs: a thread stays in the      *)
(* function; only the callback's comparator, which no trampoline that runs *)
(* a filter has, looks past its end; and the comparator the task is about  *)
(* to set exists.                                                          *)
Comparator == [w : 0 .. Word(N) + 1 \cup {NoLoc}, on : BOOLEAN]
Entry == [h : Idx \cup {NoLoc}, at : 0 .. N + 2 \cup {NoLoc}]
Task == [pc : {"idle", "comp", "active"}, at : Patch \cup {NoLoc}, idx : Idx]

SharedType ==
  /\ comp \in [Idx -> Comparator]
  /\ table \in [Idx -> Entry]
  /\ \A i \in Idx : i # FPB_CB_REG => comp[i].w \in 0 .. Word(N) \cup {NoLoc}
  /\ \A i \in Idx : table[i].at # NoLoc => table[i].h # NoLoc

ShellType ==
  /\ cur_idx \in 0 .. MAX_BP + 1
  /\ fpb_on \in BOOLEAN /\ active \subseteq Patch /\ left \in 0 .. Commands
  /\ task \in Task
  /\ half \in BOOLEAN /\ full \in BOOLEAN
  /\ task.pc # "idle" => task.at \in Patch
  /\ task.pc = "comp" => cur_idx = task.idx /\ task.idx < MAX_BP

ThreadType ==
  /\ pc \in [Thread -> Pc]
  /\ loc \in [Thread -> 0 .. N - 1]
  /\ idx \in [Thread -> Idx]
  /\ nxt \in [Thread -> 0 .. N + 2]
  /\ passed \subseteq Thread
  /\ \A t \in Thread : pc[t] \in {"filter", "next", "disable", "table", "resume"} => idx[t] # FPB_CB_REG
  /\ \A t \in Thread : pc[t] = "enable" => idx[t] < FPB_CB_REG

HistoryType == owner \in Thread \cup {None} /\ alone \in BOOLEAN

TypeInv == SharedType /\ ShellType /\ ThreadType /\ HistoryType

(* It implies the types. *)
LEMMA TypeInvImplies == TypeInv => TypeOK
<1> SUFFICES ASSUME TypeInv PROVE TypeOK
  BY Zenon
<1>1. 0 .. N - 1 \subseteq 0 .. N + 2
  BY Words
<1>2. loc \in [Thread -> 0 .. N + 2]
  BY Zenon, <1>1 DEF TypeInv, ThreadType
<1> QED
  BY Zenon, <1>2 DEF TypeInv, SharedType, ShellType, ThreadType, HistoryType, TypeOK, Comparator, Entry, Task

(* It holds after set_patch_mode. *)
LEMMA TypeInit == Init => TypeInv
<1> SUFFICES ASSUME Init PROVE TypeInv
  BY Zenon
<1> USE Words
<1>1. SharedType
  BY Zenon DEF Init, SharedType, Comparator, Entry, Empty, NoBranch, Branch, NoLoc, Idx
<1>2. ShellType
  <2>1. 0 \in Idx /\ 0 \in 0 .. MAX_BP + 1 /\ Commands \in 0 .. Commands
    BY FpbRemapAssumption DEF Idx
  <2> QED
    BY Zenon, <2>1 DEF Init, ShellType, Idle, Task
<1>3. ThreadType
  BY DEF Init, ThreadType, Pc, Idx
<1> QED
  BY Zenon, <1>1, <1>2, <1>3 DEF Init, TypeInv, HistoryType

(* Enabling or disabling a comparator, and setting one. *)
LEMMA SetOn ==
  ASSUME comp \in [Idx -> Comparator], NEW i \in Idx, NEW b \in BOOLEAN,
         comp' = [comp EXCEPT ![i].on = b]
  PROVE  /\ comp' \in [Idx -> Comparator] /\ comp'[i].on = b
         /\ \A j \in Idx : comp'[j].w = comp[j].w /\ (j # i => comp'[j] = comp[j])
BY Zenon DEF Comparator

(* Writing one comparator leaves the others. *)
LEMMA SetComparator ==
  ASSUME comp \in [Idx -> Comparator], NEW i \in Idx, NEW w \in 0 .. Word(N) + 1, NEW b \in BOOLEAN,
         comp' = [comp EXCEPT ![i] = [w |-> w, on |-> b]]
  PROVE  /\ comp' \in [Idx -> Comparator] /\ comp'[i].w = w /\ comp'[i].on = b
         /\ \A j \in Idx : j # i => comp'[j] = comp[j]
BY Zenon DEF Comparator

(* Writing a branch into the table. *)
LEMMA SetBranch ==
  ASSUME table \in [Idx -> Entry], NEW i \in Idx, NEW h \in Idx, NEW l \in 0 .. N + 2,
         table' = [table EXCEPT ![i] = Branch(h, l)]
  PROVE  /\ table' \in [Idx -> Entry] /\ table'[i].h = h /\ table'[i].at = l
         /\ \A j \in Idx : j # i => table'[j] = table[j]
BY Zenon DEF Entry, Branch

(* The comparator a patch is to get, and the words of a patch. *)
LEMMA Slots == ShellType => Slot \in Nat /\ Slot < MAX_BP /\ Slot \in Idx /\ Slot + 1 \in Idx
BY Words DEF Slot, ShellType, Idx

(* The words of a patch are words of the function. *)
LEMMA PatchWords ==
  ASSUME NEW l \in Patch
  PROVE  /\ l \in Nat /\ l \in 0 .. N + 2
         /\ Word(l) \in 0 .. Word(N) /\ Word(l) \in 0 .. Word(N) + 1
         /\ Word(l) + 1 \in 0 .. Word(N) /\ Word(l) + 1 \in 0 .. Word(N) + 1
<1>1. l \in Nat /\ l < N
  BY FpbRemapAssumption
<1>2. Word(l) \in Nat /\ 2 * Word(l) <= l /\ Word(N) \in Nat /\ 2 * Word(N) = N /\ N \in Nat
  BY Zenon, <1>1, Words
<1>3. Word(l) + 1 <= Word(N)
  BY <1>1, <1>2
<1> QED
  BY <1>1, <1>2, <1>3

(* The steps of the shell thread. *)
LEMMA AddType ==
  ASSUME TypeInv, NEW l \in Patch, add_hw_bkpt(l)
  PROVE  TypeInv'
<1> USE DEF TypeInv
<1>a. Slot \in Nat /\ Slot < MAX_BP /\ Slot \in Idx /\ Slot + 1 \in Idx
  BY Zenon, Slots
<1>b. \A i \in 0 .. MAX_BP - 1 : i \in Idx
  BY Words DEF Idx
<1>c. l \in 0 .. N + 2 /\ l # NoLoc
  BY PatchWords DEF NoLoc
<1>d. Slot # NoLoc
  BY <1>a DEF NoLoc
<1>1. SharedType'
  <2>1. CASE add_fpb_bkpt_existing(l)
    <3>1. PICK i \in Idx : comp' = [comp EXCEPT ![i].on = TRUE]
      BY Zenon, <2>1, <1>b DEF add_fpb_bkpt_existing
    <3>2. comp' \in [Idx -> Comparator] /\ \A j \in Idx : comp'[j].w = comp[j].w
      BY Zenon, <3>1, SetOn DEF SharedType
    <3> QED
      BY Zenon, <2>1, <3>2 DEF add_fpb_bkpt_existing, SharedType
  <2>2. CASE add_fpb_bkpt_table(l)
    <3>1. table' = [table EXCEPT ![Slot] = Branch(Slot, l)] /\ UNCHANGED comp
      BY Zenon, <2>2 DEF add_fpb_bkpt_table
    <3>2. /\ table' \in [Idx -> Entry] /\ table'[Slot].h = Slot
          /\ \A j \in Idx : j # Slot => table'[j] = table[j]
      BY Zenon, <3>1, <1>a, <1>c, SetBranch DEF SharedType
    <3> QED
      BY Zenon, <3>1, <3>2, <1>d DEF SharedType
  <2>3. CASE add_fpb_bkpt_half(l)
    <3>1. CASE UNCHANGED table
      BY Zenon, <2>3, <3>1 DEF add_fpb_bkpt_half, SharedType
    <3>2. CASE table' = [table EXCEPT ![Slot] = Branch(Slot, l), ![Slot + 1] = Branch(Slot, l)]
      <4>1. Branch(Slot, l) \in Entry /\ Branch(Slot, l).h # NoLoc
        BY Zenon, <1>a, <1>c, <1>d DEF Branch, Entry
      <4> QED
        BY Zenon, <2>3, <3>2, <4>1, <1>a DEF add_fpb_bkpt_half, SharedType
    <3> QED
      BY Zenon, <2>3, <3>1, <3>2 DEF add_fpb_bkpt_half
  <2> QED
    BY Zenon, <2>1, <2>2, <2>3 DEF add_hw_bkpt
<1>2. ShellType'
  <2>1. left' \in 0 .. Commands /\ UNCHANGED <<fpb_on, active>>
    BY FpbRemapAssumption DEF add_hw_bkpt, ShellType
  <2>2. /\ task' \in {[pc |-> "active", at |-> l, idx |-> 0], [pc |-> "comp", at |-> l, idx |-> Slot]}
        /\ cur_idx' = Slot /\ half' \in BOOLEAN /\ full' \in BOOLEAN
    BY Zenon DEF add_hw_bkpt, add_fpb_bkpt_existing, add_fpb_bkpt_table, add_fpb_bkpt_half, Idle, ShellType
  <2>3. task' \in Task /\ task'.at \in Patch /\ (task'.pc = "comp" => task'.idx = Slot)
    <3>1. 0 \in Idx
      BY Words DEF Idx
    <3> QED
      BY <2>2, <3>1, <1>a DEF Task
  <2>4. Slot \in 0 .. MAX_BP + 1
    BY <1>a, Words
  <2> QED
    BY Zenon, <2>1, <2>2, <2>3, <2>4, <1>a DEF ShellType
<1>3. ThreadType' /\ HistoryType'
  BY Zenon DEF add_hw_bkpt, ThreadType, HistoryType
<1> QED
  BY Zenon, <1>1, <1>2, <1>3

(* Commands keep the types. *)
LEMMA CommandType == TypeInv /\ Command => TypeInv'
<1> SUFFICES ASSUME TypeInv, Command PROVE TypeInv'
  BY Zenon
<1> USE DEF TypeInv
<1>a. Idle \in Task /\ Idle.pc = "idle" /\ \A l \in Patch : [Idle EXCEPT !.pc = "active", !.at = l] \in Task
  <2>1. 0 \in Idx
    BY Words DEF Idx
  <2> QED
    BY Zenon, <2>1 DEF Idle, Task
<1>1. ASSUME NEW l \in Patch, add_hw_bkpt(l) PROVE TypeInv'
  BY Zenon, <1>1, AddType
<1>2. CASE set_comparator
  <2> DEFINE i == task.idx  w == Word(task.at)
  <2>1. task.at \in Patch /\ cur_idx = i /\ i \in Idx /\ i \in Nat /\ i < MAX_BP /\ i + 1 \in Idx
    BY <1>2, Words DEF set_comparator, ShellType, Idx, Task
  <2>2. /\ w \in 0 .. Word(N) /\ w \in 0 .. Word(N) + 1
        /\ w + 1 \in 0 .. Word(N) /\ w + 1 \in 0 .. Word(N) + 1
    BY Zenon, <2>1, PatchWords
  <2>3. SharedType'
    <3>1. CASE Aligned(task.at)
      <4>1. comp' = [comp EXCEPT ![i] = [w |-> w, on |-> TRUE]] /\ UNCHANGED table
        BY Zenon, <1>2, <3>1 DEF set_comparator
      <4>2. /\ comp' \in [Idx -> Comparator] /\ comp'[i].w = w
            /\ \A j \in Idx : j # i => comp'[j] = comp[j]
        BY Zenon, <2>1, <2>2, <4>1, SetComparator DEF SharedType
      <4> QED
        BY Zenon, <2>2, <4>1, <4>2 DEF SharedType
    <3>2. CASE ~Aligned(task.at)
      <4>1. /\ comp' = [comp EXCEPT ![i] = [w |-> w, on |-> FALSE], ![i + 1] = [w |-> w + 1, on |-> FALSE]]
            /\ UNCHANGED table
        BY Zenon, <1>2, <3>2 DEF set_comparator
      <4>2. [w |-> w, on |-> FALSE] \in Comparator /\ [w |-> w + 1, on |-> FALSE] \in Comparator
        BY Zenon, <2>2 DEF Comparator
      <4>3. \A j \in Idx : comp'[j] \in {comp[j], [w |-> w, on |-> FALSE], [w |-> w + 1, on |-> FALSE]}
        BY Zenon, <2>1, <4>1 DEF SharedType
      <4>4. comp' \in [Idx -> Comparator]
        BY Zenon, <4>1, <4>2 DEF SharedType
      <4> QED
        BY Zenon, <2>2, <4>1, <4>3, <4>4 DEF SharedType
    <3> QED
      BY Zenon, <3>1, <3>2
  <2>4. ShellType'
    <3>1. cur_idx' \in {cur_idx + 1, cur_idx + 2} /\ task' = [Idle EXCEPT !.pc = "active", !.at = task.at]
      BY Zenon, <1>2 DEF set_comparator
    <3>2. cur_idx' \in 0 .. MAX_BP + 1
      BY <2>1, <3>1, Words
    <3>3. task' \in Task /\ task'.pc = "active" /\ task'.at \in Patch
      BY Zenon, <2>1, <3>1, <1>a DEF Idle
    <3> QED
      BY Zenon, <1>2, <3>2, <3>3 DEF set_comparator, ShellType
  <2>5. ThreadType' /\ HistoryType'
    BY Zenon, <1>2 DEF set_comparator, ThreadType, HistoryType
  <2> QED
    BY Zenon, <2>3, <2>4, <2>5
<1>3. CASE set_active
  <2>1. active' \subseteq Patch
    BY Zenon, <1>3 DEF set_active, ShellType
  <2>2. ShellType'
    BY Zenon, <1>3, <1>a, <2>1 DEF set_active, ShellType
  <2> QED
    BY Zenon, <1>3, <2>2 DEF set_active, SharedType, ThreadType, HistoryType
<1>4. ASSUME clear_all_hw_bkpt, table' \in {table, [i \in Idx |-> NoBranch]},
             fpb_on' \in BOOLEAN, active' \in {active, {}}
      PROVE  TypeInv'
  <2>1. Empty \in Comparator /\ Empty.w = NoLoc /\ NoBranch \in Entry /\ NoBranch.at = NoLoc
    BY Zenon DEF Empty, Comparator, NoBranch, Branch, Entry
  <2>2. comp' \in [Idx -> Comparator] /\ \A i \in Idx : comp'[i] \in {comp[i], Empty}
    BY Zenon, <1>4, <2>1 DEF clear_all_hw_bkpt, SharedType
  <2>3. table' \in [Idx -> Entry] /\ \A i \in Idx : table'[i] \in {table[i], NoBranch}
    BY Zenon, <1>4, <2>1 DEF SharedType
  <2>4. SharedType'
    BY Zenon, <2>1, <2>2, <2>3 DEF SharedType
  <2>5. left' \in 0 .. Commands /\ 0 \in 0 .. MAX_BP + 1
    BY <1>4, FpbRemapAssumption DEF clear_all_hw_bkpt, ShellType
  <2>6. ShellType'
    BY Zenon, <1>4, <2>5 DEF clear_all_hw_bkpt, ShellType
  <2>7. ThreadType' /\ HistoryType'
    BY Zenon, <1>4 DEF clear_all_hw_bkpt, ThreadType, HistoryType
  <2> QED
    BY Zenon, <2>4, <2>6, <2>7
<1> QED
  BY Zenon, <1>1, <1>2, <1>3, <1>4 DEF Command, set_patch_mode, reset_patch

(* A thread that leaves the function, or goes on at a location of it. *)
LEMMA LeaveType ==
  ASSUME ThreadType, NEW t \in Thread, NEW p \in {"out", "wild"}, Leave(t, p)
  PROVE  ThreadType'
<1>1. 0 \in Idx /\ 0 \in 0 .. N + 2 /\ 0 \in 0 .. N - 1
  BY Words DEF Idx
<1>2. pc' \in [Thread -> Pc]
  BY Zenon DEF ThreadType, Leave, Goto, Pc
<1>3. /\ loc' \in [Thread -> 0 .. N - 1] /\ idx' \in [Thread -> Idx]
      /\ nxt' \in [Thread -> 0 .. N + 2] /\ passed' \subseteq Thread
  BY Zenon, <1>1 DEF ThreadType, Leave, Forget
<1>4. \A u \in Thread : IF u = t THEN pc'[u] = p ELSE pc'[u] = pc[u] /\ idx'[u] = idx[u]
  BY Zenon DEF ThreadType, Leave, Goto, Forget
<1> QED
  BY Zenon, <1>2, <1>3, <1>4 DEF ThreadType

(* A trampoline that jumps back into the function. *)
LEMMA RunType ==
  ASSUME ThreadType, NEW t \in Thread, NEW l \in 0 .. N - 1,
         loc' = [loc EXCEPT ![t] = l], Goto(t, "run"), Forget(t), passed' \subseteq Thread
  PROVE  ThreadType'
<1>1. 0 \in Idx /\ 0 \in 0 .. N + 2
  BY Words DEF Idx
<1>2. pc' \in [Thread -> Pc]
  BY Zenon DEF ThreadType, Goto, Pc
<1>3. /\ loc' \in [Thread -> 0 .. N - 1] /\ idx' \in [Thread -> Idx] /\ nxt' \in [Thread -> 0 .. N + 2]
  BY Zenon, <1>1 DEF ThreadType, Forget
<1>4. \A u \in Thread : IF u = t THEN pc'[u] = "run" ELSE pc'[u] = pc[u] /\ idx'[u] = idx[u]
  BY Zenon DEF ThreadType, Goto, Forget
<1> QED
  BY Zenon, <1>2, <1>3, <1>4 DEF ThreadType

(* A thread that goes on inside a trampoline. *)
LEMMA GotoType ==
  ASSUME ThreadType, NEW t \in Thread, NEW p \in Pc, Goto(t, p), UNCHANGED <<loc, passed>>,
         NEW i \in Idx, idx' = [idx EXCEPT ![t] = i], NEW n \in 0 .. N + 2, nxt' = [nxt EXCEPT ![t] = n],
         p \in {"filter", "next", "disable", "table", "resume"} => i # FPB_CB_REG,
         p = "enable" => i < FPB_CB_REG
  PROVE  ThreadType'
<1>1. /\ pc' \in [Thread -> Pc] /\ idx' \in [Thread -> Idx] /\ nxt' \in [Thread -> 0 .. N + 2]
  BY Zenon DEF ThreadType, Goto
<1>2. \A u \in Thread : IF u = t THEN pc'[u] = p /\ idx'[u] = i ELSE pc'[u] = pc[u] /\ idx'[u] = idx[u]
  BY Zenon DEF ThreadType, Goto
<1> QED
  BY Zenon, <1>1, <1>2 DEF ThreadType

(* Steps of a thread outside the trampolines. *)
LEMMA ProcessorType ==
  ASSUME TypeInv, NEW t \in Thread, Call(t) \/ Execute(t) \/ TakeBranch(t) \/ GoWild(t)
  PROVE  TypeInv'
<1> USE DEF TypeInv, Alone
<1>a. idx = [idx EXCEPT ![t] = idx[t]] /\ nxt = [nxt EXCEPT ![t] = nxt[t]] /\ idx[t] \in Idx /\ nxt[t] \in 0 .. N + 2
  BY Zenon DEF ThreadType
<1>1. CASE Call(t)
  <2>1. ThreadType'
    BY Zenon, <1>1, <1>a, GotoType DEF Call, Pc
  <2> QED
    BY Zenon, <1>1, <2>1 DEF Call, shell, SharedType, ShellType, HistoryType
<1>2. CASE Execute(t)
  <2>1. CASE Leave(t, "out")
    BY Zenon, <1>2, <2>1, LeaveType DEF Execute, shell, SharedType, ShellType, HistoryType
  <2>2. ASSUME NEW l \in Flow[loc[t]] \ {N}, loc' = [loc EXCEPT ![t] = l], passed' = passed \ {t},
               UNCHANGED <<pc, idx, nxt>>
        PROVE  TypeInv'
    <3>1. loc[t] \in 0 .. N - 1
      BY Zenon DEF ThreadType
    <3>2. l \in 0 .. N - 1
      BY Zenon, <3>1, FlowInside
    <3>3. ThreadType'
      BY Zenon, <2>2, <3>2 DEF ThreadType
    <3> QED
      BY Zenon, <1>2, <3>3 DEF Execute, shell, SharedType, ShellType, HistoryType
  <2> QED
    BY Zenon, <1>2, <2>1, <2>2 DEF Execute
<1>3. CASE TakeBranch(t)
  <2>1. PICK h \in Branches(loc[t]) :
          idx' = [idx EXCEPT ![t] = h] /\ Goto(t, IF h = FPB_CB_REG THEN "read" ELSE "filter")
    BY Zenon, <1>3 DEF TakeBranch
  <2>2. PICK i \in Idx : table[i].at = loc[t] /\ table[i].h = h
    <3>1. PICK i \in Matching(loc[t]) : Whole(i, loc[t]) /\ table[i].h = h
      BY Zenon DEF Branches
    <3>2. i \in 0 .. MAX_BP - 1
      BY Zenon DEF Matching
    <3>3. i \in Idx
      BY <3>2, FpbRemapAssumption DEF Idx
    <3> QED
      BY Zenon, <3>1, <3>3 DEF Whole
  <2>3. loc[t] # NoLoc
    BY Words DEF ThreadType, NoLoc
  <2>4. h \in Idx
    BY Zenon, <2>2, <2>3 DEF SharedType, Entry
  <2>5. ThreadType'
    <3>1. UNCHANGED <<loc, passed, nxt>>
      BY Zenon, <1>3 DEF TakeBranch
    <3>2. CASE h = FPB_CB_REG
      <4>1. Goto(t, "read")
        BY Zenon, <2>1, <3>2
      <4> QED
        <5>1. "read" \in Pc /\ "read" # "enable" /\ "read" \notin {"filter", "next", "disable", "table", "resume"}
          BY Zenon DEF Pc
        <5> HIDE DEF TypeInv
        <5>2. ThreadType /\ nxt' = [nxt EXCEPT ![t] = nxt[t]]
          BY Zenon, <1>a, <3>1 DEF TypeInv
        <5> QED
          BY Zenon, <1>a, <2>1, <2>4, <3>1, <4>1, <5>1, <5>2, GotoType
    <3>3. CASE h # FPB_CB_REG
      <4>1. Goto(t, "filter")
        BY Zenon, <2>1, <3>3
      <4> QED
        <5>1. "filter" \in Pc /\ "filter" # "enable"
          BY Zenon DEF Pc
        <5>2. ThreadType /\ nxt' = [nxt EXCEPT ![t] = nxt[t]]
          BY Zenon, <1>a, <3>1
        <5>3. idx' = [idx EXCEPT ![t] = h]
          BY Zenon, <2>1
        <5> HIDE DEF TypeInv
        <5> QED
          BY Zenon, <1>a, <2>4, <3>1, <3>3, <4>1, <5>1, <5>2, <5>3, GotoType
    <3> QED
      BY Zenon, <3>2, <3>3
  <2> QED
    BY Zenon, <1>3, <2>5 DEF TakeBranch, shell, SharedType, ShellType, HistoryType
<1>4. CASE GoWild(t)
  BY Zenon, <1>4, LeaveType DEF GoWild, shell, SharedType, ShellType, HistoryType
<1> QED
  BY Zenon, <1>1, <1>2, <1>3, <1>4

(* Steps of a trampoline that runs a filter. *)
LEMMA TrampolineType ==
  ASSUME TypeInv, NEW t \in Thread, FilterSkips(t) \/ FilterPasses(t) \/ fpb_disable_cur_inst(t)
  PROVE  TypeInv'
<1> USE DEF TypeInv, Alone
<1>a. idx = [idx EXCEPT ![t] = idx[t]] /\ nxt = [nxt EXCEPT ![t] = nxt[t]] /\ idx[t] \in Idx /\ nxt[t] \in 0 .. N + 2
  BY Zenon DEF ThreadType
<1>b. pc[t] \in {"filter", "next", "disable", "table", "resume"} => idx[t] # FPB_CB_REG
  BY Zenon DEF ThreadType
<1>c. Return(t) => ThreadType'
  <2>1. ASSUME FallThrough(t) PROVE ThreadType'
    <3>1. 0 \in 0 .. N + 2
      BY Words
    <3>2. "filter" \in Pc /\ "filter" # "enable"
      BY Zenon DEF Pc
    <3>3. /\ idx' = [idx EXCEPT ![t] = 2] /\ nxt' = [nxt EXCEPT ![t] = 0]
          /\ Goto(t, "filter") /\ UNCHANGED <<loc, passed>> /\ ThreadType
      BY Zenon, <2>1 DEF FallThrough
    <3> HIDE DEF TypeInv
    <3> QED
      BY Zenon, <3>1, <3>2, <3>3, Callback, GotoType
  <2> QED
    BY Zenon, <2>1, LeaveType DEF Return
<1>1. CASE FilterSkips(t)
  BY Zenon, <1>1, <1>c DEF FilterSkips, shell, SharedType, ShellType, HistoryType
<1>2. CASE FilterPasses(t)
  <2>1. ThreadType'
    BY Zenon, <1>2, <1>a, <1>b, GotoType DEF FilterPasses, Pc
  <2> QED
    BY Zenon, <1>2, <2>1 DEF FilterPasses, shell, SharedType, ShellType, HistoryType
<1>3. CASE point_callback(t)
  <2> DEFINE l == 2 * comp[idx[t]].w
  <2>0. ShellType' /\ HistoryType' /\ UNCHANGED table
    BY Zenon, <1>3 DEF point_callback, shell, ShellType, HistoryType
  <2>1. CASE l < 0
    <3>1. Leave(t, "wild") /\ UNCHANGED comp
      BY <1>3, <2>1, <1>a DEF point_callback, SharedType, Comparator, NoLoc
    <3> QED
      BY Zenon, <2>0, <3>1, LeaveType DEF SharedType
  <2>2. CASE l >= 0
    <3>1. /\ comp' = [comp EXCEPT ![FPB_CB_REG] = [w |-> Word(Next_aligned(l)), on |-> TRUE]]
          /\ nxt' = [nxt EXCEPT ![t] = Next_aligned(l)]
          /\ Goto(t, "disable") /\ UNCHANGED <<loc, idx, passed>>
      BY <1>3, <2>2, <1>a DEF point_callback, SharedType, Comparator, NoLoc
    <3>2. comp[idx[t]].w \in 0 .. Word(N) \cup {NoLoc}
      BY Zenon, <1>3, <1>a, <1>b DEF point_callback, SharedType
    <3>3. l \in 0 .. N
      <4>1. comp[idx[t]].w # NoLoc
        BY <2>2 DEF NoLoc
      <4> QED
        BY Zenon, <3>2, <4>1, Locations
    <3>4. Next_aligned(l) \in 0 .. N + 2
      BY Zenon, <3>3, NextInside
    <3>5. Word(Next_aligned(l)) \in 0 .. Word(N) + 1
      BY <3>4, Words
    <3>6. FPB_CB_REG \in Idx
      BY Words DEF Idx
    <3>7. comp' \in [Idx -> Comparator] /\ \A j \in Idx : j # FPB_CB_REG => comp'[j] = comp[j]
      BY Zenon, <3>1, <3>5, <3>6, SetComparator DEF SharedType
    <3>8. SharedType'
      BY Zenon, <2>0, <3>7 DEF SharedType
    <3>9. ThreadType'
      <4>1. pc[t] = "next" /\ "disable" \in Pc /\ "disable" # "enable"
        BY Zenon, <1>3 DEF point_callback, Pc
      <4>2. idx[t] # FPB_CB_REG /\ idx' = [idx EXCEPT ![t] = idx[t]]
        BY Zenon, <1>a, <1>b, <3>1, <4>1
      <4>3. ThreadType /\ UNCHANGED <<loc, passed>>
        BY Zenon, <3>1
      <4>4. PICK n \in 0 .. N + 2 : nxt' = [nxt EXCEPT ![t] = n]
        BY Zenon, <3>1, <3>4
      <4>5. PICK p \in Pc : p = "disable" /\ Goto(t, p)
        BY Zenon, <3>1, <4>1
      <4> HIDE DEF l, TypeInv
      <4> QED
        BY Zenon, <1>a, <4>1, <4>2, <4>3, <4>4, <4>5, GotoType
    <3> QED
      BY Zenon, <2>0, <3>8, <3>9
  <2>3. comp[idx[t]].w \in Int
    BY <1>a, Words DEF SharedType, Comparator, NoLoc
  <2> QED
    BY <2>1, <2>2, <2>3
<1>4. CASE disable_current(t)
  <2>1. ThreadType'
    BY Zenon, <1>4, <1>a, <1>b, GotoType DEF disable_current, Pc
  <2>2. comp' \in [Idx -> Comparator] /\ \A j \in Idx : comp'[j].w = comp[j].w
    BY Zenon, <1>4, <1>a, SetOn DEF disable_current, SharedType
  <2> QED
    BY Zenon, <1>4, <2>1, <2>2 DEF disable_current, shell, SharedType, ShellType, HistoryType
<1>5. CASE set_callback_branch(t)
  <2>1. ThreadType'
    BY Zenon, <1>5, <1>a, <1>b, GotoType DEF set_callback_branch, Pc
  <2>2. FPB_CB_REG \in Idx /\ FPB_CB_REG # NoLoc
    BY Words DEF Idx, NoLoc
  <2>3. /\ table' \in [Idx -> Entry] /\ table'[FPB_CB_REG].h = FPB_CB_REG
        /\ \A j \in Idx : j # FPB_CB_REG => table'[j] = table[j]
    BY Zenon, <1>5, <1>a, <2>2, SetBranch DEF set_callback_branch, SharedType
  <2>4. SharedType'
    BY Zenon, <1>5, <2>2, <2>3 DEF set_callback_branch, SharedType
  <2> QED
    BY Zenon, <1>5, <2>1, <2>4 DEF set_callback_branch, shell, ShellType, HistoryType
<1>6. CASE resume(t)
  <2>1. CASE Leave(t, "wild") \/ Return(t)
    BY Zenon, <1>6, <1>c, <2>1, LeaveType DEF resume, shell, SharedType, ShellType, HistoryType
  <2>2. CASE /\ comp[idx[t]].w \in 0 .. Word(N) - 1
             /\ loc' = [loc EXCEPT ![t] = 2 * comp[idx[t]].w] /\ passed' = passed \cup {t}
             /\ Goto(t, "run") /\ Forget(t)
    <3>1. 2 * comp[idx[t]].w \in 0 .. N - 1
      BY Zenon, <2>2, Locations
    <3>2. ThreadType'
      BY Zenon, <2>2, <3>1, RunType DEF ThreadType
    <3> QED
      BY Zenon, <1>6, <3>2 DEF resume, shell, SharedType, ShellType, HistoryType
  <2> QED
    BY Zenon, <1>6, <2>1, <2>2 DEF resume
<1> QED
  BY Zenon, <1>1, <1>2, <1>3, <1>4, <1>5, <1>6 DEF fpb_disable_cur_inst

(* Steps of the callback. *)
LEMMA CallbackType ==
  ASSUME TypeInv, NEW t \in Thread, fpb_enable_callback(t)
  PROVE  TypeInv'
<1> USE DEF TypeInv, Alone
<1>a. nxt = [nxt EXCEPT ![t] = nxt[t]] /\ idx[t] \in Idx /\ nxt[t] \in 0 .. N + 2
  BY Zenon DEF ThreadType
<1>b. FPB_CB_REG \in Idx
  BY Words DEF Idx
<1>1. CASE read_callback(t)
  <2> DEFINE w == comp[FPB_CB_REG].w
  <2>1. CASE w = NoLoc
    BY Zenon, <1>1, <2>1, LeaveType DEF read_callback, shell, SharedType, ShellType, HistoryType
  <2>2. CASE w # NoLoc
    <3>1. w \in 0 .. Word(N) + 1
      BY Zenon, <2>2, <1>b DEF SharedType, Comparator
    <3>2. 2 * w \in 0 .. N + 2 /\ 0 \in Idx /\ 0 < FPB_CB_REG
      BY Zenon, <3>1, Locations, Callback
    <3>3. ThreadType'
      BY Zenon, <1>1, <2>2, <3>2, GotoType DEF read_callback, Pc
    <3> QED
      BY Zenon, <1>1, <3>3 DEF read_callback, shell, SharedType, ShellType, HistoryType
  <2> QED
    BY Zenon, <2>1, <2>2
<1>2. CASE enable_comparators(t)
  <2>1. idx[t] < FPB_CB_REG
    BY Zenon, <1>2 DEF enable_comparators, ThreadType
  <2>2. idx[t] + 1 \in Idx /\ (idx[t] # FPB_CB_REG - 1 => idx[t] + 1 < FPB_CB_REG)
    BY Zenon, <1>a, <2>1, Following
  <2>3. ThreadType'
    <3>1. idx' = [idx EXCEPT ![t] = idx[t] + 1] /\ UNCHANGED <<loc, nxt, passed>>
      BY Zenon, <1>2 DEF enable_comparators
    <3>2. CASE idx[t] = FPB_CB_REG - 1
      BY Zenon, <1>2, <1>a, <2>2, <3>1, <3>2, GotoType DEF enable_comparators, Pc
    <3>3. CASE idx[t] # FPB_CB_REG - 1
      BY Zenon, <1>2, <1>a, <2>2, <3>1, <3>3, GotoType DEF enable_comparators, Pc
    <3> QED
      BY Zenon, <3>2, <3>3
  <2>4. comp' \in [Idx -> Comparator] /\ \A j \in Idx : comp'[j].w = comp[j].w
    BY Zenon, <1>2, <1>a, SetOn DEF enable_comparators, SharedType
  <2> QED
    BY Zenon, <1>2, <2>3, <2>4 DEF enable_comparators, shell, SharedType, ShellType, HistoryType
<1>3. CASE close_callback(t)
  <2>1. comp' \in [Idx -> Comparator] /\ \A j \in Idx : comp'[j].w = comp[j].w
    BY Zenon, <1>3, <1>b, SetOn DEF close_callback, SharedType
  <2>2. ThreadType'
    <3>1. CASE Leave(t, "wild")
      BY Zenon, <3>1, LeaveType
    <3>2. CASE /\ nxt[t] < N /\ loc' = [loc EXCEPT ![t] = nxt[t]]
               /\ Goto(t, "run") /\ Forget(t) /\ UNCHANGED passed
      <4>1. nxt[t] \in 0 .. N - 1
        BY <1>a, <3>2, Words
      <4> QED
        BY Zenon, <3>2, <4>1, RunType DEF ThreadType
    <3> QED
      BY Zenon, <1>3, <3>1, <3>2 DEF close_callback
  <2> QED
    BY Zenon, <1>3, <2>1, <2>2 DEF close_callback, shell, SharedType, ShellType, HistoryType
<1> QED
  BY Zenon, <1>1, <1>2, <1>3 DEF fpb_enable_callback

(* Every step keeps the types. *)
LEMMA TypeNext == TypeInv /\ [Next]_vars => TypeInv'
<1>1. ASSUME TypeInv, UNCHANGED vars PROVE TypeInv'
  BY Zenon, <1>1 DEF vars, shell, TypeInv, SharedType, ShellType, ThreadType, HistoryType
<1> QED
  BY Zenon, <1>1, CommandType, ProcessorType, TrampolineType, CallbackType DEF Next, Step

(* The types hold in every state. *)
THEOREM TypeCorrect == Spec => []TypeOK
<1>1. Spec => []TypeInv
  BY TypeInit, TypeNext, PTL DEF Spec
<1> QED
  BY <1>1, TypeInvImplies, PTL
-----------------------------------------------------------------------------
(* The branch of a word-aligned patch leads to the trampoline of its own   *)
(* comparator.  Without half-word patches and reused comparators, a        *)
(* comparator in use has such a branch, the task takes one that is free,   *)
(* and a trampoline has the comparator of the address it was entered from, *)
(* or, in the Keil build, the one after it.                                *)
TableInv == \A i \in Idx : Aligned(table[i].at) => table[i].h = i
UsedInv == Plain => \A i \in Idx : i < FPB_CB_REG /\ comp[i].w # NoLoc => Aligned(table[i].at)
FreeInv == Plain /\ task.pc = "comp" =>
             /\ Aligned(task.at) /\ task.idx < FPB_CB_REG
             /\ comp[task.idx].w = NoLoc /\ Aligned(table[task.idx].at)
Filtering == {"filter", "next", "disable", "table", "resume"}
OwnOrNext(t) == comp[idx[t]].w = Word(loc[t]) \/ (KEIL /\ idx[t] = 2 /\ comp[1].w = Word(loc[t]))
CameInv == Plain => \A t \in Thread : pc[t] \in Filtering => OwnOrNext(t)
BranchInv == TableInv /\ UsedInv /\ FreeInv /\ CameInv

(* They hold after set_patch_mode. *)
LEMMA BranchInit == Init => BranchInv
BY SMTT(30), Words DEF Init, BranchInv, TableInv, UsedInv, FreeInv, CameInv, Filtering, Empty, NoBranch, Branch, Idle, Idx

(* Below the callback's comparator, or at it. *)
LEMMA BelowCallback ==
  ASSUME NEW i \in Idx, i < MAX_BP
  PROVE  i < FPB_CB_REG \/ i = FPB_CB_REG
BY FpbRemapAssumption DEF FPB_CB_REG, Idx

(* What a thread may change: its own place, the callback's comparator and  *)
(* branch, and which comparators are enabled.                              *)
LEMMA ThreadBranch ==
  ASSUME TypeInv, BranchInv, NEW t \in Thread, UNCHANGED shell,
         \A i \in Idx : i # FPB_CB_REG => comp'[i].w = comp[i].w /\ table'[i] = table[i],
         Aligned(table'[FPB_CB_REG].at) => table'[FPB_CB_REG].h = FPB_CB_REG,
         \A u \in Thread : u # t => pc'[u] = pc[u] /\ idx'[u] = idx[u] /\ loc'[u] = loc[u],
         Plain /\ pc'[t] \in Filtering => OwnOrNext(t)'
  PROVE  BranchInv'
<1>1. Plain' = Plain /\ task' = task
  BY Zenon DEF Plain, shell
<1>2. TableInv'
  BY Zenon DEF BranchInv, TableInv
<1>3. UsedInv'
  <2>1. \A i \in Idx : i < FPB_CB_REG => i # FPB_CB_REG
    BY Words DEF Idx
  <2> QED
    BY Zenon, <1>1, <2>1 DEF BranchInv, UsedInv
<1>4. FreeInv'
  <2>1. task.idx \in Idx /\ (task.idx < FPB_CB_REG => task.idx # FPB_CB_REG)
    BY SMTT(30), Words DEF TypeInv, ShellType, Task, Idx
  <2> QED
    BY Zenon, <1>1, <2>1 DEF BranchInv, FreeInv
<1>5. CameInv'
  <2> SUFFICES ASSUME NEW u \in Thread, Plain, pc'[u] \in Filtering
               PROVE  OwnOrNext(u)'
    BY Zenon, <1>1 DEF CameInv
  <2>1. CASE u = t
    BY Zenon, <2>1
  <2>2. CASE u # t
    <3>1. pc[u] \in Filtering /\ idx'[u] = idx[u] /\ loc'[u] = loc[u]
      BY Zenon, <2>2
    <3>2. idx[u] \in Idx /\ idx[u] # FPB_CB_REG
      BY Zenon, <3>1 DEF TypeInv, ThreadType, Filtering
    <3>3. OwnOrNext(u)
      BY Zenon, <3>1 DEF BranchInv, CameInv
    <3> QED
      BY Zenon, <3>1, <3>2, <3>3, Callback DEF OwnOrNext
  <2> QED
    BY Zenon, <2>1, <2>2
<1> QED
  BY Zenon, <1>2, <1>3, <1>4, <1>5 DEF BranchInv

(* A thread that leaves for p, or goes there, changes no other thread. *)
LEMMA Moves ==
  ASSUME ThreadType, NEW t \in Thread, NEW p, Goto(t, p)
  PROVE  pc'[t] = p /\ \A u \in Thread : u # t => pc'[u] = pc[u]
BY Zenon DEF ThreadType, Goto

(* A thread writes only its own location and bpkt_idx. *)
LEMMA Others ==
  ASSUME ThreadType, NEW t \in Thread, NEW l, NEW i,
         loc' = loc \/ loc' = [loc EXCEPT ![t] = l],
         idx' = idx \/ idx' = [idx EXCEPT ![t] = i]
  PROVE  \A u \in Thread : u # t => idx'[u] = idx[u] /\ loc'[u] = loc[u]
BY Zenon DEF ThreadType

(* The trampoline a branch leads to is that of the comparator that remaps  *)
(* the fetch, unless it is the callback.                                   *)
LEMMA BranchOwn ==
  ASSUME TypeInv, BranchInv, Plain, NEW t \in Thread, NEW h \in Branches(loc[t]), h # FPB_CB_REG
  PROVE  h \in Idx /\ comp[h].w = Word(loc[t])
<1>1. PICK i \in Idx : i < MAX_BP /\ comp[i].w = Word(loc[t]) /\ Whole(i, loc[t]) /\ table[i].h = h
  <2>1. PICK i \in Matching(loc[t]) : Whole(i, loc[t]) /\ table[i].h = h
    BY Zenon DEF Branches
  <2>2. i \in 0 .. MAX_BP - 1 /\ comp[i].w = Word(loc[t])
    BY Zenon DEF Matching
  <2>3. i \in Idx /\ i < MAX_BP
    BY <2>2, Words DEF Idx
  <2> QED
    BY Zenon, <2>1, <2>2, <2>3
<1>2. comp[i].w # NoLoc /\ table[i].at = loc[t]
  BY <1>1, Words DEF TypeInv, ThreadType, NoLoc, Whole
<1>3. Aligned(table[i].at)
  <2>1. CASE i < FPB_CB_REG
    BY Zenon, <1>2, <2>1 DEF BranchInv, UsedInv
  <2>2. CASE i = FPB_CB_REG
    <3>1. ~(i + 1 < MAX_BP)
      BY <2>2, Words
    <3> QED
      BY Zenon, <1>1, <1>2, <3>1 DEF Whole
  <2> QED
    BY Zenon, <1>1, <2>1, <2>2, BelowCallback
<1>4. h = i
  BY Zenon, <1>1, <1>3 DEF BranchInv, TableInv
<1> QED
  BY Zenon, <1>1, <1>4

(* Steps of a thread keep the branches. *)
LEMMA StepBranch ==
  ASSUME TypeInv, BranchInv, NEW t \in Thread, Call(t) \/ Step(t)
  PROVE  BranchInv'
<1>a. ThreadType /\ SharedType
  BY Zenon DEF TypeInv
<1>b. Aligned(table[FPB_CB_REG].at) => table[FPB_CB_REG].h = FPB_CB_REG
  BY Zenon, Callback DEF BranchInv, TableInv
<1>c. idx[t] \in Idx
  BY Zenon, <1>a DEF ThreadType
<1>0. CASE FallThrough(t) /\ (FilterSkips(t) \/ resume(t))
  <2>1. UNCHANGED <<comp, table, shell, loc>> /\ pc[t] \in Filtering
    BY Zenon, <1>0 DEF FallThrough, FilterSkips, resume, Filtering
  <2>2. KEIL /\ idx[t] = 1 /\ idx' = [idx EXCEPT ![t] = 2] /\ Goto(t, "filter")
    BY Zenon, <1>0 DEF FallThrough
  <2>3. /\ idx'[t] = 2 /\ loc'[t] = loc[t]
        /\ \A u \in Thread : u # t => pc'[u] = pc[u] /\ idx'[u] = idx[u] /\ loc'[u] = loc[u]
    BY Zenon, <1>a, <2>1, <2>2, Moves DEF ThreadType
  <2>4. Plain => comp[1].w = Word(loc[t])
    <3>1. 1 # 2
      OBVIOUS
    <3> QED
      BY Zenon, <2>1, <2>2, <3>1 DEF BranchInv, CameInv, OwnOrNext
  <2>5. Plain => OwnOrNext(t)'
    BY Zenon, <2>1, <2>2, <2>3, <2>4 DEF OwnOrNext
  <2> QED
    BY Zenon, <1>b, <2>1, <2>3, <2>5, ThreadBranch
<1>1. CASE /\ Call(t) \/ Execute(t) \/ GoWild(t) \/ FilterSkips(t) \/ resume(t) \/ read_callback(t)
           /\ ~(FallThrough(t) /\ (FilterSkips(t) \/ resume(t)))
  <2>1. UNCHANGED <<comp, table, shell>>
    BY Zenon, <1>1 DEF Call, Execute, GoWild, FilterSkips, resume, read_callback
  <2>0. \/ Call(t) \/ Execute(t) \/ read_callback(t) \/ Leave(t, "out") \/ Leave(t, "wild")
        \/ resume(t) /\ Goto(t, "run") /\ Forget(t) /\ \E l : loc' = [loc EXCEPT ![t] = l]
    BY Zenon, <1>1 DEF GoWild, FilterSkips, resume, Return
  <2>2. /\ pc'[t] \notin Filtering
        /\ \A u \in Thread : u # t => pc'[u] = pc[u]
    <3>1. CASE pc' = pc /\ pc[t] = "run"
      BY Zenon, <3>1 DEF Filtering
    <3>2. CASE \E p \in {"out", "run", "wild", "enable"} : Goto(t, p)
      BY Zenon, <1>a, <3>2, Moves DEF Filtering
    <3> QED
      BY Zenon, <2>0, <3>1, <3>2 DEF Call, Execute, read_callback, Leave
  <2>3. \A u \in Thread : u # t => idx'[u] = idx[u] /\ loc'[u] = loc[u]
    <3>1. idx' = idx \/ idx' = [idx EXCEPT ![t] = 0]
      BY Zenon, <2>0 DEF Call, Execute, read_callback, Leave, Forget
    <3>2. \E l : loc' = loc \/ loc' = [loc EXCEPT ![t] = l]
      BY Zenon, <2>0 DEF Call, Execute, read_callback, Leave
    <3> QED
      BY <1>a, <3>1, <3>2, Others
  <2> QED
    BY Zenon, <1>b, <2>1, <2>2, <2>3, ThreadBranch
<1>2. CASE TakeBranch(t)
  <2>1. PICK h \in Branches(loc[t]) :
          idx' = [idx EXCEPT ![t] = h] /\ Goto(t, IF h = FPB_CB_REG THEN "read" ELSE "filter")
    BY Zenon, <1>2 DEF TakeBranch
  <2>2. UNCHANGED <<comp, table, shell, loc>>
    BY Zenon, <1>2 DEF TakeBranch
  <2>3. idx'[t] = h /\ loc'[t] = loc[t]
    BY Zenon, <1>a, <2>1, <2>2 DEF ThreadType
  <2>4. pc'[t] \in Filtering => h # FPB_CB_REG
    BY <1>a, <2>1, Moves DEF Filtering
  <2>5. \A u \in Thread : u # t => pc'[u] = pc[u]
    BY Zenon, <1>a, <2>1, Moves
  <2>6. \A u \in Thread : u # t => idx'[u] = idx[u] /\ loc'[u] = loc[u]
    BY Zenon, <1>a, <2>1, <2>2, Others
  <2>7. Plain /\ pc'[t] \in Filtering => OwnOrNext(t)'
    BY Zenon, <2>2, <2>3, <2>4, BranchOwn DEF OwnOrNext
  <2> QED
    BY Zenon, <1>b, <2>2, <2>5, <2>6, <2>7, ThreadBranch
<1>3. CASE FilterPasses(t)
  <2>1. UNCHANGED <<comp, table, shell, loc, idx>> /\ pc[t] = "filter"
    BY Zenon, <1>3 DEF FilterPasses
  <2>2. \A u \in Thread : u # t => pc'[u] = pc[u]
    BY Zenon, <1>a, <1>3, Moves DEF FilterPasses
  <2>3. Plain => OwnOrNext(t)'
    BY Zenon, <2>1 DEF BranchInv, CameInv, OwnOrNext, Filtering
  <2> QED
    BY Zenon, <1>b, <2>1, <2>2, <2>3, ThreadBranch
<1>4. CASE point_callback(t) \/ disable_current(t) \/ set_callback_branch(t) \/ enable_comparators(t) \/ close_callback(t)
  <2>1. UNCHANGED shell
    BY Zenon, <1>4 DEF point_callback, disable_current, set_callback_branch, enable_comparators, close_callback
  <2>2. /\ pc'[t] \in Filtering => pc[t] \in Filtering /\ UNCHANGED <<loc, idx>>
        /\ \A u \in Thread : u # t => pc'[u] = pc[u]
    <3>1. \/ \E p \in {"wild", "close", "enable", "run"} : Goto(t, p)
          \/ pc[t] \in Filtering /\ UNCHANGED <<loc, idx>> /\ \E p \in Filtering : Goto(t, p)
      BY Zenon, <1>4 DEF point_callback, disable_current, set_callback_branch, enable_comparators, close_callback, Leave,
                  Filtering
    <3> QED
      BY Zenon, <1>a, <3>1, Moves DEF Filtering
  <2>3. \A u \in Thread : u # t => idx'[u] = idx[u] /\ loc'[u] = loc[u]
    <3>1. \E i : idx' = idx \/ idx' = [idx EXCEPT ![t] = i]
      BY Zenon, <1>4 DEF point_callback, disable_current, set_callback_branch, enable_comparators, close_callback, Leave, Forget
    <3>2. \E l : loc' = loc \/ loc' = [loc EXCEPT ![t] = l]
      BY Zenon, <1>4 DEF point_callback, disable_current, set_callback_branch, enable_comparators, close_callback, Leave
    <3> QED
      BY <1>a, <3>1, <3>2, Others
  <2>4. \A i \in Idx : i # FPB_CB_REG => comp'[i].w = comp[i].w
    <3>1. CASE UNCHANGED comp
      BY Zenon, <3>1
    <3>2. CASE \E c : comp' = [comp EXCEPT ![FPB_CB_REG] = c]
      BY Zenon, <1>a, <3>2 DEF SharedType
    <3>3. CASE \E i \in Idx, b \in BOOLEAN : comp' = [comp EXCEPT ![i].on = b]
      BY Zenon, <1>a, <3>3, SetOn DEF SharedType
    <3> QED
      BY Zenon, <1>4, <1>c, <3>1, <3>2, <3>3, Callback
      DEF point_callback, disable_current, set_callback_branch, enable_comparators, close_callback
  <2>5. /\ \A i \in Idx : i # FPB_CB_REG => table'[i] = table[i]
        /\ Aligned(table'[FPB_CB_REG].at) => table'[FPB_CB_REG].h = FPB_CB_REG
    <3>1. CASE UNCHANGED table
      BY Zenon, <1>b, <3>1
    <3>2. CASE \E l : table' = [table EXCEPT ![FPB_CB_REG] = Branch(FPB_CB_REG, l)]
      BY <1>a, <3>2, Callback DEF SharedType, Branch
    <3> QED
      BY Zenon, <1>4, <3>1, <3>2 DEF point_callback, disable_current, set_callback_branch, enable_comparators, close_callback
  <2>6. Plain /\ pc'[t] \in Filtering => OwnOrNext(t)'
    <3>1. pc[t] \in Filtering => idx[t] # FPB_CB_REG
      BY Zenon, <1>a DEF ThreadType, Filtering
    <3> QED
      BY Zenon, <1>c, <2>2, <2>4, <3>1, Callback DEF BranchInv, CameInv, OwnOrNext
  <2> QED
    BY Zenon, <2>1, <2>2, <2>3, <2>4, <2>5, <2>6, ThreadBranch
<1> QED
  BY Zenon, <1>0, <1>1, <1>2, <1>3, <1>4 DEF Step, fpb_disable_cur_inst, fpb_enable_callback

(* What the shell thread may change below the callback's comparator while  *)
(* the patches stay plain: one comparator that was free.                   *)
LEMMA CommandBranch ==
  ASSUME TypeInv, BranchInv, Command
  PROVE  BranchInv'
<1>a. SharedType /\ ShellType /\ ThreadType
  BY Zenon DEF TypeInv
<1>b. \A i \in Idx : i < FPB_CB_REG => i # FPB_CB_REG /\ i < MAX_BP
  BY Zenon, Comparators
<1>1. ASSUME NEW l \in Patch, add_hw_bkpt(l), add_fpb_bkpt_existing(l) PROVE BranchInv'
  <2>1. PICK i \in Idx : comp' = [comp EXCEPT ![i].on = TRUE]
    BY Zenon, <1>1, Comparators DEF add_fpb_bkpt_existing
  <2>2. \A j \in Idx : comp'[j].w = comp[j].w
    BY Zenon, <1>a, <2>1, SetOn DEF SharedType
  <2>3. UNCHANGED <<table, pc, idx, loc>> /\ (Plain' => Plain) /\ task'.pc # "comp"
    BY Zenon, <1>1 DEF add_hw_bkpt, add_fpb_bkpt_existing, Plain, Idle
  <2>4. \A t \in Thread : idx[t] \in Idx
    BY Zenon, <1>a DEF ThreadType
  <2> QED
    BY Zenon, <2>2, <2>3, <2>4, Callback DEF BranchInv, TableInv, UsedInv, FreeInv, CameInv, OwnOrNext
<1>2. ASSUME NEW l \in Patch, add_hw_bkpt(l), Aligned(l), add_fpb_bkpt_table(l) PROVE BranchInv'
  <2>1. Slot \in Idx /\ Slot < MAX_BP
    BY Zenon, <1>a, Slots
  <2>2. /\ table' = [table EXCEPT ![Slot] = Branch(Slot, l)]
        /\ task' = [pc |-> "comp", at |-> l, idx |-> Slot]
        /\ UNCHANGED <<comp, half, pc, idx, loc>>
    BY Zenon, <1>2 DEF add_hw_bkpt, add_fpb_bkpt_table
  <2>3. Plain' => Plain /\ Slot # FPB_CB_REG /\ comp[Slot] = Empty
    BY Zenon, <1>2 DEF add_fpb_bkpt_table, Plain
  <2>4. \A i \in Idx : IF i = Slot THEN table'[i].at = l /\ table'[i].h = i ELSE table'[i] = table[i]
    BY Zenon, <1>a, <2>1, <2>2 DEF SharedType, Branch
  <2>5. TableInv' /\ UsedInv'
    BY Zenon, <1>2, <2>2, <2>3, <2>4 DEF BranchInv, TableInv, UsedInv
  <2>6. FreeInv'
    BY SMTT(30), <1>2, <2>1, <2>2, <2>3, <2>4, BelowCallback DEF FreeInv, Empty
  <2>7. CameInv'
    BY Zenon, <2>2, <2>3 DEF BranchInv, CameInv, OwnOrNext
  <2> QED
    BY Zenon, <2>5, <2>6, <2>7 DEF BranchInv
<1>3. ASSUME NEW l \in Patch, add_hw_bkpt(l), ~Aligned(l), add_fpb_bkpt_half(l) PROVE BranchInv'
  <2>1. ~Plain'
    BY Zenon, <1>3 DEF add_fpb_bkpt_half, Plain
  <2>2. TableInv'
    <3>1. CASE UNCHANGED table
      BY Zenon, <3>1 DEF BranchInv, TableInv
    <3>2. CASE table' = [table EXCEPT ![Slot] = Branch(Slot, l), ![Slot + 1] = Branch(Slot, l)]
      <4>1. Slot \in Idx /\ Slot + 1 \in Idx
        BY Zenon, <1>a, Slots
      <4>2. \A i \in Idx : table'[i].at = l \/ table'[i] = table[i]
        BY Zenon, <1>a, <3>2, <4>1 DEF SharedType, Branch
      <4> QED
        BY Zenon, <1>3, <4>2 DEF BranchInv, TableInv
    <3> QED
      BY Zenon, <1>3, <3>1, <3>2 DEF add_fpb_bkpt_half
  <2> QED
    BY Zenon, <2>1, <2>2 DEF BranchInv, UsedInv, FreeInv, CameInv
<1>4. CASE set_comparator
  <2> DEFINE i == task.idx
  <2>1. i \in Idx /\ UNCHANGED <<table, half, full, pc, idx, loc>> /\ task'.pc # "comp" /\ task.pc = "comp"
    BY Zenon, <1>4, <1>a DEF ShellType, Task, set_comparator, Idle
  <2>2. Plain' = Plain /\ TableInv'
    BY Zenon, <2>1 DEF Plain, BranchInv, TableInv
  <2>3. CASE Plain
    <3>1. /\ Aligned(task.at) /\ i < FPB_CB_REG /\ comp[i].w = NoLoc /\ Aligned(table[i].at)
      BY Zenon, <2>1, <2>3 DEF BranchInv, FreeInv
    <3>2. comp' = [comp EXCEPT ![i] = [w |-> Word(task.at), on |-> TRUE]]
      BY Zenon, <1>4, <3>1 DEF set_comparator
    <3>3. \A j \in Idx : j # i => comp'[j] = comp[j]
      BY Zenon, <1>a, <2>1, <3>2 DEF SharedType
    <3>4. UsedInv'
      BY Zenon, <2>1, <2>3, <3>1, <3>3 DEF BranchInv, UsedInv
    <3>5. CameInv'
      <4> SUFFICES ASSUME NEW t \in Thread, pc[t] \in Filtering PROVE OwnOrNext(t)'
        BY Zenon, <2>1 DEF CameInv
      <4>1. OwnOrNext(t)
        BY Zenon, <2>3 DEF BranchInv, CameInv
      <4>2. loc[t] \in Nat /\ idx[t] \in Idx
        BY <1>a DEF ThreadType
      <4>3. \A j \in Idx : comp[j].w = Word(loc[t]) => comp'[j] = comp[j]
        BY Zenon, <3>1, <3>3, <4>2, WordIsWord
      <4> QED
        BY Zenon, <2>1, <4>1, <4>2, <4>3, Callback DEF OwnOrNext
    <3> QED
      BY Zenon, <2>1, <2>2, <3>4, <3>5 DEF BranchInv, FreeInv
  <2> QED
    BY Zenon, <2>1, <2>2, <2>3 DEF BranchInv, UsedInv, FreeInv, CameInv
<1>5. CASE set_active
  <2>1. UNCHANGED <<comp, table, half, full, pc, idx, loc>> /\ task'.pc # "comp"
    BY Zenon, <1>5 DEF set_active, Idle
  <2> QED
    BY Zenon, <2>1 DEF BranchInv, TableInv, UsedInv, FreeInv, CameInv, OwnOrNext, Plain
<1>6. CASE clear_all_hw_bkpt /\ (UNCHANGED table \/ table' = [i \in Idx |-> NoBranch])
  <2>1. task'.pc # "comp" /\ UNCHANGED pc /\ (Plain' => Diverted = {})
    BY Zenon, <1>6 DEF clear_all_hw_bkpt, Plain
  <2>2. \A i \in Idx : i < FPB_CB_REG => comp'[i].w = NoLoc
    BY Zenon, <1>6, <1>b DEF clear_all_hw_bkpt, Empty
  <2>3. TableInv'
    BY <1>6, Words DEF BranchInv, TableInv, NoBranch, Branch
  <2>4. CameInv'
    BY Zenon, <2>1 DEF CameInv, Diverted, Filtering
  <2> QED
    BY Zenon, <2>1, <2>2, <2>3, <2>4 DEF BranchInv, UsedInv, FreeInv
<1> QED
  BY Zenon, <1>1, <1>2, <1>3, <1>4, <1>5, <1>6 DEF Command, add_hw_bkpt, set_patch_mode, reset_patch

(* Every step keeps the branches. *)
LEMMA BranchNext == TypeInv /\ BranchInv /\ [Next]_vars => BranchInv'
<1>1. ASSUME BranchInv, UNCHANGED vars PROVE BranchInv'
  BY Zenon, <1>1 DEF vars, shell, BranchInv, TableInv, UsedInv, FreeInv, CameInv, OwnOrNext, Plain
<1> QED
  BY Zenon, <1>1, CommandBranch, StepBranch DEF Next

(* leave_fpb_bpkt runs the filter of the address at which the thread was   *)
(* diverted, however many threads are in trampolines, and after it, in the *)
(* Keil build, that of comparator 2 for a thread diverted by number 1.     *)
THEOREM OwnFilter == Spec => []FilterOfOwnAddress
<1>1. TypeInv /\ BranchInv /\ [Next]_vars => (TypeInv /\ BranchInv)'
  BY Zenon, TypeNext, BranchNext
<1>2. BranchInv => FilterOfOwnAddress
  BY Zenon DEF BranchInv, CameInv, OwnOrNext, Filtering, FilterOfOwnAddress
<1> QED
  BY <1>1, <1>2, TypeInit, BranchInit, PTL DEF Spec
-----------------------------------------------------------------------------
(* While no step is taken in another one's window: the comparators of      *)
(* patches are enabled unless a thread has disabled one, again up to the   *)
(* one its callback has come to; the callback's own is enabled only        *)
(* between the second store of a PASS and the last of its callback.        *)
Armed == \A i \in Idx : i < FPB_CB_REG /\ comp[i].w # NoLoc => comp[i].on
ArmedTo(t) == \A i \in Idx : i < idx[t] /\ comp[i].w # NoLoc => comp[i].on

EnabledInv ==
  alone /\ Plain =>
    /\ owner = None => Armed
    /\ owner = None /\ (\A t \in Thread : pc[t] # "disable") => ~comp[FPB_CB_REG].on
    /\ \A t \in Thread : pc[t] = "enable" => ArmedTo(t)
    /\ \A t \in Thread : pc[t] = "close" => Armed

(* It holds after set_patch_mode. *)
LEMMA EnabledInit == Init => EnabledInv
BY Callback DEF Init, EnabledInv, Armed, ArmedTo, Empty

(* A command that is not in a thread's window finds no thread in a         *)
(* trampoline.                                                             *)
LEMMA CommandEnabled ==
  ASSUME TypeInv, BranchInv, EnabledInv, Command
  PROVE  EnabledInv'
<1> SUFFICES ASSUME alone', Plain'
             PROVE  Armed' /\ ~comp'[FPB_CB_REG].on /\ \A t \in Thread : pc'[t] \notin {"enable", "close"}
  BY Zenon DEF EnabledInv
<1>a. SharedType /\ ShellType
  BY Zenon DEF TypeInv
<1>1. alone /\ Busy = {} /\ UNCHANGED pc
  BY Zenon DEF Command, add_hw_bkpt, set_comparator, set_active, set_patch_mode, reset_patch, clear_all_hw_bkpt
<1>2. owner = None /\ \A t \in Thread : pc[t] \in {"out", "run", "wild"}
  BY Zenon, <1>1 DEF Busy, Diverted
<1>3. \A t \in Thread : pc'[t] \notin {"enable", "close"}
  BY Zenon, <1>1, <1>2
<1>4. Plain => Armed /\ ~comp[FPB_CB_REG].on
  BY Zenon, <1>1, <1>2 DEF EnabledInv
<1>5. ASSUME NEW l \in Patch, add_hw_bkpt(l) PROVE Armed' /\ ~comp'[FPB_CB_REG].on
  <2>1. Plain
    <3>0. ~half' /\ ~full' /\ full \in BOOLEAN
      BY Zenon, <1>a DEF Plain, ShellType
    <3>1. ASSUME add_fpb_bkpt_existing(l) PROVE Plain
      <4>1. UNCHANGED half /\ \E i \in 0 .. MAX_BP - 1 : full' = (full \/ i = FPB_CB_REG)
        BY Zenon, <3>1 DEF add_fpb_bkpt_existing
      <4> QED
        BY Zenon, <3>0, <4>1 DEF Plain
    <3>2. ASSUME add_fpb_bkpt_table(l) PROVE Plain
      <4>1. UNCHANGED half /\ full' = (full \/ Slot = FPB_CB_REG \/ comp[Slot] # Empty)
        BY Zenon, <3>2 DEF add_fpb_bkpt_table
      <4> QED
        BY Zenon, <3>0, <4>1 DEF Plain
    <3>3. ~add_fpb_bkpt_half(l)
      BY Zenon DEF add_fpb_bkpt_half, Plain
    <3> QED
      BY Zenon, <1>5, <3>1, <3>2, <3>3 DEF add_hw_bkpt
  <2>2. CASE UNCHANGED comp
    BY Zenon, <1>4, <2>1, <2>2 DEF Armed
  <2>3. CASE add_fpb_bkpt_existing(l)
    <3>1. PICK i \in Idx : comp' = [comp EXCEPT ![i].on = TRUE] /\ i # FPB_CB_REG
      BY Zenon, <2>3, Comparators DEF add_fpb_bkpt_existing, Plain
    <3>2. \A j \in Idx : IF j = i THEN comp'[j].on /\ comp'[j].w = comp[j].w ELSE comp'[j] = comp[j]
      BY Zenon, <1>a, <3>1 DEF SharedType, Comparator
    <3> QED
      BY Zenon, <1>4, <2>1, <3>1, <3>2, Callback DEF Armed
  <2> QED
    BY Zenon, <1>5, <2>2, <2>3 DEF add_hw_bkpt, add_fpb_bkpt_table, add_fpb_bkpt_half
<1>6. CASE set_comparator
  <2> DEFINE i == task.idx
  <2>1. Plain /\ task.pc = "comp" /\ i \in Idx
    BY Zenon, <1>6, <1>a DEF set_comparator, Plain, ShellType, Task
  <2>2. Aligned(task.at) /\ i < FPB_CB_REG
    BY Zenon, <2>1 DEF BranchInv, FreeInv
  <2>3. comp' = [comp EXCEPT ![i] = [w |-> Word(task.at), on |-> TRUE]]
    BY Zenon, <1>6, <2>2 DEF set_comparator
  <2>4. \A j \in Idx : IF j = i THEN comp'[j].on ELSE comp'[j] = comp[j]
    BY Zenon, <1>a, <2>1, <2>3 DEF SharedType
  <2>5. i # FPB_CB_REG
    BY Zenon, <2>1, <2>2, Comparators
  <2> QED
    BY Zenon, <1>3, <1>4, <2>1, <2>4, <2>5, Callback DEF Armed
<1>7. CASE set_active
  BY Zenon, <1>3, <1>4, <1>7 DEF set_active, Plain, Armed
<1>8. CASE clear_all_hw_bkpt
  <2>1. FPB_CB_REG < MAX_BP
    BY Words
  <2> QED
    BY Zenon, <1>3, <1>8, <2>1, Callback, Comparators DEF clear_all_hw_bkpt, Empty, Armed
<1> QED
  BY Zenon, <1>3, <1>5, <1>6, <1>7, <1>8 DEF Command, set_patch_mode, reset_patch

(* A step of a thread that is left alone: no other one is in a trampoline. *)
LEMMA LeftAlone ==
  ASSUME TypeInv, NEW t \in Thread, Alone(t), alone', NEW p, Goto(t, p) \/ UNCHANGED pc
  PROVE  alone /\ \A u \in Thread : u # t => pc[u] \in {"out", "run", "wild"} /\ pc'[u] = pc[u]
<1>1. \A u \in Thread : u # t => pc'[u] = pc[u]
  BY Zenon, Moves DEF TypeInv
<1> QED
  BY Zenon, <1>1 DEF Alone, Busy, Diverted

(* Steps that write no comparator. *)
LEMMA QuietEnabled ==
  ASSUME TypeInv, EnabledInv, NEW t \in Thread, Alone(t), NEW p, Goto(t, p) \/ UNCHANGED pc,
         UNCHANGED <<comp, owner, shell>>, pc[t] # "disable", pc'[t] # "close",
         pc'[t] = "enable" => idx'[t] = 0
  PROVE  EnabledInv'
<1> SUFFICES ASSUME alone', Plain' PROVE EnabledInv'
  BY Zenon DEF EnabledInv
<1>1. alone /\ \A u \in Thread : u # t => pc[u] \in {"out", "run", "wild"} /\ pc'[u] = pc[u]
  BY Zenon, LeftAlone
<1>2. Plain
  BY Zenon DEF Plain, shell
<1>3. owner' = None => Armed'
  BY Zenon, <1>1, <1>2 DEF EnabledInv, Armed
<1>4. owner' = None => ~comp'[FPB_CB_REG].on
  BY Zenon, <1>1, <1>2 DEF EnabledInv
<1>5. \A u \in Thread : pc'[u] = "enable" => ArmedTo(u)'
  BY SMTT(30), <1>1 DEF ArmedTo, Idx
<1>6. \A u \in Thread : pc'[u] # "close"
  BY Zenon, <1>1
<1> QED
  BY Zenon, <1>3, <1>4, <1>5, <1>6 DEF EnabledInv

(* Steps of a thread. *)
LEMMA StepEnabled ==
  ASSUME TypeInv, EnabledInv, NEW t \in Thread, Call(t) \/ Step(t)
  PROVE  EnabledInv'
<1>a. ThreadType /\ SharedType
  BY Zenon DEF TypeInv
<1>1. CASE Call(t) \/ Execute(t) \/ TakeBranch(t) \/ GoWild(t) \/ FilterSkips(t) \/ FilterPasses(t)
           \/ set_callback_branch(t) \/ resume(t) \/ (point_callback(t) /\ UNCHANGED comp /\ Leave(t, "wild"))
  <2>1. UNCHANGED <<comp, owner, shell>> /\ pc[t] # "disable" /\ Alone(t)
    BY Zenon, <1>1 DEF Call, Execute, TakeBranch, GoWild, FilterSkips, FilterPasses, set_callback_branch, resume, point_callback
  <2>2. (UNCHANGED pc /\ pc[t] = "run") \/ \E p \in {"out", "run", "wild", "read", "filter", "next", "resume"} : Goto(t, p)
    BY Zenon, <1>1 DEF Call, Execute, TakeBranch, GoWild, FilterSkips, FilterPasses, set_callback_branch, resume, Return,
                FallThrough, Leave
  <2>3. CASE UNCHANGED pc /\ pc[t] = "run"
    BY Zenon, <2>1, <2>3, QuietEnabled
  <2>4. CASE \E p \in {"out", "run", "wild", "read", "filter", "next", "resume"} : Goto(t, p)
    <3>1. PICK p \in {"out", "run", "wild", "read", "filter", "next", "resume"} : Goto(t, p)
      BY Zenon, <2>4
    <3>2. pc'[t] \notin {"enable", "close"}
      BY Zenon, <1>a, <3>1, Moves
    <3> QED
      BY Zenon, <2>1, <3>1, <3>2, QuietEnabled
  <2> QED
    BY Zenon, <2>2, <2>3, <2>4
<1>2. CASE read_callback(t)
  <2>1. UNCHANGED <<comp, owner, shell>> /\ pc[t] # "disable" /\ Alone(t)
    BY Zenon, <1>2 DEF read_callback
  <2>2. CASE Goto(t, "wild")
    <3>1. pc'[t] \notin {"enable", "close"}
      BY <1>a, <2>2, Moves
    <3> QED
      BY Zenon, <2>1, <2>2, <3>1, QuietEnabled
  <2>3. CASE Goto(t, "enable") /\ idx' = [idx EXCEPT ![t] = 0]
    <3>1. idx'[t] = 0
      BY Zenon, <1>a, <2>3 DEF ThreadType
    <3>2. pc'[t] = "enable"
      BY Zenon, <1>a, <2>3, Moves
    <3> QED
      BY Zenon, <2>1, <2>3, <3>1, <3>2, QuietEnabled
  <2> QED
    BY Zenon, <1>2, <2>2, <2>3 DEF read_callback, Leave
<1>3. CASE fpb_disable_cur_inst(t) \/ fpb_enable_callback(t)
  <2> SUFFICES ASSUME alone', Plain', ~read_callback(t), ~set_callback_branch(t), ~resume(t),
                      ~(point_callback(t) /\ UNCHANGED comp /\ Leave(t, "wild"))
               PROVE  EnabledInv'
    BY Zenon, <1>1, <1>2, <1>3 DEF EnabledInv, fpb_disable_cur_inst, fpb_enable_callback
  <2>0. CASE point_callback(t)
    <3>1. /\ \E c : comp' = [comp EXCEPT ![FPB_CB_REG] = c]
          /\ Goto(t, "disable") /\ Alone(t) /\ UNCHANGED <<owner, shell>>
      BY Zenon, <2>0 DEF point_callback
    <3>2. alone /\ pc'[t] = "disable" /\ \A u \in Thread : u # t => pc'[u] \in {"out", "run", "wild"}
      BY Zenon, <1>a, <3>1, LeftAlone, Moves
    <3>3. \A i \in Idx : i < FPB_CB_REG => comp'[i] = comp[i]
      BY Zenon, <1>a, <3>1, Comparators DEF SharedType
    <3>4. Plain
      BY Zenon, <3>1 DEF Plain, shell
    <3>5. owner' = None => Armed'
      BY Zenon, <3>1, <3>2, <3>3, <3>4 DEF EnabledInv, Armed
    <3> QED
      BY Zenon, <3>2, <3>5 DEF EnabledInv
  <2>1. CASE disable_current(t)
    <3>1. Goto(t, "table") /\ Alone(t) /\ owner' = t
      BY Zenon, <2>1 DEF disable_current
    <3>2. pc'[t] = "table" /\ \A u \in Thread : u # t => pc'[u] \in {"out", "run", "wild"}
      BY Zenon, <1>a, <3>1, LeftAlone, Moves
    <3>3. owner' # None
      BY Zenon, <3>1, FpbRemapAssumption
    <3> QED
      BY Zenon, <3>2, <3>3 DEF EnabledInv
  <2>2. CASE enable_comparators(t)
    <3>0. idx[t] \in Idx /\ idx[t] < FPB_CB_REG /\ pc[t] = "enable"
      BY Zenon, <1>a, <2>2 DEF enable_comparators, ThreadType
    <3>1. /\ Alone(t) /\ UNCHANGED <<owner, shell>> /\ idx'[t] = idx[t] + 1
          /\ comp' = [comp EXCEPT ![idx[t]].on = (comp[idx[t]] # Empty)]
      BY Zenon, <1>a, <2>2 DEF enable_comparators, ThreadType
    <3>2. PICK p \in {"enable", "close"} : Goto(t, p) /\ (p = "close" => idx[t] = FPB_CB_REG - 1)
      BY Zenon, <2>2 DEF enable_comparators
    <3>3. /\ alone /\ pc'[t] = p
          /\ \A u \in Thread : u # t => pc[u] \in {"out", "run", "wild"} /\ pc'[u] = pc[u]
      BY Zenon, <1>a, <3>1, <3>2, LeftAlone, Moves
    <3>4. Plain
      BY Zenon, <3>1 DEF Plain, shell
    <3>5. \A i \in Idx : IF i = idx[t] THEN comp'[i].w = comp[i].w /\ comp'[i].on = (comp[i] # Empty)
                                       ELSE comp'[i] = comp[i]
      BY Zenon, <1>a, <3>0, <3>1 DEF SharedType, Comparator
    <3>6. comp[idx[t]].w # NoLoc => comp'[idx[t]].on
      <4>1. Empty.w = NoLoc
        BY Zenon DEF Empty
      <4>2. comp[idx[t]].w # NoLoc => comp[idx[t]] # Empty
        BY Zenon, <4>1
      <4>3. comp'[idx[t]].on = (comp[idx[t]] # Empty)
        BY Zenon, <3>0, <3>5
      <4> QED
        BY Zenon, <4>2, <4>3
    <3>7. ArmedTo(t)
      BY Zenon, <3>0, <3>3, <3>4 DEF EnabledInv
    <3>8. ArmedTo(t)'
      <4>1. \A i \in Idx : i < idx[t] + 1 => i = idx[t] \/ i < idx[t]
        BY SMTT(30), <3>0 DEF Idx
      <4> QED
        BY Zenon, <3>0, <3>1, <3>5, <3>6, <3>7, <4>1 DEF ArmedTo
    <3>9. p = "close" => Armed'
      <4>1. idx[t] = FPB_CB_REG - 1 => idx[t] + 1 = FPB_CB_REG
        <5>1. FPB_CB_REG \in Int
          BY Words
        <5>2. \A i, r \in Int : i = r - 1 => i + 1 = r
          OBVIOUS
        <5>3. idx[t] \in Int
          BY SMTT(30), <3>0 DEF Idx
        <5> QED
          BY Zenon, <5>1, <5>2, <5>3
      <4> QED
        BY Zenon, <3>1, <3>2, <3>8, <4>1 DEF Armed, ArmedTo
    <3>10. owner' = None => Armed'
      BY <3>1, <3>3, <3>4, <3>5, <3>6 DEF EnabledInv, Armed
    <3>11. owner' = None => ~comp'[FPB_CB_REG].on
      BY Zenon, <3>0, <3>1, <3>3, <3>4, <3>5, Callback, Comparators DEF EnabledInv
    <3> QED
      BY Zenon, <3>3, <3>8, <3>9, <3>10, <3>11 DEF EnabledInv
  <2>3. CASE close_callback(t)
    <3>1. /\ pc[t] = "close" /\ Alone(t) /\ UNCHANGED shell
          /\ comp' = [comp EXCEPT ![FPB_CB_REG].on = FALSE]
          /\ \E p \in {"run", "wild"} : Goto(t, p)
      BY Zenon, <2>3 DEF close_callback, Leave
    <3>2. alone /\ \A u \in Thread : pc'[u] \in {"out", "run", "wild"}
      BY Zenon, <1>a, <3>1, LeftAlone, Moves
    <3>3. Plain
      BY Zenon, <3>1 DEF Plain, shell
    <3>4. Armed
      BY Zenon, <3>1, <3>2, <3>3 DEF EnabledInv
    <3>5. /\ \A i \in Idx : i # FPB_CB_REG => comp'[i] = comp[i]
          /\ ~comp'[FPB_CB_REG].on
      BY Zenon, <1>a, <3>1, Callback DEF SharedType, Comparator
    <3>6. Armed'
      BY Zenon, <3>4, <3>5, Comparators DEF Armed
    <3> QED
      BY Zenon, <3>2, <3>5, <3>6 DEF EnabledInv
  <2> QED
    BY Zenon, <1>3, <2>0, <2>1, <2>2, <2>3 DEF fpb_disable_cur_inst, fpb_enable_callback
<1> QED
  BY Zenon, <1>1, <1>3 DEF Step

(* Every step keeps it. *)
LEMMA EnabledNext == TypeInv /\ BranchInv /\ EnabledInv /\ [Next]_vars => EnabledInv'
<1>1. ASSUME EnabledInv, UNCHANGED vars PROVE EnabledInv'
  BY Zenon, <1>1 DEF vars, shell, EnabledInv, Armed, ArmedTo, Plain
<1> QED
  BY Zenon, <1>1, CommandEnabled, StepEnabled DEF Next

(* Outside every window the comparators of all patches are enabled and the *)
(* callback's is not, however often filters have passed.                   *)
THEOREM Rearmed == Spec => []RearmedOutsideWindow
<1> DEFINE Inv == TypeInv /\ BranchInv /\ EnabledInv
<1>1. Init => Inv
  BY Zenon, TypeInit, BranchInit, EnabledInit
<1>2. Inv /\ [Next]_vars => Inv'
  BY Zenon, TypeNext, BranchNext, EnabledNext
<1>3. Inv => RearmedOutsideWindow
  <2> SUFFICES ASSUME Inv, alone, Plain, Busy = {}
               PROVE  /\ \A i \in 0 .. FPB_CB_REG - 1 : comp[i].w # NoLoc => comp[i].on
                      /\ ~comp[FPB_CB_REG].on
    BY Zenon DEF RearmedOutsideWindow
  <2>1. owner = None /\ \A t \in Thread : pc[t] # "disable"
    BY Zenon DEF Busy, Diverted
  <2> QED
    BY Zenon, <2>1, Comparators DEF EnabledInv, Armed
<1> QED
  BY <1>1, <1>2, <1>3, PTL DEF Spec
-----------------------------------------------------------------------------
(* A location is the first half of its word or the second. *)
LEMMA Halves ==
  /\ \A l \in Nat : Aligned(l) => 2 * Word(l) = l
  /\ \A l \in Nat : ~Aligned(l) => 2 * Word(l) + 1 = l
  /\ \A w \in Nat : Word(2 * w) = w /\ Aligned(2 * w)
BY DEF Word, Aligned

(* Where the instructions of the function and the ones after it begin. *)
Ends == Starts \cup {N, N + 2}

(* They are naturals, and patches are among them. *)
LEMMA EndsFacts == Ends \subseteq Nat /\ Patch \subseteq Ends /\ N \in Ends /\ N + 2 \in Ends /\ N \in Nat
BY FpbRemapAssumption DEF Ends

(* No instruction begins between one and the instruction after it. *)
LEMMA SuccFacts ==
  ASSUME NEW l \in 0 .. N - 1
  PROVE  /\ Succ(l) \in Ends /\ Succ(l) \in Nat /\ Succ(l) > l
         /\ \A s \in Ends : s > l => Succ(l) <= s
<1> DEFINE S == {s \in Ends : s > l}
<1>a. N > l
  BY EndsFacts
<1>1. S \in SUBSET Nat /\ N \in S
  BY Zenon, <1>a, EndsFacts
<1>2. Least(S) \in S /\ \A y \in S : Least(S) <= y
  BY Zenon, <1>1, LeastIsLeast
<1>3. Succ(l) = Least(S)
  BY Zenon DEF Succ, Ends
<1> QED
  BY Zenon, <1>1, <1>2, <1>3

(* The next word-aligned instruction is one, after the location. *)
LEMMA NextFacts ==
  ASSUME NEW l \in 0 .. N
  PROVE  /\ Next_aligned(l) \in Ends /\ Next_aligned(l) \in Nat
         /\ Next_aligned(l) > l /\ Aligned(Next_aligned(l))
<1> DEFINE S == {s \in Ends : s > l /\ Aligned(s)}
<1>a. Aligned(N + 2) /\ N + 2 > l
  BY FpbRemapAssumption DEF Aligned
<1>1. S \in SUBSET Nat /\ N + 2 \in S
  BY Zenon, <1>a, EndsFacts
<1>2. Least(S) \in S
  BY Zenon, <1>1, LeastIsLeast
<1>3. Next_aligned(l) = Least(S)
  BY Zenon DEF Next_aligned, Ends
<1> QED
  BY Zenon, <1>1, <1>2, <1>3
-----------------------------------------------------------------------------
(* While the patches are plain, the comparators up to cur_idx are those of *)
(* the patches, and the branch of each was computed for the address it     *)
(* compares, a patched one.                                                *)
Placed(i) == table[i].at = 2 * comp[i].w /\ 2 * comp[i].w \in Patch /\ i < cur_idx
PlaceInv ==
  Plain =>
    /\ cur_idx <= FPB_CB_REG
    /\ \A i \in Idx : i < FPB_CB_REG /\ comp[i].w # NoLoc => Placed(i)
    /\ task.pc = "comp" => table[task.idx].at = task.at

(* It holds after set_patch_mode. *)
LEMMA PlaceInit == Init => PlaceInv
BY Words, Callback DEF Init, PlaceInv, Empty, Idle

(* Steps of a thread write no comparator's address and no branch but the   *)
(* callback's.                                                             *)
LEMMA StepWrites ==
  ASSUME TypeInv, NEW t \in Thread, Call(t) \/ Step(t)
  PROVE  /\ UNCHANGED shell
         /\ \A i \in Idx : i # FPB_CB_REG => comp'[i].w = comp[i].w /\ table'[i] = table[i]
<1>a. ThreadType /\ SharedType /\ idx[t] \in Idx
  BY Zenon DEF TypeInv, ThreadType
<1> USE DEF Call, Execute, TakeBranch, GoWild, FilterSkips, FilterPasses, point_callback, disable_current,
            set_callback_branch, resume, read_callback, enable_comparators, close_callback,
            Step, fpb_disable_cur_inst, fpb_enable_callback
<1>1. UNCHANGED shell
  BY Zenon
<1>2. \A i \in Idx : i # FPB_CB_REG => comp'[i].w = comp[i].w
  <2>1. \/ UNCHANGED comp
        \/ \E c : comp' = [comp EXCEPT ![FPB_CB_REG] = c]
        \/ \E i \in Idx, b \in BOOLEAN : comp' = [comp EXCEPT ![i].on = b]
    BY Zenon, <1>a, Callback
  <2>2. ASSUME NEW i \in Idx, NEW b \in BOOLEAN, comp' = [comp EXCEPT ![i].on = b]
        PROVE  \A j \in Idx : comp'[j].w = comp[j].w
    BY <1>a, <2>2, SetOn DEF SharedType
  <2>3. ASSUME NEW c, comp' = [comp EXCEPT ![FPB_CB_REG] = c]
        PROVE  \A j \in Idx : j # FPB_CB_REG => comp'[j].w = comp[j].w
    BY Zenon, <1>a, <2>3 DEF SharedType
  <2> QED
    BY ONLY Zenon, <2>1, <2>2, <2>3
<1>3. \A i \in Idx : i # FPB_CB_REG => table'[i] = table[i]
  <2>1. UNCHANGED table \/ \E b : table' = [table EXCEPT ![FPB_CB_REG] = b]
    BY Zenon
  <2> QED
    BY ONLY Zenon, <1>a, <2>1 DEF SharedType
<1> QED
  BY ONLY Zenon, <1>1, <1>2, <1>3

(* They keep the places. *)
LEMMA StepPlace ==
  ASSUME TypeInv, BranchInv, PlaceInv, NEW t \in Thread, Call(t) \/ Step(t)
  PROVE  PlaceInv'
<1>1. /\ UNCHANGED shell
      /\ \A i \in Idx : i # FPB_CB_REG => comp'[i].w = comp[i].w /\ table'[i] = table[i]
  BY Zenon, StepWrites
<1>2. Plain' = Plain /\ UNCHANGED <<task, cur_idx>>
  BY Zenon, <1>1 DEF shell, Plain
<1>3. \A i \in Idx : i < FPB_CB_REG => i # FPB_CB_REG
  BY Zenon, Comparators
<1>4. Plain /\ task.pc = "comp" => task.idx \in Idx /\ task.idx # FPB_CB_REG
  BY Zenon, <1>3 DEF BranchInv, FreeInv, TypeInv, ShellType, Task
<1> QED
  BY Zenon, <1>1, <1>2, <1>3, <1>4 DEF PlaceInv, Placed

(* The shell thread uses the comparator after the last. *)
LEMMA CommandPlace ==
  ASSUME TypeInv, BranchInv, PlaceInv, Command
  PROVE  PlaceInv'
<1> SUFFICES ASSUME Plain' PROVE PlaceInv'
  BY Zenon DEF PlaceInv
<1>a. SharedType /\ ShellType /\ full \in BOOLEAN
  BY Zenon DEF TypeInv, ShellType
<1>b. \A i \in Idx : i < FPB_CB_REG => i # FPB_CB_REG /\ i < MAX_BP
  BY Zenon, Comparators
<1>c. Plain => Slot = cur_idx
  BY Words DEF PlaceInv, Slot, TypeInv, ShellType
<1>1. ASSUME NEW l \in Patch, add_hw_bkpt(l), add_fpb_bkpt_existing(l) PROVE PlaceInv'
  <2>1. PICK i \in Idx : comp' = [comp EXCEPT ![i].on = TRUE]
    BY Zenon, <1>1, Comparators DEF add_fpb_bkpt_existing
  <2>2. \A j \in Idx : comp'[j].w = comp[j].w
    BY Zenon, <1>a, <2>1, SetOn DEF SharedType
  <2>3. Plain
    BY Zenon, <1>1, <1>a DEF add_fpb_bkpt_existing, Plain
  <2>4. UNCHANGED table /\ task'.pc # "comp" /\ cur_idx' = cur_idx
    BY Zenon, <1>1, <1>c, <2>3 DEF add_fpb_bkpt_existing, Idle
  <2> QED
    BY Zenon, <2>2, <2>3, <2>4 DEF PlaceInv, Placed
<1>2. ASSUME NEW l \in Patch, add_hw_bkpt(l), Aligned(l), add_fpb_bkpt_table(l) PROVE PlaceInv'
  <2>1. Slot \in Idx
    BY Zenon, <1>a, Slots
  <2>2. /\ table' = [table EXCEPT ![Slot] = Branch(Slot, l)]
        /\ task' = [pc |-> "comp", at |-> l, idx |-> Slot]
        /\ UNCHANGED comp /\ cur_idx' = Slot
    BY Zenon, <1>2 DEF add_fpb_bkpt_table
  <2>3. Plain /\ comp[Slot] = Empty
    BY Zenon, <1>2, <1>a DEF add_fpb_bkpt_table, Plain
  <2>4. \A i \in Idx : IF i = Slot THEN table'[i].at = l ELSE table'[i] = table[i]
    BY Zenon, <1>a, <2>1, <2>2 DEF SharedType, Branch
  <2>5. cur_idx' = cur_idx /\ comp[Slot].w = NoLoc
    BY <1>c, <2>2, <2>3 DEF Empty
  <2>6. \A i \in Idx : i < FPB_CB_REG /\ comp'[i].w # NoLoc => Placed(i)'
    BY Zenon, <2>2, <2>3, <2>4, <2>5 DEF PlaceInv, Placed
  <2>7. cur_idx' <= FPB_CB_REG
    BY Zenon, <2>3, <2>5 DEF PlaceInv
  <2>8. table'[task'.idx].at = task'.at
    BY Zenon, <2>1, <2>2, <2>4
  <2> QED
    BY Zenon, <2>6, <2>7, <2>8 DEF PlaceInv
<1>3. ASSUME NEW l \in Patch, add_fpb_bkpt_half(l) PROVE PlaceInv'
  BY Zenon, <1>3 DEF add_fpb_bkpt_half, Plain
<1>4. CASE set_comparator
  <2> DEFINE i == task.idx
  <2>1. Plain /\ i \in Idx /\ task.pc = "comp" /\ UNCHANGED table /\ task'.pc # "comp"
    BY Zenon, <1>4, <1>a DEF ShellType, Task, set_comparator, Idle, Plain
  <2>2. /\ Aligned(task.at) /\ i < FPB_CB_REG /\ table[i].at = task.at /\ task.at \in Patch
        /\ cur_idx = i
    BY Zenon, <1>a, <2>1 DEF BranchInv, FreeInv, PlaceInv, ShellType
  <2>3. comp' = [comp EXCEPT ![i] = [w |-> Word(task.at), on |-> TRUE]] /\ cur_idx' = cur_idx + 1
    BY Zenon, <1>4, <2>2 DEF set_comparator
  <2>4. \A j \in Idx : IF j = i THEN comp'[j].w = Word(task.at) ELSE comp'[j] = comp[j]
    BY Zenon, <1>a, <2>1, <2>3 DEF SharedType
  <2>5. task.at \in Nat /\ 2 * Word(task.at) = task.at
    BY Zenon, <2>2, Halves, EndsFacts
  <2>6. cur_idx' <= FPB_CB_REG /\ cur_idx' > cur_idx /\ cur_idx \in Int /\ cur_idx' \in Int
    <3>1. cur_idx \in Int /\ FPB_CB_REG \in Int /\ cur_idx < FPB_CB_REG /\ cur_idx' = cur_idx + 1
      <4>1. cur_idx \in Int /\ FPB_CB_REG \in Int
        BY <1>a, Words DEF ShellType
      <4> QED
        BY ONLY Zenon, <2>2, <2>3, <4>1
    <3> QED
      BY ONLY <3>1
  <2>7. \A j \in Idx : j < cur_idx => j < cur_idx'
    <3>1. \A j, m, n \in Int : j < m /\ n > m => j < n
      OBVIOUS
    <3>2. \A j \in Idx : j \in Int
      BY DEF Idx
    <3> QED
      BY Zenon, <2>6, <3>1, <3>2
  <2>8. \A j \in Idx : j < FPB_CB_REG /\ comp'[j].w # NoLoc => Placed(j)'
    BY Zenon, <2>1, <2>2, <2>4, <2>5, <2>6, <2>7 DEF PlaceInv, Placed
  <2> QED
    BY Zenon, <2>1, <2>6, <2>8 DEF PlaceInv
<1>5. CASE set_active
  <2>1. UNCHANGED <<comp, table, cur_idx, half, full>> /\ task'.pc # "comp"
    BY Zenon, <1>5 DEF set_active, Idle
  <2> QED
    BY Zenon, <2>1 DEF PlaceInv, Placed, Plain
<1>6. CASE clear_all_hw_bkpt
  <2>1. task'.pc # "comp" /\ cur_idx' = 0 /\ 0 <= FPB_CB_REG
    <3>1. 0 <= FPB_CB_REG
      BY Words
    <3> QED
      BY Zenon, <1>6, <3>1 DEF clear_all_hw_bkpt
  <2>2. \A i \in Idx : i < FPB_CB_REG => comp'[i].w = NoLoc
    BY Zenon, <1>6, <1>b DEF clear_all_hw_bkpt, Empty
  <2> QED
    BY Zenon, <2>1, <2>2 DEF PlaceInv
<1> QED
  BY Zenon, <1>1, <1>2, <1>3, <1>4, <1>5, <1>6 DEF Command, add_hw_bkpt, set_patch_mode, reset_patch

(* Every step keeps the places. *)
LEMMA PlaceNext == TypeInv /\ BranchInv /\ PlaceInv /\ [Next]_vars => PlaceInv'
<1>1. ASSUME PlaceInv, UNCHANGED vars PROVE PlaceInv'
  BY Zenon, <1>1 DEF vars, shell, PlaceInv, Placed, Plain
<1> QED
  BY Zenon, <1>1, CommandPlace, StepPlace DEF Next
-----------------------------------------------------------------------------
(* The window of a thread that is left alone, with patches on words that   *)
(* no branch cuts in half.  The callback waits at the instruction after    *)
(* the patch whose comparator was disabled last, and a thread that is      *)
(* between two halves of a word is so because nothing, or what it has      *)
(* disabled itself, remaps that word.                                      *)
Target == 2 * comp[FPB_CB_REG].w

WindowInv == owner # None => fpb_on /\ comp[FPB_CB_REG].on /\ Target \in Ends /\ Unentered(Target)

Returning(t) ==
  owner = t =>
    /\ pc[t] \notin {"disable", "table"} => table[FPB_CB_REG].at = Target
    /\ pc[t] = "run" /\ ~Aligned(loc[t]) => comp[FPB_CB_REG].w # Word(loc[t])

Passing(t) ==
  pc[t] \in Filtering =>
    /\ fpb_on /\ idx[t] < FPB_CB_REG
    /\ idx[t] = 0 => Aligned(loc[t]) /\ comp[0].w = Word(loc[t])
    /\ pc[t] # "filter" => comp[idx[t]].w # NoLoc

Pointed(t) ==
  pc[t] \in {"disable", "table", "resume"} =>
    comp[FPB_CB_REG].on /\ Target = nxt[t] /\ nxt[t] = Next_aligned(2 * comp[idx[t]].w)

Closing(t) ==
  /\ pc[t] \in {"table", "resume", "read", "enable", "close"} => owner = t
  /\ pc[t] \in {"read", "enable", "close"} => Target = loc[t]
  /\ pc[t] \in {"enable", "close"} => nxt[t] = loc[t]

Between(t) ==
  pc[t] = "run" /\ ~Aligned(loc[t]) /\ fpb_on =>
    \A i \in Idx : i < FPB_CB_REG /\ comp[i].w = Word(loc[t]) => owner = t /\ ~comp[i].on

OwnInv(t) == Returning(t) /\ Passing(t) /\ Pointed(t) /\ Closing(t) /\ Between(t)

Outside == \A t \in Thread : pc[t] = "out" => loc[t] = 0
FlowInv == Outside /\ (alone /\ Plain /\ Tidy => WindowInv /\ \A t \in Thread : OwnInv(t))

BeforeInv == TypeInv /\ BranchInv /\ EnabledInv /\ PlaceInv

(* It holds after set_patch_mode. *)
LEMMA FlowInit == Init => FlowInv
<1> SUFFICES ASSUME Init PROVE FlowInv
  BY Zenon
<1>1. Outside /\ WindowInv
  BY Zenon DEF Init, Outside, WindowInv
<1>2. ASSUME NEW t \in Thread PROVE pc[t] = "out" /\ owner # t
  BY Zenon, FpbRemapAssumption DEF Init
<1>3. ASSUME NEW t \in Thread PROVE OwnInv(t)
  BY Zenon, <1>2 DEF OwnInv, Returning, Passing, Pointed, Closing, Between, Filtering
<1> QED
  BY Zenon, <1>1, <1>3 DEF FlowInv

(* Only the places of patches decide whether they are tidy. *)
LEMMA TidyPlaces ==
  ASSUME \A i \in Idx : i < FPB_CB_REG => comp'[i].w = comp[i].w \/ comp[i].w = NoLoc
  PROVE  Tidy' => Tidy
<1> SUFFICES ASSUME Tidy', NEW i \in 0 .. FPB_CB_REG - 1, comp[i].w # NoLoc
             PROVE  Unentered(2 * comp[i].w) /\ Unentered(Next_aligned(2 * comp[i].w))
  BY Zenon DEF Tidy
<1>1. comp'[i].w = comp[i].w
  BY Zenon, Comparators
<1> QED
  BY Zenon, <1>1 DEF Tidy

(* A patch in a comparator, and the callback after it. *)
LEMMA TidyPatch ==
  ASSUME BeforeInv, Plain, Tidy, NEW i \in Idx, i < FPB_CB_REG, comp[i].w # NoLoc
  PROVE  /\ 2 * comp[i].w \in Starts /\ 2 * comp[i].w \in 0 .. N /\ 2 * comp[i].w \in Nat
         /\ Unentered(2 * comp[i].w) /\ Unentered(Next_aligned(2 * comp[i].w))
<1>1. 2 * comp[i].w \in Patch
  BY Zenon DEF BeforeInv, PlaceInv, Placed
<1>2. \A l \in Patch : l \in Starts /\ l \in 0 .. N /\ l \in Nat
  BY FpbRemapAssumption
<1>3. i \in 0 .. FPB_CB_REG - 1
  BY Words DEF Idx
<1> QED
  BY Zenon, <1>1, <1>2, <1>3 DEF Tidy

(* A thread left alone takes its step in no other one's window. *)
LEMMA AloneFacts ==
  ASSUME TypeInv, FlowInv, NEW t \in Thread, Alone(t), alone', Plain, Tidy
  PROVE  /\ alone /\ owner \in {None, t} /\ WindowInv /\ OwnInv(t)
         /\ \A u \in Thread : u # t => pc[u] \in {"out", "run", "wild"} /\ owner # u /\ Between(u)
<1>1. alone /\ Busy \subseteq {t}
  BY Zenon DEF Alone
<1>2. owner \in {None, t} /\ \A u \in Thread : u # t => pc[u] \in {"out", "run", "wild"}
  BY Zenon, <1>1 DEF Busy, Diverted, TypeInv, HistoryType
<1>3. \A u \in Thread : u # None
  BY Zenon, FpbRemapAssumption
<1> QED
  BY Zenon, <1>1, <1>2, <1>3 DEF FlowInv, OwnInv

(* What a step of a thread leaves of the other ones' invariant. *)
LEMMA OwnFlow ==
  ASSUME TypeInv, FlowInv, NEW t \in Thread, Alone(t), UNCHANGED shell,
         \A i \in Idx : i # FPB_CB_REG => comp'[i].w = comp[i].w,
         \A u \in Thread : u # t => pc'[u] = pc[u] /\ loc'[u] = loc[u],
         owner' \in {owner, t, None},
         pc'[t] = "out" => loc'[t] = 0,
         alone' /\ Plain /\ Tidy => WindowInv' /\ OwnInv(t)'
  PROVE  FlowInv'
<1>1. Outside'
  BY Zenon DEF FlowInv, Outside
<1> SUFFICES ASSUME alone', Plain', Tidy' PROVE WindowInv' /\ \A u \in Thread : OwnInv(u)'
  BY Zenon, <1>1 DEF FlowInv
<1>2. Plain /\ Tidy /\ fpb_on' = fpb_on
  BY Zenon, TidyPlaces, Comparators DEF shell, Plain
<1>3. /\ alone /\ owner \in {None, t}
      /\ \A u \in Thread : u # t => pc[u] \in {"out", "run", "wild"} /\ owner # u /\ Between(u)
  BY Zenon, <1>2, AloneFacts
<1>4. ASSUME NEW u \in Thread, u # t PROVE OwnInv(u)'
  <2>1. pc'[u] \in {"out", "run", "wild"} /\ loc'[u] = loc[u] /\ pc'[u] = pc[u]
    BY Zenon, <1>3, <1>4
  <2>2. owner' # u
    BY Zenon, <1>3, <1>4, FpbRemapAssumption
  <2>3. Returning(u)' /\ Passing(u)' /\ Pointed(u)' /\ Closing(u)'
    BY Zenon, <2>1, <2>2 DEF Returning, Passing, Pointed, Closing, Filtering
  <2>4. Between(u)'
    <3>1. Between(u) /\ owner # u
      BY Zenon, <1>3, <1>4
    <3>2. \A i \in Idx : i < FPB_CB_REG => comp'[i].w = comp[i].w
      BY Zenon, Comparators
    <3> QED
      BY Zenon, <1>2, <2>1, <3>1, <3>2 DEF Between
  <2> QED
    BY Zenon, <2>3, <2>4 DEF OwnInv
<1> QED
  BY Zenon, <1>2, <1>4

(* The fetch of a thread that is left alone, if it is remapped: it is at a *)
(* word-aligned location, and the comparator's own branch for it is        *)
(* fetched; through the callback's comparator only where it waits for this *)
(* very thread.                                                            *)
LEMMA Fetch ==
  ASSUME BeforeInv, FlowInv, NEW t \in Thread, Alone(t), alone', Plain, Tidy, pc[t] = "run",
         NEW i \in Matching(loc[t])
  PROVE  /\ i \in Idx /\ fpb_on /\ Aligned(loc[t]) /\ comp[i].w = Word(loc[t])
         /\ table[i].at = loc[t] /\ table[i].h = i /\ (i = FPB_CB_REG \/ i < FPB_CB_REG)
         /\ i = FPB_CB_REG => owner = t /\ Target = loc[t]
<1>a. TypeInv /\ SharedType /\ ThreadType
  BY Zenon DEF BeforeInv, TypeInv
<1>b. i \in Idx /\ i < MAX_BP /\ fpb_on /\ comp[i].on /\ comp[i].w = Word(loc[t])
  <2>1. i \in 0 .. MAX_BP - 1 /\ fpb_on /\ comp[i].on /\ comp[i].w = Word(loc[t])
    BY Zenon DEF Matching
  <2>2. i \in Idx /\ i < MAX_BP
    BY <2>1, Words DEF Idx
  <2> QED
    BY Zenon, <2>1, <2>2
<1>c. loc[t] \in Nat /\ Word(loc[t]) \in Nat /\ Word(loc[t]) # NoLoc
  BY <1>a, Words, WordIsWord DEF ThreadType
<1>d. /\ alone /\ owner \in {None, t} /\ WindowInv /\ OwnInv(t)
      /\ \A u \in Thread : u # t => pc[u] \in {"out", "run", "wild"}
  BY Zenon, <1>a, AloneFacts
<1>1. CASE i < FPB_CB_REG
  <2>1. Placed(i)
    BY Zenon, <1>1, <1>b, <1>c DEF BeforeInv, PlaceInv
  <2>2. table[i].at = 2 * Word(loc[t])
    BY Zenon, <1>b, <2>1 DEF Placed
  <2>3. Aligned(loc[t])
    BY Zenon, <1>1, <1>b, <1>d DEF OwnInv, Between
  <2>4. table[i].at = loc[t]
    BY Zenon, <1>c, <2>2, <2>3, Halves
  <2>5. table[i].h = i
    BY Zenon, <1>b, <2>3, <2>4 DEF BeforeInv, BranchInv, TableInv
  <2>6. i # FPB_CB_REG
    BY Zenon, <1>1, <1>b, Comparators
  <2> QED
    BY Zenon, <1>1, <1>b, <2>3, <2>4, <2>5, <2>6
<1>2. CASE i = FPB_CB_REG
  <2>1. owner = t
    <3>1. \A u \in Thread : pc[u] # "disable"
      BY Zenon, <1>d
    <3>2. owner # None
      BY Zenon, <1>2, <1>b, <1>d, <3>1 DEF BeforeInv, EnabledInv
    <3> QED
      BY Zenon, <1>d, <3>2
  <2>2. table[FPB_CB_REG].at = Target
    BY Zenon, <1>d, <2>1 DEF OwnInv, Returning
  <2>3. Target = 2 * Word(loc[t])
    BY Zenon, <1>2, <1>b DEF Target
  <2>4. Aligned(loc[t])
    BY Zenon, <1>2, <1>b, <1>d, <2>1 DEF OwnInv, Returning
  <2>5. Target = loc[t]
    BY Zenon, <1>c, <2>3, <2>4, Halves
  <2>6. table[i].h = i
    BY Zenon, <1>2, <1>b, <2>2, <2>4, <2>5 DEF BeforeInv, BranchInv, TableInv
  <2> QED
    BY <1>2, <1>b, <2>1, <2>2, <2>4, <2>5, <2>6
<1> QED
  BY Zenon, <1>b, <1>1, <1>2, BelowCallback

(* So it never fetches half a branch, and an original instruction only     *)
(* where no comparator remaps.                                             *)
LEMMA Fetched ==
  ASSUME BeforeInv, FlowInv, NEW t \in Thread, Alone(t), alone', Plain, Tidy, pc[t] = "run"
  PROVE  /\ ~Garbled(loc[t])
         /\ Original(loc[t]) => Matching(loc[t]) = {}
<1>1. ASSUME NEW i \in Matching(loc[t]) PROVE Whole(i, loc[t]) /\ ~KeepsHalf(i, loc[t])
  <2>1. Aligned(loc[t]) /\ table[i].at = loc[t]
    BY Zenon, Fetch
  <2>2. loc[t] # loc[t] + 1
    BY DEF BeforeInv, TypeInv, ThreadType
  <2> QED
    BY Zenon, <2>1, <2>2 DEF Whole, KeepsHalf
<1> QED
  BY Zenon, <1>1 DEF Garbled, Original

(* A step that keeps the control flow of t. *)
Kept(t) ==
  /\ pc'[t] # "wild"
  /\ loc'[t] = loc[t] \/ pc'[t] = "out" \/ (pc[t] = "run" /\ loc'[t] \in Flow[loc[t]])

(* Leaving the function. *)
LEMMA LeaveOwn ==
  ASSUME TypeInv, NEW t \in Thread, WindowInv, OwnInv(t), Leave(t, "out"),
         UNCHANGED <<comp, table, shell, owner>>, pc[t] \notin {"disable", "table"}
  PROVE  WindowInv' /\ OwnInv(t)' /\ Kept(t)
<1>1. pc'[t] = "out"
  BY Zenon, Moves DEF TypeInv, Leave
<1>2. WindowInv' /\ Target' = Target
  BY Zenon DEF WindowInv, Target, shell
<1>3. Returning(t)'
  BY Zenon, <1>1, <1>2 DEF OwnInv, Returning
<1>4. Passing(t)' /\ Pointed(t)' /\ Closing(t)' /\ Between(t)'
  BY Zenon, <1>1 DEF Passing, Pointed, Closing, Between, Filtering
<1> QED
  BY Zenon, <1>1, <1>2, <1>3, <1>4 DEF OwnInv, Kept

(* Running on into trampoline 2. *)
LEMMA FallOwn ==
  ASSUME TypeInv, NEW t \in Thread, WindowInv, OwnInv(t), FallThrough(t), fpb_on,
         UNCHANGED <<comp, table, shell, owner>>, pc[t] \notin {"disable", "table"}
  PROVE  WindowInv' /\ OwnInv(t)' /\ Kept(t)
<1>1. pc'[t] = "filter" /\ idx'[t] = 2 /\ loc'[t] = loc[t] /\ fpb_on'
  BY Zenon, Moves DEF TypeInv, ThreadType, FallThrough, shell
<1>2. WindowInv' /\ Target' = Target
  BY Zenon DEF WindowInv, Target, shell
<1>3. Returning(t)'
  BY Zenon, <1>1, <1>2 DEF OwnInv, Returning
<1>4. 2 # 0
  OBVIOUS
<1>5. Passing(t)' /\ Pointed(t)' /\ Closing(t)' /\ Between(t)'
  BY Zenon, <1>1, <1>4, Callback DEF Passing, Pointed, Closing, Between, Filtering
<1> QED
  BY Zenon, <1>1, <1>2, <1>3, <1>5 DEF OwnInv, Kept

(* Where a thread is, and what comparators compare. *)
LEMMA Here ==
  ASSUME BeforeInv, NEW t \in Thread
  PROVE  /\ TypeInv /\ SharedType /\ ThreadType /\ idx[t] \in Idx
         /\ loc[t] \in 0 .. N - 1 /\ loc[t] \in 0 .. N /\ loc[t] \in Nat
         /\ \A i \in Idx : comp[i].w \in Int
<1>1. TypeInv /\ SharedType /\ ThreadType
  BY Zenon DEF BeforeInv, TypeInv
<1>2. idx[t] \in Idx /\ loc[t] \in 0 .. N - 1
  BY Zenon, <1>1 DEF ThreadType
<1>3. loc[t] \in 0 .. N /\ loc[t] \in Nat
  BY <1>2, EndsFacts
<1>4. \A c \in Comparator : c.w \in Int
  <2>1. Word(N) \in Nat
    BY Zenon, Words
  <2> QED
    BY <2>1 DEF Comparator, NoLoc
<1>5. \A i \in Idx : comp[i].w \in Int
  BY Zenon, <1>1, <1>4 DEF SharedType
<1> QED
  BY Zenon, <1>1, <1>2, <1>3, <1>5

(* A thread that has disabled a comparator does not execute the word at    *)
(* which the callback waits.                                               *)
LEMMA NotYet ==
  ASSUME BeforeInv, FlowInv, NEW t \in Thread, Alone(t), alone', Plain, Tidy, pc[t] = "run", Original(loc[t]), owner = t
  PROVE  /\ comp[FPB_CB_REG].w # Word(loc[t]) /\ loc[t] # Target
         /\ Target \in Ends /\ Target \in Nat /\ Unentered(Target) /\ comp[FPB_CB_REG].w \in Nat
<1>a. TypeInv /\ SharedType /\ loc[t] \in 0 .. N - 1 /\ loc[t] \in Nat
  BY Zenon, Here
<1>b. WindowInv /\ OwnInv(t)
  BY Zenon, <1>a, AloneFacts
<1>2. fpb_on /\ comp[FPB_CB_REG].on /\ Target \in Ends /\ Target \in Nat /\ Unentered(Target)
  BY Zenon, <1>b, FpbRemapAssumption, EndsFacts DEF WindowInv
<1>3. comp[FPB_CB_REG].w # Word(loc[t])
  <2>1. FPB_CB_REG \in 0 .. MAX_BP - 1
    BY Words
  <2>2. Matching(loc[t]) = {}
    BY Zenon, Fetched
  <2> QED
    BY Zenon, <1>2, <2>1, <2>2 DEF Matching
<1>4. comp[FPB_CB_REG].w \in Nat
  <2>1. comp[FPB_CB_REG].w \in Int
    BY <1>a, Words, Callback DEF SharedType, Comparator, NoLoc
  <2> QED
    BY <1>2, <2>1 DEF Target
<1>5. loc[t] # Target
  BY Zenon, <1>3, <1>4, Halves DEF Target
<1> QED
  BY Zenon, <1>2, <1>3, <1>4, <1>5

(* Calls and fetches. *)
LEMMA ProcessorOwn ==
  ASSUME BeforeInv, FlowInv, NEW t \in Thread, alone', Plain, Tidy,
         Call(t) \/ Execute(t) \/ TakeBranch(t) \/ GoWild(t)
  PROVE  WindowInv' /\ OwnInv(t)' /\ Kept(t)
<1>a. TypeInv /\ SharedType /\ ThreadType
  BY Zenon DEF BeforeInv, TypeInv
<1>b. Alone(t) /\ UNCHANGED <<comp, table, shell, owner>>
  BY Zenon DEF Call, Execute, TakeBranch, GoWild
<1>c. alone /\ owner \in {None, t} /\ WindowInv /\ OwnInv(t)
  BY Zenon, <1>a, <1>b, AloneFacts
<1>d. WindowInv' /\ Target' = Target /\ fpb_on' = fpb_on
  BY Zenon, <1>b, <1>c DEF WindowInv, Target, shell
<1>e. loc[t] \in 0 .. N - 1 /\ loc[t] \in Nat
  BY <1>a, Words DEF ThreadType
<1>1. CASE Call(t)
  <2>1. pc[t] = "out" /\ pc'[t] = "run" /\ loc'[t] = loc[t]
    BY Zenon, <1>1, <1>a, Moves DEF Call
  <2>2. loc[t] = 0
    BY Zenon, <2>1 DEF FlowInv, Outside
  <2>3. Aligned(loc'[t])
    BY <2>1, <2>2 DEF Aligned
  <2>4. Returning(t)'
    BY Zenon, <1>b, <1>c, <1>d, <2>1, <2>3 DEF OwnInv, Returning
  <2>5. Passing(t)' /\ Pointed(t)' /\ Closing(t)' /\ Between(t)'
    BY Zenon, <2>1, <2>3 DEF Passing, Pointed, Closing, Between, Filtering
  <2> QED
    BY Zenon, <1>d, <2>1, <2>4, <2>5 DEF OwnInv, Kept
<1>2. CASE Execute(t)
  <2>0. pc[t] = "run" /\ Original(loc[t])
    BY Zenon, <1>2 DEF Execute
  <2>1. CASE Leave(t, "out")
    BY Zenon, <1>a, <1>b, <1>c, <2>0, <2>1, LeaveOwn
  <2>2. ASSUME NEW l \in Flow[loc[t]] \ {N}, UNCHANGED pc, loc' = [loc EXCEPT ![t] = l]
        PROVE  WindowInv' /\ OwnInv(t)' /\ Kept(t)
    <3>1. pc'[t] = "run" /\ loc'[t] = l
      BY Zenon, <1>a, <2>0, <2>2 DEF ThreadType
    <3>2. Matching(loc[t]) = {}
      BY Zenon, <1>b, <2>0, Fetched
    <3>3. l \in Nat /\ l \in Flow[loc[t]]
      BY Zenon, <1>e, FlowInside
    <3>4. Returning(t)'
      <4> SUFFICES ASSUME owner = t
                   PROVE  /\ table[FPB_CB_REG].at = Target
                          /\ ~Aligned(l) => comp[FPB_CB_REG].w # Word(l)
        BY Zenon, <1>b, <1>d, <3>1 DEF Returning
      <4>1. table[FPB_CB_REG].at = Target
        BY Zenon, <1>c, <2>0 DEF OwnInv, Returning
      <4>2. loc[t] # Target /\ Unentered(Target)
        BY Zenon, <1>b, <2>0, NotYet
      <4>3. ASSUME ~Aligned(l), comp[FPB_CB_REG].w = Word(l) PROVE FALSE
        <5>1. Target + 1 = l
          BY Zenon, <3>3, <4>3, Halves DEF Target
        <5> QED
          BY Zenon, <1>e, <3>3, <4>2, <5>1 DEF Unentered
      <4> QED
        BY Zenon, <4>1, <4>3
    <3>5. Between(t)'
      <4> SUFFICES ASSUME ~Aligned(l), fpb_on, NEW i \in Idx, i < FPB_CB_REG, comp[i].w = Word(l)
                   PROVE  owner = t /\ ~comp[i].on
        BY Zenon, <1>b, <1>d, <3>1 DEF Between
      <4> DEFINE s == 2 * comp[i].w
      <4>1. comp[i].w # NoLoc
        BY Zenon, <3>3, WordIsWord
      <4>2. Unentered(s)
        BY Zenon, <4>1, TidyPatch
      <4>3. s + 1 = l
        BY Zenon, <3>3, Halves
      <4>4. s = loc[t]
        BY Zenon, <1>e, <3>3, <4>2, <4>3 DEF Unentered
      <4>5. comp[i].w = Word(loc[t])
        <5>1. comp[i].w \in Nat
          BY Zenon, <3>3, Words
        <5> QED
          BY Zenon, <4>4, <5>1, Halves
      <4>6. ~comp[i].on
        <5>1. i \in 0 .. MAX_BP - 1
          BY Words DEF Idx
        <5> QED
          BY Zenon, <3>2, <4>5, <5>1 DEF Matching
      <4>7. owner # None
        BY Zenon, <1>c, <4>1, <4>6 DEF BeforeInv, EnabledInv, Armed
      <4> QED
        BY Zenon, <1>c, <4>6, <4>7
    <3>6. Passing(t)' /\ Pointed(t)' /\ Closing(t)'
      BY Zenon, <3>1 DEF Passing, Pointed, Closing, Filtering
    <3> QED
      BY Zenon, <1>d, <2>0, <3>1, <3>3, <3>4, <3>5, <3>6 DEF OwnInv, Kept
  <2> QED
    BY Zenon, <1>2, <2>1, <2>2 DEF Execute
<1>3. CASE TakeBranch(t)
  <2>1. PICK h \in Branches(loc[t]) :
          idx' = [idx EXCEPT ![t] = h] /\ Goto(t, IF h = FPB_CB_REG THEN "read" ELSE "filter")
    BY Zenon, <1>3 DEF TakeBranch
  <2>2. pc[t] = "run" /\ loc'[t] = loc[t] /\ idx'[t] = h
    BY Zenon, <1>3, <1>a, <2>1 DEF TakeBranch, ThreadType
  <2>3. PICK i \in Matching(loc[t]) : table[i].h = h
    BY Zenon DEF Branches
  <2>4. /\ h \in Idx /\ fpb_on /\ Aligned(loc[t]) /\ comp[h].w = Word(loc[t])
        /\ h = FPB_CB_REG \/ h < FPB_CB_REG
        /\ h = FPB_CB_REG => owner = t /\ Target = loc[t]
    <3>1. /\ i \in Idx /\ fpb_on /\ Aligned(loc[t]) /\ comp[i].w = Word(loc[t])
          /\ table[i].h = i /\ (i = FPB_CB_REG \/ i < FPB_CB_REG)
          /\ i = FPB_CB_REG => owner = t /\ Target = loc[t]
      BY Zenon, <1>b, <2>2, Fetch
    <3> QED
      BY Zenon, <2>3, <3>1
  <2>5. pc'[t] = IF h = FPB_CB_REG THEN "read" ELSE "filter"
    BY Zenon, <1>a, <2>1, Moves
  <2>6. Returning(t)'
    BY Zenon, <1>b, <1>c, <1>d, <2>2, <2>5 DEF OwnInv, Returning
  <2>7. Passing(t)' /\ Pointed(t)' /\ Closing(t)' /\ Between(t)'
    BY Zenon, <1>b, <1>d, <2>2, <2>4, <2>5 DEF Passing, Pointed, Closing, Between, Filtering
  <2> QED
    BY Zenon, <1>d, <2>2, <2>5, <2>6, <2>7 DEF OwnInv, Kept
<1>4. ~GoWild(t)
  BY Zenon, <1>b, Fetched DEF GoWild
<1> QED
  BY Zenon, <1>1, <1>2, <1>3, <1>4

(* The trampoline of a patch. *)
LEMMA TrampolineOwn ==
  ASSUME BeforeInv, FlowInv, NEW t \in Thread, alone', Plain, Tidy,
         FilterSkips(t) \/ FilterPasses(t) \/ fpb_disable_cur_inst(t)
  PROVE  WindowInv' /\ OwnInv(t)' /\ Kept(t)
<1>a. TypeInv /\ SharedType /\ ThreadType /\ ShellType
  BY Zenon DEF BeforeInv, TypeInv
<1>b. Alone(t) /\ UNCHANGED shell
  BY Zenon DEF FilterSkips, FilterPasses, fpb_disable_cur_inst, point_callback, disable_current,
         set_callback_branch, resume
<1>c. alone /\ owner \in {None, t} /\ WindowInv /\ OwnInv(t) /\ fpb_on' = fpb_on
  BY Zenon, <1>a, <1>b, AloneFacts DEF shell
<1>d. loc[t] \in 0 .. N - 1 /\ loc[t] \in 0 .. N /\ loc[t] \in Nat /\ idx[t] \in Idx
  BY <1>a, Words DEF ThreadType
<1>e. pc[t] \in Filtering
  BY Zenon DEF FilterSkips, FilterPasses, fpb_disable_cur_inst, point_callback, disable_current,
         set_callback_branch, resume, Filtering
<1>f. /\ fpb_on /\ idx[t] # FPB_CB_REG /\ idx[t] < FPB_CB_REG
      /\ idx[t] = 0 => Aligned(loc[t]) /\ comp[0].w = Word(loc[t])
      /\ pc[t] # "filter" => comp[idx[t]].w # NoLoc
  BY Zenon, <1>a, <1>c, <1>e DEF OwnInv, Passing, ThreadType, Filtering
<1> DEFINE l == 2 * comp[idx[t]].w  n == Next_aligned(l)
<1>g. pc[t] # "filter" =>
        /\ l \in 0 .. N /\ l \in Nat /\ Unentered(n)
        /\ n \in Ends /\ n \in Nat /\ Aligned(n)
  <2> SUFFICES ASSUME pc[t] # "filter" PROVE l \in 0 .. N /\ l \in Nat /\ Unentered(n)
    BY Zenon, NextFacts
  <2> QED
    BY Zenon, <1>d, <1>f, TidyPatch
<1>1. CASE FilterSkips(t)
  <2>1. pc[t] = "filter" /\ UNCHANGED <<comp, table, shell, owner>> /\ (FallThrough(t) \/ Leave(t, "out"))
    BY Zenon, <1>1 DEF FilterSkips, Return
  <2> QED
    BY Zenon, <1>a, <1>c, <1>f, <2>1, LeaveOwn, FallOwn
<1>2. CASE FilterPasses(t)
  <2>1. /\ pc[t] = "filter" /\ pc'[t] = "next" /\ loc'[t] = loc[t] /\ idx'[t] = idx[t]
        /\ UNCHANGED <<comp, table, owner>> /\ l \in active
    BY Zenon, <1>2, <1>a, Moves DEF FilterPasses
  <2>2. WindowInv' /\ Target' = Target
    BY Zenon, <1>c, <2>1 DEF WindowInv, Target
  <2>3. Returning(t)'
    BY Zenon, <1>c, <2>1, <2>2 DEF OwnInv, Returning
  <2>4. comp[idx[t]].w # NoLoc
    <3>1. \A p \in Patch : p \in Nat
      BY FpbRemapAssumption
    <3>2. l \in Nat
      BY Zenon, <1>a, <2>1, <3>1 DEF ShellType
    <3> QED
      BY <3>2 DEF NoLoc
  <2>5. Passing(t)' /\ Pointed(t)' /\ Closing(t)' /\ Between(t)'
    BY Zenon, <1>c, <1>f, <2>1, <2>4 DEF Passing, Pointed, Closing, Between, Filtering
  <2> QED
    BY Zenon, <2>1, <2>2, <2>3, <2>5 DEF OwnInv, Kept
<1>3. CASE point_callback(t)
  <2>1. /\ n \in Ends /\ n \in Nat /\ Aligned(n) /\ Unentered(n) /\ l \in Nat
        /\ comp[idx[t]].w # NoLoc
    BY Zenon, <1>3, <1>f, <1>g DEF point_callback
  <2>2. ~(l < 0)
    BY <2>1
  <2>3. /\ comp' = [comp EXCEPT ![FPB_CB_REG] = [w |-> Word(n), on |-> TRUE]]
        /\ nxt' = [nxt EXCEPT ![t] = n]
        /\ Goto(t, "disable") /\ UNCHANGED <<loc, idx, table, owner>>
    BY Zenon, <1>3, <2>2 DEF point_callback
  <2>4. pc'[t] = "disable" /\ nxt'[t] = n /\ loc'[t] = loc[t] /\ idx'[t] = idx[t]
    BY Zenon, <1>a, <2>3, Moves DEF ThreadType
  <2>5. /\ comp'[FPB_CB_REG].w = Word(n) /\ comp'[FPB_CB_REG].on /\ comp'[idx[t]] = comp[idx[t]]
        /\ comp'[0] = comp[0]
    BY Zenon, <1>a, <1>d, <1>f, <2>3, Callback DEF SharedType
  <2>6. Target' = n
    BY Zenon, <2>1, <2>5, Halves DEF Target
  <2>7. WindowInv'
    BY Zenon, <1>c, <1>f, <2>1, <2>5, <2>6 DEF WindowInv
  <2>8. Returning(t)' /\ Passing(t)' /\ Pointed(t)' /\ Closing(t)' /\ Between(t)'
    BY Zenon, <1>c, <1>f, <2>1, <2>4, <2>5, <2>6 DEF Returning, Passing, Pointed, Closing, Between, Filtering
  <2> QED
    BY Zenon, <2>4, <2>7, <2>8 DEF OwnInv, Kept
<1>4. CASE disable_current(t)
  <2>1. /\ pc[t] = "disable" /\ pc'[t] = "table" /\ UNCHANGED <<loc, idx, nxt, table>> /\ owner' = t
        /\ comp' = [comp EXCEPT ![idx[t]].on = FALSE]
    BY Zenon, <1>4, <1>a, Moves DEF disable_current
  <2>2. comp'[FPB_CB_REG] = comp[FPB_CB_REG] /\ comp'[idx[t]].w = comp[idx[t]].w /\ comp'[0].w = comp[0].w
    BY <1>a, <1>d, <1>f, <2>1, SetOn, Callback DEF SharedType
  <2>3. Target' = Target
    BY Zenon, <2>2 DEF Target
  <2>4. comp[FPB_CB_REG].on /\ Target = nxt[t] /\ nxt[t] = n /\ comp[idx[t]].w # NoLoc
    BY Zenon, <1>c, <1>f, <2>1 DEF OwnInv, Pointed
  <2>5. Target \in Ends /\ Unentered(Target)
    BY Zenon, <1>g, <2>1, <2>4
  <2>6. WindowInv'
    BY Zenon, <1>c, <1>f, <2>2, <2>3, <2>4, <2>5 DEF WindowInv
  <2>7. Returning(t)' /\ Passing(t)' /\ Pointed(t)' /\ Closing(t)' /\ Between(t)'
    BY Zenon, <1>c, <1>f, <2>1, <2>2, <2>3, <2>4 DEF Returning, Passing, Pointed, Closing, Between, Filtering
  <2> QED
    BY Zenon, <2>1, <2>6, <2>7 DEF OwnInv, Kept
<1>5. CASE set_callback_branch(t)
  <2>1. /\ pc[t] = "table" /\ pc'[t] = "resume" /\ UNCHANGED <<loc, idx, nxt, comp, owner>>
        /\ table' = [table EXCEPT ![FPB_CB_REG] = Branch(FPB_CB_REG, nxt[t])]
    BY Zenon, <1>5, <1>a, Moves DEF set_callback_branch
  <2>2. table'[FPB_CB_REG].at = nxt[t]
    BY Zenon, <1>a, <2>1, Callback DEF SharedType, Branch
  <2>3. Target' = Target /\ WindowInv'
    BY Zenon, <1>c, <2>1 DEF Target, WindowInv
  <2>4. comp[FPB_CB_REG].on /\ Target = nxt[t] /\ nxt[t] = n /\ owner = t /\ comp[idx[t]].w # NoLoc
    BY Zenon, <1>c, <1>f, <2>1 DEF OwnInv, Pointed, Closing
  <2>5. Returning(t)' /\ Passing(t)' /\ Pointed(t)' /\ Closing(t)' /\ Between(t)'
    BY Zenon, <1>c, <1>f, <2>1, <2>2, <2>3, <2>4 DEF Returning, Passing, Pointed, Closing, Between, Filtering
  <2> QED
    BY Zenon, <2>1, <2>3, <2>5 DEF OwnInv, Kept
<1>6. CASE resume(t)
  <2>0. pc[t] = "resume" /\ UNCHANGED <<comp, table, shell, owner>>
    BY Zenon, <1>6 DEF resume
  <2>1. CASE Leave(t, "out") \/ FallThrough(t)
    BY Zenon, <1>a, <1>c, <1>f, <2>0, <2>1, LeaveOwn, FallOwn
  <2>2. idx[t] = 0 => comp[0].w \in Nat /\ 2 * comp[0].w = loc[t]
    <3>1. Word(loc[t]) \in Nat
      BY Zenon, <1>d, Words
    <3>2. Aligned(loc[t]) => 2 * Word(loc[t]) = loc[t]
      BY Zenon, <1>d, Halves
    <3> QED
      BY Zenon, <1>f, <3>1, <3>2
  <2>3. CASE idx[t] = 0 /\ loc' = [loc EXCEPT ![t] = 2 * comp[idx[t]].w] /\ Goto(t, "run")
    <3>1. pc'[t] = "run" /\ loc'[t] = loc[t] /\ Aligned(loc[t])
      BY Zenon, <1>a, <1>f, <2>2, <2>3, Moves DEF ThreadType
    <3>2. Target' = Target /\ WindowInv'
      BY Zenon, <1>c, <2>0 DEF Target, WindowInv
    <3>3. table[FPB_CB_REG].at = Target
      BY Zenon, <1>c, <2>0 DEF OwnInv, Closing, Returning
    <3>4. Returning(t)'
      BY Zenon, <2>0, <3>1, <3>2, <3>3 DEF Returning
    <3>5. Passing(t)' /\ Pointed(t)' /\ Closing(t)' /\ Between(t)'
      BY Zenon, <1>f, <3>1 DEF Passing, Pointed, Closing, Between, Filtering
    <3> QED
      BY Zenon, <3>1, <3>2, <3>4, <3>5 DEF OwnInv, Kept
  <2>4. idx[t] = 0 => comp[idx[t]].w \in 0 .. Word(N) - 1
    <3> SUFFICES ASSUME idx[t] = 0 PROVE comp[0].w \in 0 .. Word(N) - 1
      BY Zenon
    <3>1. Word(N) \in Nat /\ 2 * Word(N) = N
      BY Zenon, Words
    <3> DEFINE w == comp[0].w  W == Word(N)
    <3>2. w \in Nat /\ 2 * w = loc[t] /\ W \in Nat /\ 2 * W = N
      BY Zenon, <2>2, <3>1
    <3> HIDE DEF w, W
    <3>3. w \in 0 .. W - 1
      BY <1>d, <3>2
    <3> QED
      BY Zenon, <3>3 DEF w, W
  <2> QED
    BY Zenon, <1>6, <2>1, <2>3, <2>4 DEF resume, Return
<1> QED
  BY Zenon, <1>1, <1>2, <1>3, <1>4, <1>5, <1>6 DEF fpb_disable_cur_inst

(* The callback. *)
LEMMA CallbackOwn ==
  ASSUME BeforeInv, FlowInv, NEW t \in Thread, alone', Plain, Tidy, fpb_enable_callback(t)
  PROVE  WindowInv' /\ OwnInv(t)' /\ Kept(t)
<1>a. TypeInv /\ SharedType /\ ThreadType
  BY Zenon DEF BeforeInv, TypeInv
<1>b. Alone(t) /\ UNCHANGED shell
  BY Zenon DEF fpb_enable_callback, read_callback, enable_comparators, close_callback
<1>c. alone /\ owner \in {None, t} /\ WindowInv /\ OwnInv(t) /\ fpb_on' = fpb_on
  BY Zenon, <1>a, <1>b, AloneFacts DEF shell
<1>d. loc[t] \in 0 .. N - 1 /\ loc[t] \in Nat /\ idx[t] \in Idx
  BY <1>a, Words DEF ThreadType
<1>e. pc[t] \in {"read", "enable", "close"}
  BY Zenon DEF fpb_enable_callback, read_callback, enable_comparators, close_callback
<1>f. Target = loc[t] /\ owner = t /\ table[FPB_CB_REG].at = Target
  BY Zenon, <1>c, <1>e DEF OwnInv, Closing, Returning
<1>g. comp[FPB_CB_REG].w \in Nat
  <2>1. comp[FPB_CB_REG].w \in Int
    BY <1>a, Words, Callback DEF SharedType, Comparator, NoLoc
  <2> QED
    BY <1>d, <1>f, <2>1 DEF Target
<1>1. CASE read_callback(t)
  <2>1. comp[FPB_CB_REG].w # NoLoc
    BY <1>g DEF NoLoc
  <2>2. /\ nxt' = [nxt EXCEPT ![t] = Target] /\ Goto(t, "enable")
        /\ UNCHANGED <<loc, comp, table, owner>>
    BY Zenon, <1>1, <2>1 DEF read_callback, Target
  <2>3. pc'[t] = "enable" /\ nxt'[t] = loc[t] /\ loc'[t] = loc[t]
    BY Zenon, <1>a, <1>f, <2>2, Moves DEF ThreadType
  <2>4. Target' = Target /\ WindowInv'
    BY Zenon, <1>c, <2>2 DEF Target, WindowInv
  <2>5. Returning(t)' /\ Passing(t)' /\ Pointed(t)' /\ Closing(t)' /\ Between(t)'
    BY Zenon, <1>f, <2>2, <2>3, <2>4 DEF Returning, Passing, Pointed, Closing, Between, Filtering
  <2> QED
    BY Zenon, <2>3, <2>4, <2>5 DEF OwnInv, Kept
<1>2. CASE enable_comparators(t)
  <2>1. /\ pc[t] = "enable" /\ UNCHANGED <<table, loc, nxt, owner>>
        /\ comp' = [comp EXCEPT ![idx[t]].on = (comp[idx[t]] # Empty)]
    BY Zenon, <1>2 DEF enable_comparators
  <2>2. pc'[t] \in {"enable", "close"}
    BY Zenon, <1>2, <1>a, Moves DEF enable_comparators
  <2>3. idx[t] # FPB_CB_REG
    BY Zenon, <1>a, <1>d, <2>1, Comparators DEF ThreadType
  <2>4. comp'[FPB_CB_REG] = comp[FPB_CB_REG]
    BY Zenon, <1>a, <1>d, <2>1, <2>3, SetOn, Callback DEF SharedType
  <2>5. Target' = Target /\ WindowInv'
    BY Zenon, <1>c, <2>1, <2>4 DEF Target, WindowInv
  <2>6. nxt[t] = loc[t]
    BY Zenon, <1>c, <2>1 DEF OwnInv, Closing
  <2>7. Returning(t)' /\ Passing(t)' /\ Pointed(t)' /\ Closing(t)' /\ Between(t)'
    BY Zenon, <1>f, <2>1, <2>2, <2>5, <2>6 DEF Returning, Passing, Pointed, Closing, Between, Filtering
  <2> QED
    BY Zenon, <2>1, <2>2, <2>5, <2>7 DEF OwnInv, Kept
<1>3. CASE close_callback(t)
  <2>1. nxt[t] = loc[t] /\ nxt[t] < N
    <3>1. nxt[t] = loc[t]
      BY Zenon, <1>3, <1>c DEF OwnInv, Closing, close_callback
    <3>2. loc[t] \in 0 .. N - 1 /\ N \in Nat
      BY Zenon, <1>d, EndsFacts
    <3> QED
      BY ONLY <3>1, <3>2
  <2>2. loc' = [loc EXCEPT ![t] = nxt[t]] /\ Goto(t, "run") /\ owner' = None
    BY <1>3, <1>d, <2>1, Words DEF close_callback
  <2>3. pc'[t] = "run" /\ loc'[t] = loc[t]
    BY Zenon, <1>a, <2>1, <2>2, Moves DEF ThreadType
  <2>4. owner' # t /\ WindowInv'
    BY Zenon, <2>2, FpbRemapAssumption DEF WindowInv
  <2>5. Aligned(loc[t])
    BY Zenon, <1>f, <1>g, Halves DEF Target
  <2>6. Returning(t)' /\ Passing(t)' /\ Pointed(t)' /\ Closing(t)' /\ Between(t)'
    BY Zenon, <2>3, <2>4, <2>5 DEF Returning, Passing, Pointed, Closing, Between, Filtering
  <2> QED
    BY Zenon, <2>3, <2>4, <2>6 DEF OwnInv, Kept
<1> QED
  BY Zenon, <1>1, <1>2, <1>3 DEF fpb_enable_callback

(* What every step of a thread leaves alone. *)
LEMMA StepFrame ==
  ASSUME TypeInv, NEW t \in Thread, Call(t) \/ Step(t)
  PROVE  /\ Alone(t) /\ owner' \in {owner, t, None}
         /\ \A u \in Thread : u # t => pc'[u] = pc[u] /\ loc'[u] = loc[u]
         /\ pc'[t] = "out" => loc'[t] = 0
<1>a. ThreadType
  BY Zenon DEF TypeInv
<1> USE DEF Call, Execute, TakeBranch, GoWild, FilterSkips, FilterPasses, point_callback, disable_current,
            set_callback_branch, resume, read_callback, enable_comparators, close_callback,
            Step, fpb_disable_cur_inst, fpb_enable_callback, Return, FallThrough
<1>1. Alone(t) /\ owner' \in {owner, t, None}
  BY Zenon
<1>2. \/ Leave(t, "out") \/ (UNCHANGED pc /\ pc[t] = "run")
      \/ \E p \in Pc \ {"out"} : Goto(t, p)
  BY Zenon DEF Leave, Pc
<1>3. UNCHANGED loc \/ \E l : loc' = [loc EXCEPT ![t] = l]
  BY Zenon DEF Leave
<1>4. \A u \in Thread : u # t => loc'[u] = loc[u]
  BY ONLY <1>a, <1>3 DEF ThreadType
<1>5. ASSUME Leave(t, "out")
      PROVE  (\A u \in Thread : u # t => pc'[u] = pc[u]) /\ loc'[t] = 0
  BY ONLY <1>a, <1>5, Moves DEF ThreadType, Leave
<1>6. ASSUME NEW p \in Pc \ {"out"}, Goto(t, p)
      PROVE  (\A u \in Thread : u # t => pc'[u] = pc[u]) /\ pc'[t] # "out"
  BY ONLY <1>a, <1>6, Moves
<1> QED
  BY ONLY <1>1, <1>2, <1>4, <1>5, <1>6

(* So a step of a thread keeps the invariant, and in a window of its own   *)
(* the control flow.                                                       *)
LEMMA StepFlow ==
  ASSUME BeforeInv, FlowInv, NEW t \in Thread, Call(t) \/ Step(t)
  PROVE  FlowInv' /\ (alone' /\ Plain /\ Tidy => Kept(t))
<1>1. alone' /\ Plain /\ Tidy => WindowInv' /\ OwnInv(t)' /\ Kept(t)
  BY Zenon, ProcessorOwn, TrampolineOwn, CallbackOwn DEF Step
<1>2. TypeInv
  BY Zenon DEF BeforeInv
<1>3. /\ Alone(t) /\ owner' \in {owner, t, None} /\ UNCHANGED shell
      /\ \A u \in Thread : u # t => pc'[u] = pc[u] /\ loc'[u] = loc[u]
      /\ pc'[t] = "out" => loc'[t] = 0
      /\ \A i \in Idx : i # FPB_CB_REG => comp'[i].w = comp[i].w
  BY Zenon, <1>2, StepFrame, StepWrites
<1> QED
  BY Zenon, <1>1, <1>2, <1>3, OwnFlow

(* A command outside every window puts no comparator on a word that a      *)
(* thread is in the middle of.                                             *)
LEMMA CommandFlow ==
  ASSUME BeforeInv, FlowInv, Command
  PROVE  FlowInv'
<1>a. TypeInv /\ SharedType /\ ShellType /\ ThreadType
  BY Zenon DEF BeforeInv, TypeInv
<1>b. UNCHANGED <<pc, loc>>
  BY Zenon DEF Command, add_hw_bkpt, set_comparator, set_active, set_patch_mode, reset_patch, clear_all_hw_bkpt
<1>c. Outside'
  BY Zenon, <1>b DEF FlowInv, Outside
<1> SUFFICES ASSUME alone', Plain', Tidy' PROVE WindowInv' /\ \A t \in Thread : OwnInv(t)'
  BY Zenon, <1>c DEF FlowInv
<1>1. alone /\ Busy = {} /\ owner' \in {owner, None}
  BY Zenon DEF Command, add_hw_bkpt, set_comparator, set_active, set_patch_mode, reset_patch, clear_all_hw_bkpt
<1>2. owner = None /\ owner' = None /\ \A t \in Thread : pc[t] \in {"out", "run", "wild"} /\ t # None
  BY Zenon, <1>1, FpbRemapAssumption DEF Busy, Diverted
<1>3. WindowInv'
  BY Zenon, <1>2 DEF WindowInv
<1>4. \A t \in Thread : Returning(t)' /\ Passing(t)' /\ Pointed(t)' /\ Closing(t)'
  BY Zenon, <1>b, <1>2 DEF Returning, Passing, Pointed, Closing, Filtering
<1>5. ASSUME NEW t \in Thread PROVE Between(t)'
  <2> SUFFICES ASSUME pc[t] = "run", ~Aligned(loc[t]), fpb_on', NEW i \in Idx, i < FPB_CB_REG,
                      comp'[i].w = Word(loc[t])
               PROVE  FALSE
    BY Zenon, <1>b DEF Between
  <2>1. loc[t] \in Nat
    BY <1>a DEF ThreadType
  <2>2. Plain /\ Tidy /\ fpb_on => comp[i].w # Word(loc[t])
    BY Zenon, <1>1, <1>2 DEF FlowInv, OwnInv, Between
  <2>3. ASSUME NEW l \in Patch, add_hw_bkpt(l) PROVE FALSE
    <3>1. fpb_on
      BY Zenon, <2>3 DEF add_hw_bkpt
    <3>2. CASE Aligned(l) /\ add_fpb_bkpt_existing(l)
      <4>1. Plain
        BY Zenon, <1>a, <3>2 DEF add_fpb_bkpt_existing, Plain, ShellType
      <4>2. PICK j \in Idx : comp' = [comp EXCEPT ![j].on = TRUE]
        BY Zenon, <3>2, Comparators DEF add_fpb_bkpt_existing
      <4>3. \A k \in Idx : comp'[k].w = comp[k].w
        BY Zenon, <1>a, <4>2, SetOn DEF SharedType
      <4>4. Tidy
        BY Zenon, <4>3, TidyPlaces
      <4> QED
        BY Zenon, <2>2, <3>1, <4>1, <4>3, <4>4
    <3>3. CASE add_fpb_bkpt_table(l)
      <4>1. Plain /\ UNCHANGED comp
        BY Zenon, <1>a, <3>3 DEF add_fpb_bkpt_table, Plain, ShellType
      <4>2. Tidy
        BY Zenon, <4>1, TidyPlaces
      <4> QED
        BY Zenon, <2>2, <3>1, <4>1, <4>2
    <3>4. CASE add_fpb_bkpt_half(l)
      BY Zenon, <3>4 DEF add_fpb_bkpt_half, Plain
    <3> QED
      BY Zenon, <2>3, <3>2, <3>3, <3>4 DEF add_hw_bkpt
  <2>4. CASE set_comparator
    <3>1. Plain /\ fpb_on /\ task.pc = "comp" /\ task.idx \in Idx /\ ~Straddled(task.at)
      BY Zenon, <1>a, <2>4 DEF set_comparator, Plain, ShellType, Task
    <3>2. Aligned(task.at) /\ comp[task.idx].w = NoLoc
      BY Zenon, <3>1 DEF BeforeInv, BranchInv, FreeInv
    <3>3. comp' = [comp EXCEPT ![task.idx] = [w |-> Word(task.at), on |-> TRUE]]
      BY Zenon, <2>4, <3>2 DEF set_comparator
    <3>4. comp'[i].w = comp[i].w \/ comp'[i].w = Word(task.at)
      BY Zenon, <1>a, <3>1, <3>3 DEF SharedType
    <3>7. Tidy
      <4>1. \A k \in Idx : comp'[k].w = comp[k].w \/ comp[k].w = NoLoc
        BY Zenon, <1>a, <3>1, <3>2, <3>3 DEF SharedType
      <4> QED
        BY Zenon, <4>1, TidyPlaces
    <3>5. Word(task.at) = Word(loc[t])
      BY Zenon, <2>2, <3>1, <3>4, <3>7
    <3>6. loc[t] # task.at
      BY Zenon, <3>2
    <3> QED
      BY Zenon, <3>1, <3>5, <3>6 DEF Straddled
  <2>5. CASE set_active
    <3>1. UNCHANGED <<comp, fpb_on>> /\ Plain
      BY Zenon, <2>5 DEF set_active, Plain
    <3>2. Tidy
      BY Zenon, <3>1, TidyPlaces
    <3> QED
      BY Zenon, <2>2, <3>1, <3>2
  <2>6. CASE clear_all_hw_bkpt
    <3>1. comp'[i].w = NoLoc
      BY Zenon, <2>6, Comparators DEF clear_all_hw_bkpt, Empty
    <3> QED
      BY Zenon, <2>1, <3>1, WordIsWord
  <2> QED
    BY Zenon, <2>3, <2>4, <2>5, <2>6 DEF Command, set_patch_mode, reset_patch
<1> QED
  BY Zenon, <1>3, <1>4, <1>5 DEF OwnInv

(* Every step keeps it. *)
LEMMA FlowNext == BeforeInv /\ FlowInv /\ [Next]_vars => FlowInv'
<1>1. ASSUME FlowInv, UNCHANGED vars PROVE FlowInv'
  BY Zenon, <1>1 DEF vars, shell, FlowInv, Outside, WindowInv, OwnInv, Returning, Passing, Pointed, Closing, Between,
              Target, Plain, Tidy
<1> QED
  BY Zenon, <1>1, CommandFlow, StepFlow DEF Next

(* The invariants of the remap mode. *)
LEMMA FlowInvariance == Spec => [](BeforeInv /\ FlowInv)
<1>1. Init => BeforeInv /\ FlowInv
  BY Zenon, TypeInit, BranchInit, EnabledInit, PlaceInit, FlowInit DEF BeforeInv
<1>2. BeforeInv /\ FlowInv /\ [Next]_vars => (BeforeInv /\ FlowInv)'
  BY TypeNext, BranchNext, EnabledNext, PlaceNext, FlowNext DEF BeforeInv
<1> QED
  BY <1>1, <1>2, PTL DEF Spec

(* A thread that is left alone keeps its control flow, whatever branches   *)
(* the function has, as long as none leads into the second half of a       *)
(* remapped word: it fetches nothing that is not an instruction, and a     *)
(* trampoline gives control back where it took it, or leaves the function. *)
THEOREM FlowKept == Spec => ControlFlowKept
<1> DEFINE A == \A t \in Thread : alone' /\ Plain /\ Tidy =>
                  /\ pc'[t] = "wild" => pc[t] = "wild"
                  /\ \/ loc'[t] = loc[t] \/ pc'[t] = "out"
                     \/ pc[t] = "run" /\ loc'[t] \in Flow[loc[t]]
<1>1. ASSUME BeforeInv, FlowInv, [Next]_vars PROVE [A]_vars
  <2>1. ASSUME NEW u \in Thread, Call(u) \/ Step(u) PROVE A
    <3>1. TypeInv
      BY Zenon, <1>1 DEF BeforeInv
    <3>2. \A t \in Thread : t # u => pc'[t] = pc[t] /\ loc'[t] = loc[t]
      BY Zenon, <2>1, <3>1, StepFrame
    <3>3. alone' /\ Plain /\ Tidy => Kept(u)
      BY Zenon, <1>1, <2>1, StepFlow
    <3> QED
      BY Zenon, <3>2, <3>3 DEF Kept
  <2>2. CASE Command
    <3>1. UNCHANGED <<pc, loc>>
      BY Zenon, <2>2 DEF Command, add_hw_bkpt, set_comparator, set_active, set_patch_mode, reset_patch,
                  clear_all_hw_bkpt
    <3> QED
      BY Zenon, <3>1
  <2> QED
    BY Zenon, <1>1, <2>1, <2>2 DEF Next
<1> QED
  BY <1>1, FlowInvariance, PTL DEF Spec, ControlFlowKept
-----------------------------------------------------------------------------
(* With one patch, in comparator 0, and code without a branch from it to a *)
(* word-aligned instruction of the function, the comparator is disabled by *)
(* the thread whose pending instruction it is, or which has gone on        *)
(* towards the callback, and it cannot get past that.                      *)
Patched == 2 * comp[0].w
Guarded == Tidy /\ Next_aligned(Patched) < N /\ Straight(Patched)

LetPass(t) ==
  /\ Target = Next_aligned(Patched)
  /\ pc[t] \in {"table", "resume", "read", "enable", "close", "run"}
  /\ pc[t] = "run" => /\ (loc[t] = Patched /\ t \in passed) \/ loc[t] > Patched
                      /\ loc[t] <= Target /\ loc[t] \in Starts
  /\ pc[t] \in {"table", "resume", "read", "run"} => ~comp[0].on

PassedInv ==
  \A t \in Thread :
    alone /\ Plain /\ fpb_on /\ cur_idx = 1 /\ owner = t /\ Guarded => LetPass(t)

(* The comparator of one patch. *)
LEMMA OnlyFirst ==
  ASSUME BeforeInv, Plain, cur_idx = 1, NEW i \in Idx, i < FPB_CB_REG, comp[i].w # NoLoc
  PROVE  i = 0
<1>1. i < 1
  BY Zenon DEF BeforeInv, PlaceInv, Placed
<1> QED
  BY <1>1 DEF Idx

(* A step of the thread that has disabled the comparator. *)
LEMMA PassedStep ==
  ASSUME BeforeInv, FlowInv, PassedInv, NEW t \in Thread, Call(t) \/ Step(t), alone', Plain', fpb_on', cur_idx' = 1,
         owner' = t, Guarded'
  PROVE  LetPass(t)'
<1>a. TypeInv /\ SharedType /\ ThreadType /\ idx[t] \in Idx /\ loc[t] \in 0 .. N - 1 /\ loc[t] \in Nat
  BY Zenon, Here
<1>b. Alone(t) /\ UNCHANGED shell /\ \A i \in Idx : i # FPB_CB_REG => comp'[i].w = comp[i].w
  BY Zenon, <1>a, StepFrame, StepWrites
<1>c. Plain /\ fpb_on /\ cur_idx = 1 /\ Patched' = Patched /\ Guarded /\ Tidy
  <2>1. Plain /\ fpb_on /\ cur_idx = 1 /\ Patched' = Patched
    BY Zenon, <1>b, Callback DEF shell, Plain, Patched
  <2>2. Tidy
    BY Zenon, <1>b, TidyPlaces, Comparators DEF Guarded
  <2> QED
    BY Zenon, <2>1, <2>2 DEF Guarded
<1>d. alone /\ owner \in {None, t} /\ WindowInv /\ OwnInv(t)
  BY Zenon, <1>a, <1>b, <1>c, AloneFacts
<1>e. Kept(t)
  BY Zenon, <1>c, StepFlow
<1>f. t # None
  BY Zenon, FpbRemapAssumption
<1>g. pc[t] \in Filtering /\ pc[t] # "filter" => idx[t] = 0 /\ comp[0].w # NoLoc
  <2> SUFFICES ASSUME pc[t] \in Filtering, pc[t] # "filter" PROVE idx[t] = 0 /\ comp[0].w # NoLoc
    BY Zenon
  <2>1. idx[t] < FPB_CB_REG /\ comp[idx[t]].w # NoLoc
    BY Zenon, <1>d DEF OwnInv, Passing
  <2>2. idx[t] = 0
    BY Zenon, <1>a, <1>c, <2>1, OnlyFirst
  <2> QED
    BY Zenon, <2>1, <2>2
<1>1. CASE disable_current(t)
  <2>1. pc[t] = "disable" /\ pc'[t] = "table" /\ comp' = [comp EXCEPT ![idx[t]].on = FALSE]
    BY Zenon, <1>1, <1>a, Moves DEF disable_current
  <2>2. idx[t] = 0
    BY Zenon, <1>g, <2>1 DEF Filtering
  <2>3. comp'[0].on = FALSE /\ comp'[FPB_CB_REG] = comp[FPB_CB_REG]
    BY Zenon, <1>a, <2>1, <2>2, SetOn, Callback DEF SharedType
  <2>4. Target' = Next_aligned(Patched)
    BY Zenon, <1>d, <2>1, <2>2, <2>3 DEF OwnInv, Pointed, Target, Patched
  <2> QED
    BY Zenon, <1>c, <2>1, <2>2, <2>3, <2>4 DEF LetPass
<1> SUFFICES ASSUME ~disable_current(t) PROVE LetPass(t)'
  BY Zenon, <1>1
<1>2. owner = t /\ ~close_callback(t)
  BY Zenon, <1>f DEF Call, Step, Execute, TakeBranch, GoWild, FilterSkips, FilterPasses, point_callback,
         set_callback_branch, resume, read_callback, enable_comparators, close_callback,
         fpb_disable_cur_inst, fpb_enable_callback
<1>3. LetPass(t)
  BY Zenon, <1>c, <1>d, <1>2 DEF PassedInv
<1>4. Patched \in Int
  <2>1. comp[0].w \in Int
    BY Zenon, Here, Callback
  <2> QED
    BY <2>1 DEF Patched
<1>5. CASE UNCHANGED comp /\ pc'[t] \in {"resume", "read"} /\ pc[t] \in {"table", "run"}
  BY Zenon, <1>3, <1>5 DEF LetPass, Target, Patched
<1>6. CASE Execute(t)
  <2>1. pc[t] = "run" /\ Original(loc[t]) /\ UNCHANGED comp
    BY Zenon, <1>6 DEF Execute
  <2>2. Target \in Ends /\ Target \in Nat /\ loc[t] # Target
    BY Zenon, <1>b, <1>c, <1>2, <2>1, NotYet
  <2>3. Target < N /\ N \in Nat /\ loc[t] <= Target /\ loc[t] \in Starts /\ Target = Next_aligned(Patched)
    BY Zenon, <1>3, <1>c, <2>1, EndsFacts DEF LetPass, Guarded
  <2>4. loc[t] < Target /\ Target > loc[t]
    BY <1>a, <2>2, <2>3
  <2>5. Patched <= loc[t]
    BY SMTT(30), <1>3, <1>4, <1>a, <2>1 DEF LetPass
  <2>6. Flow[loc[t]] = {Succ(loc[t])}
    BY Zenon, <1>c, <2>3, <2>4, <2>5 DEF Guarded, Straight
  <2>8. /\ Succ(loc[t]) \in Ends /\ Succ(loc[t]) <= Target /\ Succ(loc[t]) > loc[t] /\ Succ(loc[t]) \in Nat
    BY Zenon, <1>a, <2>2, <2>4, SuccFacts
  <2>9. Succ(loc[t]) # N /\ Succ(loc[t]) \in Starts
    <3>1. Succ(loc[t]) < N
      BY <2>2, <2>3, <2>8
    <3> QED
      BY <2>3, <2>8, <3>1 DEF Ends
  <2>10. pc'[t] = "run" /\ loc'[t] = Succ(loc[t])
    <3>1. UNCHANGED pc /\ \E l \in {Succ(loc[t])} : loc' = [loc EXCEPT ![t] = l]
      BY Zenon, <1>6, <2>6, <2>9 DEF Execute
    <3> QED
      BY Zenon, <1>a, <2>1, <3>1 DEF ThreadType
  <2>7. loc'[t] > Patched
    BY <1>4, <1>a, <2>5, <2>8, <2>10
  <2> QED
    BY Zenon, <1>3, <2>1, <2>7, <2>8, <2>9, <2>10 DEF LetPass, Target, Patched
<1>7. CASE TakeBranch(t)
  <2>1. PICK h \in Branches(loc[t]) : Goto(t, IF h = FPB_CB_REG THEN "read" ELSE "filter")
    BY Zenon, <1>7 DEF TakeBranch
  <2>2. pc[t] = "run" /\ UNCHANGED comp
    BY Zenon, <1>7 DEF TakeBranch
  <2>3. PICK i \in Matching(loc[t]) : table[i].h = h
    BY Zenon DEF Branches
  <2>4. h = i /\ h \in Idx /\ comp[h].w = Word(loc[t]) /\ (h = FPB_CB_REG \/ h < FPB_CB_REG) /\ comp[h].on
    <3>1. comp[i].on
      BY Zenon DEF Matching
    <3>2. /\ i \in Idx /\ comp[i].w = Word(loc[t]) /\ table[i].h = i
          /\ i = FPB_CB_REG \/ i < FPB_CB_REG
      BY Zenon, <1>b, <1>c, <2>2, Fetch
    <3> QED
      BY Zenon, <2>3, <3>1, <3>2
  <2>5. h = FPB_CB_REG
    <3>1. comp[h].w # NoLoc
      BY Zenon, <1>a, <2>4, WordIsWord
    <3>2. h < FPB_CB_REG => h = 0
      BY Zenon, <1>c, <2>4, <3>1, OnlyFirst
    <3>3. ~comp[0].on
      BY Zenon, <1>3, <2>2 DEF LetPass
    <3> QED
      BY Zenon, <2>4, <3>2, <3>3
  <2>6. pc'[t] = "read"
    BY Zenon, <1>a, <2>1, <2>5, Moves
  <2> QED
    BY Zenon, <1>5, <2>2, <2>6
<1>8. CASE set_callback_branch(t)
  <2>1. UNCHANGED comp /\ pc'[t] = "resume" /\ pc[t] = "table"
    BY Zenon, <1>8, <1>a, Moves DEF set_callback_branch
  <2> QED
    BY Zenon, <1>5, <2>1
<1>9. CASE resume(t)
  <2>1. pc[t] = "resume" /\ UNCHANGED comp
    BY Zenon, <1>9 DEF resume
  <2>2. idx[t] = 0 /\ comp[0].w # NoLoc
    BY Zenon, <1>g, <2>1 DEF Filtering
  <2>3. ~Leave(t, "wild")
    <3>1. Leave(t, "wild") => pc'[t] = "wild"
      BY Zenon, <1>a, Moves DEF Leave
    <3> QED
      BY Zenon, <1>e, <3>1 DEF Kept
  <2>4. loc' = [loc EXCEPT ![t] = Patched] /\ Goto(t, "run") /\ t \in passed'
    BY Zenon, <1>9, <2>2, <2>3 DEF resume, Patched
  <2>5. pc'[t] = "run" /\ loc'[t] = Patched
    BY Zenon, <1>a, <2>4, Moves DEF ThreadType
  <2>6. Patched \in Starts /\ Patched \in 0 .. N /\ Patched \in Nat
    BY Zenon, <1>c, <2>2, Callback, TidyPatch DEF Patched
  <2>7. Next_aligned(Patched) > Patched /\ Next_aligned(Patched) \in Nat
    BY Zenon, <2>6, NextFacts
  <2>8. Patched <= Next_aligned(Patched)
    BY <2>6, <2>7
  <2> QED
    BY Zenon, <1>3, <2>1, <2>4, <2>5, <2>6, <2>8 DEF LetPass, Target, Patched
<1>10. CASE read_callback(t)
  <2>1. UNCHANGED comp /\ (Goto(t, "enable") \/ Goto(t, "wild"))
    BY Zenon, <1>10 DEF read_callback, Leave
  <2>2. pc'[t] = "enable"
    BY Zenon, <1>a, <1>e, <2>1, Moves DEF Kept
  <2> QED
    BY Zenon, <1>3, <2>1, <2>2 DEF LetPass, Target, Patched
<1>11. CASE enable_comparators(t)
  <2>1. pc[t] = "enable" /\ comp' = [comp EXCEPT ![idx[t]].on = (comp[idx[t]] # Empty)]
    BY Zenon, <1>11 DEF enable_comparators
  <2>2. pc'[t] \in {"enable", "close"}
    BY Zenon, <1>11, <1>a, Moves DEF enable_comparators
  <2>3. Target' = Target
    BY <1>a, <2>1, SetOn, Callback DEF SharedType, Target
  <2> QED
    BY Zenon, <1>3, <1>c, <2>2, <2>3 DEF LetPass
<1>12. CASE Call(t) \/ GoWild(t) \/ FilterSkips(t) \/ FilterPasses(t) \/ point_callback(t)
  <2>1. CASE GoWild(t)
    BY Zenon, <1>b, <1>c, <2>1, Fetched DEF GoWild
  <2>2. pc[t] \notin {"out", "filter", "next"}
    BY Zenon, <1>3 DEF LetPass
  <2> QED
    BY Zenon, <1>12, <2>1, <2>2 DEF Call, FilterSkips, FilterPasses, point_callback
<1> QED
  BY <1>2, <1>6, <1>7, <1>8, <1>9, <1>10, <1>11, <1>12 DEF Step, fpb_disable_cur_inst, fpb_enable_callback

(* It holds after set_patch_mode, and every step keeps it: another thread  *)
(* or a command in between would be in the owner's window.                 *)
LEMMA PassedInit == Init => PassedInv
BY Zenon, FpbRemapAssumption DEF Init, PassedInv

(* Every step keeps it. *)
LEMMA PassedNext == BeforeInv /\ FlowInv /\ PassedInv /\ [Next]_vars => PassedInv'
<1> SUFFICES ASSUME BeforeInv, FlowInv, PassedInv, [Next]_vars PROVE PassedInv'
  BY Zenon
<1>1. CASE UNCHANGED vars
  BY Zenon, <1>1 DEF vars, shell, PassedInv, LetPass, Patched, Target, Plain, Guarded, Tidy
<1> SUFFICES ASSUME NEW t \in Thread, alone', Plain', fpb_on', cur_idx' = 1, owner' = t, Guarded', Next
             PROVE  LetPass(t)'
  BY Zenon, <1>1 DEF PassedInv
<1>2. t # None
  BY Zenon, FpbRemapAssumption
<1>3. CASE Command
  <2>1. Busy = {} /\ owner' \in {owner, None}
    BY Zenon, <1>3 DEF Command, add_hw_bkpt, set_comparator, set_active, set_patch_mode, reset_patch, clear_all_hw_bkpt
  <2> QED
    BY Zenon, <1>2, <2>1 DEF Busy
<1>4. ASSUME NEW u \in Thread, Call(u) \/ Step(u) PROVE LetPass(t)'
  <2>1. /\ Alone(u) /\ owner' \in {owner, u, None}
    BY Zenon, <1>4, StepFrame DEF BeforeInv
  <2>2. u = t
    BY Zenon, <1>2, <2>1 DEF Alone, Busy
  <2> QED
    BY Zenon, <1>4, <2>2, PassedStep
<1> QED
  BY Zenon, <1>3, <1>4 DEF Next

(* With one patch, and no branch before its callback, a thread that is     *)
(* left alone executes the patched instruction, in whatever loop, only     *)
(* after the filter has let this very execution pass.                      *)
THEOREM FilteredFirst == Spec => FilteredBeforeExecution
<1> DEFINE A == \A t \in Thread :
                  Execute(t) /\ alone' /\ Plain /\ Tidy /\ fpb_on /\ cur_idx = 1 =>
                    \/ t \in passed
                    \/ comp[0].w # Word(loc[t]) \/ ~Aligned(loc[t])
                    \/ Next_aligned(loc[t]) >= N \/ ~Straight(loc[t])
<1>1. ASSUME BeforeInv, FlowInv, PassedInv PROVE A
  <2> SUFFICES ASSUME NEW t \in Thread, Execute(t), alone', Plain, Tidy, fpb_on, cur_idx = 1,
                      comp[0].w = Word(loc[t]), Aligned(loc[t]), ~(Next_aligned(loc[t]) >= N), Straight(loc[t])
               PROVE  t \in passed
    BY Zenon
  <2>a. TypeInv /\ loc[t] \in Nat /\ loc[t] \in 0 .. N
    BY Zenon, <1>1, Here
  <2>b. pc[t] = "run" /\ Original(loc[t]) /\ Alone(t)
    BY Zenon DEF Execute
  <2>1. Patched = loc[t]
    BY Zenon, <2>a, Halves DEF Patched
  <2>2. Guarded
    <3>1. Next_aligned(Patched) < N
      BY <2>1, <2>a, NextFacts, EndsFacts
    <3> QED
      BY Zenon, <2>1, <3>1 DEF Guarded
  <2>3. ~comp[0].on
    <3>1. Matching(loc[t]) = {}
      BY Zenon, <1>1, <2>b, Fetched
    <3>2. 0 \in 0 .. MAX_BP - 1
      BY Words
    <3> QED
      BY Zenon, <3>1, <3>2 DEF Matching
  <2>4. owner = t
    <3>1. alone /\ owner \in {None, t}
      BY Zenon, <1>1, <2>a, <2>b, AloneFacts
    <3>2. comp[0].w # NoLoc
      BY Zenon, <2>a, WordIsWord
    <3> QED
      BY Zenon, <1>1, <2>3, <3>1, <3>2, Callback DEF BeforeInv, EnabledInv, Armed
  <2>5. LetPass(t)
    <3>1. alone
      BY Zenon, <2>b DEF Alone
    <3> QED
      BY Zenon, <1>1, <2>2, <2>4, <3>1 DEF PassedInv
  <2> QED
    BY <2>1, <2>5, <2>a, <2>b DEF LetPass
<1>2. BeforeInv /\ FlowInv /\ PassedInv => [A]_vars
  BY Zenon, <1>1
<1>3. Spec => []PassedInv
  BY FlowInvariance, PassedInit, PassedNext, PTL DEF Spec
<1> HIDE DEF A
<1>4. Spec => [][A]_vars
  BY <1>2, <1>3, FlowInvariance, PTL
<1> QED
  BY Zenon, <1>4 DEF A, FilteredBeforeExecution
=============================================================================
