------------------------------ MODULE FpbRemap ------------------------------
(***************************************************************************)
(* The remap mode of hotpatch/src/cortex-m4_fbp.c.  A comparator makes the *)
(* processor fetch a word of flash from a table in RAM instead, where the  *)
(* runtime has put a branch to a trampoline.  The trampoline runs the      *)
(* filter; to let the patched instruction through it disables its          *)
(* comparator and points the last one at the next word-aligned             *)
(* instruction, whose trampoline enables the others again.                 *)
(*                                                                         *)
(* Trampolines are ordinary code, not an exception: threads are switched   *)
(* between any two of their stores, and the shell thread arms and clears   *)
(* comparators in between.  A location is a half-word of one function of   *)
(* the application, which threads call again and again; Flow is its        *)
(* control flow graph, so that code branches, loops and returns anywhere.  *)
(*                                                                         *)
(* The trampolines are written twice.  In the Keil build (USE_KEIL) the    *)
(* return of trampoline 1 is commented out, and it runs on into number 2.  *)
(***************************************************************************)
EXTENDS Integers, FiniteSets

CONSTANTS Thread,
          N,        \* half-words 0 .. N-1 of the function, N being word-aligned
          Starts,   \* where instructions begin
          Flow,     \* where control may go from a location; N is out of the function
          Patch,    \* locations the commands put patches on
          MAX_BP,   \* comparators; the last one is FPB_CB_REG
          KEIL,     \* USE_KEIL
          Commands  \* bound: how many patches and mode switches are commanded

FPB_CB_REG == MAX_BP - 1
Idx == 0 .. MAX_BP        \* COMP[MAX_BP] exists, but compares no fetches
NoLoc == -1
None == "none"
Word(l) == l \div 2
Aligned(l) == l % 2 = 0

ASSUME FpbRemapAssumption ==
  /\ N \in Nat /\ Aligned(N) /\ 0 \in Starts
  /\ Starts \subseteq 0 .. N - 1 /\ Patch \subseteq Starts
  /\ Flow \in [0 .. N - 1 -> SUBSET (0 .. N)]
  /\ MAX_BP \in Nat /\ MAX_BP >= 4 /\ KEIL \in BOOLEAN
  /\ Commands \in Nat /\ None \notin Thread

Least(S) == CHOOSE x \in S : \A y \in S : x <= y
Succ(l) == Least({s \in Starts \cup {N, N + 2} : s > l})

VARIABLES
  comp,      \* FPB->COMP: the word compared, and the enable bit
  table,     \* the remap table: the trampoline, and the location the branch is for
  fpb_on,    \* the unit is enabled, FPB->CTRL
  cur_idx,   \* bpkt_info.cur_idx
  active,    \* locations whose patch is_active
  left,      \* bound: commands left
  task,      \* the patch the shell thread is installing
  pc, loc,   \* per thread: where it is, and in the function, at which location
  idx, nxt,  \* per thread, inside a trampoline: bpkt_idx and next_inst
  passed,    \* history: threads whose pending instruction the filter has passed
  owner,     \* history: the thread that disabled a comparator last
  alone,     \* history: no step was taken inside another one's window
  half, full \* history, since the last clear: a half-word patch was added;
             \* a patch may get the callback's comparator or one still in use

shell == <<fpb_on, cur_idx, active, left, task, half, full>>
vars == <<comp, table, shell, pc, loc, idx, nxt, passed, owner, alone>>

Empty == [w |-> NoLoc, on |-> FALSE]
Branch(h, l) == [h |-> h, at |-> l]
NoBranch == Branch(NoLoc, NoLoc)

Pc == {"out", "run", "filter", "next", "disable", "table", "resume",
       "read", "enable", "close", "wild"}
Idle == [pc |-> "idle", at |-> NoLoc, idx |-> 0]

TypeOK ==
  /\ comp \in [Idx -> [w : 0 .. Word(N) + 1 \cup {NoLoc}, on : BOOLEAN]]
  /\ table \in [Idx -> [h : Idx \cup {NoLoc}, at : 0 .. N + 2 \cup {NoLoc}]]
  /\ cur_idx \in 0 .. MAX_BP + 1
  /\ fpb_on \in BOOLEAN /\ active \subseteq Patch /\ left \in 0 .. Commands
  /\ task \in [pc : {"idle", "comp", "active"}, at : Patch \cup {NoLoc}, idx : Idx]
  /\ pc \in [Thread -> Pc]
  /\ loc \in [Thread -> 0 .. N + 2]
  /\ idx \in [Thread -> Idx]
  /\ nxt \in [Thread -> 0 .. N + 2]
  /\ passed \subseteq Thread
  /\ owner \in Thread \cup {None}
  /\ alone \in BOOLEAN /\ half \in BOOLEAN /\ full \in BOOLEAN

(* After the first set_patch_mode(CORTEX_FPB_PATCH). *)
Init ==
  /\ comp = [i \in Idx |-> Empty] /\ table = [i \in Idx |-> NoBranch]
  /\ fpb_on = TRUE /\ cur_idx = 0 /\ active = {} /\ left = Commands /\ task = Idle
  /\ pc = [t \in Thread |-> "out"] /\ loc = [t \in Thread |-> 0]
  /\ idx = [t \in Thread |-> 0] /\ nxt = [t \in Thread |-> 0]
  /\ passed = {} /\ owner = None /\ alone = TRUE
  /\ half = FALSE /\ full = FALSE

(* The threads inside a trampoline, and with the one whose comparator is   *)
(* disabled.                                                               *)
Diverted == {t \in Thread : pc[t] \notin {"out", "run", "wild"}}
Busy == Diverted \cup ({owner} \ {None})

Goto(t, p) == pc' = [pc EXCEPT ![t] = p]
(* Outside the trampolines idx and nxt are dead, outside the function loc. *)
Forget(t) == idx' = [idx EXCEPT ![t] = 0] /\ nxt' = [nxt EXCEPT ![t] = 0]
Leave(t, p) == /\ Goto(t, p) /\ Forget(t)
               /\ loc' = [loc EXCEPT ![t] = 0] /\ passed' = passed \ {t}
Straddled(l) == \E t \in Thread : pc[t] = "run" /\ Word(loc[t]) = Word(l) /\ loc[t] # l
Alone(t) == alone' = (alone /\ Busy \subseteq {t})
-----------------------------------------------------------------------------
(* Installing a patch in the shell thread: add_fpb_bkpt writes the table,  *)
(* then the comparator; active_patch sets is_active last.                  *)
Slot == IF cur_idx >= MAX_BP THEN 0 ELSE cur_idx

add_fpb_bkpt_existing(l) ==
  /\ \E i \in 0 .. MAX_BP - 1 :
       /\ comp[i].w = Word(l) /\ \A j \in 0 .. i - 1 : comp[j].w # Word(l)
       /\ comp' = [comp EXCEPT ![i].on = TRUE]
       /\ full' = (full \/ i = FPB_CB_REG)
  /\ cur_idx' = Slot
  /\ task' = [Idle EXCEPT !.pc = "active", !.at = l]
  /\ UNCHANGED <<table, half>>

add_fpb_bkpt_first_trampoline(l) ==
  /\ \A i \in 0 .. MAX_BP - 1 : comp[i].w # Word(l)
  /\ table' = [table EXCEPT ![Slot] = Branch(0, l)]
  /\ cur_idx' = Slot
  /\ task' = [pc |-> "comp", at |-> l, idx |-> Slot]
  /\ full' = (full \/ Slot = FPB_CB_REG \/ comp[Slot] # Empty)
  /\ UNCHANGED <<comp, half>>

add_fpb_bkpt_table(l) ==
  /\ \A i \in 0 .. MAX_BP - 1 : comp[i].w # Word(l)
  /\ table' = [table EXCEPT ![Slot] = Branch(Slot, l)]
  /\ cur_idx' = Slot
  /\ task' = [pc |-> "comp", at |-> l, idx |-> Slot]
  /\ full' = (full \/ Slot = FPB_CB_REG \/ comp[Slot] # Empty)
  /\ UNCHANGED <<comp, half>>

(* A half-word aligned instruction takes two comparators, which are left   *)
(* disabled; a pair that has both is kept.                                 *)
Pair(i, l) ==
  /\ comp[i].w = Word(l) /\ comp[i + 1].w = Word(l) + 1
  /\ ~comp[i].on /\ ~comp[i + 1].on

add_fpb_bkpt_half(l) ==
  /\ half' = TRUE
  /\ \/ /\ \E i \in 0 .. MAX_BP - 2 : Pair(i, l)
        /\ cur_idx' = Slot
        /\ task' = [Idle EXCEPT !.pc = "active", !.at = l]
        /\ UNCHANGED <<table, full>>
     \/ /\ \A i \in 0 .. MAX_BP - 2 : ~Pair(i, l)
        /\ table' = [table EXCEPT ![Slot] = Branch(Slot, l), ![Slot + 1] = Branch(Slot, l)]
        /\ cur_idx' = Slot
        /\ task' = [pc |-> "comp", at |-> l, idx |-> Slot]
        /\ full' = (full \/ Slot + 1 >= FPB_CB_REG \/ comp[Slot] # Empty \/ comp[Slot + 1] # Empty)
  /\ UNCHANGED comp

add_hw_bkpt(l) ==
  /\ task.pc = "idle" /\ left > 0 /\ left' = left - 1
  /\ \/ Aligned(l) /\ add_fpb_bkpt_existing(l)
     \/ Aligned(l) /\ add_fpb_bkpt_table(l)
     \/ ~Aligned(l) /\ add_fpb_bkpt_half(l)
  /\ alone' = (alone /\ Busy = {} /\ ~Straddled(l))
  /\ UNCHANGED <<fpb_on, active, pc, loc, idx, nxt, passed, owner>>

set_comparator ==
  LET i == task.idx
      w == Word(task.at)
  IN  /\ task.pc = "comp"
      /\ \/ /\ Aligned(task.at)
            /\ comp' = [comp EXCEPT ![i] = [w |-> w, on |-> TRUE]]
            /\ cur_idx' = cur_idx + 1
         \/ /\ ~Aligned(task.at)
            /\ comp' = [comp EXCEPT ![i] = [w |-> w, on |-> FALSE],
                                    ![i + 1] = [w |-> w + 1, on |-> FALSE]]
            /\ cur_idx' = cur_idx + 2
      /\ task' = [Idle EXCEPT !.pc = "active", !.at = task.at]
      /\ alone' = (alone /\ Busy = {} /\ ~Straddled(task.at))
      /\ UNCHANGED <<table, fpb_on, active, left, half, full, pc, loc, idx, nxt, passed, owner>>

set_active ==
  /\ task.pc = "active"
  /\ active' = active \cup {task.at}
  /\ task' = Idle
  /\ alone' = (alone /\ Busy = {})
  /\ UNCHANGED <<comp, table, fpb_on, cur_idx, left, half, full, pc, loc, idx, nxt, passed, owner>>

(* set_patch_mode(CORTEX_FPB_PATCH) clears comparators and table and turns *)
(* the unit on; reset_patch leaves it off and destroys the patches.        *)
clear_all_hw_bkpt ==
  /\ task.pc = "idle" /\ left > 0 /\ left' = left - 1
  /\ comp' = [i \in Idx |-> IF i < MAX_BP THEN Empty ELSE comp[i]]
  /\ cur_idx' = 0
  /\ half' = FALSE /\ full' = (Diverted # {})
  /\ owner' = None
  /\ alone' = (alone /\ Busy = {})
  /\ UNCHANGED <<task, pc, loc, idx, nxt, passed>>

set_patch_mode ==
  /\ clear_all_hw_bkpt
  /\ table' = [i \in Idx |-> NoBranch]
  /\ fpb_on' = TRUE
  /\ UNCHANGED active

reset_patch ==
  /\ clear_all_hw_bkpt
  /\ fpb_on' = FALSE
  /\ active' = {}
  /\ UNCHANGED table
-----------------------------------------------------------------------------
(* The processor: what is fetched at location l.  Through a comparator it  *)
(* is the branch that was computed for l; the word of a half-word patch    *)
(* keeps the half before it, and the branch of one is whole only if the    *)
(* next word is remapped too.  Everything else is no instruction.          *)
Matching(l) == {i \in 0 .. MAX_BP - 1 : fpb_on /\ comp[i].on /\ comp[i].w = Word(l)}

Whole(i, l) ==
  /\ table[i].at = l
  /\ Aligned(l) \/ (i + 1 < MAX_BP /\ comp[i + 1].on /\ table[i + 1] = table[i])
KeepsHalf(i, l) == Aligned(l) /\ table[i].at = l + 1

Original(l) == Matching(l) = {} \/ \E i \in Matching(l) : KeepsHalf(i, l)
Branches(l) == {table[i].h : i \in {j \in Matching(l) : Whole(j, l)}}
Garbled(l) == \E i \in Matching(l) : ~Whole(i, l) /\ ~KeepsHalf(i, l)

Call(t) ==
  /\ pc[t] = "out"
  /\ Goto(t, "run")
  /\ Alone(t)
  /\ UNCHANGED <<comp, table, shell, loc, idx, nxt, passed, owner>>

Execute(t) ==
  /\ pc[t] = "run" /\ Original(loc[t])
  /\ \/ N \in Flow[loc[t]] /\ Leave(t, "out")
     \/ /\ \E l \in Flow[loc[t]] \ {N} : loc' = [loc EXCEPT ![t] = l]
        /\ passed' = passed \ {t}
        /\ UNCHANGED <<pc, idx, nxt>>
  /\ Alone(t)
  /\ UNCHANGED <<comp, table, shell, owner>>

TakeBranch(t) ==
  /\ pc[t] = "run"
  /\ \E h \in Branches(loc[t]) :
       /\ idx' = [idx EXCEPT ![t] = h]
       /\ Goto(t, IF h = FPB_CB_REG THEN "read" ELSE "filter")
  /\ Alone(t)
  /\ UNCHANGED <<comp, table, shell, loc, nxt, passed, owner>>

GoWild(t) ==
  /\ pc[t] = "run" /\ Garbled(loc[t])
  /\ Leave(t, "wild")
  /\ Alone(t)
  /\ UNCHANGED <<comp, table, shell, owner>>
-----------------------------------------------------------------------------
(* The end of trampoline 1 in the Keil build is the start of number 2; the *)
(* other ones return to the function's caller.                             *)
FallThrough(t) ==
  /\ KEIL /\ idx[t] = 1
  /\ idx' = [idx EXCEPT ![t] = 2] /\ nxt' = [nxt EXCEPT ![t] = 0]
  /\ Goto(t, "filter")
  /\ UNCHANGED <<loc, passed>>

Return(t) == FallThrough(t) \/ (~(KEIL /\ idx[t] = 1) /\ Leave(t, "out"))

(* leave_fpb_bpkt: without a patch, and on DROP and REDIRECT, the function *)
(* is left; on PASS fpb_disable_cur_inst follows, store by store.          *)
FilterSkips(t) ==
  /\ pc[t] = "filter"
  /\ Return(t)
  /\ Alone(t)
  /\ UNCHANGED <<comp, table, shell, owner>>

FilterPasses(t) ==
  /\ pc[t] = "filter" /\ 2 * comp[idx[t]].w \in active
  /\ Goto(t, "next")
  /\ Alone(t)
  /\ UNCHANGED <<comp, table, shell, loc, idx, nxt, passed, owner>>

Next_unaligned(l) == Least({s \in Starts \cup {N, N + 2} : s > l})
Next_aligned(l) == Least({s \in Starts \cup {N, N + 2} : s > l /\ Aligned(s)})

point_callback(t) ==
  LET l == 2 * comp[idx[t]].w
  IN  /\ pc[t] = "next"
      /\ \/ /\ l < 0
            /\ Leave(t, "wild") /\ UNCHANGED comp
         \/ /\ l >= 0
            /\ comp' = [comp EXCEPT ![FPB_CB_REG] = [w |-> Word(Next_aligned(l)), on |-> TRUE]]
            /\ nxt' = [nxt EXCEPT ![t] = Next_aligned(l)]
            /\ Goto(t, "disable")
            /\ UNCHANGED <<loc, idx, passed>>
      /\ Alone(t)
      /\ UNCHANGED <<table, shell, owner>>

disable_current_not(t) ==
  /\ pc[t] = "disable"
  /\ owner' = t
  /\ Goto(t, "table")
  /\ Alone(t)
  /\ UNCHANGED <<comp, table, shell, loc, idx, nxt, passed>>

disable_current(t) ==
  /\ pc[t] = "disable"
  /\ comp' = [comp EXCEPT ![idx[t]].on = FALSE]
  /\ owner' = t
  /\ Goto(t, "table")
  /\ Alone(t)
  /\ UNCHANGED <<table, shell, loc, idx, nxt, passed>>

set_callback_branch(t) ==
  /\ pc[t] = "table"
  /\ table' = [table EXCEPT ![FPB_CB_REG] = Branch(FPB_CB_REG, nxt[t])]
  /\ Goto(t, "resume")
  /\ Alone(t)
  /\ UNCHANGED <<comp, shell, loc, idx, nxt, passed, owner>>

(* The trampoline of comparator 0 jumps to the address leave_fpb_bpkt      *)
(* returns, the comparator's; the others ignore it.                        *)
resume(t) ==
  LET w == comp[idx[t]].w
  IN  /\ pc[t] = "resume"
      /\ \/ /\ idx[t] = 0 /\ w \in 0 .. Word(N) - 1
            /\ loc' = [loc EXCEPT ![t] = 2 * w] /\ passed' = passed \cup {t}
            /\ Goto(t, "run") /\ Forget(t)
         \/ idx[t] = 0 /\ w \notin 0 .. Word(N) - 1 /\ Leave(t, "wild")
         \/ idx[t] # 0 /\ Return(t)
      /\ Alone(t)
      /\ UNCHANGED <<comp, table, shell, owner>>
-----------------------------------------------------------------------------
(* The last trampoline, fpb_enable_callback: it reads where to go on, then *)
(* enables the other comparators one by one, then disables its own.        *)
read_callback(t) ==
  LET w == comp[FPB_CB_REG].w
  IN  /\ pc[t] = "read"
      /\ \/ w = NoLoc /\ Leave(t, "wild")
         \/ /\ w # NoLoc
            /\ nxt' = [nxt EXCEPT ![t] = 2 * w] /\ idx' = [idx EXCEPT ![t] = 0]
            /\ Goto(t, "enable")
            /\ UNCHANGED <<loc, passed>>
      /\ Alone(t)
      /\ UNCHANGED <<comp, table, shell, owner>>

enable_comparators_but_first(t) ==
  /\ pc[t] = "enable"
  /\ comp' = [comp EXCEPT ![idx[t]].on = @ \/ (idx[t] > 0 /\ comp[idx[t]] # Empty)]
  /\ idx' = [idx EXCEPT ![t] = @ + 1]
  /\ Goto(t, IF idx[t] = FPB_CB_REG - 1 THEN "close" ELSE "enable")
  /\ Alone(t)
  /\ UNCHANGED <<table, shell, loc, nxt, passed, owner>>

enable_comparators(t) ==
  /\ pc[t] = "enable"
  /\ comp' = [comp EXCEPT ![idx[t]].on = (comp[idx[t]] # Empty)]
  /\ idx' = [idx EXCEPT ![t] = @ + 1]
  /\ Goto(t, IF idx[t] = FPB_CB_REG - 1 THEN "close" ELSE "enable")
  /\ Alone(t)
  /\ UNCHANGED <<table, shell, loc, nxt, passed, owner>>

close_callback(t) ==
  /\ pc[t] = "close"
  /\ comp' = [comp EXCEPT ![FPB_CB_REG].on = FALSE]
  /\ \/ /\ nxt[t] < N
        /\ loc' = [loc EXCEPT ![t] = nxt[t]]
        /\ Goto(t, "run") /\ Forget(t) /\ UNCHANGED passed
     \/ nxt[t] >= N /\ Leave(t, "wild")
  /\ owner' = None
  /\ Alone(t)
  /\ UNCHANGED <<table, shell>>
-----------------------------------------------------------------------------
fpb_disable_cur_inst(t) ==
  point_callback(t) \/ disable_current(t) \/ set_callback_branch(t) \/ resume(t)

fpb_enable_callback(t) ==
  read_callback(t) \/ enable_comparators(t) \/ close_callback(t)

Step(t) ==
  \/ Execute(t) \/ TakeBranch(t) \/ GoWild(t)
  \/ FilterSkips(t) \/ FilterPasses(t)
  \/ fpb_disable_cur_inst(t) \/ fpb_enable_callback(t)

Command ==
  \/ \E l \in Patch : add_hw_bkpt(l)
  \/ set_comparator \/ set_active \/ set_patch_mode \/ reset_patch

Next == Command \/ \E t \in Thread : Call(t) \/ Step(t)

Spec == Init /\ [][Next]_vars

(* A thread inside the function keeps executing. *)
FairSpec == Spec /\ \A t \in Thread : WF_vars(Step(t))
-----------------------------------------------------------------------------
(* Word-aligned patches, fewer than the callback's comparator. *)
Plain == ~half /\ ~full

(* No branch leads into the second half of a word that is remapped: of a   *)
(* patch's, or of the one its callback waits at.                           *)
Unentered(l) == \A k \in 0 .. N - 1 : l + 1 \in Flow[k] => k = l
Tidy == \A i \in 0 .. FPB_CB_REG - 1 :
          comp[i].w # NoLoc => Unentered(2 * comp[i].w) /\ Unentered(Next_aligned(2 * comp[i].w))

(* No branch between an instruction and the callback after it. *)
Straight(l) == \A k \in Starts : l <= k /\ k < Next_aligned(l) => Flow[k] = {Succ(k)}

(* Left to itself, with word-aligned patches in their own comparators on   *)
(* words no branch cuts in half, a thread keeps its control flow: it never *)
(* fetches a word that is not an instruction, although one slot of the     *)
(* table is rewritten on every PASS, and a trampoline gives control back   *)
(* where it took it (or leaves the function), although the address is read *)
(* back from a comparator.                                                 *)
ControlFlowKept ==
  [][\A t \in Thread : alone' /\ Plain /\ Tidy =>
       /\ pc'[t] = "wild" => pc[t] = "wild"
       /\ \/ loc'[t] = loc[t] \/ pc'[t] = "out"
          \/ pc[t] = "run" /\ loc'[t] \in Flow[loc[t]]]_vars

(* The filter that leave_fpb_bpkt runs is that of the address at which the *)
(* thread was diverted, even when several threads are in trampolines and   *)
(* whatever comparators they disable: bpkt_idx names the comparator, and   *)
(* only the shell thread changes what a comparator stands for.  The one    *)
(* exception is the Keil build's, where a thread that comparator 1 has     *)
(* diverted also runs the filter of comparator 2.                          *)
FilterOfOwnAddress ==
  \A t \in Thread :
    Plain /\ pc[t] \in {"filter", "next"} =>
      \/ comp[idx[t]].w = Word(loc[t])
      \/ KEIL /\ idx[t] = 2 /\ comp[1].w = Word(loc[t])

(* When no trampoline is active and no comparator has been disabled, every *)
(* comparator of a patch is enabled and the callback's is not.             *)
RearmedOutsideWindow ==
  alone /\ Plain /\ Busy = {} /\ task.pc = "idle" =>
    /\ \A i \in 0 .. FPB_CB_REG - 1 : comp[i].w # NoLoc => comp[i].on
    /\ ~comp[FPB_CB_REG].on

(* With one patch, in comparator 0, and code without a branch from it to   *)
(* the next word-aligned instruction, a thread that is left alone executes *)
(* the patched instruction, however often it loops back to it, only after  *)
(* the filter has let this very execution pass.                            *)
FilteredBeforeExecution ==
  [][\A t \in Thread :
       Execute(t) /\ alone' /\ Plain /\ Tidy /\ fpb_on /\ cur_idx = 1 =>
         \/ t \in passed
         \/ comp[0].w # Word(loc[t]) \/ ~Aligned(loc[t])
         \/ Next_aligned(loc[t]) >= N \/ ~Straight(loc[t])]_vars

(* The window in which a comparator is disabled closes: a thread that is   *)
(* left alone after PASS reaches the callback, if the code has no branch   *)
(* before it and it is in the function and has no patch of its own.        *)
WindowCloses ==
  (/\ owner # None /\ alone /\ Plain
   /\ pc[owner] = "resume" /\ idx[owner] = 0
   /\ nxt[owner] < N /\ Straight(loc[owner])
   /\ \A i \in 0 .. FPB_CB_REG - 1 : comp[i].w # Word(nxt[owner]))
    ~> (owner = None \/ ~alone \/ ~Plain)
=============================================================================
