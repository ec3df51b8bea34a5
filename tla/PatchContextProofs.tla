------------------------ MODULE PatchContextProofs ------------------------
(***************************************************************************)
(* Proofs, for any number of patches, addresses, list nodes and            *)
(* comparators, of the safety properties of the dynamic part of            *)
(* PatchContext.                                                           *)
(***************************************************************************)
EXTENDS PatchContext, ArrayMapOpsProofs

Entering == {"link", "fields", "repoint"}
Installing == Entering \cup {"update", "fbits", "fill", "dbits", "bkpt", "activate"}

(* What the installing task knows at each step. *)
TaskInv ==
  /\ task.pc \in Installing => task.patch \in alive
  /\ task.pc \in Entering \cup {"update"} =>
       task.patch # LocalFixed /\ desc[task.patch].type = "dynamic"
  /\ task.pc \in {"fields", "repoint", "update"} => task.at \in 1 .. Len(dpatch_list)
  /\ task.pc \in Entering =>
       \A i \in 1 .. Len(dpatch_list) : dpatch_list[i].patch # task.patch
  /\ task.pc = "repoint" =>
       dpatch_list[task.at].inst_addr = calc_bpkt_addr(desc[task.patch].inst_addr)
  /\ task.pc = "update" => dpatch_list[task.at].patch = task.patch /\ comp = NoComparators
  /\ task.pc \in {"destroy", "unlink"} => fpb_on = FALSE

(* The node i is being rewritten: its address and its patch may disagree.  *)
Rewriting(i) == task.pc \in {"repoint", "update"} /\ i = task.at

(* Every listed object may have been freed. *)
Freed == task.pc = "unlink" \/ (task.pc = "undefined" /\ fpb_on = FALSE)

(* What every node of the list satisfies. *)
NodeInv ==
  \A i \in 1 .. Len(dpatch_list) :
    /\ dpatch_list[i].patch = NoPatch => task.pc \in {"fields", "repoint"} /\ i = task.at
    /\ dpatch_list[i].patch # NoPatch =>
         /\ dpatch_list[i].patch # LocalFixed
         /\ desc[dpatch_list[i].patch].type = "dynamic"
         /\ Rewriting(i) \/
              dpatch_list[i].inst_addr = calc_bpkt_addr(desc[dpatch_list[i].patch].inst_addr)
         /\ Freed \/ dpatch_list[i].patch \in alive

(* The inductive invariant. *)
IInv ==
  /\ DynTypeOK
  /\ ListBounded
  /\ \A i, j \in 1 .. Len(dpatch_list) :
       i # j /\ dpatch_list[i].patch # NoPatch => dpatch_list[i].patch # dpatch_list[j].patch
  /\ ComparatorsDistinct
  /\ TaskInv
  /\ NodeInv

(* Every entry for n of the map m, under the descriptors d, holds a patch   *)
(* made for n, or the object of the local loader.                          *)
FixedEntries(m, d) ==
  m # NoMap =>
    /\ WellFormed(m, FixedId, Patch)
    /\ \A n \in FixedId, p \in Patch :
         Holds(m, n, p) => p # LocalDynamic /\ (p = LocalFixed \/ d[p] = Fixed(n))

(* The fixed part of the context. *)
FixedInv ==
  /\ ctx_init \in BOOLEAN /\ service \in BOOLEAN /\ refused \in BOOLEAN
  /\ loaders \subseteq {LocalDynamic, LocalFixed}
  /\ fbits_filter \in Word
  /\ FixedEntries(fmap, desc)

Activating == {"fbits", "fill", "dbits", "bkpt", "activate"}

(* The task is installing a network patch for an address in flash. *)
InstallingFlash ==
  /\ task.pc \in {"fields", "repoint"} \cup Activating
  /\ task.patch # LocalDynamic /\ desc[task.patch].type = "dynamic"
  /\ FlashAddress(desc[task.patch].inst_addr)

(* An address is not the vector at 0; one from the network is even. *)
DescInv ==
  \A p \in Patch : desc[p].type = "dynamic" =>
    /\ desc[p].inst_addr \cap 2 .. 28 # {}
    /\ p # LocalDynamic => 0 \notin desc[p].inst_addr

(* The two addresses of a node agree, once they are written. *)
PcInv ==
  \A i \in 1 .. Len(dpatch_list) :
    \/ task.pc = "fields" /\ i = task.at
    \/ dpatch_list[i].pc_addr = calc_bpkt_pc(dpatch_list[i].inst_addr)

(* Only the local object is updated in place, and the patch that is being   *)
(* activated is in its node.                                               *)
EnteredInv ==
  /\ task.pc = "update" => task.patch = LocalDynamic
  /\ task.pc \in Activating /\ desc[task.patch].type = "dynamic" =>
       task.at \in 1 .. Len(dpatch_list) /\ dpatch_list[task.at].patch = task.patch

(* No other node has the address of a network patch being installed. *)
AloneInv ==
  InstallingFlash => \A i \in 1 .. Len(dpatch_list) :
    dpatch_list[i].inst_addr = desc[task.patch].inst_addr => i = task.at

(* The rebuilt filters let every listed address through. *)
PassInv ==
  task.pc \in {"bkpt", "activate"} => \A i \in 1 .. Len(dpatch_list) :
    /\ dpatch_list[i].inst_addr \subseteq dbits_filter_bpkt
    /\ dpatch_list[i].pc_addr \subseteq dbits_filter_pc

(* What makes an installed patch be found: its node is in the list, alone   *)
(* with its address, and the filters let its addresses through.            *)
FoundInv == DescInv /\ PcInv /\ EnteredInv /\ AloneInv /\ PassInv

(* The context exists, or its list is empty. *)
CtxInv ==
  /\ ~ctx_init => fmap = NoMap
  /\ task.pc = "unlink" => fmap = NoMap
  /\ task.pc \in {"fill", "dbits", "bkpt", "activate"} => ctx_init
  /\ task.pc = "idle" /\ ~ctx_init => dpatch_list = <<>>

(* The `patch` command is on its way and has not armed its breakpoint yet. *)
Loading ==
  \/ task.pc \in Entering \cup {"update"}
  \/ task.pc \in {"fbits", "fill", "dbits", "bkpt"} /\ task.patch = LocalDynamic

(* No operation on a dynamic patch is in progress. *)
Settled ==
  \/ task.pc \in {"idle", "activate"}
  \/ task.pc \in {"fbits", "fill", "dbits", "bkpt"} /\ task.patch # LocalDynamic

(* Without network patches, a `patch` command works with all comparators   *)
(* clear, and the breakpoints are the listed patches before and after it.  *)
DeviceInv ==
  OnlyLocal =>
    /\ desc[LocalFixed].type # "dynamic" /\ desc[LocalDynamic].type # "fixed"
    /\ Loading => comp = NoComparators /\ fpb_on = ~HaltingDebug
    /\ Settled /\ ~refused /\ ~HaltingDebug => Breakpoints = Listed
-----------------------------------------------------------------------------
(* The empty sequence is a sequence of anything, and the only one of length 0. *)
LEMMA EmptySeq ==
  ASSUME NEW X
  PROVE  <<>> \in Seq(X) /\ Len(<<>>) = 0 /\ \A s \in Seq(X) : s # <<>> => Len(s) \in Nat \ {0}
OBVIOUS

(* A sequence is a function on the interval its length names. *)
LEMMA LenProperties ==
  ASSUME NEW X, NEW s \in Seq(X)
  PROVE  Len(s) \in Nat /\ s \in [1 .. Len(s) -> X] /\ DOMAIN s = 1 .. Len(s)
OBVIOUS

(* Overwriting one element. *)
LEMMA ExceptSeq ==
  ASSUME NEW X, NEW s \in Seq(X), NEW k \in 1 .. Len(s), NEW x \in X
  PROVE  LET t == [s EXCEPT ![k] = x]
         IN  t \in Seq(X) /\ Len(t) = Len(s) /\ \A i \in 1 .. Len(s) : t[i] = IF i = k THEN x ELSE s[i]
OBVIOUS

(* The slice of a sequence from k to n. *)
LEMMA SubSeqProperties ==
  ASSUME NEW X, NEW s \in Seq(X), NEW k \in 1 .. Len(s) + 1, NEW n \in k - 1 .. Len(s)
  PROVE  /\ SubSeq(s, k, n) \in Seq(X) /\ Len(SubSeq(s, k, n)) = n - k + 1
         /\ \A i \in 1 .. n - k + 1 : SubSeq(s, k, n)[i] = s[k + i - 1]
OBVIOUS

(* One more element at the end. *)
LEMMA AppendProperties ==
  ASSUME NEW X, NEW s \in Seq(X), NEW x \in X
  PROVE  LET t == Append(s, x)
         IN  /\ t \in Seq(X) /\ t # <<>> /\ Len(t) = Len(s) + 1
             /\ \A i \in 1 .. Len(s) : t[i] = s[i]
             /\ t[Len(s) + 1] = x
OBVIOUS

(* First picks the smallest index of a nonempty set of indices. *)
LEMMA FirstProperties ==
  ASSUME NEW I, I \subseteq Nat, I # {}
  PROVE  First(I) \in I /\ \A j \in I : First(I) <= j
<1>1. PICK x \in I : \A y \in I : ~(<<y, x>> \in OpToRel(<, Nat))
  BY Zenon, NatLessThanWellFounded, WFMin
<1>2. OpToRel(<, Nat) = {ss \in Nat \X Nat : ss[1] < ss[2]}
  BY Zenon DEF OpToRel
<1>3. ASSUME NEW y \in I PROVE x <= y
  <2>1. <<y, x>> \notin {ss \in Nat \X Nat : ss[1] < ss[2]}
    BY <1>1, <1>2, Zenon
  <2> QED
    BY <2>1
<1> QED
  BY Zenon, <1>3 DEF First

(* The address computations yield words. *)
LEMMA AddressTypes ==
  ASSUME NEW a \in Word
  PROVE  calc_bpkt_addr(a) \in Word /\ calc_bpkt_pc(a) \in Word
<1>1. calc_bpkt_addr(a) \in Word
  BY Zenon DEF calc_bpkt_addr, Word
<1>2. \A b : PlusBit(a \ {0}, b) \subseteq 0 .. 31
  BY Zenon DEF PlusBit
<1> QED
  BY Zenon, <1>1, <1>2 DEF calc_bpkt_pc, Word

(* A descriptor of type dynamic holds an address. *)
LEMMA DynamicDesc ==
  ASSUME NEW d \in Desc \cup {NoDesc}, d.type = "dynamic"
  PROVE  d.inst_addr \in Word
BY DEF Desc, NoDesc

(* What type correctness says of the list and its nodes. *)
LEMMA ListType ==
  ASSUME DynTypeOK
  PROVE  /\ dpatch_list \in Seq(Node) /\ Len(dpatch_list) \in Nat
         /\ DOMAIN dpatch_list = 1 .. Len(dpatch_list)
         /\ \A i \in 1 .. Len(dpatch_list) :
              /\ dpatch_list[i] \in Node
              /\ dpatch_list[i].inst_addr \in Word /\ dpatch_list[i].pc_addr \in Word
              /\ dpatch_list[i].patch \in Patch \cup {NoPatch}
<1>1. dpatch_list \in Seq(Node)
  BY Zenon DEF DynTypeOK
<1>2. /\ Len(dpatch_list) \in Nat
      /\ DOMAIN dpatch_list = 1 .. Len(dpatch_list)
      /\ \A i \in 1 .. Len(dpatch_list) : dpatch_list[i] \in Node
  BY Zenon, <1>1, LenProperties
<1>3. \A x \in Node : /\ x.inst_addr \in Word /\ x.pc_addr \in Word
                      /\ x.patch \in Patch \cup {NoPatch}
  BY Zenon DEF Node
<1> QED
  BY Zenon, <1>1, <1>2, <1>3

(* Storing the addresses of one node. *)
LEMMA StoreAddresses ==
  ASSUME NEW s \in Seq(Node), NEW k \in 1 .. Len(s), NEW a \in Word, NEW b \in Word,
         NEW t, t = [s EXCEPT ![k].inst_addr = a, ![k].pc_addr = b]
  PROVE  /\ t \in Seq(Node) /\ Len(t) = Len(s)
         /\ \A j \in 1 .. Len(s) :
              /\ t[j].patch = s[j].patch
              /\ t[j].inst_addr = IF j = k THEN a ELSE s[j].inst_addr
              /\ t[j].pc_addr = IF j = k THEN b ELSE s[j].pc_addr
<1> DEFINE n == [s[k] EXCEPT !.inst_addr = a, !.pc_addr = b]
<1>1. s \in [1 .. Len(s) -> Node] /\ s[k] \in Node
  BY Zenon, LenProperties
<1>2. n \in Node /\ n.patch = s[k].patch /\ n.inst_addr = a /\ n.pc_addr = b
  BY Zenon, <1>1 DEF Node
<1>3. t = [s EXCEPT ![k] = n]
  BY Zenon, <1>1
<1> HIDE DEF n
<1>4. t \in Seq(Node) /\ Len(t) = Len(s)
  BY <1>2, <1>3, ExceptSeq
<1>5. \A j \in 1 .. Len(s) : t[j] = IF j = k THEN n ELSE s[j]
  BY Zenon, <1>1, <1>3
<1> QED
  BY ONLY Zenon, <1>2, <1>4, <1>5

(* Storing the patch pointer of one node. *)
LEMMA StorePatch ==
  ASSUME NEW s \in Seq(Node), NEW k \in 1 .. Len(s), NEW p \in Patch,
         NEW t, t = [s EXCEPT ![k].patch = p]
  PROVE  /\ t \in Seq(Node) /\ Len(t) = Len(s)
         /\ \A j \in 1 .. Len(s) :
              /\ t[j].inst_addr = s[j].inst_addr /\ t[j].pc_addr = s[j].pc_addr
              /\ t[j].patch = IF j = k THEN p ELSE s[j].patch
<1> DEFINE n == [s[k] EXCEPT !.patch = p]
<1>1. s \in [1 .. Len(s) -> Node] /\ s[k] \in Node
  BY Zenon, LenProperties
<1>2. n \in Node /\ n.inst_addr = s[k].inst_addr /\ n.pc_addr = s[k].pc_addr /\ n.patch = p
  BY Zenon, <1>1 DEF Node
<1>3. t = [s EXCEPT ![k] = n]
  BY Zenon, <1>1
<1> HIDE DEF n
<1> QED
  BY <1>2, <1>3, ExceptSeq
-----------------------------------------------------------------------------
(* The invariant holds at boot. *)
LEMMA IInvInit == Init => IInv
<1> SUFFICES ASSUME Init PROVE IInv
  BY Zenon
<1> USE PatchContextAssumption
<1>1. dpatch_list \in Seq(Node) /\ Len(dpatch_list) = 0
  BY Zenon, EmptySeq DEF Init
<1>2. {} \in Word
  BY Zenon DEF Word
<1>3. comp \in [0 .. MAX_BP - 1 -> Word]
  BY Zenon, <1>2 DEF Init, NoComparators
<1>4. task \in [pc : Pc, patch : Patch \cup {NoPatch}, at : Nat] /\ task.pc = "idle"
  BY Zenon DEF Init, Idle, Pc
<1>5. DynTypeOK
  <2>1. desc \in [Patch -> Desc \cup {NoDesc}]
    BY Zenon DEF Init
  <2>2. /\ cur_idx \in 0 .. MAX_BP
        /\ fpb_on \in BOOLEAN
    <3>1. cur_idx = 0 /\ fpb_on = FALSE
      BY Zenon DEF Init
    <3>2. cur_idx \in 0 .. MAX_BP
      BY <3>1
    <3>3. fpb_on \in BOOLEAN
      BY Zenon, <3>1
    <3> QED
      BY Zenon, <3>2, <3>3
  <2>3. dbits_filter_bpkt \in Word /\ dbits_filter_pc \in Word
    BY Zenon, <1>2 DEF Init
  <2>4. alive \subseteq Patch /\ is_active \subseteq Patch
    BY Zenon DEF Init
  <2> QED
    BY Zenon, <1>1, <1>3, <1>4, <2>1, <2>2, <2>3, <2>4 DEF DynTypeOK
<1> QED
  BY <1>1, <1>4, <1>5
     DEF Init, IInv, ListBounded, ComparatorsDistinct, NoComparators, TaskInv, NodeInv,
         Entering, Installing

(* A step that only moves the task along, or changes the filters: it       *)
(* leaves the list, the heap and the comparators alone.                    *)
Quiet(next) ==
  /\ UNCHANGED <<dpatch_list, alive, desc, comp, cur_idx, fpb_on>>
  /\ dbits_filter_bpkt' \in Word /\ dbits_filter_pc' \in Word
  /\ is_active' \subseteq Patch
  /\ task.pc \in Installing \ (Entering \cup {"update"})
  /\ task' \in [pc : Pc, patch : Patch \cup {NoPatch}, at : Nat] /\ task'.pc \in next
  /\ task'.pc \in Installing => task'.patch = task.patch

(* Such a step preserves the invariant. *)
LEMMA QuietStep ==
  ASSUME NEW next, IInv, Quiet(next),
         next \subseteq {"idle", "fill", "dbits", "bkpt", "activate", "undefined"}
  PROVE  IInv'
<1> USE DEF IInv, Quiet
<1>1. DynTypeOK'
  BY Zenon DEF DynTypeOK
<1>2. TaskInv'
  BY Zenon DEF TaskInv, Entering, Installing
<1>3. NodeInv'
  <2> SUFFICES ASSUME NEW i \in 1 .. Len(dpatch_list)
               PROVE  /\ dpatch_list[i].patch # NoPatch
                      /\ dpatch_list[i].patch # LocalFixed
                      /\ desc[dpatch_list[i].patch].type = "dynamic"
                      /\ dpatch_list[i].inst_addr
                            = calc_bpkt_addr(desc[dpatch_list[i].patch].inst_addr)
                      /\ dpatch_list[i].patch \in alive
    BY Zenon DEF NodeInv
  <2> QED
    BY Zenon DEF NodeInv, Rewriting, Freed, Entering, Installing
<1> QED
  BY <1>1, <1>2, <1>3 DEF ListBounded, ComparatorsDistinct

(* The steps of update_bits_filter and the last store of active_patch.     *)
LEMMA FilterSteps ==
  ASSUME IInv,
         empty_fixed_filter \/ fill_fixed_filter \/ fill_dynamic_filters \/ set_active
  PROVE  IInv'
<1> USE DEF IInv, DynTypeOK, heap, fpb, ctx, Goto
<1>1. CASE empty_fixed_filter
  <2>1. Quiet({"fill", "undefined"})
    BY Zenon, <1>1 DEF empty_fixed_filter, Quiet, Installing, Entering, Pc
  <2> QED
    BY Zenon, <2>1, QuietStep
<1>2. CASE fill_fixed_filter
  <2>1. {} \in Word
    BY Zenon DEF Word
  <2>2. Quiet({"dbits"})
    BY Zenon, <1>2, <2>1 DEF fill_fixed_filter, Quiet, Installing, Entering, Pc
  <2> QED
    BY Zenon, <2>2, QuietStep
<1>3. CASE fill_dynamic_filters
  <2>1. \A i \in DOMAIN dpatch_list :
          dpatch_list[i].inst_addr \in Word /\ dpatch_list[i].pc_addr \in Word
    BY Zenon, ListType
  <2>2. dbits_filter_bpkt' \in Word
    BY ONLY Zenon, <1>3, <2>1 DEF fill_dynamic_filters, Word
  <2>3. dbits_filter_pc' \in Word
    BY ONLY Zenon, <1>3, <2>1 DEF fill_dynamic_filters, Word
  <2>4. Quiet({"bkpt"})
    BY Zenon, <1>3, <2>2, <2>3 DEF fill_dynamic_filters, Quiet, Installing, Entering, Pc
  <2> QED
    BY Zenon, <2>4, QuietStep
<1>4. CASE set_active
  <2>1. task.pc = "activate" /\ task.patch \in Patch
    BY Zenon, <1>4 DEF set_active, TaskInv, Installing
  <2>2. Quiet({"idle"})
    BY Zenon, <1>4, <2>1 DEF set_active, Quiet, Idle, Installing, Entering, Pc
  <2> QED
    BY Zenon, <2>2, QuietStep
<1> QED
  BY Zenon, <1>1, <1>2, <1>3, <1>4

(* add_hw_bkpt keeps the comparators distinct: it writes an address only   *)
(* when no comparator holds it.                                            *)
LEMMA AddComparator ==
  ASSUME NEW a \in Word, DynTypeOK, ComparatorsDistinct, add_hw_bkpt(a)
  PROVE  /\ comp' \in [0 .. MAX_BP - 1 -> Word] /\ cur_idx' \in 0 .. MAX_BP
         /\ ComparatorsDistinct'
<1> USE PatchContextAssumption DEF DynTypeOK, ComparatorsDistinct
<1> DEFINE c == calc_bpkt_addr(a)
           idx == IF cur_idx >= MAX_BP THEN 0 ELSE cur_idx
<1>1. c \in Word
  BY Zenon, AddressTypes
<1>2. idx \in 0 .. MAX_BP - 1
  OBVIOUS
<1> HIDE DEF c, idx
<1>3. CASE UNCHANGED comp /\ cur_idx' \in {cur_idx, idx}
  BY <1>2, <1>3
<1>4. CASE /\ \A i \in 0 .. MAX_BP - 1 : comp[i] # c
           /\ comp' = [comp EXCEPT ![idx] = c] /\ cur_idx' = idx + 1
  BY <1>1, <1>2, <1>4
<1> QED
  BY Zenon, <1>3, <1>4 DEF add_hw_bkpt, c, idx

(* active_patch arms the new patch. *)
LEMMA ArmStep ==
  ASSUME IInv, arm_patch
  PROVE  IInv'
<1> USE PatchContextAssumption DEF IInv
<1>1. task.pc = "bkpt" /\ task'.pc = "activate" /\ task' = [task EXCEPT !.pc = "activate"]
  BY Zenon DEF arm_patch, Goto, DynTypeOK
<1>2. task.patch \in Patch /\ task.patch \in alive
  BY Zenon, <1>1 DEF TaskInv, Installing, DynTypeOK
<1>3. /\ comp' \in [0 .. MAX_BP - 1 -> Word] /\ cur_idx' \in 0 .. MAX_BP
      /\ ComparatorsDistinct'
  <2>1. CASE desc[task.patch].type = "fixed"
    BY Zenon, <2>1 DEF arm_patch, DynTypeOK, ComparatorsDistinct
  <2>2. CASE desc[task.patch].type = "dynamic"
    <3>1. desc[task.patch].inst_addr \in Word
      BY Zenon, <1>2, <2>2, DynamicDesc DEF DynTypeOK
    <3>2. add_hw_bkpt(desc[task.patch].inst_addr)
      BY Zenon, <2>2 DEF arm_patch
    <3> QED
      BY Zenon, <3>1, <3>2, AddComparator
  <2> QED
    BY Zenon, <2>1, <2>2 DEF arm_patch
<1>4. UNCHANGED <<dpatch_list, alive, desc, is_active, fpb_on, dbits_filter_bpkt,
                  dbits_filter_pc>>
  BY Zenon DEF arm_patch, heap
<1>5. DynTypeOK'
  BY Zenon, <1>1, <1>3, <1>4 DEF DynTypeOK, Pc
<1>6. TaskInv'
  BY Zenon, <1>1, <1>2, <1>4 DEF TaskInv, Entering, Installing, DynTypeOK
<1>7. NodeInv'
  BY Zenon, <1>1, <1>4 DEF NodeInv, Rewriting, Freed
<1> QED
  BY <1>3, <1>4, <1>5, <1>6, <1>7 DEF ListBounded
-----------------------------------------------------------------------------
(* The search of add_dynamic_patch_to_ctx: a prefix of the list is kept,   *)
(* the whole list, or the list and one new node.  Only the last node may   *)
(* have the address that was searched for.                                 *)
LEMMA SearchedList ==
  ASSUME DynTypeOK, ListBounded, add_dynamic_search
  PROVE  /\ dpatch_list' \in Seq(Node) /\ Len(dpatch_list') \in 1 .. MAX_DP_NUM + 1
         /\ \A i \in 1 .. Len(dpatch_list') :
              \/ i \in 1 .. Len(dpatch_list) /\ dpatch_list'[i] = dpatch_list[i]
              \/ i = Len(dpatch_list') /\ dpatch_list'[i].patch = NoPatch
         /\ \A i \in 1 .. Len(dpatch_list') :
              dpatch_list'[i].inst_addr = desc[task.patch].inst_addr => i = Len(dpatch_list')
<1> USE PatchContextAssumption
<1> DEFINE same == {i \in DOMAIN dpatch_list :
                      dpatch_list[i].inst_addr = desc[task.patch].inst_addr}
           n == Len(dpatch_list)
           m == Len(dpatch_list')
<1>1. /\ dpatch_list \in Seq(Node) /\ n \in Nat /\ DOMAIN dpatch_list = 1 .. n
      /\ \A i \in 1 .. n : dpatch_list[i] \in Node
  BY Zenon, ListType
<1>2. same \subseteq Nat /\ same \subseteq 1 .. n
  BY <1>1
<1>3. \A i \in 1 .. n : dpatch_list[i].inst_addr = desc[task.patch].inst_addr => i \in same
  BY Zenon, <1>1
<1>4. RawNode \in Node /\ RawNode.patch = NoPatch
  BY Zenon DEF RawNode, Node, Word
<1>5. \/ same # {} /\ dpatch_list' = SubSeq(dpatch_list, 1, First(same))
      \/ same = {} /\ n > MAX_DP_NUM /\ UNCHANGED dpatch_list
      \/ same = {} /\ ~(n > MAX_DP_NUM) /\ dpatch_list' = Append(dpatch_list, RawNode)
  BY Zenon DEF add_dynamic_search, ListFull
<1> HIDE DEF same
<1>6. CASE same # {} /\ dpatch_list' = SubSeq(dpatch_list, 1, First(same))
  <2>1. First(same) \in 1 .. n /\ \A j \in same : First(same) <= j
    BY Zenon, <1>2, <1>6, FirstProperties
  <2>2. n \in Nat /\ 1 \in 1 .. n + 1 /\ First(same) \in 0 .. n
    BY <1>1, <2>1
  <2>4. /\ SubSeq(dpatch_list, 1, First(same)) \in Seq(Node)
        /\ Len(SubSeq(dpatch_list, 1, First(same))) = First(same)
        /\ \A i \in 1 .. First(same) : SubSeq(dpatch_list, 1, First(same))[i] = dpatch_list[i]
    BY <1>1, <2>2, SubSeqProperties
  <2>5. /\ dpatch_list' \in Seq(Node) /\ m = First(same)
        /\ \A i \in 1 .. m : dpatch_list'[i] = dpatch_list[i]
    BY Zenon, <1>6, <2>4
  <2> QED
    BY <1>1, <1>3, <2>1, <2>5 DEF ListBounded
<1>7. CASE same = {} /\ n > MAX_DP_NUM /\ UNCHANGED dpatch_list
  <2>1. n \in 1 .. MAX_DP_NUM + 1
    BY <1>1, <1>7 DEF ListBounded
  <2> QED
    BY Zenon, <1>1, <1>3, <1>7, <2>1
<1>8. CASE same = {} /\ ~(n > MAX_DP_NUM) /\ dpatch_list' = Append(dpatch_list, RawNode)
  <2>1. /\ dpatch_list' \in Seq(Node) /\ m = n + 1
        /\ \A i \in 1 .. n : dpatch_list'[i] = dpatch_list[i]
        /\ dpatch_list'[n + 1] = RawNode
    BY <1>1, <1>4, <1>8, AppendProperties
  <2> QED
    BY <1>1, <1>3, <1>4, <1>8, <2>1
<1> QED
  BY Zenon, <1>5, <1>6, <1>7, <1>8

(* The search keeps the invariant. *)
LEMMA SearchStep ==
  ASSUME IInv, add_dynamic_search
  PROVE  IInv'
<1> USE PatchContextAssumption DEF IInv
<1> DEFINE n == Len(dpatch_list)
           m == Len(dpatch_list')
<1>1. /\ dpatch_list \in Seq(Node) /\ n \in Nat /\ DOMAIN dpatch_list = 1 .. n
      /\ \A i \in 1 .. n : dpatch_list[i] \in Node
  BY Zenon, ListType
<1>2. /\ task.pc = "link" /\ task.patch \in alive /\ task.patch # LocalFixed
      /\ desc[task.patch].type = "dynamic"
      /\ \A i \in 1 .. n : dpatch_list[i].patch # task.patch
      /\ \A i \in 1 .. n : dpatch_list[i].patch # NoPatch
  BY Zenon DEF add_dynamic_search, ListFull, TaskInv, NodeInv, Entering, Installing
<1>3. UNCHANGED <<alive, desc, is_active, comp, cur_idx, fpb_on, dbits_filter_bpkt,
                  dbits_filter_pc>>
  BY Zenon DEF add_dynamic_search, heap, fpb, filters
<1>4. RawNode \in Node /\ RawNode.patch = NoPatch
  BY Zenon DEF RawNode, Node, Word
<1>5. /\ dpatch_list' \in Seq(Node) /\ m \in 1 .. MAX_DP_NUM + 1
      /\ \A i \in 1 .. m : \/ i \in 1 .. n /\ dpatch_list'[i] = dpatch_list[i]
                           \/ i = m /\ dpatch_list'[i].patch = NoPatch
  BY Zenon, SearchedList
<1>6. task'.pc = "fields" /\ task'.at = m /\ task'.patch = task.patch
  BY Zenon DEF add_dynamic_search, ListFull, DynTypeOK
<1>7. task' \in [pc : Pc, patch : Patch \cup {NoPatch}, at : Nat]
  <2>1. m \in Nat /\ task' = [task EXCEPT !.pc = "fields", !.at = m]
    BY <1>5 DEF add_dynamic_search, ListFull
  <2> HIDE DEF m
  <2> QED
    BY Zenon, <2>1 DEF DynTypeOK, Pc
<1>8. DynTypeOK'
  BY Zenon, <1>3, <1>5, <1>7 DEF DynTypeOK
<1>9. TaskInv'
  BY SMTT(30), <1>2, <1>3, <1>5, <1>6 DEF TaskInv, Entering, Installing, DynTypeOK
<1>10. NodeInv'
  <2> SUFFICES ASSUME NEW i \in 1 .. m
               PROVE  /\ dpatch_list'[i].patch = NoPatch => i = m
                      /\ dpatch_list'[i].patch # NoPatch =>
                           /\ i \in 1 .. n /\ dpatch_list'[i] = dpatch_list[i]
    BY SMTT(30), <1>2, <1>3, <1>6 DEF NodeInv, Rewriting, Freed
  <2> QED
    BY Zenon, <1>2, <1>5
<1>11. \A i, j \in 1 .. m :
         i # j /\ dpatch_list'[i].patch # NoPatch
           => dpatch_list'[i].patch # dpatch_list'[j].patch
  BY Zenon, <1>5
<1> QED
  BY <1>3, <1>5, <1>8, <1>9, <1>10, <1>11 DEF ListBounded, ComparatorsDistinct

(* The address stores, of a node being entered or of the local patch. *)
LEMMA AddressStep ==
  ASSUME IInv, set_node_addresses
  PROVE  IInv'
<1> USE PatchContextAssumption DEF IInv
<1> DEFINE a == calc_bpkt_addr(desc[task.patch].inst_addr)
           n == Len(dpatch_list)
<1>1. /\ task.pc \in {"fields", "update"} /\ task.patch \in alive /\ task.patch \in Patch
      /\ task.patch # LocalFixed
      /\ desc[task.patch].type = "dynamic" /\ task.at \in 1 .. n
  BY Zenon DEF set_node_addresses, TaskInv, Entering, Installing, DynTypeOK
<1>2. a \in Word /\ calc_bpkt_pc(a) \in Word
  BY Zenon, <1>1, DynamicDesc, AddressTypes DEF DynTypeOK
<1>3. /\ dpatch_list' \in Seq(Node) /\ Len(dpatch_list') = n /\ n \in Nat
      /\ \A j \in 1 .. n :
           /\ dpatch_list'[j].patch = dpatch_list[j].patch
           /\ dpatch_list'[j].inst_addr = IF j = task.at THEN a ELSE dpatch_list[j].inst_addr
  <2>1. /\ dpatch_list \in Seq(Node) /\ n \in Nat
        /\ dpatch_list' = [dpatch_list EXCEPT ![task.at].inst_addr = a,
                                              ![task.at].pc_addr = calc_bpkt_pc(a)]
    BY Zenon, ListType DEF set_node_addresses
  <2> HIDE DEF a
  <2> QED
    BY <1>1, <1>2, <2>1, StoreAddresses
<1>4. /\ UNCHANGED <<alive, desc, is_active, comp, cur_idx, fpb_on, dbits_filter_bpkt,
                     dbits_filter_pc>>
      /\ task' = [task EXCEPT !.pc = IF task.pc = "fields" THEN "repoint" ELSE "fbits"]
  BY Zenon DEF set_node_addresses, heap, fpb, filters, Goto
<1> HIDE DEF a
<1>5. /\ task'.pc = (IF task.pc = "fields" THEN "repoint" ELSE "fbits")
      /\ task'.at = task.at /\ task'.patch = task.patch
  BY Zenon, <1>4 DEF DynTypeOK
<1>6. DynTypeOK'
  BY Zenon, <1>3, <1>4 DEF DynTypeOK, Pc
<1>7. TaskInv'
  BY <1>1, <1>3, <1>4, <1>5 DEF TaskInv, Entering, Installing, a
<1>8. NodeInv'
  <2>1. CASE task.pc = "fields"
    BY <1>3, <1>4, <1>5, <2>1 DEF NodeInv, Rewriting, Freed
  <2>2. CASE task.pc = "update"
    <3>1. dpatch_list[task.at].patch = task.patch
      BY Zenon, <2>2 DEF TaskInv
    <3> QED
      BY <1>1, <1>3, <1>4, <1>5, <2>2, <3>1 DEF NodeInv, Rewriting, Freed, a
  <2> QED
    BY Zenon, <1>1, <2>1, <2>2
<1>9. \A i, j \in 1 .. n :
         i # j /\ dpatch_list'[i].patch # NoPatch
           => dpatch_list'[i].patch # dpatch_list'[j].patch
  BY <1>3
<1> QED
  BY Zenon, <1>3, <1>4, <1>6, <1>7, <1>8, <1>9 DEF ListBounded, ComparatorsDistinct

(* The patch store: the node's address is the one of the new patch. *)
LEMMA PatchStep ==
  ASSUME IInv, set_node_patch
  PROVE  IInv'
<1> USE PatchContextAssumption DEF IInv
<1> DEFINE n == Len(dpatch_list)
<1>1. /\ task.pc = "repoint" /\ task.patch \in alive /\ task.patch \in Patch
      /\ task.patch # LocalFixed
      /\ desc[task.patch].type = "dynamic" /\ task.at \in 1 .. n
      /\ \A i \in 1 .. n : dpatch_list[i].patch # task.patch
      /\ dpatch_list[task.at].inst_addr = calc_bpkt_addr(desc[task.patch].inst_addr)
  BY Zenon DEF set_node_patch, TaskInv, Entering, Installing, DynTypeOK
<1>2. /\ dpatch_list' \in Seq(Node) /\ Len(dpatch_list') = n /\ n \in Nat
      /\ \A j \in 1 .. n :
           /\ dpatch_list'[j].inst_addr = dpatch_list[j].inst_addr
           /\ dpatch_list'[j].patch = IF j = task.at THEN task.patch ELSE dpatch_list[j].patch
  <2>1. /\ dpatch_list \in Seq(Node) /\ n \in Nat
        /\ dpatch_list' = [dpatch_list EXCEPT ![task.at].patch = task.patch]
    BY Zenon, ListType DEF set_node_patch
  <2> QED
    BY <1>1, <2>1, StorePatch
<1>3. /\ UNCHANGED <<alive, desc, is_active, comp, cur_idx, fpb_on, dbits_filter_bpkt,
                     dbits_filter_pc>>
      /\ task' = [task EXCEPT !.pc = "fbits"]
  BY Zenon DEF set_node_patch, heap, fpb, filters, Goto
<1>4. task'.pc = "fbits" /\ task'.at = task.at /\ task'.patch = task.patch
  BY Zenon, <1>3 DEF DynTypeOK
<1>5. DynTypeOK'
  BY Zenon, <1>2, <1>3 DEF DynTypeOK, Pc
<1>6. TaskInv'
  BY <1>1, <1>3, <1>4 DEF TaskInv, Entering, Installing
<1>7. NodeInv'
  BY <1>1, <1>2, <1>3, <1>4 DEF NodeInv, Rewriting, Freed
<1>8. \A i, j \in 1 .. n :
         i # j /\ dpatch_list'[i].patch # NoPatch
           => dpatch_list'[i].patch # dpatch_list'[j].patch
  BY <1>1, <1>2
<1> QED
  BY Zenon, <1>2, <1>3, <1>5, <1>6, <1>7, <1>8 DEF ListBounded, ComparatorsDistinct
-----------------------------------------------------------------------------
(* An operation begins while the task is idle, and keeps the list or       *)
(* starts from an empty one: every node is complete, live and consistent.  *)
LEMMA ListAtBegin ==
  ASSUME IInv, task.pc = "idle", dpatch_list' \in {dpatch_list, <<>>}
  PROVE  /\ dpatch_list' \in Seq(Node) /\ ListBounded' /\ Len(dpatch_list') \in Nat
         /\ \A i \in 1 .. Len(dpatch_list') :
              /\ i \in 1 .. Len(dpatch_list) /\ dpatch_list'[i] = dpatch_list[i]
              /\ dpatch_list'[i] \in Node
              /\ dpatch_list'[i].patch \in Patch /\ dpatch_list'[i].patch # NoPatch
              /\ dpatch_list'[i].patch \in alive
              /\ dpatch_list'[i].patch # LocalFixed
              /\ desc[dpatch_list'[i].patch].type = "dynamic"
              /\ dpatch_list'[i].inst_addr
                    = calc_bpkt_addr(desc[dpatch_list'[i].patch].inst_addr)
         /\ \A i, j \in 1 .. Len(dpatch_list') :
              i # j => dpatch_list'[i].patch # dpatch_list'[j].patch
<1> USE PatchContextAssumption
<1>1. dpatch_list \in Seq(Node) /\ <<>> \in Seq(Node) /\ Len(<<>>) = 0
  BY Zenon, EmptySeq DEF IInv, DynTypeOK
<1>2. CASE dpatch_list' = <<>>
  BY SMTT(30), <1>1, <1>2 DEF ListBounded
<1>3. CASE dpatch_list' = dpatch_list
  <2>1. \A i \in 1 .. Len(dpatch_list) :
          dpatch_list[i] \in Node /\ dpatch_list[i].patch \in Patch \cup {NoPatch}
    BY Zenon, ListType DEF IInv
  <2>2. \A i \in 1 .. Len(dpatch_list) : dpatch_list[i].patch # NoPatch
    BY Zenon DEF IInv, NodeInv
  <2> QED
    BY SMTT(30), <1>1, <1>3, <2>1, <2>2, LenProperties DEF IInv, NodeInv, ListBounded, Rewriting, Freed
<1> QED
  BY Zenon, <1>2, <1>3

(* init_patch_sys keeps the list or empties it, and the filters with it.   *)
LEMMA InitPatchSys ==
  ASSUME DynTypeOK, init_patch_sys \/ UNCHANGED ctx
  PROVE  /\ dpatch_list' \in {dpatch_list, <<>>}
         /\ dbits_filter_bpkt' \in Word /\ dbits_filter_pc' \in Word
BY Zenon DEF init_patch_sys, ctx, DynTypeOK, Word

(* start_patch_service. *)
LEMMA StartService ==
  ASSUME IInv, start_patch_service
  PROVE  IInv'
<1> USE PatchContextAssumption
<1>1. /\ task.pc = "idle" /\ dpatch_list' \in {dpatch_list, <<>>}
      /\ dbits_filter_bpkt' \in Word /\ dbits_filter_pc' \in Word
      /\ UNCHANGED <<alive, desc, is_active, comp, cur_idx, fpb_on, task>>
  BY Zenon, InitPatchSys DEF start_patch_service, IInv, heap, fpb
<1>2. DynTypeOK'
  BY Zenon, <1>1, ListAtBegin DEF IInv, DynTypeOK
<1>3. TaskInv'
  BY Zenon, <1>1 DEF TaskInv, Entering, Installing
<1>4. NodeInv'
  BY Zenon, <1>1, ListAtBegin DEF NodeInv
<1> QED
  BY <1>1, <1>2, <1>3, <1>4, ListAtBegin DEF IInv, ComparatorsDistinct

(* A dynamic patch arrives: its object is new, so no node holds it yet. *)
LEMMA NotifyDynamic ==
  ASSUME IInv, NEW p \in Patch, NEW a \in NetAddr, notify_new_dynamic(p, a)
  PROVE  IInv'
<1> USE PatchContextAssumption
<1> DEFINE d == Dynamic(a \ {0, 1})
<1>1. /\ task.pc = "idle" /\ dpatch_list' = dpatch_list
      /\ UNCHANGED <<is_active, comp, cur_idx, fpb_on, dbits_filter_bpkt, dbits_filter_pc>>
      /\ p # LocalFixed /\ desc[p] = NoDesc
      /\ alive' = alive \cup {p} /\ desc' = [desc EXCEPT ![p] = d]
      /\ task' = [pc |-> "link", patch |-> p, at |-> 0]
  BY Zenon DEF notify_new_dynamic, ebpf_patch_setup, ctx, fpb, Idle
<1>2. d \in Desc /\ d.type = "dynamic"
  BY Zenon DEF Desc, Dynamic, Word
<1> HIDE DEF d
<1>3. \A i \in 1 .. Len(dpatch_list) : dpatch_list[i].patch # p
  BY SMTT(30), <1>1, ListAtBegin DEF NoDesc
<1>4. DynTypeOK'
  BY Zenon, <1>1, <1>2 DEF IInv, DynTypeOK, Pc
<1>5. desc'[p].type = "dynamic" /\ \A q \in Patch : q # p => desc'[q] = desc[q]
  BY Zenon, <1>1, <1>2 DEF IInv, DynTypeOK
<1>6. TaskInv'
  BY Zenon, <1>1, <1>3, <1>5 DEF TaskInv, Entering, Installing
<1>7. NodeInv'
  <2> SUFFICES ASSUME NEW i \in 1 .. Len(dpatch_list')
               PROVE  /\ dpatch_list'[i].patch # NoPatch /\ dpatch_list'[i].patch # LocalFixed
                      /\ desc'[dpatch_list'[i].patch].type = "dynamic"
                      /\ dpatch_list'[i].inst_addr
                           = calc_bpkt_addr(desc'[dpatch_list'[i].patch].inst_addr)
                      /\ dpatch_list'[i].patch \in alive'
    BY Zenon DEF NodeInv
  <2>1. /\ desc'[dpatch_list'[i].patch] = desc[dpatch_list'[i].patch]
        /\ dpatch_list'[i].patch \in alive'
    BY <1>1, <1>3, <1>5, ListAtBegin
  <2> QED
    BY SMTT(30), <1>1, <2>1, ListAtBegin
<1> QED
  BY SMTT(30), <1>1, <1>4, <1>6, <1>7, ListAtBegin DEF IInv, ComparatorsDistinct

(* A fixed patch arrives. *)
LEMMA NotifyFixed ==
  ASSUME IInv, NEW p \in Patch, NEW n \in FixedId, notify_new_fixed(p, n)
  PROVE  IInv'
<1> USE PatchContextAssumption
<1>1. /\ task.pc = "idle" /\ dpatch_list' = dpatch_list
      /\ UNCHANGED <<is_active, comp, cur_idx, fpb_on, dbits_filter_bpkt, dbits_filter_pc>>
      /\ desc[p] = NoDesc
      /\ alive' = alive \cup {p} /\ desc' = [desc EXCEPT ![p] = Fixed(n)]
      /\ \/ task' = [pc |-> "undefined", patch |-> NoPatch, at |-> 0]
         \/ task' = [pc |-> "fbits", patch |-> p, at |-> 0]
  BY Zenon DEF notify_new_fixed, add_fixed_patch_to_ctx, ebpf_patch_setup, filters, fpb, Idle
<1>2. Fixed(n) \in Desc
  BY Zenon DEF Desc, Fixed
<1>3. \A i \in 1 .. Len(dpatch_list) : dpatch_list[i].patch # p
  BY SMTT(30), <1>1, ListAtBegin DEF NoDesc
<1>4. DynTypeOK'
  BY SMTT(30), <1>1, <1>2 DEF IInv, DynTypeOK, Pc
<1>5. \A q \in Patch : q # p => desc'[q] = desc[q]
  BY Zenon, <1>1, <1>2 DEF IInv, DynTypeOK
<1>6. TaskInv'
  BY SMTT(30), <1>1, <1>3, <1>5 DEF TaskInv, Entering, Installing
<1>7. NodeInv'
  <2> SUFFICES ASSUME NEW i \in 1 .. Len(dpatch_list')
               PROVE  /\ dpatch_list'[i].patch # NoPatch /\ dpatch_list'[i].patch # LocalFixed
                      /\ desc'[dpatch_list'[i].patch].type = "dynamic"
                      /\ dpatch_list'[i].inst_addr
                           = calc_bpkt_addr(desc'[dpatch_list'[i].patch].inst_addr)
                      /\ dpatch_list'[i].patch \in alive'
    BY Zenon DEF NodeInv
  <2>1. /\ desc'[dpatch_list'[i].patch] = desc[dpatch_list'[i].patch]
        /\ dpatch_list'[i].patch \in alive'
    BY <1>1, <1>3, <1>5, ListAtBegin
  <2> QED
    BY <1>1, <2>1, ListAtBegin
<1> QED
  BY SMTT(30), <1>1, <1>4, <1>6, <1>7, ListAtBegin DEF IInv, ComparatorsDistinct

(* The comparators are all distinct when they are all empty. *)
LEMMA Cleared ==
  ASSUME comp' = NoComparators, cur_idx' = 0
  PROVE  /\ comp' \in [0 .. MAX_BP - 1 -> Word] /\ cur_idx' \in 0 .. MAX_BP
         /\ ComparatorsDistinct'
BY PatchContextAssumption DEF NoComparators, ComparatorsDistinct, Word

(* The `patch` command: the descriptor of the loader's object changes, and *)
(* if a node holds the object that node is the one to be rewritten.        *)
LEMMA ReadLocalPatch ==
  ASSUME IInv, NEW a \in LocalAddr, read_local_patch(a)
  PROVE  IInv'
<1> USE PatchContextAssumption
<1> DEFINE d == Dynamic(a)
           mine == {i \in DOMAIN dpatch_list' : dpatch_list'[i].patch = LocalDynamic}
<1>1. /\ task.pc = "idle"
      /\ comp' = NoComparators /\ cur_idx' = 0 /\ fpb_on' \in BOOLEAN
      /\ UNCHANGED is_active
  BY Zenon DEF read_local_patch, set_patch_mode
<1>2. /\ dpatch_list' \in {dpatch_list, <<>>}
      /\ dbits_filter_bpkt' \in Word /\ dbits_filter_pc' \in Word
  BY Zenon, InitPatchSys DEF read_local_patch, IInv
<1>3. d \in Desc /\ d.type = "dynamic"
  BY Zenon DEF Desc, Dynamic
<1>4. CASE /\ task' = [pc |-> "undefined", patch |-> NoPatch, at |-> 0]
           /\ UNCHANGED <<alive, desc>>
  <2>1. DynTypeOK'
    BY Zenon, <1>1, <1>2, <1>4, ListAtBegin, Cleared DEF IInv, DynTypeOK, Pc
  <2>2. TaskInv'
    BY Zenon, <1>4 DEF TaskInv, Entering, Installing
  <2>3. NodeInv'
    BY <1>1, <1>2, <1>4, ListAtBegin DEF NodeInv
  <2> QED
    BY SMTT(30), <1>1, <1>2, <2>1, <2>2, <2>3, ListAtBegin, Cleared DEF IInv
<1>5. CASE /\ alive' = alive \cup {LocalDynamic}
           /\ desc' = [desc EXCEPT ![LocalDynamic] = d]
           /\ task' = [pc    |-> IF mine = {} THEN "link" ELSE "update",
                       patch |-> LocalDynamic,
                       at    |-> IF mine = {} THEN 0 ELSE First(mine)]
  <2>1. DOMAIN dpatch_list' = 1 .. Len(dpatch_list') /\ Len(dpatch_list') \in Nat
    BY <1>1, <1>2, ListAtBegin, LenProperties
  <2>2. mine # {} => /\ First(mine) \in 1 .. Len(dpatch_list')
                     /\ dpatch_list'[First(mine)].patch = LocalDynamic
    BY <2>1, FirstProperties
  <2>3. mine = {} => \A i \in 1 .. Len(dpatch_list') : dpatch_list'[i].patch # LocalDynamic
    BY Zenon, <2>1
  <2> HIDE DEF mine, d
  <2>4. /\ desc' \in [Patch -> Desc \cup {NoDesc}]
        /\ desc'[LocalDynamic].type = "dynamic"
        /\ \A q \in Patch : q # LocalDynamic => desc'[q] = desc[q]
    BY Zenon, <1>3, <1>5 DEF IInv, DynTypeOK
  <2>5. /\ task' \in [pc : Pc, patch : Patch \cup {NoPatch}, at : Nat]
        /\ task'.patch = LocalDynamic
        /\ task'.pc = IF mine = {} THEN "link" ELSE "update"
        /\ task'.at = IF mine = {} THEN 0 ELSE First(mine)
    BY <1>5, <2>1, <2>2 DEF Pc
  <2>6. DynTypeOK'
    <3>1. dpatch_list' \in Seq(Node)
      BY Zenon, <1>1, <1>2, ListAtBegin
    <3>2. comp' \in [0 .. MAX_BP - 1 -> Word] /\ cur_idx' \in 0 .. MAX_BP
      BY Zenon, <1>1, Cleared
    <3> QED
      BY <1>1, <1>2, <1>5, <2>4, <2>5, <3>1, <3>2 DEF IInv, DynTypeOK
  <2>7. TaskInv'
    BY <1>1, <1>5, <2>2, <2>3, <2>4, <2>5 DEF TaskInv, Entering, Installing
  <2>8. NodeInv'
    <3> SUFFICES ASSUME NEW i \in 1 .. Len(dpatch_list')
                 PROVE  /\ dpatch_list'[i].patch \in alive'
                        /\ dpatch_list'[i].patch # NoPatch
                        /\ dpatch_list'[i].patch # LocalFixed
                        /\ desc'[dpatch_list'[i].patch].type = "dynamic"
                        /\ \/ task'.pc = "update" /\ i = task'.at
                           \/ dpatch_list'[i].inst_addr
                                = calc_bpkt_addr(desc'[dpatch_list'[i].patch].inst_addr)
      BY Zenon DEF NodeInv, Rewriting
    <3>1. CASE dpatch_list'[i].patch # LocalDynamic
      BY <1>1, <1>2, <1>5, <2>4, <3>1, ListAtBegin
    <3>2. CASE dpatch_list'[i].patch = LocalDynamic
      <4>1. mine # {} /\ i = First(mine)
        BY <1>1, <1>2, <2>2, <2>3, <3>2, ListAtBegin
      <4> QED
        BY <1>1, <1>2, <1>5, <2>4, <2>5, <3>2, <4>1, ListAtBegin
    <3> QED
      BY Zenon, <3>1, <3>2
  <2> QED
    BY SMTT(30), <1>1, <1>2, <2>6, <2>7, <2>8, ListAtBegin, Cleared DEF IInv
<1> QED
  BY Zenon, <1>4, <1>5 DEF read_local_patch, load_local_patch_to_ctx, Idle

(* A `patch` command that is refused only clears the comparators. *)
LEMMA RefusePatch ==
  ASSUME IInv, refuse_local_patch
  PROVE  IInv'
<1>1. /\ task.pc = "idle" /\ dpatch_list' = dpatch_list
      /\ comp' = NoComparators /\ cur_idx' = 0 /\ fpb_on' \in BOOLEAN
      /\ UNCHANGED <<alive, desc, is_active, dbits_filter_bpkt, dbits_filter_pc, task>>
  BY Zenon DEF refuse_local_patch, set_patch_mode, ctx, heap
<1>2. DynTypeOK'
  BY Zenon, <1>1, Cleared DEF IInv, DynTypeOK
<1>3. TaskInv'
  BY Zenon, <1>1 DEF TaskInv, Entering, Installing
<1>4. NodeInv'
  BY Zenon, <1>1, ListAtBegin DEF NodeInv
<1> QED
  BY <1>1, <1>2, <1>3, <1>4, ListAtBegin, Cleared DEF IInv

(* The fixed-patch command: no node of the list holds the object. *)
LEMMA LoadLocalFixed ==
  ASSUME IInv, NEW n \in FixedId, load_local_fixed_patch(n)
  PROVE  IInv'
<1> USE PatchContextAssumption
<1>1. /\ task.pc = "idle" /\ dpatch_list' \in {dpatch_list, <<>>}
      /\ UNCHANGED <<is_active, comp, cur_idx, fpb_on>>
      /\ alive' = alive \cup {LocalFixed} /\ desc' = [desc EXCEPT ![LocalFixed] = Fixed(n)]
      /\ \/ task' = [pc |-> "undefined", patch |-> NoPatch, at |-> 0]
         \/ task' = [pc |-> "fbits", patch |-> LocalFixed, at |-> 0]
  BY Zenon DEF load_local_fixed_patch, add_fixed_patch_to_ctx, fpb, Idle
<1>2. dbits_filter_bpkt' \in Word /\ dbits_filter_pc' \in Word
  BY Zenon DEF load_local_fixed_patch, filters, IInv, DynTypeOK, Word
<1>3. Fixed(n) \in Desc
  BY Zenon DEF Desc, Fixed
<1>4. \A q \in Patch : q # LocalFixed => desc'[q] = desc[q]
  BY Zenon, <1>1 DEF IInv, DynTypeOK
<1>5. DynTypeOK'
  <2>1. dpatch_list' \in Seq(Node)
    BY Zenon, <1>1, ListAtBegin
  <2>2. task' \in [pc : Pc, patch : Patch \cup {NoPatch}, at : Nat]
    BY <1>1 DEF Pc
  <2>3. desc' \in [Patch -> Desc \cup {NoDesc}]
    BY Zenon, <1>1, <1>3 DEF IInv, DynTypeOK
  <2> QED
    BY <1>1, <1>2, <2>1, <2>2, <2>3 DEF IInv, DynTypeOK
<1>6. TaskInv'
  <2>1. /\ task'.pc \in {"undefined", "fbits"}
        /\ task'.pc = "fbits" => task'.patch = LocalFixed
    BY <1>1
  <2> QED
    BY Zenon, <1>1, <2>1 DEF TaskInv, Entering, Installing
<1>7. NodeInv'
  <2> SUFFICES ASSUME NEW i \in 1 .. Len(dpatch_list')
               PROVE  /\ dpatch_list'[i].patch # NoPatch /\ dpatch_list'[i].patch # LocalFixed
                      /\ desc'[dpatch_list'[i].patch].type = "dynamic"
                      /\ dpatch_list'[i].inst_addr
                           = calc_bpkt_addr(desc'[dpatch_list'[i].patch].inst_addr)
                      /\ dpatch_list'[i].patch \in alive'
    BY Zenon DEF NodeInv
  <2>1. desc'[dpatch_list'[i].patch] = desc[dpatch_list'[i].patch]
    BY Zenon, <1>1, <1>4, ListAtBegin
  <2> QED
    BY <1>1, <2>1, ListAtBegin
<1> QED
  <2>1. /\ ListBounded'
        /\ \A i, j \in 1 .. Len(dpatch_list') :
             i # j => dpatch_list'[i].patch # dpatch_list'[j].patch
    BY Zenon, <1>1, ListAtBegin
  <2>2. ComparatorsDistinct'
    BY Zenon, <1>1 DEF IInv, ComparatorsDistinct
  <2> QED
    BY <1>5, <1>6, <1>7, <2>1, <2>2 DEF IInv

(* The reset command disarms every breakpoint before anything is freed. *)
LEMMA ResetPatch ==
  ASSUME IInv, reset_patch
  PROVE  IInv'
<1> USE PatchContextAssumption
<1>1. /\ task.pc = "idle" /\ dpatch_list' = dpatch_list
      /\ comp' = NoComparators /\ cur_idx' = 0 /\ fpb_on' = FALSE
      /\ UNCHANGED <<alive, desc, is_active, dbits_filter_bpkt, dbits_filter_pc>>
      /\ task' = [task EXCEPT !.pc = "destroy"]
  BY Zenon DEF reset_patch, clear_all_hw_bkpt, ctx, heap, Goto
<1>2. /\ task' \in [pc : Pc, patch : Patch \cup {NoPatch}, at : Nat]
      /\ task'.pc = "destroy"
  BY Zenon, <1>1 DEF IInv, DynTypeOK, Pc
<1>3. fpb_on' \in BOOLEAN
  BY Zenon, <1>1
<1>4. DynTypeOK'
  BY Zenon, <1>1, <1>2, <1>3, Cleared DEF IInv, DynTypeOK
<1>5. TaskInv'
  BY Zenon, <1>1, <1>2 DEF TaskInv, Entering, Installing
<1>6. NodeInv'
  BY Zenon, <1>1, ListAtBegin DEF NodeInv
<1> QED
  BY <1>1, <1>4, <1>5, <1>6, ListAtBegin, Cleared DEF IInv

(* destroy_patch_context frees what the list holds; nothing is armed. *)
LEMMA FreePatches ==
  ASSUME IInv, free_patches
  PROVE  IInv'
<1> USE PatchContextAssumption
<1>1. /\ task.pc = "destroy"
      /\ UNCHANGED <<dpatch_list, desc, comp, cur_idx, fpb_on, dbits_filter_bpkt,
                     dbits_filter_pc>>
      /\ alive' \subseteq alive /\ is_active' \subseteq is_active
      /\ \/ task' = [task EXCEPT !.pc = "unlink"]
         \/ task' = [task EXCEPT !.pc = "undefined"]
  BY Zenon DEF free_patches, fpb, filters, Goto
<1>2. /\ task' \in [pc : Pc, patch : Patch \cup {NoPatch}, at : Nat]
      /\ task'.pc \in {"unlink", "undefined"}
  BY Zenon, <1>1 DEF IInv, DynTypeOK, Pc
<1>3. DynTypeOK'
  BY Zenon, <1>1, <1>2 DEF IInv, DynTypeOK
<1>4. fpb_on = FALSE
  BY Zenon, <1>1 DEF IInv, TaskInv
<1>5. TaskInv'
  BY Zenon, <1>1, <1>2, <1>4 DEF TaskInv, Entering, Installing
<1>6. NodeInv'
  BY Zenon, <1>1, <1>2, <1>4 DEF IInv, NodeInv, Freed, Rewriting
<1> QED
  BY <1>1, <1>3, <1>5, <1>6 DEF IInv, ListBounded, ComparatorsDistinct

(* destroy_patch_context ends with an empty list. *)
LEMMA UnlinkPatches ==
  ASSUME IInv, unlink_patches
  PROVE  IInv'
<1> USE PatchContextAssumption
<1>1. /\ dpatch_list' = <<>> /\ dbits_filter_bpkt' = {} /\ dbits_filter_pc' = {}
      /\ comp' = NoComparators /\ cur_idx' = 0 /\ fpb_on' = FALSE
      /\ UNCHANGED <<alive, desc, is_active>>
      /\ task' = [pc |-> "idle", patch |-> NoPatch, at |-> 0]
  BY Zenon DEF unlink_patches, clear_all_hw_bkpt, heap, Idle
<1>2. dpatch_list' \in Seq(Node) /\ Len(dpatch_list') = 0
  BY Zenon, <1>1, EmptySeq
<1>3. fpb_on' \in BOOLEAN
  BY Zenon, <1>1
<1>4. dbits_filter_bpkt' \in Word /\ dbits_filter_pc' \in Word
  BY Zenon, <1>1 DEF Word
<1>5. task' \in [pc : Pc, patch : Patch \cup {NoPatch}, at : Nat]
  BY Zenon, <1>1 DEF Pc
<1>6. DynTypeOK'
  BY <1>1, <1>2, <1>3, <1>4, <1>5, Cleared DEF IInv, DynTypeOK
<1>7. TaskInv'
  BY Zenon, <1>1 DEF TaskInv, Entering, Installing
<1> QED
  <2>1. ComparatorsDistinct'
    BY Zenon, <1>1, Cleared
  <2>2. ListBounded' /\ NodeInv'
    BY <1>2 DEF ListBounded, NodeInv
  <2> QED
    BY <1>2, <1>6, <1>7, <2>1, <2>2 DEF IInv

(* Every step preserves the invariant. *)
LEMMA IInvNext == IInv /\ [Next]_vars => IInv'
<1> SUFFICES ASSUME IInv, [Next]_vars PROVE IInv'
  BY Zenon
<1>1. CASE start_patch_service
  BY Zenon, <1>1, StartService
<1>2. ASSUME NEW p \in Patch, NEW a \in NetAddr, notify_new_dynamic(p, a) PROVE IInv'
  BY Zenon, <1>2, NotifyDynamic
<1>3. ASSUME NEW p \in Patch, NEW n \in FixedId, notify_new_fixed(p, n) PROVE IInv'
  BY Zenon, <1>3, NotifyFixed
<1>4. ASSUME NEW a \in LocalAddr, read_local_patch(a) PROVE IInv'
  BY Zenon, <1>4, ReadLocalPatch
<1>5. ASSUME NEW n \in FixedId, load_local_fixed_patch(n) PROVE IInv'
  BY Zenon, <1>5, LoadLocalFixed
<1>6. CASE reset_patch
  BY Zenon, <1>6, ResetPatch
<1>7. CASE Step
  BY <1>7, SearchStep, AddressStep, PatchStep, FilterSteps, ArmStep, FreePatches,
     UnlinkPatches DEF Step
<1>8. CASE refuse_local_patch
  BY Zenon, <1>8, RefusePatch
<1>9. CASE UNCHANGED vars
  <2>1. UNCHANGED <<dpatch_list, dbits_filter_bpkt, dbits_filter_pc, alive, desc, is_active,
                    comp, cur_idx, fpb_on, task>>
    BY Zenon, <1>9 DEF vars, ctx, heap, fpb
  <2>2. DynTypeOK' /\ ListBounded' /\ ComparatorsDistinct'
    BY Zenon, <2>1 DEF IInv, DynTypeOK, ListBounded, ComparatorsDistinct
  <2>3. TaskInv'
    BY Zenon, <2>1 DEF IInv, TaskInv
  <2>4. NodeInv'
    BY Zenon, <2>1 DEF IInv, NodeInv, Rewriting, Freed
  <2> QED
    BY <2>1, <2>2, <2>3, <2>4 DEF IInv
<1> QED
  BY <1>1, <1>2, <1>3, <1>4, <1>5, <1>6, <1>7, <1>8, <1>9 DEF Next

(* The invariant holds in every reachable state. *)
THEOREM Invariance == Spec => []IInv
  BY IInvInit, IInvNext, PTL DEF Spec

(* Type correctness of the list, the heap, the comparators and the task of *)
(* iotpatch.c and cortex-m4_fbp.c.                                         *)
THEOREM TypeCorrect == Spec => []DynTypeOK
<1>1. IInv => DynTypeOK
  BY Zenon DEF IInv
<1> QED
  BY <1>1, Invariance, PTL

(* add_dynamic_patch_to_ctx never makes the list longer than MAX_DP_NUM + 1. *)
THEOREM Bounded == Spec => []ListBounded
<1>1. IInv => ListBounded
  BY Zenon DEF IInv
<1> QED
  BY <1>1, Invariance, PTL

(* load_local_patch_to_ctx adds the same pointer only once, and no other   *)
(* path adds it again.                                                     *)
THEOREM ListedOnce == Spec => []PointerListedOnce
<1>1. IInv => PointerListedOnce
  BY ListType DEF IInv, PointerListedOnce
<1> QED
  BY <1>1, Invariance, PTL

(* add_hw_bkpt, set_patch_mode and clear_all_hw_bkpt keep the comparators  *)
(* distinct.                                                               *)
THEOREM Distinct == Spec => []ComparatorsDistinct
<1>1. IInv => ComparatorsDistinct
  BY Zenon DEF IInv
<1> QED
  BY <1>1, Invariance, PTL

(* While a breakpoint can fire, the walk of get_dynamic_patch_by_bpkt      *)
(* follows only pointers to live objects.                                  *)
THEOREM WalkSafe == Spec => []ExceptionWalkSafe
<1>1. IInv => ExceptionWalkSafe
  <2> SUFFICES ASSUME IInv, Breakpoints # {}, task.pc \notin {"fields", "repoint"},
                      NEW i \in DOMAIN dpatch_list
               PROVE  dpatch_list[i].patch \in alive
    BY Zenon DEF ExceptionWalkSafe
  <2>1. i \in 1 .. Len(dpatch_list)
    BY Zenon, ListType DEF IInv
  <2>2. fpb_on
    BY Zenon DEF Breakpoints
  <2>3. dpatch_list[i].patch # NoPatch
    BY Zenon, <2>1 DEF IInv, NodeInv
  <2>4. ~Freed
    BY Zenon, <2>2 DEF IInv, TaskInv, Freed
  <2> QED
    BY Zenon, <2>1, <2>3, <2>4 DEF IInv, NodeInv
<1> QED
  BY <1>1, Invariance, PTL

(* A breakpoint never runs the filter of another address. *)
THEOREM RightPatch == Spec => []RightPatchAtBreakpoint
<1>1. IInv => RightPatchAtBreakpoint
  <2> SUFFICES ASSUME IInv, task.pc # "repoint", NEW a \in Breakpoints,
                      get_dynamic_patch_by_bpkt(a) # NoPatch
               PROVE  calc_bpkt_addr(desc[get_dynamic_patch_by_bpkt(a)].inst_addr) = a
    BY Zenon DEF RightPatchAtBreakpoint
  <2> DEFINE I == {i \in DOMAIN dpatch_list :
                     dpatch_list[i].inst_addr = a /\ dpatch_list[i].patch \in is_active}
             k == First(I)
  <2>1. I # {} /\ get_dynamic_patch_by_bpkt(a) = dpatch_list[k].patch
    BY Zenon DEF get_dynamic_patch_by_bpkt, Walk
  <2>2. I \subseteq 1 .. Len(dpatch_list) /\ 1 .. Len(dpatch_list) \subseteq Nat
    BY ListType DEF IInv
  <2>3. k \in I
    BY Zenon, <2>1, <2>2, FirstProperties
  <2>4. /\ k \in 1 .. Len(dpatch_list) /\ dpatch_list[k].inst_addr = a
        /\ dpatch_list[k].patch # NoPatch
    BY Zenon, <2>1, <2>2, <2>3
  <2>5. task.pc # "update"
    BY Zenon DEF Breakpoints, IInv, TaskInv, NoComparators
  <2> HIDE DEF k
  <2> QED
    BY Zenon, <2>1, <2>4, <2>5 DEF IInv, NodeInv, Rewriting
<1> QED
  BY <1>1, Invariance, PTL
-----------------------------------------------------------------------------
(* What the assumption on the constants says of the keys of the map. *)
LEMMA FixedKeys ==
  /\ FixedId \in SUBSET (Nat \ {NullKey}) /\ Junk \notin FixedId /\ Junk \notin Patch
  /\ LocalDynamic \in Patch /\ LocalFixed \in Patch /\ LocalDynamic # LocalFixed
BY Zenon, PatchContextAssumption DEF NullKey

(* A new map has no entries, whatever the descriptors. *)
LEMMA NewEntries ==
  ASSUME NEW d
  PROVE  FixedEntries(arraymap_new, d)
BY Zenon, NewMap DEF FixedEntries

(* Entries outlive every change of the other descriptors: ebpf_patch_setup  *)
(* fills in an object that has none, the loaders their own one.            *)
LEMMA KeptEntries ==
  ASSUME NEW m, NEW d, NEW e, FixedEntries(m, d),
         \A p \in Patch \ {LocalDynamic, LocalFixed} : d[p] # NoDesc => e[p] = d[p]
  PROVE  FixedEntries(m, e)
<1>1. \A n \in FixedId : Fixed(n) # NoDesc
  BY Zenon DEF Fixed, NoDesc
<1> QED
  BY Zenon, <1>1 DEF FixedEntries

(* arraymap_set keeps the map of patches well formed, and adds one entry. *)
LEMMA SetPatch ==
  ASSUME NEW m, WellFormed(m, FixedId, Patch), m.cur < Slots,
         NEW n \in FixedId, NEW p \in Patch, NEW k \in arraymap_set(m, n, p)
  PROVE  /\ WellFormed(k, FixedId, Patch)
         /\ \A a, b : Holds(k, a, b) => Holds(m, a, b) \/ (a = n /\ b = p)
<1>1. FixedId \in SUBSET (Nat \ {NullKey}) /\ Junk \notin FixedId
  BY FixedKeys
<1> QED
  BY <1>1, SetMap

(* arraymap_set enters a patch made for n, or the local one, under n. *)
LEMMA AddedEntry ==
  ASSUME NEW m, NEW d, FixedEntries(m, d), m # NoMap, m.cur < Slots,
         NEW n \in FixedId, NEW p \in Patch, p # LocalDynamic, p = LocalFixed \/ d[p] = Fixed(n),
         NEW k \in arraymap_set(m, n, p)
  PROVE  FixedEntries(k, d)
<1>1. WellFormed(m, FixedId, Patch)
  BY Zenon DEF FixedEntries
<1>2. /\ WellFormed(k, FixedId, Patch)
      /\ \A a, b : Holds(k, a, b) => Holds(m, a, b) \/ (a = n /\ b = p)
  BY Zenon, <1>1, SetPatch
<1> QED
  BY Zenon, <1>2 DEF FixedEntries

(* The fixed part of the context at boot. *)
LEMMA FixedInvInit == Init => FixedInv
BY Zenon DEF Init, FixedInv, FixedEntries, Word

(* init_patch_sys starts from an empty map, or keeps the one there is. *)
LEMMA FixedInitSys ==
  ASSUME FixedInv, init_patch_sys \/ UNCHANGED ctx,
         \A p \in Patch \ {LocalDynamic, LocalFixed} : desc[p] # NoDesc => desc'[p] = desc[p]
  PROVE  ctx_init' \in BOOLEAN /\ fbits_filter' \in Word /\ FixedEntries(fmap', desc')
<1>1. CASE UNCHANGED ctx
  <2>1. UNCHANGED <<ctx_init, fbits_filter, fmap>>
    BY Zenon, <1>1 DEF ctx
  <2>2. FixedEntries(fmap, desc')
    BY Zenon, KeptEntries DEF FixedInv
  <2> QED
    BY Zenon, <2>1, <2>2 DEF FixedInv
<1>2. CASE fmap' = arraymap_new /\ ctx_init' = TRUE /\ fbits_filter' = {}
  BY Zenon, <1>2, NewEntries DEF Word
<1> QED
  BY Zenon, <1>1, <1>2 DEF init_patch_sys

(* add_fixed_patch_to_ctx, through a map pointer that may be NULL. *)
LEMMA FixedAdd ==
  ASSUME NEW m, FixedEntries(m, desc'), NEW n \in FixedId, NEW p \in Patch \ {LocalDynamic},
         p = LocalFixed \/ desc'[p] = Fixed(n), add_fixed_patch_to_ctx(m, n, p)
  PROVE  FixedEntries(fmap', desc')
<1>1. CASE m = NoMap
  BY Zenon, <1>1 DEF add_fixed_patch_to_ctx
<1>2. CASE m # NoMap
  <2>1. m.cur < Slots /\ fmap' \in arraymap_set(m, n, p)
    BY Zenon, <1>2 DEF add_fixed_patch_to_ctx
  <2> QED
    BY Zenon, <1>2, <2>1, AddedEntry
<1> QED
  BY Zenon, <1>1, <1>2

(* Every step keeps the fixed part of the context. *)
LEMMA FixedInvNext == IInv /\ FixedInv /\ [Next]_vars => FixedInv'
<1> SUFFICES ASSUME IInv, FixedInv, [Next]_vars PROVE FixedInv'
  BY Zenon
<1> USE FixedKeys
<1>t. desc \in [Patch -> Desc \cup {NoDesc}]
  BY DEF IInv, DynTypeOK
<1>s. ctx_init \in BOOLEAN /\ service \in BOOLEAN /\ loaders \subseteq {LocalDynamic, LocalFixed}
      /\ refused \in BOOLEAN
      /\ fbits_filter \in Word /\ FixedEntries(fmap, desc)
  BY Zenon DEF FixedInv
<1>1. CASE start_patch_service
  <2>1. init_patch_sys /\ service' = TRUE /\ UNCHANGED <<desc, loaders, refused>>
    BY Zenon, <1>1 DEF start_patch_service, heap
  <2> QED
    BY Zenon, <1>s, <2>1, FixedInitSys DEF FixedInv
<1>2. ASSUME NEW p \in Patch, NEW a \in NetAddr, notify_new_dynamic(p, a) PROVE FixedInv'
  <2>1. /\ UNCHANGED <<ctx, service, loaders, refused>> /\ desc[p] = NoDesc
        /\ desc' = [desc EXCEPT ![p] = Dynamic(a \ {0, 1})]
    BY Zenon, <1>2 DEF notify_new_dynamic, ebpf_patch_setup
  <2>2. \A q \in Patch : desc[q] # NoDesc => desc'[q] = desc[q]
    BY Zenon, <1>t, <2>1
  <2> QED
    BY Zenon, <1>s, <2>1, <2>2, FixedInitSys DEF FixedInv
<1>3. ASSUME NEW p \in Patch, NEW n \in FixedId, notify_new_fixed(p, n) PROVE FixedInv'
  <2>1. /\ UNCHANGED <<ctx_init, fbits_filter, service, loaders, refused>>
        /\ desc[p] = NoDesc /\ p # LocalDynamic /\ desc' = [desc EXCEPT ![p] = Fixed(n)]
        /\ add_fixed_patch_to_ctx(fmap, n, p)
    BY Zenon, <1>3 DEF notify_new_fixed, ebpf_patch_setup, filters
  <2>2. desc'[p] = Fixed(n) /\ \A q \in Patch : desc[q] # NoDesc => desc'[q] = desc[q]
    BY Zenon, <1>t, <2>1
  <2>3. FixedEntries(fmap, desc')
    BY <1>s, <2>2, KeptEntries
  <2>4. FixedEntries(fmap', desc')
    BY Zenon, <2>1, <2>2, <2>3, FixedAdd
  <2> QED
    BY <1>s, <2>1, <2>4 DEF FixedInv
<1>4. ASSUME NEW a \in LocalAddr, read_local_patch(a) PROVE FixedInv'
  <2>1. /\ init_patch_sys \/ UNCHANGED ctx
        /\ UNCHANGED service /\ loaders' = loaders \cup {LocalDynamic} /\ refused' = FALSE
        /\ UNCHANGED desc \/ desc' = [desc EXCEPT ![LocalDynamic] = Dynamic(a)]
    BY Zenon, <1>4 DEF read_local_patch
  <2>2. \A q \in Patch \ {LocalDynamic, LocalFixed} : desc[q] # NoDesc => desc'[q] = desc[q]
    BY Zenon, <1>t, <2>1
  <2>3. ctx_init' \in BOOLEAN /\ fbits_filter' \in Word /\ FixedEntries(fmap', desc')
    BY Zenon, <2>1, <2>2, FixedInitSys
  <2>4. loaders' \subseteq {LocalDynamic, LocalFixed}
    BY Zenon, <1>s, <2>1
  <2> QED
    BY Zenon, <1>s, <2>1, <2>3, <2>4 DEF FixedInv
<1>5. ASSUME NEW n \in FixedId, load_local_fixed_patch(n) PROVE FixedInv'
  <2>1. /\ UNCHANGED <<service, refused>> /\ loaders' = loaders \cup {LocalFixed} /\ ctx_init' = TRUE
        /\ desc' = [desc EXCEPT ![LocalFixed] = Fixed(n)]
        /\ fbits_filter' \in {fbits_filter, {}}
        /\ \/ add_fixed_patch_to_ctx(fmap, n, LocalFixed)
           \/ add_fixed_patch_to_ctx(arraymap_new, n, LocalFixed)
    BY Zenon, <1>5 DEF load_local_fixed_patch, filters
  <2>2. \A q \in Patch \ {LocalDynamic, LocalFixed} : desc[q] # NoDesc => desc'[q] = desc[q]
    BY Zenon, <1>t, <2>1
  <2>3. FixedEntries(fmap, desc') /\ FixedEntries(arraymap_new, desc')
    BY Zenon, <1>s, <2>2, KeptEntries, NewEntries
  <2>4. FixedEntries(fmap', desc')
    BY Zenon, <2>1, <2>3, FixedAdd
  <2>5. fbits_filter' \in Word
    BY Zenon, <1>s, <2>1 DEF Word
  <2> QED
    BY <1>s, <2>1, <2>4, <2>5 DEF FixedInv
<1>6. CASE reset_patch
  BY Zenon, <1>s, <1>6 DEF reset_patch, ctx, heap, FixedInv
<1>7. CASE Step
  <2>1. UNCHANGED <<service, loaders, desc, refused>> /\ (ctx_init' = ctx_init \/ ctx_init' = FALSE)
        /\ (fmap' = fmap \/ fmap' = NoMap)
    BY Zenon, <1>7 DEF Step, add_dynamic_search, set_node_addresses, set_node_patch, empty_fixed_filter,
         fill_fixed_filter, fill_dynamic_filters, arm_patch, set_active, free_patches,
         unlink_patches, heap, ctx
  <2>2. fbits_filter' \in Word
    <3>1. \A n : Bits(n) \subseteq 0 .. 31
      BY DEF Bits
    <3>2. CASE fill_fixed_filter
      <4>1. PICK P : fbits_filter' = UNION {Bits(desc[p].fixed_id) : p \in P}
        BY Zenon, <3>2 DEF fill_fixed_filter
      <4> QED
        BY <3>1, <4>1, Zenon DEF Word
    <3>3. CASE arm_patch
      <4>1. fbits_filter' = fbits_filter \/ fbits_filter' = fbits_filter \cup Bits(desc[task.patch].fixed_id)
        BY Zenon, <3>3 DEF arm_patch
      <4> QED
        BY Zenon, <1>s, <3>1, <4>1 DEF Word
    <3>4. CASE fbits_filter' = fbits_filter \/ fbits_filter' = {}
      BY Zenon, <1>s, <3>4 DEF Word
    <3> QED
      BY <1>7, <3>2, <3>3, <3>4 DEF Step, add_dynamic_search, set_node_addresses, set_node_patch,
         empty_fixed_filter, fill_dynamic_filters, set_active, free_patches,
         unlink_patches, filters, ctx
  <2>3. FixedEntries(NoMap, desc)
    BY Zenon DEF FixedEntries
  <2>4. FixedEntries(fmap', desc')
    BY Zenon, <1>s, <2>1, <2>3
  <2> QED
    BY Zenon, <1>s, <2>1, <2>2, <2>4 DEF FixedInv
<1>8. CASE refuse_local_patch
  BY Zenon, <1>s, <1>8 DEF refuse_local_patch, ctx, heap, FixedInv
<1>9. CASE UNCHANGED vars
  BY Zenon, <1>s, <1>9 DEF vars, ctx, heap, FixedInv
<1> QED
  BY <1>1, <1>2, <1>3, <1>4, <1>5, <1>6, <1>7, <1>8, <1>9 DEF Next

(* The fixed part of the context, in every reachable state. *)
THEOREM FixedInvariance == Spec => []FixedInv
  BY IInvInit, IInvNext, FixedInvInit, FixedInvNext, PTL DEF Spec

(* Type correctness of the whole context of iotpatch.c. *)
THEOREM ContextTypeCorrect == Spec => []TypeOK
<1>1. IInv /\ FixedInv => TypeOK
  <2> SUFFICES ASSUME IInv, FixedInv PROVE TypeOK
    BY Zenon
  <2>1. fmap # NoMap =>
          fmap \in [cur : Slot, max : Nat, keys : [Slot -> FixedId \cup {NullKey, Junk}],
                    vals : [Slot -> Patch \cup {Junk}]]
    BY Zenon DEF FixedInv, FixedEntries, WellFormed, Slot
  <2> QED
    BY Zenon, <2>1 DEF TypeOK, FixedTypeOK, IInv, FixedInv
<1> QED
  BY <1>1, Invariance, FixedInvariance, PTL

(* get_fixed_patch_by_lr never runs a network patch at another patch point. *)
THEOREM FixedMatches == Spec => []FixedPatchMatches
<1>1. IInv /\ FixedInv => FixedPatchMatches
  <2> SUFFICES ASSUME IInv, FixedInv, fmap # NoMap, NEW n \in FixedId,
                      get_fixed_patch_by_lr(n) # NoPatch
               PROVE  \/ get_fixed_patch_by_lr(n) = LocalFixed
                      \/ desc[get_fixed_patch_by_lr(n)].fixed_id = n
    BY Zenon DEF FixedPatchMatches
  <2> DEFINE p == arraymap_get(fmap, n)
  <2>1. p \in is_active /\ get_fixed_patch_by_lr(n) = p
    BY Zenon DEF get_fixed_patch_by_lr
  <2>2. p = NullVal \/ Holds(fmap, n, p)
    BY Zenon, GetSound DEF FixedInv, FixedEntries
  <2> HIDE DEF p
  <2>3. p \in Patch /\ p # NullVal
    BY Zenon, <2>1, FixedKeys DEF IInv, DynTypeOK, NullVal
  <2>4. p = LocalFixed \/ desc[p] = Fixed(n)
    BY Zenon, <2>2, <2>3 DEF FixedInv, FixedEntries
  <2> QED
    BY <2>1, <2>4 DEF Fixed
<1> QED
  BY <1>1, Invariance, FixedInvariance, PTL
-----------------------------------------------------------------------------
(* The invariant of the lookups at boot. *)
LEMMA FoundInvInit == Init => FoundInv
<1> SUFFICES ASSUME Init PROVE FoundInv
  BY Zenon
<1>1. Len(dpatch_list) = 0 /\ task.pc = "idle" /\ \A p \in Patch : desc[p].type = "none"
  BY Zenon, EmptySeq DEF Init, Idle, NoDesc
<1> QED
  BY <1>1 DEF FoundInv, DescInv, PcInv, EnteredInv, AloneInv, PassInv, InstallingFlash, Activating

(* An operation begins: no node is being written yet. *)
LEMMA FoundBegin ==
  ASSUME IInv, FoundInv, task.pc = "idle", dpatch_list' \in {dpatch_list, <<>>}, DescInv',
         \/ task'.pc \in {"idle", "link", "destroy", "undefined"}
         \/ task'.pc = "update" /\ task'.patch = LocalDynamic
         \/ task'.pc = "fbits" /\ desc'[task'.patch].type # "dynamic"
  PROVE  FoundInv'
<1>1. \A i \in 1 .. Len(dpatch_list') :
        i \in 1 .. Len(dpatch_list) /\ dpatch_list'[i] = dpatch_list[i]
  BY Zenon, ListAtBegin
<1>2. PcInv'
  BY Zenon, <1>1 DEF FoundInv, PcInv
<1>3. EnteredInv' /\ AloneInv' /\ PassInv'
  BY Zenon DEF EnteredInv, AloneInv, PassInv, InstallingFlash, Activating
<1> QED
  BY Zenon, <1>2, <1>3 DEF FoundInv

(* A new descriptor holds an address that is not the vector, or none. *)
LEMMA NewDesc ==
  ASSUME FoundInv, desc \in [Patch -> Desc \cup {NoDesc}], NEW p \in Patch, NEW d,
         desc' = [desc EXCEPT ![p] = d],
         d.type = "dynamic" => /\ d.inst_addr \cap 2 .. 28 # {}
                               /\ p # LocalDynamic => 0 \notin d.inst_addr
  PROVE  DescInv' /\ desc'[p] = d
<1>1. \A q \in Patch : desc'[q] = IF q = p THEN d ELSE desc[q]
  BY Zenon
<1> QED
  BY Zenon, <1>1 DEF FoundInv, DescInv

(* The operations that begin, and the ones that end, keep the invariant. *)
LEMMA FoundOperations ==
  ASSUME IInv, FoundInv,
         \/ start_patch_service
         \/ \E p \in Patch, a \in NetAddr : notify_new_dynamic(p, a)
         \/ \E p \in Patch, n \in FixedId : notify_new_fixed(p, n)
         \/ \E a \in LocalAddr : read_local_patch(a)
         \/ refuse_local_patch
         \/ \E n \in FixedId : load_local_fixed_patch(n)
         \/ reset_patch
  PROVE  FoundInv'
<1> USE PatchContextAssumption
<1>t. desc \in [Patch -> Desc \cup {NoDesc}]
  BY Zenon DEF IInv, DynTypeOK
<1>1. CASE start_patch_service
  <2>1. task.pc = "idle" /\ UNCHANGED <<desc, task>> /\ dpatch_list' \in {dpatch_list, <<>>}
    BY Zenon, <1>1, InitPatchSys DEF start_patch_service, heap, IInv
  <2>2. DescInv'
    BY Zenon, <2>1 DEF FoundInv, DescInv
  <2> QED
    BY <2>1, <2>2, FoundBegin
<1>2. ASSUME NEW p \in Patch, NEW a \in NetAddr, notify_new_dynamic(p, a) PROVE FoundInv'
  <2> DEFINE d == Dynamic(a \ {0, 1})
  <2>1. /\ task.pc = "idle" /\ desc' = [desc EXCEPT ![p] = d]
        /\ dpatch_list' = dpatch_list /\ task'.pc = "link"
    BY Zenon, <1>2 DEF notify_new_dynamic, ebpf_patch_setup, ctx, Idle
  <2>2. d.inst_addr \cap 2 .. 28 # {} /\ 0 \notin d.inst_addr
    <3>1. PICK b \in a : b \in 2 .. 28
      BY Zenon
    <3>2. d.inst_addr = a \ {0, 1}
      BY Zenon DEF Dynamic
    <3>3. b # 0 /\ b # 1
      BY <3>1
    <3> HIDE DEF d
    <3>4. b \in d.inst_addr /\ 0 \notin d.inst_addr
      BY <3>1, <3>2, <3>3, Zenon
    <3> QED
      BY Zenon, <3>1, <3>4
  <2> HIDE DEF d
  <2>3. DescInv'
    BY Zenon, <1>t, <2>1, <2>2, NewDesc
  <2> QED
    BY Zenon, <2>1, <2>3, FoundBegin
<1>3. ASSUME NEW p \in Patch, NEW n \in FixedId, notify_new_fixed(p, n) PROVE FoundInv'
  <2>1. /\ task.pc = "idle" /\ desc' = [desc EXCEPT ![p] = Fixed(n)] /\ dpatch_list' = dpatch_list
        /\ task'.pc = "undefined" \/ (task'.pc = "fbits" /\ task'.patch = p)
    BY Zenon, <1>3 DEF notify_new_fixed, add_fixed_patch_to_ctx, ebpf_patch_setup, Idle
  <2>2. Fixed(n).type # "dynamic"
    BY Zenon DEF Fixed
  <2>3. DescInv' /\ desc'[p] = Fixed(n)
    BY Zenon, <1>t, <2>1, <2>2, NewDesc
  <2> QED
    BY Zenon, <2>1, <2>2, <2>3, FoundBegin
<1>4. ASSUME NEW a \in LocalAddr, read_local_patch(a) PROVE FoundInv'
  <2>1. task.pc = "idle" /\ dpatch_list' \in {dpatch_list, <<>>}
    BY Zenon, <1>4, InitPatchSys DEF read_local_patch, IInv
  <2>2. task'.pc \in {"undefined", "link"} \/ (task'.pc = "update" /\ task'.patch = LocalDynamic)
    BY <1>4 DEF read_local_patch, load_local_patch_to_ctx, Idle
  <2>3. UNCHANGED desc \/ desc' = [desc EXCEPT ![LocalDynamic] = Dynamic(a)]
    BY Zenon, <1>4 DEF read_local_patch
  <2>4. Dynamic(a).inst_addr \cap 2 .. 28 # {}
    BY Zenon DEF Dynamic
  <2>5. DescInv'
    <3>1. CASE UNCHANGED desc
      BY Zenon, <3>1 DEF FoundInv, DescInv
    <3>2. CASE desc' = [desc EXCEPT ![LocalDynamic] = Dynamic(a)]
      BY Zenon, <1>t, <2>4, <3>2, NewDesc
    <3> QED
      BY Zenon, <2>3, <3>1, <3>2
  <2> QED
    BY Zenon, <2>1, <2>2, <2>5, FoundBegin
<1>5. ASSUME NEW n \in FixedId, load_local_fixed_patch(n) PROVE FoundInv'
  <2>1. /\ task.pc = "idle" /\ desc' = [desc EXCEPT ![LocalFixed] = Fixed(n)]
        /\ dpatch_list' \in {dpatch_list, <<>>}
        /\ task'.pc = "undefined" \/ (task'.pc = "fbits" /\ task'.patch = LocalFixed)
    BY Zenon, <1>5 DEF load_local_fixed_patch, add_fixed_patch_to_ctx, Idle
  <2>2. Fixed(n).type # "dynamic"
    BY Zenon DEF Fixed
  <2>3. DescInv' /\ desc'[LocalFixed] = Fixed(n)
    BY Zenon, <1>t, <2>1, <2>2, NewDesc
  <2> QED
    BY <2>1, <2>2, <2>3, FoundBegin
<1>6. CASE reset_patch
  <2>1. /\ task.pc = "idle" /\ UNCHANGED <<desc, dpatch_list>> /\ task'.pc = "destroy"
    BY Zenon, <1>6 DEF reset_patch, ctx, heap, Goto, IInv, DynTypeOK
  <2>2. DescInv'
    BY Zenon, <2>1 DEF FoundInv, DescInv
  <2> QED
    BY Zenon, <2>1, <2>2, FoundBegin
<1>7. CASE refuse_local_patch
  <2>1. task.pc = "idle" /\ UNCHANGED <<desc, dpatch_list, task>>
    BY Zenon, <1>7 DEF refuse_local_patch, ctx, heap
  <2>2. DescInv'
    BY Zenon, <2>1 DEF FoundInv, DescInv
  <2> QED
    BY <2>1, <2>2, FoundBegin
<1> QED
  BY <1>1, <1>2, <1>3, <1>4, <1>5, <1>6, <1>7

(* active_patch leaves the list alone. *)
LEMMA FoundActivating ==
  ASSUME IInv, FoundInv,
         \/ empty_fixed_filter \/ fill_fixed_filter \/ fill_dynamic_filters
         \/ arm_patch \/ set_active
  PROVE  FoundInv'
<1>1. /\ UNCHANGED <<dpatch_list, desc>> /\ task.pc \in Activating
      /\ \/ task'.pc \in Activating /\ task'.patch = task.patch /\ task'.at = task.at
         \/ task'.pc \in {"idle", "undefined"}
      /\ task'.pc = "bkpt" => fill_dynamic_filters
      /\ task'.pc = "activate" =>
           task.pc = "bkpt" /\ UNCHANGED <<dbits_filter_bpkt, dbits_filter_pc>>
  BY DEF empty_fixed_filter, fill_fixed_filter, fill_dynamic_filters, arm_patch, set_active, heap,
     ctx, Goto, Idle, Activating, IInv, DynTypeOK
<1>2. DescInv' /\ PcInv'
  BY Zenon, <1>1 DEF FoundInv, DescInv, PcInv, Activating
<1>3. EnteredInv'
  BY Zenon, <1>1 DEF FoundInv, EnteredInv, Activating
<1>4. AloneInv'
  BY Zenon, <1>1 DEF FoundInv, AloneInv, InstallingFlash, Activating
<1>5. PassInv'
  <2>1. CASE task'.pc = "bkpt"
    <3> SUFFICES ASSUME NEW i \in 1 .. Len(dpatch_list)
                 PROVE  /\ dpatch_list[i].inst_addr \subseteq dbits_filter_bpkt'
                        /\ dpatch_list[i].pc_addr \subseteq dbits_filter_pc'
      BY Zenon, <1>1, <2>1 DEF PassInv
    <3>1. i \in DOMAIN dpatch_list
      BY Zenon, ListType DEF IInv
    <3>2. /\ dbits_filter_bpkt' = UNION {dpatch_list[j].inst_addr : j \in DOMAIN dpatch_list}
          /\ dbits_filter_pc' = UNION {dpatch_list[j].pc_addr : j \in DOMAIN dpatch_list}
      BY Zenon, <1>1, <2>1 DEF fill_dynamic_filters
    <3> QED
      BY Zenon, <3>1, <3>2
  <2>2. CASE task'.pc = "activate"
    BY Zenon, <1>1, <2>2 DEF FoundInv, PassInv
  <2> QED
    BY Zenon, <2>1, <2>2 DEF PassInv
<1> QED
  BY <1>2, <1>3, <1>4, <1>5 DEF FoundInv

(* The search leaves the node being entered as the only one that may have  *)
(* the new address.                                                        *)
LEMMA FoundSearch ==
  ASSUME IInv, FoundInv, add_dynamic_search
  PROVE  FoundInv'
<1>1. /\ \A i \in 1 .. Len(dpatch_list') :
           \/ i \in 1 .. Len(dpatch_list) /\ dpatch_list'[i] = dpatch_list[i]
           \/ i = Len(dpatch_list') /\ dpatch_list'[i].patch = NoPatch
      /\ \A i \in 1 .. Len(dpatch_list') :
           dpatch_list'[i].inst_addr = desc[task.patch].inst_addr => i = Len(dpatch_list')
  BY Zenon, SearchedList DEF IInv
<1>2. /\ task.pc = "link" /\ UNCHANGED desc
      /\ task'.pc = "fields" /\ task'.at = Len(dpatch_list') /\ task'.patch = task.patch
  BY Zenon DEF add_dynamic_search, ListFull, heap, IInv, DynTypeOK
<1>3. DescInv' /\ PcInv'
  BY Zenon, <1>1, <1>2 DEF FoundInv, DescInv, PcInv
<1>4. EnteredInv' /\ PassInv'
  BY Zenon, <1>2 DEF EnteredInv, PassInv, Activating
<1>5. AloneInv'
  BY Zenon, <1>1, <1>2 DEF AloneInv
<1> QED
  BY Zenon, <1>3, <1>4, <1>5 DEF FoundInv

(* The address stores make the two addresses of the node agree. *)
LEMMA FoundAddress ==
  ASSUME IInv, FoundInv, set_node_addresses
  PROVE  FoundInv'
<1> DEFINE a == calc_bpkt_addr(desc[task.patch].inst_addr)
           n == Len(dpatch_list)
<1>1. /\ task.pc \in {"fields", "update"} /\ task.patch \in Patch
      /\ desc[task.patch].type = "dynamic" /\ task.at \in 1 .. n
      /\ task.pc = "update" => dpatch_list[task.at].patch = task.patch
  BY Zenon, PatchContextAssumption DEF set_node_addresses, TaskInv, Entering, Installing, IInv, DynTypeOK
<1>2. a \in Word /\ calc_bpkt_pc(a) \in Word
  BY Zenon, <1>1, DynamicDesc, AddressTypes DEF IInv, DynTypeOK
<1>3. /\ dpatch_list \in Seq(Node)
      /\ dpatch_list' = [dpatch_list EXCEPT ![task.at].inst_addr = a,
                                            ![task.at].pc_addr = calc_bpkt_pc(a)]
  BY Zenon, ListType DEF set_node_addresses, IInv
<1>4. /\ UNCHANGED desc
      /\ task'.pc = (IF task.pc = "fields" THEN "repoint" ELSE "fbits")
      /\ task'.at = task.at /\ task'.patch = task.patch
  BY Zenon DEF set_node_addresses, heap, Goto, IInv, DynTypeOK
<1> HIDE DEF a
<1>5. /\ Len(dpatch_list') = n
      /\ \A j \in 1 .. n :
           /\ dpatch_list'[j].patch = dpatch_list[j].patch
           /\ dpatch_list'[j].inst_addr = IF j = task.at THEN a ELSE dpatch_list[j].inst_addr
           /\ dpatch_list'[j].pc_addr
                 = IF j = task.at THEN calc_bpkt_pc(a) ELSE dpatch_list[j].pc_addr
  BY <1>1, <1>2, <1>3, StoreAddresses
<1>6. DescInv' /\ PassInv'
  BY Zenon, <1>4 DEF FoundInv, DescInv, PassInv
<1>7. PcInv'
  BY <1>1, <1>4, <1>5 DEF FoundInv, PcInv
<1>8. EnteredInv'
  BY Zenon, <1>1, <1>4, <1>5 DEF EnteredInv, Activating
<1>9. AloneInv'
  BY <1>1, <1>4, <1>5 DEF FoundInv, EnteredInv, AloneInv, InstallingFlash, Activating
<1> QED
  BY <1>6, <1>7, <1>8, <1>9 DEF FoundInv

(* The patch store enters the patch in its node. *)
LEMMA FoundPatch ==
  ASSUME IInv, FoundInv, set_node_patch
  PROVE  FoundInv'
<1> DEFINE n == Len(dpatch_list)
<1>1. task.pc = "repoint" /\ task.patch \in Patch /\ task.at \in 1 .. n
  BY Zenon DEF set_node_patch, TaskInv, Entering, Installing, IInv, DynTypeOK
<1>2. /\ dpatch_list \in Seq(Node)
      /\ dpatch_list' = [dpatch_list EXCEPT ![task.at].patch = task.patch]
  BY Zenon, ListType DEF set_node_patch, IInv
<1>3. /\ UNCHANGED desc
      /\ task'.pc = "fbits" /\ task'.at = task.at /\ task'.patch = task.patch
  BY Zenon DEF set_node_patch, heap, Goto, IInv, DynTypeOK
<1>4. /\ Len(dpatch_list') = n
      /\ \A j \in 1 .. n :
           /\ dpatch_list'[j].inst_addr = dpatch_list[j].inst_addr
           /\ dpatch_list'[j].pc_addr = dpatch_list[j].pc_addr
           /\ dpatch_list'[j].patch = IF j = task.at THEN task.patch ELSE dpatch_list[j].patch
  BY <1>1, <1>2, StorePatch
<1>5. DescInv' /\ PassInv'
  BY Zenon, <1>3 DEF FoundInv, DescInv, PassInv
<1>6. PcInv'
  BY Zenon, <1>1, <1>3, <1>4 DEF FoundInv, PcInv
<1>7. EnteredInv'
  BY <1>1, <1>3, <1>4 DEF EnteredInv, Activating
<1>8. AloneInv'
  BY Zenon, <1>1, <1>3, <1>4 DEF FoundInv, AloneInv, InstallingFlash, Activating
<1> QED
  BY Zenon, <1>5, <1>6, <1>7, <1>8 DEF FoundInv

(* Every step preserves the invariant of the lookups. *)
LEMMA FoundInvNext == IInv /\ FoundInv /\ [Next]_vars => FoundInv'
<1> SUFFICES ASSUME IInv, FoundInv, [Next]_vars PROVE FoundInv'
  BY Zenon
<1>1. CASE UNCHANGED vars
  BY Zenon, <1>1 DEF vars, ctx, heap, FoundInv, DescInv, PcInv, EnteredInv, AloneInv, PassInv,
     InstallingFlash, Activating
<1>2. CASE free_patches
  <2>1. /\ UNCHANGED <<dpatch_list, desc>> /\ task.pc = "destroy"
        /\ task'.pc \in {"unlink", "undefined"}
    BY Zenon, <1>2 DEF free_patches, Goto, IInv, DynTypeOK
  <2> QED
    BY Zenon, <2>1 DEF FoundInv, DescInv, PcInv, EnteredInv, AloneInv, PassInv, InstallingFlash, Activating
<1>3. CASE unlink_patches
  <2>1. dpatch_list' = <<>> /\ UNCHANGED desc /\ task'.pc = "idle"
    BY Zenon, <1>3 DEF unlink_patches, heap, Idle
  <2>2. Len(dpatch_list') = 0
    BY Zenon, <2>1, EmptySeq
  <2> QED
    BY SMTT(30), <2>1, <2>2 DEF FoundInv, DescInv, PcInv, EnteredInv, AloneInv, PassInv, InstallingFlash,
       Activating
<1> QED
  BY <1>1, <1>2, <1>3, FoundOperations, FoundActivating, FoundSearch, FoundAddress, FoundPatch
     DEF Next, Step

(* FoundInv is an invariant of the context. *)
THEOREM FoundInvariance == Spec => []FoundInv
BY IInvInit, IInvNext, FoundInvInit, FoundInvNext, PTL DEF Spec

(* The walk returns a patch when some node of the list matches, and the    *)
(* patch of that node when no other node does.                             *)
LEMMA WalkFinds ==
  ASSUME DynTypeOK, NEW I, I \subseteq DOMAIN dpatch_list,
         \A i \in I : dpatch_list[i].patch \in is_active, NEW k \in I
  PROVE  Walk(I) # NoPatch /\ ((\A i \in I : i = k) => Walk(I) = dpatch_list[k].patch)
<1>1. DOMAIN dpatch_list \subseteq Nat
  BY ListType
<1>2. First(I) \in I
  BY Zenon, <1>1, FirstProperties
<1>3. NoPatch \notin is_active
  BY Zenon, PatchContextAssumption DEF DynTypeOK
<1> QED
  BY Zenon, <1>2, <1>3 DEF Walk

(* The patch p has been entered in a node and activated. *)
Entered(p) ==
  /\ p \in is_active
  /\ \E k \in 1 .. Len(dpatch_list) :
       /\ dpatch_list[k].patch = p
       /\ dpatch_list[k].inst_addr = calc_bpkt_addr(desc[p].inst_addr)
       /\ dpatch_list[k].pc_addr = calc_bpkt_pc(dpatch_list[k].inst_addr)
       /\ dpatch_list[k].inst_addr \subseteq dbits_filter_bpkt
       /\ dpatch_list[k].pc_addr \subseteq dbits_filter_pc
       /\ p # LocalDynamic /\ FlashAddress(desc[p].inst_addr) =>
            \A i \in 1 .. Len(dpatch_list) :
              dpatch_list[i].inst_addr = dpatch_list[k].inst_addr => i = k

(* The three lookups find such a patch. *)
LEMMA EnteredFound == DynTypeOK => \A p \in Patch : Entered(p) => FoundAfterInstall(p)
<1> SUFFICES ASSUME DynTypeOK, NEW p \in Patch, Entered(p), desc[p].type = "dynamic"
             PROVE  FoundAfterInstall(p)
  BY Zenon DEF FoundAfterInstall
<1> DEFINE a == calc_bpkt_addr(desc[p].inst_addr)
<1>1. p \in is_active /\ DOMAIN dpatch_list = 1 .. Len(dpatch_list)
  BY Zenon, ListType DEF Entered
<1>2. PICK k \in 1 .. Len(dpatch_list) :
        /\ dpatch_list[k].patch = p /\ dpatch_list[k].inst_addr = a
        /\ dpatch_list[k].pc_addr = calc_bpkt_pc(a)
        /\ a \subseteq dbits_filter_bpkt /\ calc_bpkt_pc(a) \subseteq dbits_filter_pc
        /\ p # LocalDynamic /\ FlashAddress(desc[p].inst_addr) =>
             \A i \in 1 .. Len(dpatch_list) : dpatch_list[i].inst_addr = a => i = k
  BY DEF Entered
<1>3. 0 \notin a
  BY DEF calc_bpkt_addr
<1> HIDE DEF a
<1>4. /\ get_dynamic_patch_by_bpkt(a) # NoPatch
      /\ p # LocalDynamic /\ FlashAddress(desc[p].inst_addr) => get_dynamic_patch_by_bpkt(a) = p
  <2> DEFINE I == {i \in DOMAIN dpatch_list :
                     dpatch_list[i].inst_addr = a /\ dpatch_list[i].patch \in is_active}
  <2>1. get_dynamic_patch_by_bpkt(a) = Walk(I)
    BY Zenon, <1>2 DEF get_dynamic_patch_by_bpkt
  <2>2. k \in I /\ I \subseteq DOMAIN dpatch_list /\ \A i \in I : dpatch_list[i].patch \in is_active
    BY Zenon, <1>1, <1>2
  <2>3. p # LocalDynamic /\ FlashAddress(desc[p].inst_addr) => \A i \in I : i = k
    BY Zenon, <1>1, <1>2
  <2> HIDE DEF I
  <2> QED
    BY Zenon, <1>2, <2>1, <2>2, <2>3, WalkFinds
<1>5. get_dynamic_patch_by_fpb(a \cup {0}) # NoPatch
  <2> DEFINE both == {a \cup {0}, (a \cup {0}) \ {0}}
             I == {i \in DOMAIN dpatch_list :
                     dpatch_list[i].inst_addr \in both /\ dpatch_list[i].patch \in is_active}
  <2>1. (a \cup {0}) \ {0} = a
    BY Zenon, <1>3
  <2>2. a \in both
    BY <2>1
  <2>3. get_dynamic_patch_by_fpb(a \cup {0}) = Walk(I)
    BY <1>2, <2>2 DEF get_dynamic_patch_by_fpb
  <2>4. k \in I /\ I \subseteq DOMAIN dpatch_list /\ \A i \in I : dpatch_list[i].patch \in is_active
    BY Zenon, <1>1, <1>2, <2>2
  <2> HIDE DEF I
  <2> QED
    BY Zenon, <2>3, <2>4, WalkFinds
<1>6. get_dynamic_patch_by_pc(calc_bpkt_pc(a)) # NoPatch
  <2> DEFINE I == {i \in DOMAIN dpatch_list : dpatch_list[i].pc_addr = calc_bpkt_pc(a)
                                              /\ dpatch_list[i].patch \in is_active}
  <2>1. get_dynamic_patch_by_pc(calc_bpkt_pc(a)) = Walk(I)
    BY Zenon, <1>2 DEF get_dynamic_patch_by_pc
  <2>2. k \in I /\ I \subseteq DOMAIN dpatch_list /\ \A i \in I : dpatch_list[i].patch \in is_active
    BY Zenon, <1>1, <1>2
  <2> HIDE DEF I
  <2> QED
    BY Zenon, <2>1, <2>2, WalkFinds
<1> QED
  BY Zenon, <1>4, <1>5, <1>6 DEF FoundAfterInstall, a

(* When active_patch returns, the three lookups find a patch at the new    *)
(* address, and a network patch for flash finds itself there.              *)
THEOREM InstalledFound == Spec => InstalledPatchIsFound
<1> DEFINE A == \A p \in Patch : task.pc = "activate" /\ task.patch = p /\ task'.pc = "idle"
                                   => FoundAfterInstall(p)'
<1>1. ASSUME IInv, FoundInv, IInv', [Next]_vars, (DynTypeOK => \A p \in Patch : Entered(p) => FoundAfterInstall(p))'
      PROVE  [A]_vars
  <2> SUFFICES ASSUME Next, NEW p \in Patch, task.pc = "activate", task.patch = p, task'.pc = "idle"
               PROVE  FoundAfterInstall(p)'
    BY <1>1
  <2>1. set_active
    BY Zenon DEF Next, Step, start_patch_service, notify_new_dynamic, notify_new_fixed, ebpf_patch_setup,
       read_local_patch, refuse_local_patch, load_local_fixed_patch, reset_patch,
       add_dynamic_search, set_node_addresses, set_node_patch, empty_fixed_filter,
       fill_fixed_filter, fill_dynamic_filters, arm_patch, free_patches, unlink_patches
  <2>2. /\ UNCHANGED <<dpatch_list, dbits_filter_bpkt, dbits_filter_pc, desc>>
        /\ p \in is_active'
    BY Zenon, <2>1 DEF set_active, ctx
  <2>3. CASE desc[p].type # "dynamic"
    BY <2>2, <2>3 DEF FoundAfterInstall
  <2>4. CASE desc[p].type = "dynamic"
    <3> DEFINE k == task.at
    <3>1. k \in 1 .. Len(dpatch_list) /\ dpatch_list[k].patch = p
      BY <1>1, <2>4 DEF FoundInv, EnteredInv, Activating
    <3>2. dpatch_list[k].inst_addr = calc_bpkt_addr(desc[p].inst_addr)
      BY Zenon, <1>1, <3>1, PatchContextAssumption DEF IInv, NodeInv, Rewriting
    <3>3. /\ dpatch_list[k].pc_addr = calc_bpkt_pc(dpatch_list[k].inst_addr)
          /\ dpatch_list[k].inst_addr \subseteq dbits_filter_bpkt
          /\ dpatch_list[k].pc_addr \subseteq dbits_filter_pc
      BY Zenon, <1>1, <3>1 DEF FoundInv, PcInv, PassInv
    <3>4. ASSUME p # LocalDynamic, FlashAddress(desc[p].inst_addr),
                 NEW i \in 1 .. Len(dpatch_list), dpatch_list[i].inst_addr = dpatch_list[k].inst_addr
          PROVE  i = k
      <4>1. calc_bpkt_addr(desc[p].inst_addr) = desc[p].inst_addr
        BY <1>1, <2>4, <3>4 DEF calc_bpkt_addr, FlashAddress, FoundInv, DescInv
      <4> QED
        BY Zenon, <1>1, <2>4, <3>2, <3>4, <4>1 DEF FoundInv, AloneInv, InstallingFlash, Activating
    <3>5. Entered(p)'
      BY <2>2, <3>1, <3>2, <3>3, <3>4 DEF Entered
    <3>6. DynTypeOK'
      BY Zenon, <1>1 DEF IInv
    <3> QED
      BY <1>1, <3>5, <3>6
  <2> QED
    BY Zenon, <2>3, <2>4
<1>2. Spec => [][A]_vars
  BY <1>1, EnteredFound, Invariance, FoundInvariance, PTL DEF Spec
<1> QED
  BY Zenon, <1>2 DEF InstalledPatchIsFound
-----------------------------------------------------------------------------
(* The context exists or is empty, at boot. *)
LEMMA CtxInvInit == Init => CtxInv
<1> SUFFICES ASSUME Init PROVE CtxInv
  BY Zenon
<1>1. task = Idle /\ fmap = NoMap /\ dpatch_list = <<>>
  BY Zenon DEF Init
<1>2. task.pc = "idle"
  BY Zenon, <1>1 DEF Idle
<1> QED
  BY Zenon, <1>1, <1>2 DEF CtxInv

(* Every step keeps it so. *)
LEMMA CtxInvNext == IInv /\ CtxInv /\ [Next]_vars => CtxInv'
<1> SUFFICES ASSUME IInv, CtxInv, [Next]_vars PROVE CtxInv'
  BY Zenon
<1> USE DEF CtxInv
<1>1. CASE start_patch_service
  BY Zenon, <1>1 DEF start_patch_service, init_patch_sys, ctx
<1>2. ASSUME NEW p \in Patch, NEW a \in NetAddr, notify_new_dynamic(p, a) PROVE CtxInv'
  BY Zenon, <1>2 DEF notify_new_dynamic, ebpf_patch_setup, ctx, Idle
<1>3. ASSUME NEW p \in Patch, NEW n \in FixedId, notify_new_fixed(p, n) PROVE CtxInv'
  BY Zenon, <1>3 DEF notify_new_fixed, ebpf_patch_setup, add_fixed_patch_to_ctx, Idle
<1>4. ASSUME NEW a \in LocalAddr, read_local_patch(a) PROVE CtxInv'
  <2>1. task.pc = "idle" /\ (init_patch_sys \/ UNCHANGED ctx)
    BY Zenon, <1>4 DEF read_local_patch
  <2>2. task'.pc \in {"undefined", "link", "update"}
    BY <1>4 DEF read_local_patch, load_local_patch_to_ctx, Idle
  <2> QED
    BY Zenon, <2>1, <2>2 DEF init_patch_sys, ctx
<1>5. CASE refuse_local_patch
  BY Zenon, <1>5 DEF refuse_local_patch, ctx
<1>6. ASSUME NEW n \in FixedId, load_local_fixed_patch(n) PROVE CtxInv'
  BY Zenon, <1>6 DEF load_local_fixed_patch, add_fixed_patch_to_ctx, Idle
<1>7. CASE reset_patch
  BY Zenon, <1>7 DEF reset_patch, ctx, Goto, IInv, DynTypeOK
<1>8. CASE add_dynamic_search \/ set_node_addresses \/ set_node_patch
  <2>1. UNCHANGED <<ctx_init, fmap>> /\ task'.pc \in {"fields", "repoint", "fbits"}
    BY Zenon, <1>8 DEF add_dynamic_search, set_node_addresses, set_node_patch, Goto, IInv, DynTypeOK
  <2> QED
    BY Zenon, <2>1
<1>9. CASE \/ empty_fixed_filter \/ fill_fixed_filter \/ fill_dynamic_filters
           \/ arm_patch \/ set_active
  <2>1. /\ UNCHANGED <<ctx_init, fmap>>
        /\ \/ task'.pc \in {"fill", "dbits", "bkpt", "activate", "idle"}
              /\ (task.pc \in {"fill", "dbits", "bkpt", "activate"} \/ fmap # NoMap)
           \/ task'.pc = "undefined"
    BY <1>9 DEF empty_fixed_filter, fill_fixed_filter, fill_dynamic_filters, arm_patch,
       set_active, ctx, Goto, Idle, IInv, DynTypeOK
  <2> QED
    BY Zenon, <2>1
<1>10. CASE free_patches
  BY Zenon, <1>10 DEF free_patches, Goto, IInv, DynTypeOK
<1>11. CASE unlink_patches
  BY Zenon, <1>11 DEF unlink_patches, Idle
<1>12. CASE UNCHANGED vars
  BY Zenon, <1>12 DEF vars, ctx
<1> QED
  BY <1>1, <1>2, <1>3, <1>4, <1>5, <1>6, <1>7, <1>8, <1>9, <1>10, <1>11, <1>12 DEF Next, Step

(* An object without a descriptor is neither a dynamic nor a fixed patch. *)
LEMMA NoDescType == NoDesc.type = "none"
BY DEF NoDesc

(* Without network patches, only the object of the local dynamic loader    *)
(* is listed, and only it is entered in the list.                          *)
LEMMA LocalList ==
  ASSUME IInv, OnlyLocal
  PROVE  /\ \A i \in 1 .. Len(dpatch_list) :
              task.pc \notin {"fields", "repoint"} => dpatch_list[i].patch = LocalDynamic
         /\ task.pc \in Entering \cup {"update"} => task.patch = LocalDynamic
<1> USE PatchContextAssumption
<1>1. \A p \in Patch : desc[p].type = "dynamic" /\ p # LocalFixed => p = LocalDynamic
  BY Zenon, NoDescType DEF OnlyLocal
<1>2. ASSUME NEW i \in 1 .. Len(dpatch_list), task.pc \notin {"fields", "repoint"}
      PROVE  dpatch_list[i].patch = LocalDynamic
  <2>1. dpatch_list[i].patch \in Patch \cup {NoPatch}
    BY Zenon, ListType DEF IInv
  <2>2. /\ dpatch_list[i].patch # NoPatch /\ dpatch_list[i].patch # LocalFixed
        /\ desc[dpatch_list[i].patch].type = "dynamic"
    BY Zenon, <1>2 DEF IInv, NodeInv
  <2> QED
    BY Zenon, <1>1, <2>1, <2>2
<1>3. ASSUME task.pc \in Entering \cup {"update"} PROVE task.patch = LocalDynamic
  <2>1. /\ task.patch \in Patch /\ task.patch # LocalFixed
        /\ desc[task.patch].type = "dynamic"
    BY Zenon, <1>3 DEF IInv, TaskInv, Entering, Installing, DynTypeOK
  <2> QED
    BY Zenon, <1>1, <2>1
<1> QED
  BY Zenon, <1>2, <1>3

(* The breakpoints while all comparators are clear. *)
LEMMA NoBreakpoints == comp = NoComparators => Breakpoints = {}
BY Zenon DEF Breakpoints, NoComparators

(* A step that leaves descriptors, list and comparators alone. *)
LEMMA DeviceFrame ==
  ASSUME UNCHANGED <<desc, dpatch_list, comp, fpb_on, refused>>
  PROVE  /\ OnlyLocal' = OnlyLocal /\ Breakpoints' = Breakpoints /\ Listed' = Listed
BY Zenon DEF OnlyLocal, Breakpoints, Listed

(* The invariant holds at boot, where nothing is listed and nothing armed. *)
LEMMA DeviceInvInit == Init => DeviceInv
<1> SUFFICES ASSUME Init PROVE DeviceInv
  BY Zenon
<1>1. Breakpoints = {}
  BY Zenon, NoBreakpoints DEF Init
<1>2. Listed = {}
  <2>1. dpatch_list = <<>> /\ DOMAIN <<>> = {}
    BY DEF Init
  <2> QED
    BY Zenon, <2>1 DEF Listed
<1>3. desc[LocalFixed].type = "none" /\ desc[LocalDynamic].type = "none" /\ task.pc = "idle"
  BY Zenon, PatchContextAssumption DEF Init, NoDesc, Idle
<1> QED
  BY Zenon, <1>1, <1>2, <1>3 DEF DeviceInv, Loading, Entering

(* The operations that begin: a `patch` command clears the comparators,    *)
(* the others leave breakpoints and list alone.                            *)
LEMMA DeviceOperations ==
  ASSUME IInv, CtxInv, DeviceInv,
         \/ start_patch_service
         \/ \E p \in Patch, a \in NetAddr : notify_new_dynamic(p, a)
         \/ \E p \in Patch, n \in FixedId : notify_new_fixed(p, n)
         \/ \E a \in LocalAddr : read_local_patch(a)
         \/ refuse_local_patch
         \/ \E n \in FixedId : load_local_fixed_patch(n)
         \/ reset_patch
  PROVE  DeviceInv'
<1> USE PatchContextAssumption
<1>t. desc \in [Patch -> Desc \cup {NoDesc}]
  BY Zenon DEF IInv, DynTypeOK
<1>1. CASE start_patch_service
  <2>1. task.pc = "idle" /\ UNCHANGED <<desc, dpatch_list, comp, fpb_on, refused, task>>
    BY Zenon, <1>1 DEF start_patch_service, init_patch_sys, ctx, heap, fpb, CtxInv
  <2> QED
    BY Zenon, <2>1, DeviceFrame DEF DeviceInv, Loading, Settled, Entering
<1>2. ASSUME NEW p \in Patch, NEW d, ebpf_patch_setup(p, d), d.type # "none" PROVE DeviceInv'
  <2>1. p \in Patch \ {LocalDynamic, LocalFixed} /\ desc'[p] = d
    BY Zenon, <1>t, <1>2 DEF ebpf_patch_setup
  <2>2. d # NoDesc
    BY Zenon, <1>2, NoDescType
  <2> QED
    BY Zenon, <2>1, <2>2 DEF DeviceInv, OnlyLocal
<1>3. ASSUME NEW p \in Patch, NEW a \in NetAddr, notify_new_dynamic(p, a) PROVE DeviceInv'
  <2>1. Dynamic(a \ {0, 1}).type # "none"
    BY Zenon DEF Dynamic
  <2> QED
    BY Zenon, <1>2, <1>3, <2>1 DEF notify_new_dynamic
<1>4. ASSUME NEW p \in Patch, NEW n \in FixedId, notify_new_fixed(p, n) PROVE DeviceInv'
  <2>1. Fixed(n).type # "none"
    BY Zenon DEF Fixed
  <2> QED
    BY Zenon, <1>2, <1>4, <2>1 DEF notify_new_fixed
<1>5. ASSUME NEW a \in LocalAddr, read_local_patch(a) PROVE DeviceInv'
  <2>1. comp' = NoComparators /\ fpb_on' = ~HaltingDebug
    BY Zenon, <1>5 DEF read_local_patch, set_patch_mode
  <2>2. task'.pc \in {"undefined", "link", "update"}
    BY <1>5 DEF read_local_patch, load_local_patch_to_ctx, Idle
  <2>3. UNCHANGED desc \/ desc' = [desc EXCEPT ![LocalDynamic] = Dynamic(a)]
    BY Zenon, <1>5 DEF read_local_patch
  <2>4. \A p \in Patch : p # LocalDynamic => desc'[p] = desc[p]
    BY Zenon, <1>t, <2>3
  <2>5. desc'[LocalDynamic] = desc[LocalDynamic] \/ desc'[LocalDynamic].type = "dynamic"
    <3>1. desc'[LocalDynamic] = desc[LocalDynamic] \/ desc'[LocalDynamic] = Dynamic(a)
      BY Zenon, <1>t, <2>3
    <3> QED
      BY <3>1 DEF Dynamic
  <2>6. OnlyLocal' => OnlyLocal
    BY Zenon, <2>4 DEF OnlyLocal
  <2>7. ~Settled'
    BY Zenon, <2>2 DEF Settled
  <2> QED
    BY Zenon, <2>1, <2>4, <2>5, <2>6, <2>7 DEF DeviceInv
<1>6. CASE refuse_local_patch
  <2>1. task.pc = "idle" /\ refused' = TRUE /\ UNCHANGED <<desc, task>>
    BY Zenon, <1>6 DEF refuse_local_patch, heap
  <2>2. ~Loading'
    BY Zenon, <2>1 DEF Loading, Entering
  <2>3. OnlyLocal' => OnlyLocal
    BY Zenon, <2>1 DEF OnlyLocal
  <2> QED
    BY Zenon, <2>1, <2>2, <2>3 DEF DeviceInv
<1>7. ASSUME NEW n \in FixedId, load_local_fixed_patch(n) PROVE DeviceInv'
  <2>1. /\ task.pc = "idle" /\ UNCHANGED <<dpatch_list, comp, fpb_on, refused>>
        /\ desc' = [desc EXCEPT ![LocalFixed] = Fixed(n)]
    BY Zenon, <1>7 DEF load_local_fixed_patch, fpb, CtxInv
  <2>2. task'.pc = "undefined" \/ (task'.pc = "fbits" /\ task'.patch = LocalFixed)
    BY Zenon, <1>7 DEF load_local_fixed_patch, add_fixed_patch_to_ctx, Idle
  <2>3. desc'[LocalFixed].type = "fixed" /\ \A p \in Patch : p # LocalFixed => desc'[p] = desc[p]
    BY Zenon, <1>t, <2>1 DEF Fixed
  <2>4. OnlyLocal' => OnlyLocal
    BY Zenon, <2>3 DEF OnlyLocal
  <2>5. \A i \in DOMAIN dpatch_list : desc'[dpatch_list[i].patch] = desc[dpatch_list[i].patch]
    <3>1. \A i \in 1 .. Len(dpatch_list) :
            dpatch_list[i].patch \in Patch /\ dpatch_list[i].patch # LocalFixed
      BY <2>1, ListAtBegin
    <3>2. DOMAIN dpatch_list = 1 .. Len(dpatch_list)
      BY Zenon, ListType DEF IInv
    <3> QED
      BY Zenon, <2>3, <3>1, <3>2
  <2>6. Listed' = Listed
    BY Zenon, <2>1, <2>5 DEF Listed
  <2>7. Breakpoints' = Breakpoints
    BY Zenon, <2>1 DEF Breakpoints
  <2>8. ~Loading' /\ Settled
    BY Zenon, <2>1, <2>2 DEF Loading, Settled, Entering
  <2> QED
    BY Zenon, <2>1, <2>3, <2>4, <2>6, <2>7, <2>8 DEF DeviceInv
<1>8. CASE reset_patch
  <2>1. UNCHANGED desc /\ task'.pc = "destroy"
    BY Zenon, <1>8 DEF reset_patch, heap, Goto, IInv, DynTypeOK
  <2>2. ~Loading' /\ ~Settled'
    BY Zenon, <2>1 DEF Loading, Settled, Entering
  <2>3. OnlyLocal' => OnlyLocal
    BY Zenon, <2>1 DEF OnlyLocal
  <2> QED
    BY Zenon, <2>1, <2>2, <2>3 DEF DeviceInv
<1> QED
  BY <1>1, <1>3, <1>4, <1>5, <1>6, <1>7, <1>8

(* The steps between the beginning of an operation and its arming. *)
LEMMA DeviceSteps ==
  ASSUME IInv, DeviceInv,
         \/ add_dynamic_search \/ set_node_addresses \/ set_node_patch
         \/ empty_fixed_filter \/ fill_fixed_filter \/ fill_dynamic_filters
         \/ set_active
  PROVE  DeviceInv'
<1>1. CASE add_dynamic_search \/ set_node_addresses \/ set_node_patch
  <2>1. /\ UNCHANGED <<desc, comp, fpb_on, refused>> /\ task'.patch = task.patch
        /\ task.pc \in Entering \cup {"update"}
        /\ task'.pc \in {"fields", "repoint", "fbits"}
    BY Zenon, <1>1 DEF add_dynamic_search, set_node_addresses, set_node_patch, heap, fpb, Goto,
       Entering, IInv, DynTypeOK
  <2>2. OnlyLocal' => OnlyLocal
    BY Zenon, <2>1 DEF OnlyLocal
  <2>3. ASSUME OnlyLocal PROVE task'.patch = LocalDynamic
    BY Zenon, <2>1, <2>3, LocalList
  <2>4. Loading
    BY Zenon, <2>1 DEF Loading
  <2>5. OnlyLocal => ~Settled'
    BY Zenon, <2>1, <2>3 DEF Settled
  <2> QED
    BY Zenon, <2>1, <2>2, <2>4, <2>5 DEF DeviceInv
<1>2. CASE empty_fixed_filter \/ fill_fixed_filter \/ fill_dynamic_filters \/ set_active
  <2>1. /\ UNCHANGED <<desc, dpatch_list, comp, fpb_on, refused>>
        /\ \/ task'.pc \in {"fill", "dbits", "bkpt"} /\ task'.patch = task.patch
              /\ task.pc \in {"fbits", "fill", "dbits"}
           \/ task.pc = "activate" /\ task'.pc = "idle"
           \/ task'.pc = "undefined"
    BY <1>2 DEF empty_fixed_filter, fill_fixed_filter, fill_dynamic_filters, set_active,
       heap, fpb, ctx, Goto, Idle, IInv, DynTypeOK
  <2>2. (Loading' => Loading) /\ (Settled' => Settled)
    BY Zenon, <2>1 DEF Loading, Settled, Entering
  <2> QED
    BY Zenon, <2>1, <2>2, DeviceFrame DEF DeviceInv
<1> QED
  BY Zenon, <1>1, <1>2

(* One comparator is loaded while the others are clear. *)
LEMMA FirstBreakpoint ==
  ASSUME DynTypeOK, comp = NoComparators, fpb_on = TRUE, fpb_on' = TRUE,
         NEW a \in Word, a \cap 2 .. 28 # {}, add_hw_bkpt(a)
  PROVE  Breakpoints' = IF FlashAddress(a) THEN {calc_bpkt_addr(a)} ELSE {}
<1> USE PatchContextAssumption
<1> DEFINE c == calc_bpkt_addr(a)
           idx == IF cur_idx >= MAX_BP THEN 0 ELSE cur_idx
<1>1. c # {}
  BY DEF calc_bpkt_addr, RamBits
<1>2. idx \in 0 .. MAX_BP - 1
  BY DEF DynTypeOK
<1> HIDE DEF c
<1>3. \A i \in 0 .. MAX_BP - 1 : comp[i] = {}
  BY Zenon DEF NoComparators
<1>4. CASE FlashAddress(a)
  <2>1. comp' = [comp EXCEPT ![idx] = c]
    BY Zenon, <1>1, <1>3, <1>4 DEF add_hw_bkpt, FlashAddress, c
  <2> HIDE DEF idx
  <2>2. \A i \in 0 .. MAX_BP - 1 : comp'[i] = IF i = idx THEN c ELSE {}
    BY Zenon, <1>3, <2>1 DEF DynTypeOK
  <2>3. {comp'[i] : i \in 0 .. MAX_BP - 1} \ {{}} = {c}
    BY Zenon, <1>1, <1>2, <2>2
  <2> QED
    BY Zenon, <1>4, <2>3 DEF Breakpoints, c
<1>5. CASE ~FlashAddress(a)
  <2>1. comp' = NoComparators
    BY Zenon, <1>5 DEF add_hw_bkpt, FlashAddress
  <2> QED
    BY Zenon, <1>5, <2>1 DEF Breakpoints, NoComparators
<1> QED
  BY Zenon, <1>4, <1>5

(* What is listed when the local patch has been entered. *)
LEMMA OneListed ==
  ASSUME IInv, OnlyLocal, task.pc = "bkpt", task.at \in 1 .. Len(dpatch_list)
  PROVE  LET a == desc[LocalDynamic].inst_addr
         IN  Listed = IF FlashAddress(a) THEN {calc_bpkt_addr(a)} ELSE {}
<1> DEFINE a == desc[LocalDynamic].inst_addr
<1>1. DOMAIN dpatch_list = 1 .. Len(dpatch_list)
  BY Zenon, ListType DEF IInv
<1>2. \A i \in DOMAIN dpatch_list : dpatch_list[i].patch = LocalDynamic
  BY Zenon, <1>1, LocalList
<1>3. \A i \in DOMAIN dpatch_list : dpatch_list[i].inst_addr = calc_bpkt_addr(a)
  BY Zenon, <1>1, <1>2, PatchContextAssumption DEF IInv, NodeInv, Rewriting
<1> HIDE DEF a
<1>4. task.at \in DOMAIN dpatch_list
  BY Zenon, <1>1
<1>5. Listed = {dpatch_list[i].inst_addr : i \in {j \in DOMAIN dpatch_list : FlashAddress(a)}}
  BY Zenon, <1>2 DEF Listed, a
<1>6. Listed = IF FlashAddress(a) THEN {calc_bpkt_addr(a)} ELSE {}
  BY Zenon, <1>3, <1>4, <1>5
<1> QED
  BY Zenon, <1>6 DEF a

(* arm_patch arms the local patch, the only one that is listed. *)
LEMMA DeviceArm ==
  ASSUME IInv, FoundInv, DeviceInv, arm_patch
  PROVE  DeviceInv'
<1> USE PatchContextAssumption
<1>1. /\ task.pc = "bkpt" /\ task'.pc = "activate"
      /\ UNCHANGED <<desc, dpatch_list, fpb_on, refused>>
      /\ task.patch \in Patch
      /\ \/ desc[task.patch].type = "fixed" /\ UNCHANGED comp
         \/ desc[task.patch].type = "dynamic" /\ add_hw_bkpt(desc[task.patch].inst_addr)
  BY Zenon DEF arm_patch, heap, Goto, IInv, DynTypeOK, TaskInv, Installing, Entering
<1> SUFFICES ASSUME OnlyLocal', ~refused', ~HaltingDebug PROVE Breakpoints' = Listed'
  <2>1. OnlyLocal' => OnlyLocal
    BY Zenon, <1>1 DEF OnlyLocal
  <2>2. ~Loading'
    BY Zenon, <1>1 DEF Loading, Entering
  <2> QED
    BY Zenon, <1>1, <2>1, <2>2 DEF DeviceInv
<1>2. OnlyLocal /\ Listed' = Listed
  BY Zenon, <1>1 DEF OnlyLocal, Listed
<1>3. CASE task.patch = LocalDynamic
  <2>1. comp = NoComparators /\ fpb_on = TRUE /\ fpb_on' = TRUE
    BY Zenon, <1>1, <1>2, <1>3 DEF DeviceInv, Loading
  <2>2. desc[LocalDynamic].type = "dynamic" /\ add_hw_bkpt(desc[LocalDynamic].inst_addr)
    BY Zenon, <1>1, <1>2, <1>3 DEF DeviceInv
  <2>3. desc[LocalDynamic].inst_addr \in Word /\ desc[LocalDynamic].inst_addr \cap 2 .. 28 # {}
    BY Zenon, <2>2, DynamicDesc DEF IInv, DynTypeOK, FoundInv, DescInv
  <2>4. task.at \in 1 .. Len(dpatch_list)
    BY Zenon, <1>1, <1>3, <2>2 DEF FoundInv, EnteredInv, Activating
  <2> DEFINE a == desc[LocalDynamic].inst_addr
  <2>5. Listed = IF FlashAddress(a) THEN {calc_bpkt_addr(a)} ELSE {}
    BY <1>1, <1>2, <2>4, OneListed
  <2> HIDE DEF a
  <2>6. a \in Word /\ a \cap 2 .. 28 # {} /\ add_hw_bkpt(a)
    BY Zenon, <2>2, <2>3 DEF a
  <2>7. Breakpoints' = IF FlashAddress(a) THEN {calc_bpkt_addr(a)} ELSE {}
    BY Zenon, <2>1, <2>6, FirstBreakpoint DEF IInv
  <2> QED
    BY Zenon, <1>2, <2>5, <2>7
<1>4. CASE task.patch # LocalDynamic
  <2>1. desc[task.patch].type # "dynamic"
    BY Zenon, <1>1, <1>2, <1>4, NoDescType DEF DeviceInv, OnlyLocal
  <2>2. Breakpoints' = Breakpoints
    BY Zenon, <1>1, <2>1 DEF Breakpoints
  <2>3. Breakpoints = Listed
    BY Zenon, <1>1, <1>2, <1>4 DEF DeviceInv, Settled
  <2> QED
    BY Zenon, <1>2, <2>2, <2>3
<1> QED
  BY Zenon, <1>3, <1>4

(* Every step preserves the invariant of the device. *)
LEMMA DeviceInvNext == IInv /\ FoundInv /\ CtxInv /\ DeviceInv /\ [Next]_vars => DeviceInv'
<1> SUFFICES ASSUME IInv, FoundInv, CtxInv, DeviceInv, [Next]_vars PROVE DeviceInv'
  BY Zenon
<1>1. CASE free_patches
  <2>1. UNCHANGED desc /\ task'.pc \in {"unlink", "undefined"}
    BY Zenon, <1>1 DEF free_patches, Goto, IInv, DynTypeOK
  <2>2. ~Loading' /\ ~Settled'
    BY Zenon, <2>1 DEF Loading, Settled, Entering
  <2>3. OnlyLocal' => OnlyLocal
    BY Zenon, <2>1 DEF OnlyLocal
  <2> QED
    BY Zenon, <2>1, <2>2, <2>3 DEF DeviceInv
<1>2. CASE unlink_patches
  <2>1. dpatch_list' = <<>> /\ fpb_on' = FALSE /\ UNCHANGED desc /\ task'.pc = "idle"
    BY Zenon, <1>2 DEF unlink_patches, clear_all_hw_bkpt, heap, Idle
  <2>2. Breakpoints' = {}
    BY Zenon, <2>1 DEF Breakpoints
  <2>3. DOMAIN dpatch_list' = {}
    BY <2>1
  <2>4. Listed' = {}
    BY Zenon, <2>3 DEF Listed
  <2>5. ~Loading'
    BY Zenon, <2>1 DEF Loading, Entering
  <2>6. OnlyLocal' => OnlyLocal
    BY Zenon, <2>1 DEF OnlyLocal
  <2> QED
    BY Zenon, <2>1, <2>2, <2>4, <2>5, <2>6 DEF DeviceInv
<1>3. CASE UNCHANGED vars
  <2>1. UNCHANGED <<desc, dpatch_list, comp, fpb_on, refused, task>>
    BY Zenon, <1>3 DEF vars, ctx, heap, fpb
  <2>2. Loading' = Loading /\ Settled' = Settled
    BY Zenon, <2>1 DEF Loading, Settled
  <2> QED
    BY Zenon, <2>1, <2>2, DeviceFrame DEF DeviceInv
<1> QED
  BY <1>1, <1>2, <1>3, DeviceOperations, DeviceSteps, DeviceArm DEF Next, Step

(* On a device whose patches all come from the local loaders, the          *)
(* breakpoints between two commands are those of the listed patches:       *)
(* `patch` clears before it rewrites, the reset clears before it frees;    *)
(* only a refused `patch` command leaves a listed patch disarmed.          *)
THEOREM PatchesArmed == Spec => []ListedPatchesArmed
<1>1. DeviceInv => ListedPatchesArmed
  BY Zenon DEF DeviceInv, ListedPatchesArmed, Settled
<1>2. Spec => []DeviceInv
  BY IInvInit, IInvNext, FoundInvInit, FoundInvNext, CtxInvInit, CtxInvNext, DeviceInvInit,
     DeviceInvNext, PTL DEF Spec
<1> QED
  BY <1>1, <1>2, PTL
=============================================================================
