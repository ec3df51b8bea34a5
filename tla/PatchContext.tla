---------------------------- MODULE PatchContext ----------------------------
(***************************************************************************)
(* The patch context of hotpatch/src/iotpatch.c: the list of dynamic       *)
(* patches, the array map of fixed patches, the three address filters, and *)
(* the breakpoint comparators that cortex-m4_fbp.c allocates for them in   *)
(* debug-monitor mode; the operations that change them (a patch from the   *)
(* network, the `patch` and fixed-patch shell commands, the reset command) *)
(* and the lookups that an exception handler or a patch point makes in     *)
(* between.                                                                *)
(*                                                                         *)
(* One task installs and removes patches.  Its operations are cut at every *)
(* store that a lookup can observe, because the DebugMonitor exception and *)
(* the patch points of other threads preempt it: a property of a lookup is *)
(* therefore a predicate over every state.                                 *)
(*                                                                         *)
(* A 32-bit word that the code uses as an address or a filter is the set   *)
(* of its bits: | is union, (f & a) != a is ~(a \subseteq f).              *)
(***************************************************************************)
EXTENDS ArrayMapOps, Sequences, FiniteSets

CONSTANTS
  Patch,          \* patch objects the allocator can hand out (model bound)
  NoPatch,        \* a NULL or not yet written patch pointer
  LocalDynamic,   \* the static _patch of dynamic_patch_load.c
  LocalFixed,     \* the static _patch of fixed_patch_load.c
  NetAddr,        \* inst_addr values of patches from the network
  LocalAddr,      \* loc values of the local dynamic patch table
  FixedId,        \* identifiers of fixed patch points
  Thumb32,        \* addresses at which flash holds a 32-bit instruction
  MAX_DP_NUM,
  MAX_BP,
  HaltingDebug    \* a debug probe is attached (DHCSR.C_DEBUGEN)

Word == SUBSET (0 .. 31)
RamBits == {29, 30, 31}

ASSUME PatchContextAssumption ==
  /\ NetAddr \subseteq Word /\ LocalAddr \subseteq Word
  /\ \A a \in NetAddr \cup LocalAddr : a \cap 2 .. 28 # {}   \* not the vector at 0
  /\ FixedId \subseteq Nat \ {0}
  /\ MAX_DP_NUM \in Nat /\ MAX_BP \in Nat \ {0}
  /\ HaltingDebug \in BOOLEAN
  /\ NoPatch \notin Patch /\ Junk \notin Patch \cup FixedId
  /\ LocalDynamic \in Patch /\ LocalFixed \in Patch /\ LocalDynamic # LocalFixed

(* The bits of a fixed_id, an address below the peripherals. *)
Bits(n) == {b \in 0 .. 30 : (n \div 2^b) % 2 = 1}

Desc == [type : {"dynamic"}, inst_addr : Word] \cup [type : {"fixed"}, fixed_id : FixedId]
Dynamic(a) == [type |-> "dynamic", inst_addr |-> a]
Fixed(n) == [type |-> "fixed", fixed_id |-> n]
NoDesc == [type |-> "none"]

VARIABLES
  ctx_init, fmap, fbits_filter, dpatch_list, dbits_filter_bpkt, dbits_filter_pc,
  alive,       \* patch objects that are allocated and not freed
  desc,        \* the descriptor (address and code) of each object
  is_active,   \* the objects whose is_active flag is set
  loaders,     \* the local loaders whose is_init flag is set
  service,     \* start_patch_service was called
  comp, cur_idx, fpb_on,   \* FPB->COMP, bpkt_info.cur_idx, FPB->CTRL.ENABLE
  refused,     \* history: the last `patch` command since a reset was refused
  task         \* what the installing task is doing

ctx == <<ctx_init, fmap, fbits_filter, dpatch_list, dbits_filter_bpkt, dbits_filter_pc>>
filters == <<fbits_filter, dbits_filter_bpkt, dbits_filter_pc>>
heap == <<alive, desc, is_active>>
fpb == <<comp, cur_idx, fpb_on>>
vars == <<ctx, heap, loaders, service, fpb, refused, task>>

NoMap == [cur |-> -1]
Node == [inst_addr : Word, pc_addr : Word, patch : Patch \cup {NoPatch}]
RawNode == [inst_addr |-> {}, pc_addr |-> {}, patch |-> NoPatch]
Pc == {"idle", "link", "fields", "repoint", "update", "fbits", "fill", "dbits",
       "bkpt", "activate", "destroy", "unlink", "undefined"}
Idle == [pc |-> "idle", patch |-> NoPatch, at |-> 0]
Goto(pc) == task' = [task EXCEPT !.pc = pc]
-----------------------------------------------------------------------------
(* The address a comparator stands for, and the following instruction.     *)
calc_bpkt_addr(a) == a \ (RamBits \cup {0})

PlusBit(a, b) ==
  LET carry == CHOOSE c \in b .. 32 : c \notin a /\ b .. c - 1 \subseteq a
  IN  ((a \ (b .. carry)) \cup {carry}) \cap 0 .. 31

calc_bpkt_pc(a) == PlusBit(a \ {0}, IF a \ {0} \in Thumb32 THEN 2 ELSE 1)

(* The walk of the list of dynamic patches: the first node that matches.   *)
First(I) == CHOOSE i \in I : \A j \in I : i <= j
Walk(I) == IF I = {} THEN NoPatch ELSE dpatch_list[First(I)].patch

get_dynamic_patch_by_bpkt(a) ==
  IF ~(a \subseteq dbits_filter_bpkt) THEN NoPatch
  ELSE Walk({i \in DOMAIN dpatch_list :
               dpatch_list[i].inst_addr = a /\ dpatch_list[i].patch \in is_active})

get_dynamic_patch_by_pc(a) ==
  IF ~(a \subseteq dbits_filter_pc) THEN NoPatch
  ELSE Walk({i \in DOMAIN dpatch_list :
               dpatch_list[i].pc_addr = a /\ dpatch_list[i].patch \in is_active})

get_dynamic_patch_by_fpb(a) ==
  LET both == {a, a \ {0}}
  IN  IF \A b \in both : ~(b \subseteq dbits_filter_bpkt) THEN NoPatch
      ELSE Walk({i \in DOMAIN dpatch_list :
               dpatch_list[i].inst_addr \in both /\ dpatch_list[i].patch \in is_active})

get_fixed_patch_by_lr(lr) ==
  IF ~(Bits(lr) \subseteq fbits_filter) THEN NoPatch
  ELSE LET p == arraymap_get(fmap, lr) IN IF p \in is_active THEN p ELSE NoPatch
-----------------------------------------------------------------------------
NoComparators == [i \in 0 .. MAX_BP - 1 |-> {}]

clear_all_hw_bkpt == comp' = NoComparators /\ cur_idx' = 0 /\ fpb_on' = FALSE

(* set_patch_mode(DEB_MON): the monitor cannot be enabled under a probe.   *)
set_patch_mode_keeping == UNCHANGED <<comp, cur_idx>> /\ fpb_on' = ~HaltingDebug

set_patch_mode == comp' = NoComparators /\ cur_idx' = 0 /\ fpb_on' = ~HaltingDebug

(* add_hw_bkpt in debug-monitor mode: a full set of comparators is reused  *)
(* from comparator 0 on, an address that has a comparator keeps it.        *)
add_hw_bkpt(a) ==
  IF a \cap RamBits # {} THEN UNCHANGED <<comp, cur_idx>>
  ELSE LET idx == IF cur_idx >= MAX_BP THEN 0 ELSE cur_idx
           c == calc_bpkt_addr(a)
       IN  IF \E i \in 0 .. MAX_BP - 1 : comp[i] = c
           THEN cur_idx' = idx /\ UNCHANGED comp
           ELSE cur_idx' = idx + 1 /\ comp' = [comp EXCEPT ![idx] = c]
-----------------------------------------------------------------------------
init_patch_sys ==
  IF ctx_init THEN UNCHANGED ctx
  ELSE /\ ctx_init' = TRUE
       /\ fmap' = arraymap_new
       /\ dpatch_list' = <<>>
       /\ fbits_filter' = {} /\ dbits_filter_bpkt' = {} /\ dbits_filter_pc' = {}

start_patch_service ==
  /\ task.pc = "idle"
  /\ init_patch_sys
  /\ service' = TRUE
  /\ UNCHANGED <<heap, loaders, fpb, refused, task>>

(* arraymap_set through a pointer that may be NULL; a full model map stops *)
(* the operation (model bound Slots).                                      *)
add_fixed_patch_to_ctx(m, n, p) ==
  IF m = NoMap
  THEN fmap' = m /\ task' = [Idle EXCEPT !.pc = "undefined"]
  ELSE /\ m.cur < Slots
       /\ fmap' \in arraymap_set(m, n, p)
       /\ task' = [Idle EXCEPT !.pc = "fbits", !.patch = p]

(* notify_new_patch and the ebpf_patch_setup in it, up to the point where  *)
(* the new object is about to be entered in the context.                   *)
ebpf_patch_setup(p, d) ==
  /\ task.pc = "idle" /\ service
  /\ p \in Patch \ {LocalDynamic, LocalFixed} /\ desc[p] = NoDesc
  /\ alive' = alive \cup {p}
  /\ desc' = [desc EXCEPT ![p] = d]

notify_new_dynamic(p, a) ==
  /\ ebpf_patch_setup(p, Dynamic(a \ {0, 1}))
  /\ task' = [Idle EXCEPT !.pc = "link", !.patch = p]
  /\ UNCHANGED <<ctx, is_active, loaders, service, fpb, refused>>

notify_new_fixed(p, n) ==
  /\ ebpf_patch_setup(p, Fixed(n))
  /\ add_fixed_patch_to_ctx(fmap, n, p)
  /\ UNCHANGED <<ctx_init, filters, dpatch_list, is_active, loaders, service, fpb, refused>>
-----------------------------------------------------------------------------
(* load_local_patch_to_ctx: a node that already holds the loader's object  *)
(* is updated in place, otherwise the object is entered like a new patch.  *)
load_local_patch_to_ctx_unsearched ==
  task' = [Idle EXCEPT !.pc = "link", !.patch = LocalDynamic]

load_local_patch_to_ctx ==
  LET mine == {i \in DOMAIN dpatch_list' : dpatch_list'[i].patch = LocalDynamic}
  IN  task' = [pc    |-> IF mine = {} THEN "link" ELSE "update",
               patch |-> LocalDynamic,
               at    |-> IF mine = {} THEN 0 ELSE First(mine)]

(* The `patch` command, handle_patch_func and read_local_patch.  The       *)
(* breakpoints are cleared before the code of the object is replaced.      *)
read_local_patch(a) ==
  /\ task.pc = "idle"
  /\ set_patch_mode
  /\ loaders' = loaders \cup {LocalDynamic}
  /\ IF LocalDynamic \in loaders THEN UNCHANGED ctx ELSE init_patch_sys
  /\ IF LocalDynamic \in loaders /\ LocalDynamic \notin alive
     THEN task' = [Idle EXCEPT !.pc = "undefined"] /\ UNCHANGED <<alive, desc>>
     ELSE /\ alive' = alive \cup {LocalDynamic}
          /\ desc' = [desc EXCEPT ![LocalDynamic] = Dynamic(a)]
          /\ load_local_patch_to_ctx
  /\ refused' = FALSE
  /\ UNCHANGED <<is_active, service>>

(* An index above the size of the table is refused, after set_patch_mode   *)
(* has cleared the breakpoints and before anything else is done.           *)
refuse_local_patch ==
  /\ task.pc = "idle"
  /\ set_patch_mode
  /\ refused' = TRUE
  /\ UNCHANGED <<ctx, heap, loaders, service, task>>

load_local_fixed_patch(n) ==
  /\ task.pc = "idle"
  /\ loaders' = loaders \cup {LocalFixed}
  /\ alive' = alive \cup {LocalFixed}
  /\ desc' = [desc EXCEPT ![LocalFixed] = Fixed(n)]
  /\ ctx_init' = TRUE
  /\ IF ctx_init
     THEN add_fixed_patch_to_ctx(fmap, n, LocalFixed) /\ UNCHANGED <<dpatch_list, filters>>
     ELSE /\ add_fixed_patch_to_ctx(arraymap_new, n, LocalFixed)
          /\ dpatch_list' = <<>>
          /\ fbits_filter' = {} /\ dbits_filter_bpkt' = {} /\ dbits_filter_pc' = {}
  /\ UNCHANGED <<is_active, service, fpb, refused>>
-----------------------------------------------------------------------------
(* add_dynamic_patch_to_ctx.  The search compares the stored address with  *)
(* the descriptor's own one.  A node that is found loses its successors; a *)
(* new node is linked before any of its fields is written.                 *)
ListFull == Len(dpatch_list) > MAX_DP_NUM

add_dynamic_search ==
  LET same == {i \in DOMAIN dpatch_list : dpatch_list[i].inst_addr = desc[task.patch].inst_addr}
  IN  /\ task.pc = "link"
      /\ \/ /\ same # {}
            /\ dpatch_list' = SubSeq(dpatch_list, 1, First(same))
         \/ /\ same = {} /\ ListFull
            /\ UNCHANGED dpatch_list
         \/ /\ same = {} /\ ~ListFull
            /\ dpatch_list' = Append(dpatch_list, RawNode)
      /\ task' = [task EXCEPT !.pc = "fields", !.at = Len(dpatch_list')]
      /\ UNCHANGED <<ctx_init, fmap, filters, heap, loaders, service, fpb, refused>>

(* The address fields, for a node that is being entered ("fields") and for *)
(* the node of the local patch that is already in the list ("update").     *)
set_node_addresses ==
  LET a == calc_bpkt_addr(desc[task.patch].inst_addr)
  IN  /\ task.pc \in {"fields", "update"}
      /\ dpatch_list' = [dpatch_list EXCEPT ![task.at].inst_addr = a,
                                            ![task.at].pc_addr = calc_bpkt_pc(a)]
      /\ Goto(IF task.pc = "fields" THEN "repoint" ELSE "fbits")
      /\ UNCHANGED <<ctx_init, fmap, filters, heap, loaders, service, fpb, refused>>

set_node_patch ==
  /\ task.pc = "repoint"
  /\ dpatch_list' = [dpatch_list EXCEPT ![task.at].patch = task.patch]
  /\ Goto("fbits")
  /\ UNCHANGED <<ctx_init, fmap, filters, heap, loaders, service, fpb, refused>>

(* active_patch: update_bits_filter empties a filter before it refills it. *)
empty_fixed_filter ==
  /\ task.pc = "fbits"
  /\ fbits_filter' = {}
  /\ Goto(IF fmap = NoMap THEN "undefined" ELSE "fill")
  /\ UNCHANGED <<ctx_init, fmap, dpatch_list, dbits_filter_bpkt, dbits_filter_pc,
                 heap, loaders, service, fpb, refused>>

fill_fixed_filter ==
  LET on == {arraymap_iter_val(fmap, i) : i \in 0 .. fmap.cur - 1} \cap is_active
  IN  /\ task.pc = "fill"
      /\ fbits_filter' = UNION {Bits(desc[p].fixed_id) : p \in on}
      /\ dbits_filter_bpkt' = {} /\ dbits_filter_pc' = {}
      /\ Goto("dbits")
      /\ UNCHANGED <<ctx_init, fmap, dpatch_list, heap, loaders, service, fpb, refused>>

fill_dynamic_filters_active ==
  LET on == {i \in DOMAIN dpatch_list : dpatch_list[i].patch \in is_active}
  IN  /\ task.pc = "dbits"
      /\ dbits_filter_bpkt' = UNION {dpatch_list[i].inst_addr : i \in on}
      /\ dbits_filter_pc' = UNION {dpatch_list[i].pc_addr : i \in on}
      /\ Goto("bkpt")
      /\ UNCHANGED <<ctx_init, fmap, fbits_filter, dpatch_list, heap, loaders, service, fpb, refused>>

fill_dynamic_filters ==
  /\ task.pc = "dbits"
  /\ dbits_filter_bpkt' = UNION {dpatch_list[i].inst_addr : i \in DOMAIN dpatch_list}
  /\ dbits_filter_pc' = UNION {dpatch_list[i].pc_addr : i \in DOMAIN dpatch_list}
  /\ Goto("bkpt")
  /\ UNCHANGED <<ctx_init, fmap, fbits_filter, dpatch_list, heap, loaders, service, fpb, refused>>

arm_patch ==
  LET d == desc[task.patch]
  IN  /\ task.pc = "bkpt"
      /\ \/ /\ d.type = "fixed"
            /\ fbits_filter' = fbits_filter \cup Bits(d.fixed_id)
            /\ UNCHANGED <<comp, cur_idx>>
         \/ /\ d.type = "dynamic"
            /\ add_hw_bkpt(d.inst_addr)
            /\ UNCHANGED fbits_filter
      /\ Goto("activate")
      /\ UNCHANGED <<ctx_init, fmap, dpatch_list, dbits_filter_bpkt, dbits_filter_pc,
                     heap, loaders, service, fpb_on, refused>>

set_active ==
  /\ task.pc = "activate"
  /\ is_active' = is_active \cup {task.patch}
  /\ task' = Idle
  /\ UNCHANGED <<ctx, alive, desc, loaders, service, fpb, refused>>
-----------------------------------------------------------------------------
(* The reset command: reset_patch clears the breakpoints, then             *)
(* destroy_patch_context frees the map, the nodes and their patches while  *)
(* the list head still points at them, and unlinks and clears last.        *)
reset_patch_destroy_only ==
  /\ task.pc = "idle"
  /\ UNCHANGED fpb
  /\ Goto("destroy")
  /\ refused' = FALSE
  /\ UNCHANGED <<ctx, heap, loaders, service>>

reset_patch ==
  /\ task.pc = "idle"
  /\ clear_all_hw_bkpt
  /\ Goto("destroy")
  /\ refused' = FALSE
  /\ UNCHANGED <<ctx, heap, loaders, service>>

free_patches ==
  LET P == {dpatch_list[i].patch : i \in DOMAIN dpatch_list}
  IN  /\ task.pc = "destroy"
      /\ fmap' = NoMap
      /\ alive' = alive \ P
      /\ is_active' = is_active \ P
      /\ Goto(IF P \subseteq alive /\ Cardinality(P) = Len(dpatch_list)
              THEN "unlink" ELSE "undefined")
      /\ UNCHANGED <<ctx_init, dpatch_list, filters, desc, loaders, service, fpb, refused>>

unlink_patches ==
  /\ task.pc = "unlink"
  /\ dpatch_list' = <<>>
  /\ fbits_filter' = {} /\ dbits_filter_bpkt' = {} /\ dbits_filter_pc' = {}
  /\ ctx_init' = FALSE
  /\ clear_all_hw_bkpt
  /\ task' = Idle
  /\ UNCHANGED <<fmap, heap, loaders, service, refused>>
-----------------------------------------------------------------------------
Init ==
  /\ ctx_init = FALSE /\ fmap = NoMap
  /\ dpatch_list = <<>>
  /\ fbits_filter = {} /\ dbits_filter_bpkt = {} /\ dbits_filter_pc = {}
  /\ alive = {} /\ is_active = {} /\ desc = [p \in Patch |-> NoDesc]
  /\ loaders = {} /\ service = FALSE
  /\ comp = NoComparators /\ cur_idx = 0 /\ fpb_on = FALSE /\ refused = FALSE
  /\ task = Idle

Step ==
  \/ add_dynamic_search \/ set_node_addresses \/ set_node_patch
  \/ empty_fixed_filter \/ fill_fixed_filter \/ fill_dynamic_filters
  \/ arm_patch \/ set_active
  \/ free_patches \/ unlink_patches

Next ==
  \/ start_patch_service
  \/ \E p \in Patch, a \in NetAddr : notify_new_dynamic(p, a)
  \/ \E p \in Patch, n \in FixedId : notify_new_fixed(p, n)
  \/ \E a \in LocalAddr : read_local_patch(a)
  \/ refuse_local_patch
  \/ \E n \in FixedId : load_local_fixed_patch(n)
  \/ reset_patch
  \/ Step

Spec == Init /\ [][Next]_vars
-----------------------------------------------------------------------------
DynTypeOK ==
  /\ dpatch_list \in Seq(Node)
  /\ dbits_filter_bpkt \in Word /\ dbits_filter_pc \in Word
  /\ alive \subseteq Patch /\ is_active \subseteq Patch
  /\ desc \in [Patch -> Desc \cup {NoDesc}]
  /\ comp \in [0 .. MAX_BP - 1 -> Word]
  /\ cur_idx \in 0 .. MAX_BP
  /\ fpb_on \in BOOLEAN
  /\ task \in [pc : Pc, patch : Patch \cup {NoPatch}, at : Nat]

FixedTypeOK ==
  /\ ctx_init \in BOOLEAN /\ service \in BOOLEAN /\ refused \in BOOLEAN
  /\ loaders \subseteq {LocalDynamic, LocalFixed}
  /\ fbits_filter \in Word
  /\ fmap # NoMap =>
       fmap \in [cur : Slot, max : Nat, keys : [Slot -> FixedId \cup {NullKey, Junk}],
                 vals : [Slot -> Patch \cup {Junk}]]

(* Type correctness. *)
TypeOK == DynTypeOK /\ FixedTypeOK

(* The addresses at which the processor takes a DebugMonitor exception. *)
Breakpoints == IF fpb_on THEN {comp[i] : i \in 0 .. MAX_BP - 1} \ {{}} ELSE {}

(* add_dynamic_patch_to_ctx keeps the list of dynamic patches bounded,     *)
(* whatever mixture of network patches, local patches and resets occurs:   *)
(* once cnt > MAX_DP_NUM the last node is reused.                          *)
ListBounded == Len(dpatch_list) <= MAX_DP_NUM + 1

(* "the same pointer only add once": no patch object is in two nodes, so   *)
(* destroy_patch_context never frees an object twice.                      *)
PointerListedOnce ==
  \A i, j \in DOMAIN dpatch_list :
    i # j /\ dpatch_list[i].patch # NoPatch => dpatch_list[i].patch # dpatch_list[j].patch

(* A breakpoint never runs the filter of another address, although local   *)
(* patches reuse one object and full lists reuse one node: the patch that  *)
(* get_dynamic_patch_by_bpkt finds at a breakpoint was written for that    *)
(* address.  The one exception is the window between the address stores    *)
(* and the patch store of add_dynamic_patch_to_ctx.                        *)
RightPatchAtBreakpoint ==
  task.pc # "repoint" =>
    \A a \in Breakpoints :
      LET p == get_dynamic_patch_by_bpkt(a)
      IN  p # NoPatch => calc_bpkt_addr(desc[p].inst_addr) = a

(* While a breakpoint can fire, every patch pointer the handler's walk of  *)
(* the list can follow is to a live object: reset_patch disarms before     *)
(* destroy_patch_context frees.  The exception is the node that            *)
(* add_dynamic_patch_to_ctx has linked and not yet filled in.              *)
ExceptionWalkSafe ==
  Breakpoints # {} /\ task.pc \notin {"fields", "repoint"} =>
    \A i \in DOMAIN dpatch_list : dpatch_list[i].patch \in alive

(* No two comparators hold the same address, across deduplication,         *)
(* wrap-around at MAX_BP and clearing.                                     *)
ComparatorsDistinct ==
  \A i, j \in 0 .. MAX_BP - 1 : i # j /\ comp[i] # {} => comp[i] # comp[j]

FlashAddress(a) == a \cap RamBits = {}

FoundAfterInstall(p) ==
  desc[p].type = "dynamic" =>
    LET a == calc_bpkt_addr(desc[p].inst_addr)
        q == get_dynamic_patch_by_bpkt(a)
    IN  /\ q # NoPatch
        /\ p # LocalDynamic /\ FlashAddress(desc[p].inst_addr) => q = p
        /\ get_dynamic_patch_by_fpb(a \cup {0}) # NoPatch
        /\ get_dynamic_patch_by_pc(calc_bpkt_pc(a)) # NoPatch

(* When active_patch returns, the lookups by breakpoint, by pc and by FPB  *)
(* address find a patch at the new address, and a network patch for flash  *)
(* finds itself there and not an older one: the filters were rebuilt after *)
(* the node was entered, and the search replaced the older node.           *)
InstalledPatchIsFound ==
  [][\A p \in Patch :
       task.pc = "activate" /\ task.patch = p /\ task'.pc = "idle" => FoundAfterInstall(p)']_vars

(* get_fixed_patch_by_lr returns a patch made for that patch point, or the *)
(* one object that load_local_fixed_patch reuses for all of them.          *)
FixedPatchMatches ==
  fmap # NoMap =>
    \A n \in FixedId :
      LET p == get_fixed_patch_by_lr(n)
      IN  p # NoPatch => p = LocalFixed \/ desc[p].fixed_id = n

OnlyLocal == \A p \in Patch \ {LocalDynamic, LocalFixed} : desc[p] = NoDesc

Listed ==
  {dpatch_list[i].inst_addr :
     i \in {j \in DOMAIN dpatch_list : FlashAddress(desc[dpatch_list[j].patch].inst_addr)}}

(* On the device, whose patches all come from the local loaders, the       *)
(* breakpoints that can fire between two commands are those of the listed  *)
(* patches, no more and no fewer: `patch` clears all comparators, rewrites *)
(* the one object in place and arms it for its new address, and the reset  *)
(* empties list and comparators.  The exception is a `patch` command that  *)
(* is refused: it leaves the patch listed, active and disarmed.            *)
ListedPatchesArmed ==
  OnlyLocal /\ task.pc = "idle" /\ ~refused /\ ~HaltingDebug => Breakpoints = Listed
-----------------------------------------------------------------------------
(* What the reset command is documented to do, clear every patch: no later *)
(* operation uses an object the reset has freed or the context it has      *)
(* destroyed.                                                              *)
NoUseAfterReset == task.pc # "undefined"
=============================================================================
