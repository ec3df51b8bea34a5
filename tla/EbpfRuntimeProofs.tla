------------------------- MODULE EbpfRuntimeProofs -------------------------
(***************************************************************************)
(* Proofs, for any programs, any number of VMs and any limits, of the      *)
(* safety properties of EbpfRuntime.                                       *)
(***************************************************************************)
EXTENDS EbpfRuntime, FiniteSetTheorems, TLAPS

(* The VMs that point to the helper table. *)
Users == {v \in Vm : helper[v] = Table}

(* There are at least as many references as users, as long as no VM has    *)
(* given back one that it did not take.                                    *)
CountInv == ~stolen => Cardinality(Users) <= refcnt /\ \A v \in Vm : helper[v] # Freed

(* What the command in the shell thread knows at each program counter, and *)
(* that a filter can start only on a VM that was filled in: for the local  *)
(* patch, with the shared buffer compiled from it unless ebpf_eva has used *)
(* the buffer; for the fixed one, except between the halves of             *)
(* ebpf_vm_set_inst.                                                       *)
TaskInv ==
  /\ task.pc \in {"create", "arm"} => task.vm \in {Local, Fixed}
  /\ task.pc \in {"exec", "wait", "jit", "done"} => task.vm = Stack
  /\ task.pc \in {"compile", "emit"} => task.vm \in {Local, Stack}
  /\ task.pc # "idle" => task.prog \in Prog /\ task.vm \in {Local, Fixed, Stack}
  /\ task.pc \in {"assign", "exec", "wait", "compile", "emit", "arm"} => task.vm \in live
  /\ task.pc \in {"exec", "wait", "compile", "emit", "arm"} => insts[task.vm] = task.prog
  /\ task.pc \in {"exec", "wait", "compile", "emit", "arm"} => (use_jit[task.vm] <=> task.vm = Local)
  /\ task.pc = "arm" /\ task.vm = Local => jit_func[Local] /\ jit_buffer = task.prog
  /\ task.pc = "jit" => jit_buffer = task.prog
  /\ task.pc = "emit" /\ task.vm = Stack => evaluated

ReadyInv ==
  /\ ready \subseteq live \cap {Local, Fixed}
  /\ Local \in ready =>
       /\ insts[Local] # NoProg /\ use_jit[Local] /\ jit_func[Local]
       /\ evaluated \/ jit_buffer = insts[Local]
       /\ task.pc # "idle" => task.vm # Local
  /\ Fixed \in ready =>
       /\ ~use_jit[Fixed]
       /\ insts[Fixed] = NoProg => task.pc = "assign" /\ task.vm = Fixed

RunInv ==
  /\ Running(Local) /\ ~evaluated => run[Local].code = insts[Local] /\ insts[Local] # NoProg
  /\ Running(Stack) => task.pc \in {"wait", "done"} /\ run[Stack].code = task.prog
  /\ Running(Fixed) /\ ~torn => run[Fixed].code # NoProg

(* Names of the three VMs of the device, and that no VM of the host tool   *)
(* is one of them.                                                         *)
LEMMA Names ==
  /\ Local # Fixed /\ Local # Stack /\ Fixed # Stack
  /\ Local \in Vm /\ Fixed \in Vm /\ Stack \in Vm /\ Lib \subseteq Vm
  /\ Local \notin Lib /\ Fixed \notin Lib /\ Stack \notin Lib
BY RuntimeAssumption DEF Local, Fixed, Stack, Vm

(* The state at start-up has its types. *)
LEMMA InitType == Init => TypeOK
<1> SUFFICES ASSUME Init PROVE TypeOK
  OBVIOUS
<1>1. task \in Task
  BY Names DEF Init, Idle, Task, Pc
<1>2. run \in [Vm -> [by : {"none", "interpreter", "jit"},
                      code : Prog \cup {NoProg}, tick : 0 .. MAX_ITERS + 1]]
  BY RuntimeAssumption DEF Init, NoRun
<1>3. refcnt \in 0 .. MaxCount
  BY RuntimeAssumption DEF Init
<1>4. helper \in [Vm -> {Null, Table, Freed}] /\ insts \in [Vm -> Prog \cup {NoProg}]
  BY DEF Init
<1>5. use_jit \in [Vm -> BOOLEAN] /\ jit_func \in [Vm -> BOOLEAN]
  BY DEF Init
<1> QED
  BY <1>1, <1>2, <1>3, <1>4, <1>5 DEF Init, TypeOK

(* At start-up no command and no filter runs. *)
LEMMA InitInv == Init => TaskInv /\ ReadyInv /\ RunInv
BY Names DEF Init, TaskInv, ReadyInv, RunInv, Idle, Running

(* The end of a filter, by itself or by the iteration limit. *)
LEMMA EndType ==
  ASSUME TypeOK, NEW v \in Vm, NEW op, End(v, op)
  PROVE  TypeOK'
<1>1. run' \in [Vm -> [by : {"none", "interpreter", "jit"},
                       code : Prog \cup {NoProg}, tick : 0 .. MAX_ITERS + 1]]
  BY RuntimeAssumption DEF TypeOK, End, NoRun
<1>2. task' \in Task
  BY DEF TypeOK, End, Task, Pc
<1>3. body' \in BOOLEAN
  <2>1. dispatch_fixed_patch_point(op) \subseteq BOOLEAN
    BY DEF dispatch_fixed_patch_point
  <2> QED
    BY <2>1 DEF TypeOK, End
<1>4. torn' \in BOOLEAN
  BY DEF End, TypeOK
<1>5. UNCHANGED <<env, vms, ready>>
  BY DEF End
<1> QED
  BY <1>1, <1>2, <1>3, <1>4, <1>5 DEF TypeOK, env, vms

(* Taking a reference to the helper table. *)
LEMMA CountType ==
  ASSUME TypeOK, NEW v, use_default_helper_func(v)
  PROVE  refcnt' \in 0 .. MaxCount /\ helper' \in [Vm -> {Null, Table, Freed}]
<1>1. refcnt' \in 0 .. MaxCount
  BY RuntimeAssumption DEF use_default_helper_func, TypeOK
<1>2. helper' \in [Vm -> {Null, Table, Freed}]
  BY DEF use_default_helper_func, TypeOK
<1> QED
  BY <1>1, <1>2

(* Every step keeps the types: the interpreter's counter is bounded by the *)
(* iteration limit.                                                        *)
LEMMA NextType == TypeOK /\ [Next]_vars => TypeOK'
<1> SUFFICES ASSUME TypeOK, [Next]_vars PROVE TypeOK'
  OBVIOUS
<1> USE DEF env, vms
<1>1. CASE set_inst_clear
  <2>1. task' \in Task
    BY <1>1 DEF set_inst_clear, Goto, TypeOK, Task, Pc
  <2>2. task.vm \in Vm
    BY DEF TypeOK, Task
  <2> QED
    BY <1>1, <2>1, <2>2 DEF set_inst_clear, Clear, TypeOK
<1>2. CASE set_inst_assign
  <2>1. task' \in Task
    BY <1>2 DEF set_inst_assign, Goto, TypeOK, Task, Pc
  <2>2. task.vm \in Vm /\ task.prog \in Prog \cup {NoProg}
    BY DEF TypeOK, Task
  <2>3. refcnt' \in 0 .. MaxCount /\ helper' \in [Vm -> {Null, Table, Freed}]
    BY <1>2, CountType DEF set_inst_assign
  <2> QED
    BY <1>2, <2>1, <2>2, <2>3 DEF set_inst_assign, TypeOK
<1>3. CASE jit_mem_allocate
  <2>1. task' \in Task
    BY <1>3 DEF jit_mem_allocate, Goto, TypeOK, Task, Pc
  <2> QED
    BY <1>3, <2>1 DEF jit_mem_allocate, TypeOK
<1>4. CASE jit_compile
  <2>1. task' \in Task
    BY <1>4 DEF jit_compile, Goto, TypeOK, Task, Pc
  <2>2. task.vm \in Vm
    BY DEF TypeOK, Task
  <2> QED
    BY <1>4, <2>1, <2>2 DEF jit_compile, TypeOK
<1>5. CASE create_local
  <2>1. task' \in Task
    BY <1>5 DEF create_local, Goto, TypeOK, Task, Pc
  <2>2. task.vm \in Vm /\ task.prog \in Prog \cup {NoProg}
    BY DEF TypeOK, Task
  <2>3. refcnt' \in 0 .. MaxCount /\ helper' \in [Vm -> {Null, Table, Freed}]
    BY <1>5, CountType DEF create_local, init_ebpf_vm
  <2>4. /\ use_jit' \in [Vm -> BOOLEAN] /\ jit_func' \in [Vm -> BOOLEAN]
        /\ insts' \in [Vm -> Prog \cup {NoProg}] /\ live' \subseteq Vm
    BY <1>5, <2>2 DEF create_local, init_ebpf_vm, TypeOK
  <2> QED
    BY <1>5, <2>1, <2>3, <2>4 DEF create_local, TypeOK
<1>6. CASE arm
  BY <1>6, Names DEF arm, Idle, Task, Pc, TypeOK
<1>7. CASE eva_begin
  <2>1. task' \in Task
    BY <1>7 DEF eva_begin, Goto, TypeOK, Task, Pc
  <2>2. run' \in [Vm -> [by : {"none", "interpreter", "jit"},
                         code : Prog \cup {NoProg}, tick : 0 .. MAX_ITERS + 1]]
    <3>1. /\ Stack \in Vm /\ insts[Stack] \in Prog \cup {NoProg} /\ jit_buffer \in Prog \cup {NoProg}
          /\ run \in [Vm -> [by : {"none", "interpreter", "jit"},
                             code : Prog \cup {NoProg}, tick : 0 .. MAX_ITERS + 1]]
      BY Names DEF TypeOK
    <3>2. PICK by \in {"interpreter", "jit"}, code \in Prog \cup {NoProg} : Begin(Stack, by, code)
      BY <1>7, <3>1 DEF eva_begin
    <3>3. 0 \in 0 .. MAX_ITERS + 1
      BY RuntimeAssumption
    <3> QED
      BY <3>1, <3>2, <3>3 DEF Begin
  <2> QED
    BY <1>7, <2>1, <2>2 DEF eva_begin, TypeOK
<1>8. CASE eva_done
  BY <1>8, Names DEF eva_done, Forget, Clear, Idle, Task, Pc, TypeOK
<1>9. ASSUME NEW p \in Prog, Command(p) PROVE TypeOK'
  <2>1. task' \in Task
    BY <1>9, Names DEF Command, set_patch_mode, reset_patch, read_local_patch, load_local_fixed_patch,
                       ebpf_eva, Start, Task, Pc, TypeOK
  <2>2. CASE reset_patch
    BY <2>1, <2>2, Names DEF reset_patch, Forget, Clear, TypeOK
  <2>3. CASE ~reset_patch
    BY <1>9, <2>1, <2>3 DEF Command, set_patch_mode, read_local_patch, load_local_fixed_patch, ebpf_eva, TypeOK
  <2> QED
    BY <2>2, <2>3
<1>10. ASSUME NEW v \in Lib, ebpf_create(v) PROVE TypeOK'
  BY <1>10, Names DEF ebpf_create, Clear, TypeOK
<1>11. ASSUME NEW v \in Lib, ebpf_register(v) PROVE TypeOK'
  BY <1>11, CountType DEF ebpf_register, TypeOK
<1>12. ASSUME NEW v \in Lib, ebpf_vm_destroy(v) PROVE TypeOK'
  <2>1. refcnt' \in 0 .. MaxCount
    BY <1>12, RuntimeAssumption DEF ebpf_vm_destroy, TypeOK
  <2>2. helper' \in [Vm -> {Null, Table, Freed}]
    BY <1>12 DEF ebpf_vm_destroy, TypeOK
  <2> QED
    BY <1>12, <2>1, <2>2, Names DEF ebpf_vm_destroy, Clear, TypeOK
<1>13. ASSUME NEW v \in Lib, NEW p \in Prog, ebpf_vm_load(v, p) PROVE TypeOK'
  BY <1>13, Names DEF ebpf_vm_load, TypeOK
<1>14. CASE dispatch_unpatched \/ leave_body
  BY <1>14 DEF dispatch_unpatched, leave_body, TypeOK
<1>15. ASSUME NEW v \in Vm, run_ebpf_filter(v) PROVE TypeOK'
  <2>1. CodeOf(v) \in Prog \cup {NoProg}
    BY DEF CodeOf, TypeOK
  <2>2. run' \in [Vm -> [by : {"none", "interpreter", "jit"},
                         code : Prog \cup {NoProg}, tick : 0 .. MAX_ITERS + 1]]
    BY <1>15, <2>1, RuntimeAssumption DEF run_ebpf_filter, Begin, TypeOK
  <2>3. torn' \in BOOLEAN
    BY <1>15 DEF run_ebpf_filter, TypeOK
  <2> QED
    BY <1>15, <2>2, <2>3 DEF run_ebpf_filter, TypeOK
<1>16. ASSUME NEW v \in Vm, Exit(v) PROVE TypeOK'
  BY <1>16, EndType DEF Exit
<1>17. ASSUME NEW v \in Vm, Instruction(v) PROVE TypeOK'
  <2>1. CASE End(v, ExceededOp)
    BY <2>1, EndType
  <2>2. CASE /\ iters_check(run[v].tick) /\ run' = [run EXCEPT ![v].tick = @ + 1]
             /\ UNCHANGED <<env, vms, ready, task, body, torn>>
    <3>1. run[v].tick + 1 \in 0 .. MAX_ITERS + 1
      BY <2>2, RuntimeAssumption DEF iters_check, TypeOK
    <3>2. run' \in [Vm -> [by : {"none", "interpreter", "jit"},
                           code : Prog \cup {NoProg}, tick : 0 .. MAX_ITERS + 1]]
      BY <2>2, <3>1 DEF TypeOK
    <3> QED
      BY <2>2, <3>2 DEF TypeOK
  <2> QED
    BY <1>17, <2>1, <2>2 DEF Instruction
<1>18. CASE UNCHANGED vars
  BY <1>18 DEF vars, TypeOK
<1> QED
  BY <1>1, <1>2, <1>3, <1>4, <1>5, <1>6, <1>7, <1>8, <1>9, <1>10, <1>11, <1>12, <1>13, <1>14,
     <1>15, <1>16, <1>17, <1>18 DEF Next, Step, Library, Filter
-----------------------------------------------------------------------------
(* Counting users: the sets are finite, one more reference covers one more *)
(* user, and a VM that lets go of the table only makes fewer.              *)
LEMMA VmFinite == IsFiniteSet(Vm)
<1>1. IsFiniteSet(Lib \cup {Local})
  BY RuntimeAssumption, FS_AddElement
<1>2. IsFiniteSet((Lib \cup {Local}) \cup {Fixed})
  BY <1>1, FS_AddElement
<1>3. IsFiniteSet(((Lib \cup {Local}) \cup {Fixed}) \cup {Stack})
  BY <1>2, FS_AddElement
<1>4. Vm = ((Lib \cup {Local}) \cup {Fixed}) \cup {Stack}
  BY DEF Vm
<1> QED
  BY <1>3, <1>4

(* So are the ones that hold the helper table. *)
LEMMA UsersFinite ==
  IsFiniteSet(Users) /\ Cardinality(Users) \in Nat
BY VmFinite, FS_Subset, FS_CardinalityType DEF Users

(* use_default_helper_func keeps the count. *)
LEMMA CountTaken ==
  ASSUME TypeOK, CountInv, NEW v \in Vm, use_default_helper_func(v), UNCHANGED stolen
  PROVE  CountInv'
<1>1. Users' = Users \cup {v}
  BY DEF Users, use_default_helper_func, TypeOK
<1>2. Cardinality(Users') \in {Cardinality(Users), Cardinality(Users) + 1}
  BY <1>1, UsersFinite, FS_AddElement
<1>3. Cardinality(Users') \in Nat
  BY <1>1, UsersFinite, FS_AddElement, FS_CardinalityType
<1>4. refcnt \in Nat /\ refcnt' = refcnt + 1
  BY RuntimeAssumption DEF TypeOK, use_default_helper_func
<1>5. \A u \in Vm : helper[u] # Freed => helper'[u] # Freed
  BY DEF use_default_helper_func, TypeOK, Table, Freed
<1>6. Cardinality(Users) <= refcnt => Cardinality(Users') <= refcnt'
  BY <1>2, <1>3, <1>4, UsersFinite
<1> QED
  BY <1>5, <1>6 DEF CountInv

(* So does a VM whose pointer is cleared without giving a reference back.  *)
LEMMA CountDropped ==
  ASSUME TypeOK, CountInv, NEW v \in Vm, helper' = [helper EXCEPT ![v] = Null],
         UNCHANGED <<stolen, refcnt>>
  PROVE  CountInv'
<1>1. Users' = Users \ {v}
  BY DEF Users, TypeOK, Null, Table
<1>2. Cardinality(Users') <= Cardinality(Users)
  BY <1>1, UsersFinite, FS_Subset
<1>2a. Cardinality(Users') \in Nat
  BY <1>1, UsersFinite, FS_RemoveElement, FS_CardinalityType
<1>3. \A u \in Vm : helper[u] # Freed => helper'[u] # Freed
  BY DEF TypeOK, Null, Freed
<1>4. refcnt \in Nat
  BY RuntimeAssumption DEF TypeOK
<1>5. Cardinality(Users) <= refcnt => Cardinality(Users') <= refcnt
  BY <1>2, <1>2a, <1>4, UsersFinite
<1> QED
  BY <1>3, <1>5 DEF CountInv

(* ebpf_vm_destroy gives back the reference of the VM it destroys, and     *)
(* frees the table only when that VM was the last user.                    *)
LEMMA CountReturned ==
  ASSUME TypeOK, CountInv, NEW v \in Lib, ebpf_vm_destroy(v)
  PROVE  CountInv'
<1> SUFFICES ASSUME ~stolen'
             PROVE  Cardinality(Users') <= refcnt' /\ \A u \in Vm : helper'[u] # Freed
  BY DEF CountInv
<1>1. v \in Vm /\ ~stolen /\ helper[v] # Null
  BY Names DEF ebpf_vm_destroy, TypeOK
<1>2. Cardinality(Users) <= refcnt /\ \A u \in Vm : helper[u] # Freed
  BY <1>1 DEF CountInv
<1>3. v \in Users
  BY <1>1, <1>2 DEF TypeOK, Users
<1>4. Cardinality(Users \ {v}) = Cardinality(Users) - 1 /\ IsFiniteSet(Users \ {v})
  BY <1>3, UsersFinite, FS_RemoveElement
<1>5. Cardinality(Users \ {v}) \in Nat
  BY <1>4, FS_CardinalityType
<1>6. refcnt \in Nat /\ refcnt >= 1 /\ refcnt' = refcnt - 1
  BY <1>2, <1>4, <1>5, UsersFinite, RuntimeAssumption DEF TypeOK, ebpf_vm_destroy
<1>7. refcnt = 1 => \A u \in Vm : u # v => helper[u] # Table
  <2>1. refcnt = 1 => Cardinality(Users \ {v}) = 0
    BY <1>2, <1>4, <1>5, UsersFinite
  <2>2. refcnt = 1 => Users \ {v} = {}
    BY <2>1, <1>4, FS_EmptySet
  <2> QED
    BY <2>2 DEF Users
<1>8. \A u \in Vm : helper'[u] = IF u = v THEN Null ELSE helper[u]
  BY <1>7 DEF ebpf_vm_destroy, TypeOK
<1>9. Users' = Users \ {v}
  BY <1>8 DEF Users, Null, Table
<1> QED
  BY <1>2, <1>4, <1>5, <1>6, <1>8, <1>9, UsersFinite DEF Null, Freed

(* Every step keeps the count. *)
LEMMA CountNext == TypeOK /\ CountInv /\ [Next]_vars => CountInv'
<1> SUFFICES ASSUME TypeOK, CountInv, [Next]_vars PROVE CountInv'
  OBVIOUS
<1>0. UNCHANGED <<refcnt, helper, stolen>> => CountInv'
  BY DEF CountInv, Users
<1>a. task.vm \in Vm
  BY DEF TypeOK, Task
<1>1. CASE set_inst_clear
  BY <1>1, <1>a, CountDropped DEF set_inst_clear
<1>2. CASE set_inst_assign
  BY <1>2, <1>a, CountTaken DEF set_inst_assign
<1>3. CASE create_local
  BY <1>3, <1>a, CountTaken DEF create_local, init_ebpf_vm
<1>4. CASE eva_done
  BY <1>4, Names, CountDropped DEF eva_done, Forget
<1>5. CASE jit_mem_allocate \/ jit_compile \/ arm \/ eva_begin
  BY <1>5, <1>0 DEF jit_mem_allocate, jit_compile, arm, eva_begin, env
<1>6. ASSUME NEW p \in Prog, Command(p) PROVE CountInv'
  <2>1. CASE reset_patch
    BY <2>1, Names, CountDropped DEF reset_patch, Forget
  <2>2. CASE ~reset_patch
    BY <1>6, <1>0, <2>2 DEF Command, set_patch_mode, read_local_patch, load_local_fixed_patch, ebpf_eva, env
  <2> QED
    BY <2>1, <2>2
<1>7. ASSUME NEW v \in Lib, ebpf_create(v) PROVE CountInv'
  BY <1>7, Names, CountDropped DEF ebpf_create
<1>8. ASSUME NEW v \in Lib, ebpf_register(v) PROVE CountInv'
  BY <1>8, Names, CountTaken DEF ebpf_register
<1>9. ASSUME NEW v \in Lib, ebpf_vm_destroy(v) PROVE CountInv'
  BY <1>9, CountReturned
<1>10. ASSUME NEW v \in Lib, NEW p \in Prog, ebpf_vm_load(v, p) PROVE CountInv'
  BY <1>10, <1>0 DEF ebpf_vm_load, env
<1>11. CASE Filter
  BY <1>11, <1>0 DEF Filter, dispatch_unpatched, leave_body, run_ebpf_filter, Exit, Instruction, End, env
<1>12. CASE UNCHANGED vars
  BY <1>12, <1>0 DEF vars, env
<1> QED
  BY <1>1, <1>2, <1>3, <1>4, <1>5, <1>6, <1>7, <1>8, <1>9, <1>10, <1>11, <1>12 DEF Next, Step, Library

(* At start-up there is no table and no user. *)
LEMMA CountInit == Init => CountInv
<1> SUFFICES ASSUME Init PROVE CountInv
  OBVIOUS
<1>1. Users = {} /\ \A v \in Vm : helper[v] # Freed
  BY DEF Init, Users, Null, Table, Freed
<1> QED
  BY <1>1, FS_EmptySet DEF Init, CountInv

-----------------------------------------------------------------------------
(* The command's next step, taken in the shell thread, keeps what it knows *)
(* and what the filters rely on.                                           *)
LEMMA StepInv ==
  ASSUME TypeOK, TaskInv, ReadyInv, RunInv, Step
  PROVE  TaskInv' /\ ReadyInv' /\ RunInv'
<1> USE Names DEF vms, env
<1>a. task \in Task /\ task.vm \in Vm /\ ~Running(Local) /\ ~Running(Stack)
  BY DEF TypeOK, Task, Step, ShellThread, InException
<1>1. CASE set_inst_clear
  <2>1. TaskInv'
    BY <1>1, <1>a, RuntimeAssumption DEF TypeOK, Task, TaskInv, set_inst_clear, Clear, Goto
  <2>2. ReadyInv'
    BY <1>1, <1>a, RuntimeAssumption DEF TypeOK, Task, TaskInv, ReadyInv, set_inst_clear, Clear, Goto
  <2>3. RunInv'
    BY <1>1, <1>a, RuntimeAssumption DEF TypeOK, Task, TaskInv, RunInv, Running, set_inst_clear, Clear, Goto
  <2> QED
    BY <2>1, <2>2, <2>3
<1>2. CASE set_inst_assign
  <2>1. TaskInv'
    BY <1>2, <1>a, RuntimeAssumption DEF TypeOK, Task, TaskInv, set_inst_assign, Goto
  <2>2. ReadyInv'
    BY <1>2, <1>a, RuntimeAssumption DEF TypeOK, Task, TaskInv, ReadyInv, set_inst_assign, Goto
  <2>3. RunInv'
    BY <1>2, <1>a, RuntimeAssumption DEF TypeOK, Task, TaskInv, RunInv, Running, set_inst_assign, Goto
  <2> QED
    BY <2>1, <2>2, <2>3
<1>3. CASE jit_mem_allocate
  <2>1. TaskInv'
    BY <1>3, <1>a, RuntimeAssumption DEF TypeOK, Task, TaskInv, jit_mem_allocate, Goto
  <2>2. ReadyInv'
    BY <1>3, <1>a, RuntimeAssumption DEF TypeOK, Task, TaskInv, ReadyInv, jit_mem_allocate, Goto
  <2>3. RunInv'
    BY <1>3, <1>a, RuntimeAssumption DEF TypeOK, Task, TaskInv, RunInv, Running, jit_mem_allocate, Goto
  <2> QED
    BY <2>1, <2>2, <2>3
<1>4. CASE jit_compile
  <2>1. TaskInv'
    BY <1>4, <1>a, RuntimeAssumption DEF TypeOK, Task, TaskInv, jit_compile, Goto
  <2>2. ReadyInv'
    BY <1>4, <1>a, RuntimeAssumption DEF TypeOK, Task, TaskInv, ReadyInv, jit_compile, Goto
  <2>3. RunInv'
    BY <1>4, <1>a, RuntimeAssumption DEF TypeOK, Task, TaskInv, RunInv, Running, jit_compile, Goto
  <2> QED
    BY <2>1, <2>2, <2>3
<1>5. CASE create_local
  <2>1. TaskInv'
    BY <1>5, <1>a, RuntimeAssumption DEF TypeOK, Task, TaskInv, create_local, init_ebpf_vm, Goto
  <2>2. ReadyInv'
    BY <1>5, <1>a, RuntimeAssumption DEF TypeOK, Task, TaskInv, ReadyInv, create_local, init_ebpf_vm, Goto
  <2>3. RunInv'
    BY <1>5, <1>a, RuntimeAssumption DEF TypeOK, Task, TaskInv, RunInv, Running, create_local, init_ebpf_vm, Goto
  <2> QED
    BY <2>1, <2>2, <2>3
<1>6. CASE arm
  <2>1. TaskInv'
    BY <1>6, <1>a, RuntimeAssumption DEF TypeOK, Task, TaskInv, arm, Idle
  <2>2. ReadyInv'
    BY <1>6, <1>a, RuntimeAssumption DEF TypeOK, Task, TaskInv, ReadyInv, arm, Idle
  <2>3. RunInv'
    BY <1>6, <1>a, RuntimeAssumption DEF TypeOK, Task, TaskInv, RunInv, Running, arm, Idle
  <2> QED
    BY <2>1, <2>2, <2>3
<1>7. CASE eva_begin
  <2>1. TaskInv'
    BY <1>7, <1>a, RuntimeAssumption DEF TypeOK, Task, TaskInv, eva_begin, Begin, Goto
  <2>2. ReadyInv'
    BY <1>7, <1>a, RuntimeAssumption DEF TypeOK, Task, TaskInv, ReadyInv, eva_begin, Begin, Goto
  <2>3. RunInv'
    BY <1>7, <1>a, RuntimeAssumption DEF TypeOK, Task, TaskInv, RunInv, Running, eva_begin, Begin, Goto
  <2> QED
    BY <2>1, <2>2, <2>3
<1>8. CASE eva_done
  <2>1. TaskInv'
    BY <1>8, <1>a, RuntimeAssumption DEF TypeOK, Task, TaskInv, eva_done, Forget, Clear, Idle
  <2>2. ReadyInv'
    BY <1>8, <1>a, RuntimeAssumption DEF TypeOK, Task, TaskInv, ReadyInv, eva_done, Forget, Clear, Idle
  <2>3. RunInv'
    BY <1>8, <1>a, RuntimeAssumption DEF TypeOK, Task, TaskInv, RunInv, Running, eva_done, Forget, Clear, Idle
  <2> QED
    BY <2>1, <2>2, <2>3
<1> QED
  BY <1>1, <1>2, <1>3, <1>4, <1>5, <1>6, <1>7, <1>8 DEF Step

(* A command starts with the local patch disarmed, and finds the fixed one *)
(* as it is.                                                               *)
LEMMA CommandInv ==
  ASSUME TypeOK, TaskInv, ReadyInv, RunInv, NEW p \in Prog, Command(p)
  PROVE  TaskInv' /\ ReadyInv' /\ RunInv'
<1> USE Names DEF vms, env
<1>a. task \in Task /\ ~Running(Local) /\ ~Running(Stack) /\ task.pc = "idle"
  BY SMTT(30) DEF TypeOK, ShellThread, InException, Command, set_patch_mode, reset_patch, read_local_patch,
                  load_local_fixed_patch, ebpf_eva
<1>1. CASE set_patch_mode
  BY <1>1, <1>a DEF set_patch_mode, TaskInv, ReadyInv, RunInv, Running
<1>2. CASE read_local_patch(p)
  BY <1>2, <1>a DEF read_local_patch, Start, TaskInv, ReadyInv, RunInv, Running
<1>3. CASE load_local_fixed_patch(p)
  BY <1>3, <1>a DEF load_local_fixed_patch, Start, TaskInv, ReadyInv, RunInv, Running
<1>4. CASE ebpf_eva(p)
  BY <1>4, <1>a DEF ebpf_eva, Start, TaskInv, ReadyInv, RunInv, Running
<1>5. CASE reset_patch
  <2>1. TaskInv'
    BY <1>5, <1>a DEF TypeOK, TaskInv, reset_patch
  <2>2. ReadyInv'
    BY <1>5, <1>a DEF TypeOK, ReadyInv, reset_patch
  <2>3. RunInv'
    BY <1>5, <1>a DEF TypeOK, RunInv, Running, reset_patch
  <2> QED
    BY <2>1, <2>2, <2>3
<1> QED
  BY <1>1, <1>2, <1>3, <1>4, <1>5 DEF Command

(* The host tool touches only VMs of its own. *)
LEMMA LibraryInv ==
  ASSUME TypeOK, TaskInv, ReadyInv, RunInv, Library
  PROVE  TaskInv' /\ ReadyInv' /\ RunInv'
<1> USE Names DEF vms, env
<1>a. task.pc = "idle" /\ UNCHANGED <<task, run, torn, ready, evaluated, jit_buffer>>
  BY DEF Library, ebpf_create, ebpf_register, ebpf_vm_destroy, ebpf_vm_load
<1>b. \A u \in {Local, Fixed, Stack} :
        /\ insts'[u] = insts[u] /\ use_jit'[u] = use_jit[u] /\ jit_func'[u] = jit_func[u]
        /\ u \in live' <=> u \in live
  <2>1. ASSUME NEW v \in Lib, ebpf_create(v) \/ ebpf_vm_destroy(v)
        PROVE  \A u \in {Local, Fixed, Stack} :
                 /\ insts'[u] = insts[u] /\ use_jit'[u] = use_jit[u] /\ jit_func'[u] = jit_func[u]
                 /\ u \in live' <=> u \in live
    BY <2>1 DEF ebpf_create, ebpf_vm_destroy, Clear, TypeOK
  <2>2. ASSUME NEW v \in Lib, NEW p \in Prog, ebpf_vm_load(v, p)
        PROVE  \A u \in {Local, Fixed, Stack} :
                 /\ insts'[u] = insts[u] /\ use_jit'[u] = use_jit[u] /\ jit_func'[u] = jit_func[u]
                 /\ u \in live' <=> u \in live
    BY <2>2 DEF ebpf_vm_load, TypeOK
  <2>3. ASSUME NEW v \in Lib, ebpf_register(v) PROVE UNCHANGED vms
    BY <2>3 DEF ebpf_register
  <2> QED
    BY <2>1, <2>2, <2>3 DEF Library
<1>1. TaskInv'
  BY <1>a DEF TaskInv
<1>2. ReadyInv'
  BY <1>a, <1>b DEF ReadyInv
<1>3. RunInv'
  BY <1>a, <1>b DEF RunInv, Running
<1> QED
  BY <1>1, <1>2, <1>3

(* A filter starts with the program of its VM, goes on with it and ends.   *)
LEMMA FilterInv ==
  ASSUME TypeOK, TaskInv, ReadyInv, RunInv, Filter
  PROVE  TaskInv' /\ ReadyInv' /\ RunInv'
<1> USE Names DEF vms, env
<1>1. CASE dispatch_unpatched \/ leave_body
  BY SMTT(30), <1>1 DEF dispatch_unpatched, leave_body, TaskInv, ReadyInv, RunInv, Running
<1>2. ASSUME NEW v \in Vm, run_ebpf_filter(v) PROVE TaskInv' /\ ReadyInv' /\ RunInv'
  <2>1. TaskInv' /\ ReadyInv'
    BY <1>2 DEF run_ebpf_filter, TaskInv, ReadyInv
  <2>2. v \in {Local, Fixed} /\ v \in ready
    BY <1>2 DEF run_ebpf_filter, ReadyInv
  <2>3. RunInv'
    <3>1. \A u \in Vm : u # v => run'[u] = run[u]
      BY <1>2 DEF run_ebpf_filter, Begin, TypeOK
    <3>2. run'[v].code = CodeOf(v) /\ UNCHANGED <<env, vms, task>> /\ (v # Fixed => torn' = torn)
      BY <1>2 DEF run_ebpf_filter, Begin, TypeOK
    <3>3. CASE v = Local
      BY <2>2, <3>1, <3>2, <3>3 DEF CodeOf, ReadyInv, RunInv, Running
    <3>4. CASE v = Fixed
      <4>1. torn' = (task.pc = "assign" /\ task.vm = Fixed)
        BY <1>2, <3>4 DEF run_ebpf_filter
      <4>2. ~torn' => CodeOf(v) # NoProg
        BY <2>2, <3>4, <4>1 DEF CodeOf, ReadyInv
      <4> QED
        BY <3>1, <3>2, <3>4, <4>2 DEF RunInv, Running
    <3> QED
      BY <2>2, <3>3, <3>4
  <2> QED
    BY <2>1, <2>3
<1>3. ASSUME NEW v \in Vm, NEW op, Running(v), End(v, op) PROVE TaskInv' /\ ReadyInv' /\ RunInv'
  <2>a. task \in Task
    BY DEF TypeOK
  <2>1. TaskInv'
    BY <1>3, <2>a DEF End, TaskInv, RunInv, TypeOK, Task
  <2>2. ReadyInv'
    BY <1>3, <2>a DEF End, TaskInv, ReadyInv, RunInv, Task
  <2>3. RunInv'
    <3>1. /\ \A u \in Vm : u # v => run'[u] = run[u]
          /\ ~Running(v)'
          /\ UNCHANGED <<env, vms>> /\ torn' = (torn /\ v # Fixed)
      BY <1>3 DEF End, TypeOK, Running, NoRun
    <3>2. v # Stack => task' = task
      BY <1>3 DEF End
    <3> QED
      BY <3>1, <3>2 DEF RunInv, Running
  <2> QED
    BY <2>1, <2>2, <2>3
<1>4. ASSUME NEW v \in Vm, Running(v), run' = [run EXCEPT ![v].tick = @ + 1],
             UNCHANGED <<env, vms, ready, task, body, torn>>
      PROVE  TaskInv' /\ ReadyInv' /\ RunInv'
  <2>1. \A u \in Vm : run'[u].code = run[u].code /\ run'[u].by = run[u].by
                     /\ (Running(u)' => Running(u))
    BY <1>4 DEF TypeOK, Running
  <2>2. TaskInv' /\ ReadyInv'
    BY <1>4 DEF TaskInv, ReadyInv
  <2>3. RunInv'
    BY <1>4, <2>1 DEF RunInv
  <2> QED
    BY <2>2, <2>3
<1> QED
  BY <1>1, <1>2, <1>3, <1>4 DEF Filter, Exit, Instruction, MayRun

(* Every step keeps the three invariants. *)
LEMMA ProgramNext ==
  TypeOK /\ TaskInv /\ ReadyInv /\ RunInv /\ [Next]_vars => TaskInv' /\ ReadyInv' /\ RunInv'
<1>1. ASSUME TaskInv, ReadyInv, RunInv, UNCHANGED vars PROVE TaskInv' /\ ReadyInv' /\ RunInv'
  BY SMTT(30), <1>1 DEF vars, env, vms, TaskInv, ReadyInv, RunInv, Running
<1> QED
  BY <1>1, StepInv, CommandInv, LibraryInv, FilterInv DEF Next

(* The state has its types, so the interpreter never counts past the first *)
(* tick beyond MAX_ITERS.                                                  *)
THEOREM TypeCorrect == Spec => []TypeOK
BY InitType, NextType, PTL DEF Spec

(* The helper table that a live VM points to is never freed while every    *)
(* ebpf_vm_destroy is of a VM that took a reference.                       *)
THEOREM TableAlive == Spec => []HelpersAlive
<1>1. TypeOK /\ CountInv => HelpersAlive
  BY DEF TypeOK, CountInv, HelpersAlive
<1> QED
  BY <1>1, InitType, CountInit, NextType, CountNext, PTL DEF Spec

(* A filter executes a whole program, the one its VM was given last.       *)
THEOREM OwnProgram == Spec => []RunsOwnProgram
<1>1. RunInv => RunsOwnProgram
  BY DEF RunInv, RunsOwnProgram
<1> QED
  BY <1>1, InitType, InitInv, NextType, ProgramNext, PTL DEF Spec
=============================================================================
