---------------------------- MODULE EbpfRuntime ----------------------------
(***************************************************************************)
(* The life of the eBPF VMs of libebpf/src/ebpf_vm.c, jit.c and ebpf_env.c *)
(* as the patch loaders, the shell's vm command and the host tool use      *)
(* them.  All VMs share one table of helper functions, freed when its      *)
(* reference count drops to zero, and one static buffer of compiled code.  *)
(*                                                                         *)
(* Commands run in the shell thread.  The filter of a breakpoint runs in   *)
(* an exception, which may come between any two steps of a thread and runs *)
(* to completion; the filter of a fixed patch point runs in an application *)
(* thread, interleaved with the command.  The host tool is a build of its  *)
(* own, which calls the library only.  Memory does not run out.            *)
(***************************************************************************)
EXTENDS Integers, FiniteSets

CONSTANTS Prog,       \* filter programs
          Lib,        \* VMs that the host tool creates
          MAX_ITERS,  \* instructions the interpreter allows
          MaxCount    \* bound: references to the helper table

Local == "local"      \* the VM of dynamic_patch_load.c
Fixed == "fixed"      \* the VM of fixed_patch_load.c
Stack == "stack"      \* the VM in the frame of ebpf_eva
Vm == Lib \cup {Local, Fixed, Stack}
NoProg == "noprog"
Null == "null"
Table == "table"      \* the helper table
Freed == "freed"      \* a table that was given back

ASSUME RuntimeAssumption ==
  /\ MAX_ITERS \in Nat /\ MaxCount \in Nat
  /\ NoProg \notin Prog /\ IsFiniteSet(Lib)
  /\ Lib \cap {Local, Fixed, Stack} = {}

VARIABLES
  host,       \* whether this is the host tool
  is_init,    \* static of dynamic_patch_load.c: its objects were allocated
  refcnt,     \* references to g_helper_func, which is NULL when there are none
  live,       \* VMs that are allocated
  helper,     \* vm->helper_func
  insts,      \* vm->insts
  use_jit, jit_func, \* vm->use_jit; vm->jit_func is the buffer
  jit_buffer, \* the program whose code it holds whole
  ready,      \* VMs whose patch is active and armed
  task,       \* the command in the shell thread
  run,        \* per VM: the filter that is running
  body,       \* whether the body of the function with the fixed patch point runs
  stolen,     \* history: a VM without a reference was destroyed
  evaluated,  \* history: ebpf_eva compiled after the local patch did
  torn        \* history: the filter of the patch point began inside ebpf_vm_set_inst

env == <<host, is_init, refcnt, helper, stolen>>
vms == <<live, insts, use_jit, jit_func, jit_buffer, evaluated>>
vars == <<env, vms, ready, task, run, body, torn>>

Pc == {"idle", "create", "clear", "assign", "compile", "emit", "arm",
       "exec", "wait", "jit", "done"}
Task == [pc : Pc, vm : Vm, prog : Prog \cup {NoProg}]
Idle == [pc |-> "idle", vm |-> Stack, prog |-> NoProg]
NoRun == [by |-> "none", code |-> NoProg, tick |-> 0]

TypeOK ==
  /\ host \in BOOLEAN /\ is_init \in BOOLEAN /\ refcnt \in 0 .. MaxCount
  /\ live \subseteq Vm /\ ready \subseteq Vm
  /\ helper \in [Vm -> {Null, Table, Freed}]
  /\ insts \in [Vm -> Prog \cup {NoProg}]
  /\ use_jit \in [Vm -> BOOLEAN] /\ jit_func \in [Vm -> BOOLEAN]
  /\ jit_buffer \in Prog \cup {NoProg}
  /\ task \in Task
  /\ run \in [Vm -> [by : {"none", "interpreter", "jit"},
                     code : Prog \cup {NoProg}, tick : 0 .. MAX_ITERS + 1]]
  /\ body \in BOOLEAN
  /\ stolen \in BOOLEAN /\ evaluated \in BOOLEAN /\ torn \in BOOLEAN

Init ==
  /\ host \in BOOLEAN /\ is_init = FALSE /\ refcnt = 0
  /\ live = {} /\ ready = {}
  /\ helper = [v \in Vm |-> Null] /\ insts = [v \in Vm |-> NoProg]
  /\ use_jit = [v \in Vm |-> FALSE] /\ jit_func = [v \in Vm |-> FALSE]
  /\ jit_buffer = NoProg
  /\ task = Idle /\ run = [v \in Vm |-> NoRun] /\ body = FALSE
  /\ stolen = FALSE /\ evaluated = FALSE /\ torn = FALSE

Running(v) == run[v] # NoRun
InException == Running(Local)
Goto(p) == task' = [task EXCEPT !.pc = p]

(* The object of v is all zeros, or its memory is given back and what it   *)
(* held is of no further use.                                              *)
Clear(v) ==
  /\ insts' = [insts EXCEPT ![v] = NoProg]
  /\ use_jit' = [use_jit EXCEPT ![v] = FALSE] /\ jit_func' = [jit_func EXCEPT ![v] = FALSE]
Forget(v) == Clear(v) /\ live' = live \ {v} /\ helper' = [helper EXCEPT ![v] = Null]
-----------------------------------------------------------------------------
(* use_default_helper_func: the first user allocates the table, every call *)
(* counts one more reference.                                              *)
use_default_helper_uncounted(v) ==
  /\ refcnt < MaxCount
  /\ refcnt' = 1
  /\ helper' = [helper EXCEPT ![v] = Table]

use_default_helper_func(v) ==
  /\ refcnt < MaxCount
  /\ refcnt' = refcnt + 1
  /\ helper' = [helper EXCEPT ![v] = Table]

(* init_ebpf_vm does not clear the object, so use_jit and jit_func are     *)
(* whatever the memory held.                                               *)
init_ebpf_vm(v, p) ==
  /\ v \notin live /\ live' = live \cup {v}
  /\ insts' = [insts EXCEPT ![v] = p]
  /\ \E j, f \in BOOLEAN : /\ use_jit' = [use_jit EXCEPT ![v] = j]
                           /\ jit_func' = [jit_func EXCEPT ![v] = f]
  /\ use_default_helper_func(v)

(* ebpf_vm_set_inst: it clears the object, then fills it in.  The reference *)
(* the object may have held is not given back.  The stores that fill it in  *)
(* are one step, with the use_jit of the loader: a filter that starts among *)
(* them is one that starts before them, which torn marks.                   *)
set_inst_clear ==
  LET v == task.vm
  IN  /\ task.pc = "clear"
      /\ live' = live \cup {v}
      /\ Clear(v) /\ helper' = [helper EXCEPT ![v] = Null]
      /\ Goto("assign")
      /\ UNCHANGED <<host, is_init, refcnt, stolen, jit_buffer, evaluated, ready, run, body, torn>>

set_inst_assign ==
  /\ task.pc = "assign"
  /\ insts' = [insts EXCEPT ![task.vm] = task.prog]
  /\ use_default_helper_func(task.vm)
  /\ use_jit' = [use_jit EXCEPT ![task.vm] = (task.vm = Local)]
  /\ Goto(CASE task.vm = Local -> "compile" [] task.vm = Fixed -> "arm" [] OTHER -> "exec")
  /\ UNCHANGED <<host, is_init, stolen, live, jit_func, jit_buffer, evaluated, ready, run, body, torn>>

(* gen_jit_code: jit_mem_allocate clears the shared buffer; the passes of  *)
(* the compiler fill it in; then jit_func is set.                          *)
jit_mem_allocate ==
  /\ task.pc = "compile"
  /\ jit_buffer' = NoProg
  /\ evaluated' = (task.vm = Stack)
  /\ Goto("emit")
  /\ UNCHANGED <<env, live, insts, use_jit, jit_func, ready, run, body, torn>>

jit_compile ==
  /\ task.pc = "emit"
  /\ jit_buffer' = insts[task.vm]
  /\ jit_func' = [jit_func EXCEPT ![task.vm] = TRUE]
  /\ Goto(IF task.vm = Local THEN "arm" ELSE "jit")
  /\ UNCHANGED <<env, live, insts, use_jit, evaluated, ready, run, body, torn>>
-----------------------------------------------------------------------------
(* The commands.  `patch` clears the breakpoints first, set_patch_mode,    *)
(* and arms the patch last; the fixed loader does not take its patch out.  *)
Start(v, p, pc) == task' = [pc |-> pc, vm |-> v, prog |-> p]

set_patch_mode ==
  /\ task.pc = "idle" /\ ready' = ready \ {Local}
  /\ UNCHANGED <<env, vms, task, run, body, torn>>

(* The loader keeps its object from the first call on.  After reset_patch  *)
(* has freed it the next call writes freed memory, whose effect is not     *)
(* defined; the module does not go past it.                                *)
read_local_patch_armed(p) ==
  /\ task.pc = "idle" /\ (is_init => Local \in live)
  /\ is_init' = TRUE
  /\ Start(Local, p, IF Local \in live THEN "clear" ELSE "create")
  /\ UNCHANGED <<host, refcnt, helper, stolen, vms, ready, run, body, torn>>

read_local_patch(p) ==
  /\ task.pc = "idle" /\ (is_init => Local \in live)
  /\ is_init' = TRUE
  /\ ready' = ready \ {Local}
  /\ Start(Local, p, IF Local \in live THEN "clear" ELSE "create")
  /\ UNCHANGED <<host, refcnt, helper, stolen, vms, run, body, torn>>

(* reset_patch clears the breakpoints and destroys the context: the map    *)
(* of the fixed patches is gone, their VM stays; the listed patch is freed *)
(* with its VM, whose reference is not given back.                         *)
reset_patch ==
  /\ task.pc = "idle"
  /\ ready' = ready \ {Local, Fixed}
  /\ Forget(Local)
  /\ UNCHANGED <<host, is_init, refcnt, stolen, jit_buffer, evaluated, task, run, body, torn>>

load_local_fixed_patch(p) ==
  /\ task.pc = "idle"
  /\ Start(Fixed, p, IF Fixed \in live THEN "clear" ELSE "create")
  /\ UNCHANGED <<env, vms, ready, run, body, torn>>

create_local ==
  /\ task.pc = "create"
  /\ init_ebpf_vm(task.vm, task.prog)
  /\ Goto("clear")
  /\ UNCHANGED <<host, is_init, jit_buffer, evaluated, stolen, ready, run, body, torn>>

arm ==
  /\ task.pc = "arm"
  /\ ready' = ready \cup {task.vm}
  /\ task' = Idle
  /\ UNCHANGED <<env, vms, run, body, torn>>

(* ebpf_eva runs a program interpreted and then compiled, in its own VM.   *)
ebpf_eva(p) ==
  /\ task.pc = "idle"
  /\ Start(Stack, p, "clear")
  /\ UNCHANGED <<env, vms, ready, run, body, torn>>

eva_done ==
  /\ task.pc = "done"
  /\ Forget(Stack)
  /\ task' = Idle
  /\ UNCHANGED <<host, is_init, refcnt, stolen, jit_buffer, evaluated, ready, run, body, torn>>

-----------------------------------------------------------------------------
(* The library's own interface: the host tool registers functions, loads,  *)
(* and destroys; ebpf_add_prog creates and loads only.                     *)
ebpf_create(v) ==
  /\ task.pc = "idle" /\ v \notin live
  /\ live' = live \cup {v}
  /\ Clear(v) /\ helper' = [helper EXCEPT ![v] = Null]
  /\ UNCHANGED <<host, is_init, refcnt, stolen, jit_buffer, evaluated, ready, task, run, body, torn>>

ebpf_register(v) ==
  /\ task.pc = "idle" /\ v \in live
  /\ helper[v] = Null /\ use_default_helper_func(v)
  /\ UNCHANGED <<host, is_init, stolen, vms, ready, task, run, body, torn>>

ebpf_vm_load(v, p) ==
  /\ task.pc = "idle" /\ v \in live /\ insts[v] = NoProg
  /\ insts' = [insts EXCEPT ![v] = p]
  /\ UNCHANGED <<env, live, use_jit, jit_func, jit_buffer, evaluated, ready, task, run, body, torn>>

ebpf_vm_destroy(v) ==
  /\ task.pc = "idle" /\ v \in live
  /\ refcnt' = IF refcnt = 0 THEN 0 ELSE refcnt - 1
  /\ Clear(v) /\ live' = live \ {v}
  /\ helper' = [u \in Vm |-> CASE u = v -> Null
                               [] u # v /\ refcnt = 1 /\ helper[u] = Table -> Freed
                               [] OTHER -> helper[u]]
  /\ stolen' = (stolen \/ helper[v] = Null)
  /\ UNCHANGED <<host, is_init, jit_buffer, evaluated, ready, task, run, body, torn>>
-----------------------------------------------------------------------------
(* run_ebpf_filter.  A breakpoint's filter starts in an exception, a fixed *)
(* patch point's in a thread, ebpf_eva's in the command itself.  The       *)
(* interpreter keeps its own pointer to the instructions; compiled code is *)
(* executed where it stands.                                               *)
CodeOf(v) == IF use_jit[v] THEN IF jit_func[v] THEN jit_buffer ELSE NoProg ELSE insts[v]

Begin(v, by, code) == run' = [run EXCEPT ![v] = [by |-> by, code |-> code, tick |-> 0]]

run_ebpf_filter(v) ==
  /\ v \in ready /\ ~Running(v) /\ ~InException /\ (v = Fixed => ~body)
  /\ Begin(v, IF use_jit[v] THEN "jit" ELSE "interpreter", CodeOf(v))
  /\ torn' = IF v = Fixed THEN task.pc = "assign" /\ task.vm = Fixed ELSE torn
  /\ UNCHANGED <<env, vms, ready, task, body>>

(* Without a patch the function runs.  What the code logs before it tests  *)
(* for one, a field read through the NULL pointer, has no effect.          *)
dispatch_unpatched ==
  /\ ~host /\ Fixed \notin ready /\ ~InException /\ ~body /\ body' = TRUE
  /\ UNCHANGED <<env, vms, ready, task, run, torn>>

leave_body ==
  /\ body /\ ~InException /\ body' = FALSE
  /\ UNCHANGED <<env, vms, ready, task, run, torn>>

eva_begin ==
  /\ \/ task.pc = "exec" /\ Begin(Stack, "interpreter", insts[Stack]) /\ Goto("wait")
     \/ task.pc = "jit" /\ Begin(Stack, "jit", jit_buffer) /\ Goto("done")
  /\ UNCHANGED <<env, vms, ready, body, torn>>

(* The end of dispatch_fixed_patch_point: PASS lets the body of the        *)
(* function run, DROP returns from it; REDIRECT leaves r0 as it was, so it *)
(* returns unless r0 happens to be FIXED_OP_PASS.  This is the handler    *)
(* that saves a whole fixed_stack_frame; Keil's saves r0 and lr only.      *)
dispatch_fixed_patch_point(op) ==
  CASE op = "drop" -> {FALSE} [] op = "redirect" -> {TRUE, FALSE} [] OTHER -> {TRUE}

End(v, op) ==
  /\ run' = [run EXCEPT ![v] = NoRun]
  /\ body' \in IF v = Fixed THEN dispatch_fixed_patch_point(op) ELSE {body}
  /\ task' = IF v = Stack /\ task.pc = "wait" THEN [task EXCEPT !.pc = "compile"] ELSE task
  /\ torn' = (torn /\ v # Fixed)
  /\ UNCHANGED <<env, vms, ready>>

(* A thread executes while no exception is active.                         *)
MayRun(v) == Running(v) /\ (v \in {Fixed, Stack} => ~InException)

Exit(v) ==
  /\ MayRun(v)
  /\ \E op \in {"pass", "drop", "redirect"} : End(v, op)

(* The result of a run that is stopped, 1 << 32, is computed as an int:    *)
(* whatever the compiler makes of it, its upper half, the op code, is 0.   *)
ExceededOp == "pass"

iters_check(tick) == tick <= MAX_ITERS

Instruction_uncounted(v) ==
  /\ MayRun(v) /\ run[v].by = "interpreter"
  /\ \/ /\ iters_check(run[v].tick)
        /\ UNCHANGED <<env, vms, ready, task, run, body, torn>>
     \/ ~iters_check(run[v].tick) /\ End(v, ExceededOp)

Instruction(v) ==
  /\ MayRun(v) /\ run[v].by = "interpreter"
  /\ \/ /\ iters_check(run[v].tick)
        /\ run' = [run EXCEPT ![v].tick = @ + 1]
        /\ UNCHANGED <<env, vms, ready, task, body, torn>>
     \/ ~iters_check(run[v].tick) /\ End(v, ExceededOp)
-----------------------------------------------------------------------------
(* The shell thread goes on when no exception is active and, in ebpf_eva,  *)
(* when its own run is over.                                               *)
ShellThread == ~host /\ ~InException /\ ~Running(Stack)

Step ==
  /\ ShellThread
  /\ \/ set_inst_clear \/ set_inst_assign \/ jit_mem_allocate \/ jit_compile
     \/ create_local \/ arm \/ eva_begin \/ eva_done

Command(p) ==
  /\ ShellThread
  /\ \/ set_patch_mode \/ reset_patch
     \/ read_local_patch(p) \/ load_local_fixed_patch(p) \/ ebpf_eva(p)

Library ==
  /\ host
  /\ \E v \in Lib : \/ ebpf_create(v) \/ ebpf_register(v) \/ ebpf_vm_destroy(v)
                    \/ \E p \in Prog : ebpf_vm_load(v, p)

Filter ==
  dispatch_unpatched \/ leave_body \/ \E v \in Vm : run_ebpf_filter(v) \/ Exit(v) \/ Instruction(v)

Next == Step \/ (\E p \in Prog : Command(p)) \/ Library \/ Filter

Spec == Init /\ [][Next]_vars
-----------------------------------------------------------------------------
(* The helper table that a live VM points to is never freed, as long as    *)
(* ebpf_vm_destroy is called only for VMs that took a reference: loaders   *)
(* lose references when they reuse or free a VM, but no sequence of calls  *)
(* returns one too many.                                                   *)
HelpersAlive == ~stolen => \A v \in live : helper[v] # Freed

(* A filter executes a whole program, the one that was installed last: for *)
(* the local patch wherever in a later `patch` command its breakpoint hits,*)
(* unless ebpf_eva has since reused the buffer the patch runs from; for    *)
(* ebpf_eva its own program, in both runs; for a fixed patch point unless  *)
(* it is reached between the two halves of ebpf_vm_set_inst.               *)
RunsOwnProgram ==
  /\ Running(Local) /\ ~evaluated => run[Local].code = insts[Local] /\ insts[Local] # NoProg
  /\ Running(Stack) => run[Stack].code = task.prog
  /\ Running(Fixed) /\ ~torn => run[Fixed].code # NoProg

(* A filter that the interpreter runs comes to an end, whatever its        *)
(* program does, because iters_check stops it; this needs that compiled    *)
(* filters, which nothing stops, return.                                   *)
InterpretedFilterReturns ==
  []<>(\A v \in Vm : run[v].by # "jit") =>
    \A v \in Vm : run[v].by = "interpreter" ~> run[v].by # "interpreter"

(* What the comment on the iteration limit says, FILTER_DROP: the body of  *)
(* a patched function does not run when its filter was stopped.            *)
ExceededFilterDrops ==
  [][~iters_check(run[Fixed].tick) /\ Instruction(Fixed) => ~body']_vars
=============================================================================
