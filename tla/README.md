# A TLA+ verification of the RapidPatch runtime

RapidPatch installs hot patches on a running microcontroller. A patch is an eBPF
program (a *filter*) attached to an address; when a thread reaches the address the
filter runs and decides to let the instruction through (PASS), to return from the
function (DROP) or to go somewhere else (REDIRECT). This directory models the runtime
in TLA+, checks the models with TLC on small instances, and proves the main safety
properties with TLAPS for every value of the constants.

## The system and its parts

| part | source | what it does |
|---|---|---|
| patch context | `hotpatch/src/iotpatch.c` | the list of dynamic patches, the map of fixed patches, three address filters; install, activate, look up, destroy |
| local loaders | `hotpatch/src/dynamic_patch_load.c`, `fixed_patch_load.c` | patches compiled into the image, each loader with one static patch object |
| debug monitor | `hotpatch/src/cortex-m4_fbp.c` 507-562, 612-660, 761-905 | breakpoint comparators, the DebugMonitor exception that runs a filter and single-steps the patched instruction |
| FPB remap mode | `hotpatch/src/cortex-m4_fbp.c` 150-285, 393-505, 675-758 | the other way to take a patch: flash words remapped to branches into trampolines |
| fixed patch points | `hotpatch/src/fixed_patch_points.c`, `include/fixed_patch_point_def.h` | calls compiled into functions, dispatched by return address |
| array map, darray | `libebpf/src/hashmap.c` | sorted array map used by the patch context, handle array used by eBPF maps |
| eBPF virtual machine | `libebpf/src/ebpf_vm.c`, `ebpf_inst.h`, `ebpf_env.c`, `ebpf_allocator.c` | the interpreter, its helper table, the allocator hooks |
| eBPF JIT | `libebpf/src/jit_thumb2.c`, `jit.c` | eBPF to Thumb-2 in two passes |
| eBPF maps | `libebpf/src/ebpf_map.c` | array and hash maps of filters |
| patch service | `hotpatch/src/patch_service.c` | the client task that receives patches over TCP |
| update server | `update_server/server.py` | the server that sends patches and heartbeats |
| shell | `app/ihp_cli.c`, `app/ihp_porting.c` | line editor and command dispatch |
| flash | `hotpatch/src/flash_api.c` | erase and program of flash pages |
| profiler | `hotpatch/src/profiling.c` | timing of patches |
| tests, demos, tools | `app/rt_app.c`, `app/dummy_cve.c`, `libebpf/src/main.c`, `libebpf/bin`, `update_server/patch_code` | demo applications, sample filters, an assembler |

How they interact: the shell thread and the service task install patches in the
context; the context arms comparators; the DebugMonitor exception and the patch points
of application threads look patches up, at any moment between two stores of an
installing task, and run the filter in the virtual machine or as JIT code.

Only the threads of the device and the two ends of the network connection run
concurrently. The shell, the loaders and the service install patches one at a time
(one *installing task* in the models); application threads, patch points and the
exception observe what it has stored so far.

**Builds.** `patch_service.c` starts its task only when compiled with `LINUX_TEST`;
in that build `reset_patch` is empty and `hw_bp.c` replaces the breakpoints by stubs.
`PatchContext` has both the network patches and the breakpoints, and so every order of
installations that either build can make. What it says of the list, the map and the
filters is about both builds; what it says of breakpoints (`RightPatchAtBreakpoint`,
`ExceptionWalkSafe`, `ListedPatchesArmed`) is about the device, since in the `LINUX_TEST`
build `calc_bpkt_addr` returns 0 and `add_hw_bkpt` does nothing. `ListedPatchesArmed`, the
one that network patches would break, is stated for the device's patches only. The
violation found by `context_reset` uses local patches only and is a behaviour of the
device build. `FpbRemap` has the trampolines of both compilers (`KEIL`). Remap mode itself
is entered only by a self-test (`cortex-m4_fbp.c:1083`); the console's own call is
commented out (`ihp_cli.c:306`). `ShellOps` is the device's line editor: a `DEV_QEMU` build
keeps carriage returns (`ihp_cli.c:143`). The patch point handler of `EbpfRuntime` is the
one that saves a whole `fixed_stack_frame` (`fixed_patch_points.c:60-73`); Keil's (45-56)
saves only r0 and lr, which the dispatcher then looks for in the wrong place.

## Modules

| module | models | state and actions |
|---|---|---|
| `ArrayMapOps` | `arraymap_*` of `hashmap.c` | operators on a map value `[cur, max, keys, vals]`; slots that `malloc` did not initialise hold `Junk`, and a comparison with one has any outcome in `GarbageEq` |
| `ArrayMap` | a client of the map | `Set`, `Del`, `Recreate`; `written`, `latest`, `plain` are history |
| `PatchContext` | `iotpatch.c`, both loaders, `notify_new_patch`, the comparators | the context's fields by their names, the heap (`alive`, `desc`, `is_active`), the comparators, and `task`, the program counter of the installing task. One action per observable store: `add_dynamic_search` links, `set_node_addresses`, `set_node_patch`, `empty_fixed_filter`, `fill_*`, `arm_patch`, `set_active`; `refuse_local_patch`; `reset_patch`, `free_patches`, `unlink_patches`. The lookups `get_*_patch_by_*` are operators, evaluated in every state |
| `DebugMonitor` | `leave_debug_monitor` and the breakpoint commands, with the processor | `HitBreakpoint`, `Execute` and `Switch` are the processor and the scheduler; `Skip`, `Pass`, `Halted` are the branches of the handler; `clear_all_hw_bkpt`, `debug_monitor_init`, `add_hw_bkpt` are instructions of the shell thread |
| `FilteredExecution` | what patching by breakpoints promises | abstract: `Execute`, `Pass`, `Divert`, `Command` over locations, patches and the one instruction a PASS lets through; implemented by `DebugMonitor` |
| `FpbRemap` | the remap mode of `cortex-m4_fbp.c` | a function with any control flow graph (`Flow`), the comparators, the remap table, one program counter per thread; one action per store of the trampolines (`point_callback`, `disable_current`, `set_callback_branch`, `resume`, in the Keil build `FallThrough` from trampoline 1 into trampoline 2; `read_callback`, `enable_comparators`, `close_callback`) and of the shell thread (`add_hw_bkpt`, `set_comparator`, `set_active`, `set_patch_mode`, `reset_patch`); what a fetch returns (`Original`, `Branches`, `Garbled`) is the processor |
| `EbpfRuntime` | `ebpf_vm.c`, `jit.c`, the loaders, `run_ebpf_filter`, `dispatch_fixed_patch_point`, `ebpf_eva`, the host tool | the VMs (`live`, `helper`, `insts`, `use_jit`, `jit_func`), the shared helper table and its count, the shared code buffer, the task of the shell thread cut where an exception can see it, the reset, and the execution of a filter with its iterations |
| `ShellOps` | the line buffer and the split of a line | operators |
| `Console` | the shell on top of `EbpfRuntime` | `Type` is one piece of input through `shell_process` and the whole dispatch, down to the command it starts |
| `Stream` | TCP connections (external) | two byte queues per connection, short receives, teardown |
| `PatchClient` | `patch_service.c` | the service task, with the static `svr_ctx` and `buf` shared by all tasks |
| `UpdateServer` | `server.py` | the accepting thread and the command loop |
| `PatchDelivery` | composition | client, server and network interleaved over `Stream` |
| `JitCompile` | both passes of `jit_compile`, `build_body`, `build_inst`, the branch emitters | one action per kind of eBPF instruction; straight code is its length |
| `Thumb2` | the ARMv7-M instructions the compiler emits (external) | registers, flags, one action per instruction class; `Bits` is the word width |
| `JitOps` | the emitters of arithmetic, conditional jumps, loads and calls, against the interpreter's cases in `ebpf_vm.c` | `Init` compiles one eBPF instruction; the actions run the emitted code |
| `*Proofs` | TLAPS proofs of `ArrayMapOps`, `ArrayMap`, `PatchContext`, `DebugMonitor`, `FpbRemap`, `EbpfRuntime`, `JitCompile`, `PatchDelivery` | |
| `MC*` | constants for TLC | |

An address or filter word of the patch context is the *set of its bits*, so that
`|` is union and `(f & a) != a` is a failed inclusion; that keeps the false positives of
the filters. In `JitOps` the emitted code is a sequence of instruction records **as the
processor decodes the half-words**, not as the emitter's name suggests: the two
encoders that put a field one place off (`thumb16_ORR_REG_T1`, the immediate of
`LSLS.W`) and the rotation by zero that is decoded as RRX are modelled as such. In
`FpbRemap` a location is a half-word of one function; a table entry records the
trampoline and the location its relative branch was computed for, because the same
entry fetched elsewhere is another branch. In `EbpfRuntime` a program is a model value
and an instruction of it costs one iteration; `NoProg` is a VM with no instructions.

Operators with a suffix (`..._nocarry`, `..._unsearched`, `PassWithoutStep`) are altered forms of the
operator that follows them. No specification uses them; each makes one property fail
when it takes the place of the operator, which shows that the property depends on it.

## Runs

Passing runs:

| run | instance | what it shows |
|---|---|---|
| `arraymap` | 3 keys, 2 values, 4 slots, growth from 2 by 1, any garbage | for calls in any order, the entries from slot 1 on stay strictly sorted and a lookup never returns a value stored under another key; it is a map as long as every key set is above the one in slot 0 |
| `context` | 3 network objects (symmetric), a local dynamic and a local fixed one, 3 network addresses (flash, a Thumb pointer to a 32-bit instruction, RAM) and 2 local ones, 2 patch points, `MAX_DP_NUM` = 1, `MAX_BP` = 2, any garbage | between any two stores of the installing task: no object is in two nodes, a breakpoint finds only the patch of its address, the handler's walk meets no freed object while a breakpoint can fire, a patch point never runs a network patch made for another one, between two commands of the device the breakpoints are exactly the listed patches unless a `patch` command was refused, and a patch is found by all three lookups when its installation returns |
| `monitor_threads` | 2 threads and the shell, a loop of 6 instructions of which 3 can be patched | safety of the step window, and its liveness; that handler, scheduler and commands implement `FilteredExecution` (`OneInstructionPerPass`) |
| `remap_threads` | 2 threads, a function of 6 half-words with 5 instructions, a loop and a branch into the second half of a word, 3 of them patchable, 4 comparators, Keil trampolines, 3 commands | a trampoline runs the filter of the address that led to it, or of the comparator after it where Keil's falls through; a thread that is left alone keeps its control flow; where no branch comes before the callback it has each execution filtered, and the comparator it passed through is enabled again |
| `runtime` | 2 programs, the VMs of the device and 2 of the host tool, 9 pieces of input, `MAX_ITERS` = 1 | lines become the commands they spell; filters execute whole programs of their own; interpreted filters end; the helper table outlives its users |
| `delivery_one` | one task, 2 connections, 2 commands, bytes 0..3, packets that need the high byte of the length and one that is too long | framing, heartbeats, completion, delivery |
| `jit_small` | every well-formed program of up to 4 slots, branch ranges scaled to it | where branches land, and when the two passes agree |
| `ops_agree` | halves of 8 bits, 20 boundary values in all pairs, 14 immediates, 8 placements of the operands, 16 load offsets | on which operands the compiled code computes, decides, loads and calls what the interpreter does; no other eBPF register changes |

Runs whose property is refuted; each states what a line of the repository says:

| run | the line | what TLC finds |
|---|---|---|
| `context_reset` | `app/ihp_cli.c:220` "Clear all bpkt and patch" | the loader keeps `is_init` and its static pointers; the next `patch` command writes through a freed object |
| `jit_shift` | `jit_thumb2.c:1818` "PrePass: clac offset" | in a short program a conditional jump over six 64-bit shifts is 2 bytes longer in the second pass |
| `ops_high` | `jit_thumb2.c:650` "Only compare low halve if high halve are equal." | the second comparison is unconditional: JEQ, JNE and the unsigned jumps ignore the high halves |
| `runtime_killed` | `ebpf_vm.c:523` "FILTER_DROP" | the value returned at the iteration limit, `1 << 32`, is computed in 32 bits: the call is let through |

Properties that TLAPS proves and that say no more than a type or a bound (most type
invariants, `ListBounded`, `ComparatorsDistinct`, `AlwaysTwoBytes`) are left to the proofs;
`arraymap` and `delivery_one` check their type invariants too.

**Bounds.** `MAX_DP_NUM` = 1 and `MAX_BP` = 2 make the full list and the wrapped
comparators reachable with four patches; the bound of the list and the reuse of nodes
and comparators depend only on "full or not", and the proofs cover all values. Two
threads and the shell are enough for a step window of one thread to be used up by
another; the handler knows no third party, and the proofs again cover any number.
`entered` saturates at 2, which is what "more than once" needs. In `FpbRemap` six half-words
hold two short instructions, a wide one that may branch back to the start or into the
middle of the last word, and two short ones: a patch at the first has no branch before
its callback, one at the wide instruction has, and the word of its callback is entered in
the middle. Four comparators are three for patches, so that comparator 1 has a successor
to fall through to, and the callback's. The case that comparator 2 has an active patch
when trampoline 1 falls through takes a third patched word, and is left to the proofs,
which cover any number of patches, comparators and threads. In `Console` a buffer of 6 characters is
filled by some pieces and overrun by others, `max_args` = 2 is exceeded by a line of
three words, and the numbers typed load, refuse, reset and evaluate; `MaxCount` = 5 bounds the reference count (a reload adds one); one allowed
iteration separates a filter within the limit, at it, and above it. Two connections give a
reconnection and a stale connection of the server; bytes of base 4 keep the split of a
length in two bytes, its carry, and its overflow. Four slots are enough for a jump over
two instructions in both directions, with a two-slot LDDW under it. Halves of 8 bits
keep carries, borrows, signs, shifts below, at and above one half (including left shifts
by 4, whose two low bits are 0) and divisors above and below half a word; the emitters
depend on the width only through 31, 32 and the 16 bits a divisor is cut to, which are
`Bits - 1`, `Bits` and `HalfWord`. A shift by a register uses the low byte of it, which
is the whole register here.

**Deadlock** is not checked in runs that may stop for good: the pool of patch objects
is used up or the task is in undefined behaviour, the server has exited, the
compilation or the single instruction is finished, the commands are used up and every
thread has gone astray (`FpbRemap`), the shell has been left (`Console`).

**Fairness.** `monitor_threads` assumes that the processor keeps executing instructions
(`WF` of `Instruction`) and takes a pending exception (`WF` of `leave_debug_monitor`);
nothing is assumed of the scheduler, and `PatchedThreadProgresses` is about a thread
that is left alone. `remap_threads` assumes that a thread inside the function keeps
executing (`WF` of its steps): the scheduler runs every ready thread, and `WindowCloses`
is again about a thread left alone. `runtime` assumes that an interpreted
filter of an exception or of a patch point executes its next instruction if it can do so
again and again (`SF`, because exceptions preempt it); nothing is assumed of the input
or of the loading task. `delivery_one` assumes that a started task and the server's command
loop run when they can; both are plain loops on threads of their own. Neither the
network, nor the operator, nor the accepting thread need do anything.

**Windows.** Where the code leaves a window in which a property fails, the property is
stated with exactly that window excepted, and a history variable marks it: `cut` (a
receive inside a LOAD fell short, whose count the code ignores), `overlap` (two
service tasks), `refused` (a `patch` command whose index was refused after the breakpoints
were cleared), `lost` (another thread used up a step), `grown` (a branch changed its
length), `plain`, `alone` (no step was taken inside another thread's PASS), `half` and
`full` (a half-word patch; a patch on the callback's comparator or on one still in use),
`stolen` (a VM gave back a reference to the helper table that it did not take),
`evaluated` (the `vm` command compiled into the shared buffer), `torn` (a patch point ran
a VM between its clearing and its filling); in the patch context the program counter of the task (`"repoint"`).

## Proofs

`tlapm` proves, for all values of the constants that satisfy the named assumptions:

- **`ArrayMapOpsProofs`, `ArrayMapProofs`** (`ArrayMapOpsAssumption`, `ArrayMapAssumption`: any
  natural keys but the null one, values, capacity and growth, any outcome of a comparison with garbage):
  `TypeCorrect`, `Sortedness`, `OwnValue`, `LatestValue`. The searches are recursive functions on
  windows of slots; what they return is proved by well-founded induction on the width of
  the window, stated of one set so that no operator has to be instantiated. The lemmas on
  `set` and `del` say which pairs the map holds afterwards (`Holds`); `IInv` then ties the
  pairs to the history: each was written under its key, and while the calls were
  `plain` they are exactly the latest ones.
- **`DebugMonitorProofs`** (`DebugMonitorAssumption`: any threads, any code):
  `TypeCorrect`, `FpbWindow`, `StepEvent`, `MissedFilter`, `RepeatedFilter`, and `Implements`:
  every step maps to a step of `FilteredExecution` or to a stutter. The
  properties are not inductive: that HALTED never arrives with a stale BKPT needs that
  a pending step implies an acknowledged BKPT *and* a disabled unit, and that only an
  application thread can be at a breakpoint. `StepInv` adds these, and ties `entered`
  to the owner of the window.
- **`FpbRemapProofs`** (`FpbRemapAssumption`: any threads, function, patches, any number of
  comparators from 4, any control flow graph, both builds): `TypeCorrect`, `OwnFilter`, `Rearmed`, and the action properties
  `FlowKept` (`ControlFlowKept`) and `FilteredFirst` (`FilteredBeforeExecution`). Types need that only the
  callback's comparator looks past the end of the function, and that no trampoline with
  a filter has it (the least element of a set of locations exists by well-founded
  induction from the library). `BranchInv` says that a word-aligned branch leads to
  the trampoline of its own comparator and that the shell thread takes a free one, so
  a thread's `bpkt_idx` stays the comparator of its address, or the one after it where
  Keil's trampoline 1 falls through (`OwnOrNext`), whatever the others do.
  `EnabledInv` follows the loop of the callback: the comparators below its index are on.
  `PlaceInv` says that the branch of a patch was computed for the address its comparator
  compares. The two action properties are about a thread left alone; `FlowKept` is for
  functions without a branch into the second half of a remapped word (`Tidy`),
  `FilteredFirst` for a patch without a branch before its callback (`Straight`). They rest on
  `FlowInv`: the callback waits at an instruction that the thread which disabled a
  comparator has not passed (`WindowInv`, `Returning`), each step of a trampoline still has
  the address it came from (`Passing`, `Pointed`, `Closing`), and a thread at the second half
  of a word got there because no comparator, or only one it disabled itself, remaps that
  word (`Between`). `PassedInv` adds, for one patch, that the thread with the disabled
  comparator has the pass for this call pending or is already behind the patch.
- **`EbpfRuntimeProofs`** (`RuntimeAssumption`: any programs, any finite set of host VMs):
  `TypeCorrect`, `TableAlive`, `OwnProgram`. `CountInv` bounds the number of VMs that hold the
  helper table by its reference count, by cardinalities; it is an inequality, because
  reloading takes a reference again. `TaskInv`, `ReadyInv` and `RunInv` say what the
  loading task has stored at each of its steps and which buffer or VM a running filter
  reads; that `set_patch_mode` disarms before a compilation is the step that matters.
- **`PatchContextProofs`** (`PatchContextAssumption`: any pool, addresses, `MAX_DP_NUM`,
  `MAX_BP`): `TypeCorrect`, `Bounded`, `ListedOnce`, `Distinct`, `WalkSafe`, `RightPatch`,
  `ContextTypeCorrect`, `FixedMatches`, `InstalledFound`, `PatchesArmed`.
  `IInv` adds `TaskInv`, what the installing task knows at each program counter (the
  node it works on exists, its object is in no node yet, no breakpoint is armed while
  a local patch is rewritten or the context destroyed), and `NodeInv`, that each node's
  address is that of its patch except in the node being rewritten, and its object alive
  except between the frees and the unlinking. One lemma per action. Three further layers
  stand on it. `FixedInv`: the map of fixed patches is well formed and holds a patch only
  under its own address (from `ArrayMapOpsProofs`). `FoundInv`: the node of an installed
  patch is in the list, alone with its address, the two addresses of a node agree, and the
  rebuilt filters let every listed address through. `DeviceInv`: while all patches are
  the loaders' own, the list has at most the one node of the local object, and no
  comparator is set from the first store of a `patch` command to the last (`Loading`);
  what the command arms is then the node's address and nothing else (`Settled`).
- **`JitCompileProofs`** (`JitAssumption`: any set of well-formed programs, any code
  lengths and ranges that contain every distance inside the buffer): `TypeCorrect`,
  `Landing`, `LongAgree`, `TwoBytes`. The first pass builds a `Chain`: the code of each
  instruction begins where that of the one before it ends; the second pass follows the
  chain while no branch has grown, so a branch computed from it lands on its target.
- **`PatchDeliveryProofs`** (`StreamAssumption`, `PacketAssumption`: any connections, packets,
  byte base from 3 and signature length): `TypeCorrect`, `DeliveredInOrder` (`FramingHolds`) and
  the action property `LiveKept` (`LiveDeviceKept`). The invariant has five layers, each
  proved from the ones before: `BaseInv` (types, which connections the server knows and
  where its loop is), `TaskInv` (one task at a time uses the socket, and `status` is its
  state), `LinkInv` (the bytes on their way to the device, after those the task has read,
  are the rest of one LOAD and at most one heartbeat, `Parsed`; a heartbeat is on its way,
  or its answer, only while the server waits for it, `Exchange`), `LengthInv` (a length that was
  received whole has room for the signature) and `DeliveryInv` (what was delivered is a
  prefix of what was sent, and only devices that are gone are given up). Short receives
  inside a LOAD and second tasks are excepted (`Clean`), as in the properties.

Only model-checked: the liveness properties (both `WindowCloses`, `PatchedThreadProgresses`,
`InterpretedFilterReturns`, `CommandCompletes`, `SentIsDelivered`), which are out of the prover's
reach under fairness; the properties of `JitOps`, which computes with bitwise operators; and
`LineRunsItsWords`, about the line editor of `Console`, which splits a line by a fold over
its characters: what a fold computes for every line is an induction over data. Every
other property of a passing run is the statement of a theorem.

## Where the code departs from what one would expect

Met while modelling, visible in the models, and excepted by name in the properties:

- `lower_bound` never looks at slot 0 (`hashmap.c:27-29`): setting the first key again
  inserts a duplicate, and a key below it can make others unfindable (`plain`).
- The list grows to `MAX_DP_NUM + 1` nodes (`iotpatch.c:73`).
- `update_bits_filter` empties the filter in place before refilling it
  (`iotpatch.c:14`, `45`), so a patch point in between misses an active patch.
- "only enter bkpt once" (`cortex-m4_fbp.c:811`): a thread switch inside the step window
  makes one pending instruction enter the exception twice
  (`RepeatedOnlyAfterForeignStep` says when).
- Remap mode: only the trampoline of comparator 0 continues at the patched instruction,
  the others return to the caller even on PASS (`cortex-m4_fbp.c:197`); a half-word patch
  is left disabled until some callback enables it (496); the search for an existing
  comparator finds an old address in the callback's (462), and the wrap-around hands
  that one out (540; a self-test's breakpoints can also wrap in debug-monitor mode); the callback's comparator is on before its branch is written
  (686, 692), and a thread that was preempted in `fpb_enable_callback` continues where
  another one's PASS has pointed it (700); a patch with no word-aligned instruction
  after it in the function, or with a branch before that instruction, stays disabled, and
  the next execution is not filtered; a branch into the second half of a remapped word
  fetches half of a B.W; the Keil trampoline of comparator 1 runs on into that of
  comparator 2, whose filter then runs (75-96); between arming and `is_active` the
  trampoline finds no patch and leaves the function (755).
- `ebpf_vm_destroy` gives back a reference to the helper table whether or not the VM
  took one (`ebpf_vm.c:98`); a reload clears the VM in place (41) and takes another.
- All VMs compile into one static buffer (`jit.c:16`), so the `vm` command replaces the code
  of an armed local patch.
- A full line buffer refuses the newline too (`ihp_cli.c:151`): the shell is deaf from then on.
- A second start before the first task has connected makes two tasks that share one
  socket and one buffer (`patch_service.c:157`).
- A jump to the first instruction reads the word before `offsets` (`jit_thumb2.c:1304`).
- JSET is compiled with ADD instead of AND (`jit_thumb2.c:629`). `_emit_jump` takes the
  operation as a signed byte (687), so JLT, JLE, JSLT and JSLE match no case and get no
  branch. The interpreter divides by the immediate in 64-bit DIV by a register
  (`ebpf_vm.c:277`), which no property compares.
- A `patch` command whose index is refused (`dynamic_patch_load.c:181`) has cleared the
  breakpoints already (`ihp_cli.c:305`): the patch of the command before stays listed and
  active, and is not armed (`refused`).
- `dispatch_fixed_patch_point` logs a field of the patch before it tests for NULL
  (`fixed_patch_points.c:258`).
- Arithmetic outside the `covered` domains of `JitOps`: 32-bit operations keep the high
  half, which the interpreter clears; OR of two low registers (`jit_thumb2.h:419`); XOR
  outside r1..r7 (`jit_thumb2.c:514`); MOD (615); 64-bit DIV and MOD, and divisors above
  16 bits (591); LSH by constants that are not multiples of 4 (832) and by registers
  (803); RSH and ARSH by registers when the high half is not zero (879, 950); NEG with
  a borrow (1014). MOV32 of an immediate to a register in the scratch space (1285)
  encodes no valid instruction and is left out of `Inst`, as is MOV_REG with immediate 1.
- Loads: those below a double word do not clear the upper half; LDXH with a small
  offset reads at twice the offset, and with a negative one at `off & 0xff` (`jit_thumb2.c:309`); the
  ranges in which an encoder takes an offset for another field are left out of `Encodable`.

## Not modelled

- **Stores** of the compiled code: `emit_str_reg` passes value and address to encoders
  that expect them the other way round (`jit_thumb2.c`, `emit_str_reg`; `jit_thumb2.h`), so
  a compiled store writes an address to a place that the value selects. No property of
  memory holds of that; it stays a length in `JitCompile`. Prologue, epilogue and byte
  order operations are lengths as well.
- **`bounds_check`** of the interpreter: nothing sets `bounds_check_enabled`.
- **eBPF maps** (`ebpf_map.c`) and `darray_*`: nothing in the runtime creates one; their
  callers are a self test of the host tool and a test that is commented out.
- **Flash**: one speed measurement whose call is commented out. **Profiler**: cycle counts
  that are only printed.
- The assembly of the patch point macros and what the trampolines' assembly does to
  other registers (r5, the stack pointer that `TST lr, #4` selects), start-up code, the
  demos and the sample filters.
- A peer that vanishes without closing its connection: the server's `recv` has no
  timeout, and waits for ever. The compilation of a patch on the server is a constant
  (the set of packets).
- The breakpoints that the self-tests `run 0` and `run 1` set for themselves, which have no
  filter; that both clear the others first is in `Console`. A `patch` command after a reset,
  which writes freed memory, ends the behaviours of `Console`; it is what `context_reset` shows.
- The stores of `ebpf_vm_set_inst` after its `memset` are one step (`ebpf_vm.c:42-44`): a filter
  that starts among them counts as started before them, in the window `torn`.
- The length of `offset_mem`, 256 entries (`jit.c:7`): longer programs write past it, and
  `JitCompile` is about programs that fit.
- Which program a local patch with the index one past its table runs
  (`dynamic_patch_load.c:181`): the model takes any.
