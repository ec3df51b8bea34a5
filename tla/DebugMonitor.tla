---------------------------- MODULE DebugMonitor ----------------------------
(***************************************************************************)
(* The DebugMonitor exception of hotpatch/src/cortex-m4_fbp.c, which runs  *)
(* the filter of a patch when a thread is about to execute a patched       *)
(* instruction.  Letting the instruction through means turning the whole   *)
(* breakpoint unit off, single-stepping one instruction, and turning it on *)
(* again in a second exception.                                            *)
(*                                                                         *)
(* The processor executes one instruction per step, of thread cur; the     *)
(* scheduler may switch threads between any two of them.  The exception    *)
(* has the lowest priority, so interrupt handlers are never stepped, and   *)
(* the first thread-level instruction after its return is.  The shell      *)
(* thread gives the commands that set, arm and clear the breakpoints.      *)
(***************************************************************************)
EXTENDS Integers, FiniteSets

CONSTANTS Thread,     \* application threads, which execute patched code
          Shell,      \* the thread that runs the shell commands
          N,          \* instructions 0 .. N-1 of the application's loop
          Patchable,  \* the locations commands may put a breakpoint on
          Target,     \* where a REDIRECT verdict goes
          Return      \* the return address, where a DROP verdict goes

Loc == 0 .. N - 1
Threads == Thread \cup {Shell}
None == "none"

ASSUME DebugMonitorAssumption ==
  /\ N \in Nat \ {0}
  /\ Shell \notin Thread /\ None \notin Threads
  /\ Patchable \subseteq Loc /\ Target \in Loc /\ Return \in Loc

VARIABLES
  cur,        \* the running thread
  loc,        \* the next instruction of each application thread
  armed,      \* locations with a comparator
  fpb_on,     \* FPB->CTRL.ENABLE
  ready,      \* debug_monitor_init has run since the last clear
  mon_step,   \* DEMCR.MON_STEP
  dfsr,       \* sticky bits of DFSR
  trap,       \* a DebugMonitor exception is being taken
  entered,    \* how often each thread's pending instruction hit its breakpoint
  owner,      \* the thread whose instruction is to be stepped
  lost        \* history: threads whose step window another thread has used up

vars == <<cur, loc, armed, fpb_on, ready, mon_step, dfsr, trap, entered, owner, lost>>

MaxEntered == 2     \* model bound: entered saturates here

TypeOK ==
  /\ cur \in Threads
  /\ loc \in [Thread -> Loc]
  /\ armed \subseteq Patchable
  /\ fpb_on \in BOOLEAN /\ ready \in BOOLEAN /\ mon_step \in BOOLEAN /\ trap \in BOOLEAN
  /\ dfsr \subseteq {"BKPT", "HALTED"}
  /\ entered \in [Thread -> 0 .. MaxEntered]
  /\ owner \in Thread \cup {None}
  /\ lost \subseteq Thread

Init ==
  /\ cur \in Threads
  /\ loc = [t \in Thread |-> 0]
  /\ armed = {} /\ fpb_on = FALSE /\ ready = FALSE
  /\ mon_step = FALSE /\ dfsr = {} /\ trap = FALSE
  /\ entered = [t \in Thread |-> 0]
  /\ owner = None /\ lost = {}
-----------------------------------------------------------------------------
(* What the processor does at the end of an instruction. *)
EndOfInstruction ==
  IF mon_step THEN trap' = TRUE /\ dfsr' = dfsr \cup {"HALTED"}
              ELSE UNCHANGED <<trap, dfsr>>

AtBreakpoint(t) == fpb_on /\ loc[t] \in armed

(* The breakpoint instruction the FPB substitutes is fetched. *)
HitBreakpoint ==
  /\ ~trap /\ cur \in Thread /\ AtBreakpoint(cur)
  /\ trap' = TRUE /\ dfsr' = dfsr \cup {"BKPT"}
  /\ UNCHANGED <<cur, loc, armed, fpb_on, ready, mon_step, entered, owner, lost>>

(* An application thread executes an instruction; the last one loops. *)
Execute ==
  /\ ~trap /\ cur \in Thread /\ ~AtBreakpoint(cur)
  /\ loc' = [loc EXCEPT ![cur] = (@ + 1) % N]
  /\ entered' = [entered EXCEPT ![cur] = 0] /\ lost' = lost \ {cur}
  /\ EndOfInstruction
  /\ UNCHANGED <<cur, armed, fpb_on, ready, mon_step, owner>>

Switch(t) ==
  /\ ~trap /\ t # cur
  /\ cur' = t
  /\ UNCHANGED <<loc, armed, fpb_on, ready, mon_step, dfsr, trap, entered, owner, lost>>
-----------------------------------------------------------------------------
(* Instructions of the shell thread: one that touches nothing, and the     *)
(* register writes of its commands.                                        *)
ShellStep ==
  /\ ~trap /\ cur = Shell
  /\ EndOfInstruction
  /\ UNCHANGED <<cur, loc, mon_step, entered, owner, lost>>

ShellOther ==
  /\ ShellStep
  /\ UNCHANGED <<armed, fpb_on, ready>>

clear_all_hw_bkpt ==
  /\ ShellStep
  /\ armed' = {} /\ fpb_on' = FALSE /\ ready' = FALSE

debug_monitor_init ==
  /\ ShellStep
  /\ armed = {} /\ ~ready               \* only set_patch_mode calls it, after a clear
  /\ fpb_on' = TRUE /\ ready' = TRUE
  /\ UNCHANGED armed

add_hw_bkpt(l) ==
  /\ ShellStep
  /\ armed' = armed \cup {l}
  /\ UNCHANGED <<fpb_on, ready>>
-----------------------------------------------------------------------------
(* leave_debug_monitor.  A breakpoint event runs run_patch_here, which     *)
(* changes the stacked pc on DROP and REDIRECT and returns true; otherwise *)
(* the handler arms the single step and turns the breakpoint unit off.     *)
Count(t) == entered' = [entered EXCEPT ![t] = IF @ < MaxEntered THEN @ + 1 ELSE @]

Skip(l) ==
  /\ trap /\ "BKPT" \in dfsr
  /\ loc' = [loc EXCEPT ![cur] = l]
  /\ entered' = [entered EXCEPT ![cur] = 0] /\ lost' = lost \ {cur}
  /\ trap' = FALSE
  /\ UNCHANGED <<cur, armed, fpb_on, ready, mon_step, dfsr, owner>>

PassWithoutDisable ==
  /\ trap /\ "BKPT" \in dfsr
  /\ Count(cur)
  /\ mon_step' = TRUE
  /\ dfsr' = dfsr \ {"BKPT"}
  /\ owner' = cur
  /\ trap' = FALSE
  /\ UNCHANGED <<cur, loc, armed, ready, fpb_on, lost>>

PassWithoutAcknowledge ==
  /\ trap /\ "BKPT" \in dfsr
  /\ Count(cur)
  /\ mon_step' = TRUE
  /\ UNCHANGED dfsr
  /\ fpb_on' = FALSE
  /\ owner' = cur
  /\ trap' = FALSE
  /\ UNCHANGED <<cur, loc, armed, ready, lost>>

PassWithoutStep ==
  /\ trap /\ "BKPT" \in dfsr
  /\ Count(cur)
  /\ dfsr' = dfsr \ {"BKPT"}
  /\ fpb_on' = FALSE
  /\ owner' = cur
  /\ trap' = FALSE
  /\ UNCHANGED <<cur, loc, armed, ready, mon_step, lost>>

Pass ==
  /\ trap /\ "BKPT" \in dfsr
  /\ Count(cur)
  /\ mon_step' = TRUE
  /\ dfsr' = dfsr \ {"BKPT"}
  /\ fpb_on' = FALSE
  /\ owner' = cur
  /\ trap' = FALSE
  /\ UNCHANGED <<cur, loc, armed, ready, lost>>

HaltedKeepsStepping ==
  /\ trap /\ "BKPT" \notin dfsr /\ "HALTED" \in dfsr
  /\ dfsr' = dfsr \ {"HALTED"}
  /\ fpb_on' = TRUE
  /\ owner' = None /\ lost' = lost \cup ({owner} \ {cur})
  /\ trap' = FALSE
  /\ UNCHANGED <<cur, loc, armed, ready, entered, mon_step>>

Halted ==
  /\ trap /\ "BKPT" \notin dfsr /\ "HALTED" \in dfsr
  /\ mon_step' = FALSE
  /\ dfsr' = dfsr \ {"HALTED"}
  /\ fpb_on' = TRUE
  /\ owner' = None /\ lost' = lost \cup ({owner} \ {cur})
  /\ trap' = FALSE
  /\ UNCHANGED <<cur, loc, armed, ready, entered>>

leave_debug_monitor == Skip(Return) \/ Skip(Target) \/ Pass \/ Halted
-----------------------------------------------------------------------------
Instruction ==
  \/ HitBreakpoint \/ Execute
  \/ ShellOther \/ clear_all_hw_bkpt \/ debug_monitor_init
  \/ \E l \in Patchable : add_hw_bkpt(l)

Next ==
  \/ Instruction
  \/ leave_debug_monitor
  \/ \E t \in Threads : Switch(t)

Spec == Init /\ [][Next]_vars

(* The processor keeps executing instructions and taking exceptions. *)
FairSpec == Spec /\ WF_vars(Instruction) /\ WF_vars(leave_debug_monitor)
-----------------------------------------------------------------------------
(* Outside the exception, MON_STEP is set exactly while a patched          *)
(* instruction is being let through: the breakpoint unit is off then, and  *)
(* once the monitor is set up it is off at no other time, whatever the     *)
(* threads and the commands do in between.                                 *)
FpbOffExactlyWhileStepping ==
  ~trap => (mon_step => ~fpb_on) /\ (ready /\ ~fpb_on => mon_step)

(* The handler tests BKPT before HALTED, and DROP and REDIRECT return      *)
(* without acknowledging BKPT: the step event must never arrive while that *)
(* stale bit is set, or the handler would take it for a breakpoint.        *)
StepEventIsNotMistaken ==
  trap => ~({"BKPT", "HALTED"} \subseteq dfsr)

(* A thread executes a patched instruction without its filter having run   *)
(* only inside a step window that was opened for another thread.           *)
MissedOnlyInForeignWindow ==
  [][Execute /\ ready /\ loc[cur] \in armed /\ entered[cur] = 0
       => mon_step /\ owner # cur]_vars

(* Every step window closes again: as long as the processor executes       *)
(* instructions, the breakpoint unit is turned back on.                    *)
WindowCloses == mon_step ~> (~mon_step /\ fpb_on)

(* The filter runs twice for one execution of a patched instruction only   *)
(* if another thread has used up the step that was armed for it.           *)
RepeatedOnlyAfterForeignStep == \A t \in Thread : entered[t] > 1 => t \in lost

(* Whatever switches and commands came before, a thread that is left alone *)
(* gets past every patched instruction: the handler does not take the same *)
(* breakpoint for ever.                                                    *)
PatchedThreadProgresses ==
  \A t \in Thread, l \in Patchable : <>[](cur = t) => []<>(loc[t] # l)

(* The handler implements FilteredExecution: whatever the switches, every  *)
(* PASS verdict lets one instruction through and every other patched       *)
(* instruction is filtered, because turning the unit off and stepping go   *)
(* together.  Patches are in force in a step window too, and the window is *)
(* open until the step exception.                                          *)
Promise == INSTANCE FilteredExecution WITH
  on <- fpb_on \/ mon_step,
  window <- IF mon_step /\ ~trap THEN owner ELSE None

OneInstructionPerPass == Promise!Spec
=============================================================================
