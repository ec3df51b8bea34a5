------------------------- MODULE DebugMonitorProofs -------------------------
(***************************************************************************)
(* Proofs, for any set of threads and any program, of the safety           *)
(* properties of DebugMonitor.                                             *)
(***************************************************************************)
EXTENDS DebugMonitor, TLAPS

(* The inductive invariant.  HALTED is pending exactly when the exception  *)
(* being taken ends a step; while a step is pending the breakpoint unit is *)
(* off and BKPT was acknowledged, so no breakpoint can be mixed up with    *)
(* it; the thread a window belongs to has been through its filter; only an *)
(* application thread hits a breakpoint, and is still at it when the       *)
(* handler runs; and a thread that has been                                *)
(* through its filter and not executed the instruction yet owns the        *)
(* window, unless another thread has used it up.                           *)
StepInv ==
  /\ TypeOK
  /\ ~trap => (mon_step => ~fpb_on)
  /\ ready /\ ~fpb_on => mon_step
  /\ "HALTED" \in dfsr <=> trap /\ mon_step
  /\ mon_step => "BKPT" \notin dfsr
  /\ mon_step => owner \in Thread /\ (~trap => entered[owner] # 0)
  /\ trap /\ ~mon_step => cur \in Thread /\ AtBreakpoint(cur)
  /\ trap /\ mon_step /\ cur \in Thread => entered[cur] = 0
  /\ \A t \in Thread : entered[t] # 0 /\ t \notin lost => entered[t] = 1 /\ mon_step /\ owner = t

(* The invariant holds after reset of the processor. *)
LEMMA StepInvInit == Init => StepInv
<1> SUFFICES ASSUME Init PROVE StepInv
  OBVIOUS
<1>1. 0 \in Loc /\ 0 \in 0 .. MaxEntered
  BY DebugMonitorAssumption DEF Loc, MaxEntered
<1>2. loc \in [Thread -> Loc] /\ entered \in [Thread -> 0 .. MaxEntered]
  BY <1>1 DEF Init
<1> QED
  BY <1>2 DEF Init, StepInv, TypeOK

(* Every instruction, exception and thread switch preserves the invariant. *)
LEMMA StepInvNext == StepInv /\ [Next]_vars => StepInv'
<1> SUFFICES ASSUME StepInv, [Next]_vars PROVE StepInv'
  OBVIOUS
<1> USE DebugMonitorAssumption DEF StepInv, TypeOK, MaxEntered, AtBreakpoint
<1>0. ASSUME EndOfInstruction, ~trap, UNCHANGED mon_step
      PROVE  /\ dfsr' \subseteq {"BKPT", "HALTED"} /\ trap' \in BOOLEAN
             /\ trap' <=> mon_step
             /\ "HALTED" \in dfsr' <=> mon_step
             /\ mon_step => "BKPT" \notin dfsr'
  BY <1>0 DEF EndOfInstruction
<1>1. CASE HitBreakpoint
  BY <1>1 DEF HitBreakpoint, AtBreakpoint
<1>2. CASE Execute
  <2>1. (loc[cur] + 1) % N \in Loc
    BY <1>2 DEF Execute, Loc
  <2>2. loc' \in [Thread -> Loc] /\ entered' \in [Thread -> 0 .. 2]
    BY <1>2, <2>1 DEF Execute
  <2> QED
    BY <1>0, <1>2, <2>2 DEF Execute
<1>3. CASE ShellOther
  BY <1>0, <1>3 DEF ShellOther, ShellStep
<1>4. CASE clear_all_hw_bkpt
  BY <1>0, <1>4 DEF clear_all_hw_bkpt, ShellStep
<1>5. CASE debug_monitor_init
  BY <1>0, <1>5 DEF debug_monitor_init, ShellStep
<1>6. ASSUME NEW l \in Patchable, add_hw_bkpt(l) PROVE StepInv'
  BY <1>0, <1>6 DEF add_hw_bkpt, ShellStep
<1>7. ASSUME NEW l \in Loc, Skip(l) PROVE StepInv'
  <2>1. loc' \in [Thread -> Loc] /\ entered' \in [Thread -> 0 .. 2]
    BY <1>7 DEF Skip
  <2>2. ~mon_step /\ ~trap'
    BY <1>7 DEF Skip
  <2> QED
    BY <1>7, <2>1, <2>2 DEF Skip
<1>8. CASE Pass
  <2>1. cur \in Thread /\ ~mon_step
    BY <1>8 DEF Pass
  <2>2. entered' = [entered EXCEPT ![cur] = IF entered[cur] < 2 THEN entered[cur] + 1 ELSE entered[cur]]
    BY <1>8 DEF Pass, Count
  <2>3. entered[cur] \in 0 .. 2
    BY <2>1
  <2>4. entered' \in [Thread -> 0 .. 2] /\ entered'[cur] # 0
    BY <2>1, <2>2, <2>3
  <2>5. ASSUME NEW t \in Thread, entered'[t] # 0, t \notin lost'
        PROVE  entered'[t] = 1 /\ mon_step' /\ owner' = t
    <3>1. t \notin lost /\ mon_step' /\ owner' = cur
      BY <1>8, <2>5 DEF Pass
    <3>2. CASE t = cur
      <4>1. entered[cur] = 0
        BY <2>1, <3>1, <3>2
      <4> QED
        BY <2>1, <2>2, <3>1, <3>2, <4>1
    <3>3. CASE t # cur
      <4>1. entered'[t] = entered[t]
        BY <2>1, <2>2, <3>3
      <4> QED
        BY <2>1, <2>5, <3>1, <4>1
    <3> QED
      BY <3>2, <3>3
  <2> QED
    BY <1>8, <2>4, <2>5 DEF Pass
<1>9. CASE Halted
  BY <1>9 DEF Halted
<1>10. ASSUME NEW t \in Threads, Switch(t) PROVE StepInv'
  BY <1>10 DEF Switch
<1>11. CASE UNCHANGED vars
  BY <1>11 DEF vars
<1> QED
  BY <1>1, <1>2, <1>3, <1>4, <1>5, <1>6, <1>7, <1>8, <1>9, <1>10, <1>11
     DEF Next, Instruction, leave_debug_monitor

(* The invariant holds in every reachable state. *)
THEOREM StepInvariant == Spec => []StepInv
  BY StepInvInit, StepInvNext, PTL DEF Spec

(* Type correctness. *)
THEOREM TypeCorrect == Spec => []TypeOK
<1>1. StepInv => TypeOK
  BY DEF StepInv
<1> QED
  BY StepInvariant, <1>1, PTL

(* The breakpoint unit is off exactly during a step window.                *)
THEOREM FpbWindow == Spec => []FpbOffExactlyWhileStepping
<1>1. StepInv => FpbOffExactlyWhileStepping
  BY DEF StepInv, FpbOffExactlyWhileStepping
<1> QED
  BY StepInvariant, <1>1, PTL

(* A step event is never taken for a breakpoint, although the DROP and     *)
(* REDIRECT paths leave BKPT set.                                          *)
THEOREM StepEvent == Spec => []StepEventIsNotMistaken
<1>1. StepInv => StepEventIsNotMistaken
  BY DEF StepInv, StepEventIsNotMistaken
<1> QED
  BY StepInvariant, <1>1, PTL

(* A filter is missed only inside a window opened for another thread.      *)
THEOREM MissedFilter == Spec => MissedOnlyInForeignWindow
<1>1. StepInv /\ [Next]_vars =>
        [Execute /\ ready /\ loc[cur] \in armed /\ entered[cur] = 0
           => mon_step /\ owner # cur]_vars
  BY DEF StepInv, Execute, AtBreakpoint
<1> QED
  BY StepInvariant, <1>1, PTL DEF Spec, MissedOnlyInForeignWindow

(* A filter is repeated only after another thread has used up the step.    *)
THEOREM RepeatedFilter == Spec => []RepeatedOnlyAfterForeignStep
<1>1. StepInv => RepeatedOnlyAfterForeignStep
  BY DEF StepInv, RepeatedOnlyAfterForeignStep
<1> QED
  BY StepInvariant, <1>1, PTL

(* The processor starts with no patch in force and    no window open.      *)
LEMMA PromiseInit == Init => Promise!Init
  BY DEF Init, Promise!Init, Promise!None, None

(* Every instruction and exception is a step of FilteredExecution or none: *)
(* hitting a breakpoint, the step exception and a switch are not visible.  *)
LEMMA PromiseNext == StepInv /\ [Next]_vars => [Promise!Next]_(Promise!vars)
<1> SUFFICES ASSUME StepInv, [Next]_vars PROVE [Promise!Next]_(Promise!vars)
  OBVIOUS
<1> DEFINE on == fpb_on \/ mon_step
           window == IF mon_step /\ ~trap THEN owner ELSE None
<1> USE DebugMonitorAssumption DEF StepInv, TypeOK, AtBreakpoint, Promise!None, None, Promise!Filtered
<1>0. ASSUME ShellStep PROVE window' = None /\ UNCHANGED loc
  BY <1>0 DEF ShellStep, EndOfInstruction
<1>1. CASE HitBreakpoint
  <2>1. UNCHANGED <<loc, armed, on, window>>
    BY <1>1 DEF HitBreakpoint
  <2> QED
    BY <2>1 DEF Promise!vars
<1>2. CASE Execute
  <2>1. on /\ loc[cur] \in armed => window # None
    BY <1>2 DEF Execute, Threads
  <2>2. /\ loc' = [loc EXCEPT ![cur] = (@ + 1) % N]
        /\ window' = None /\ armed' = armed /\ on' = on /\ cur \in Thread
    BY <1>2 DEF Execute, EndOfInstruction
  <2> QED
    BY <2>1, <2>2 DEF Promise!Next, Promise!Execute
<1>3. CASE ShellOther
  <2>1. armed' = armed /\ on' = on
    BY <1>3 DEF ShellOther, ShellStep
  <2> QED
    BY <1>0, <1>3, <2>1 DEF ShellOther, Promise!Next, Promise!Command
<1>4. CASE clear_all_hw_bkpt
  <2>1. armed' = {} /\ on' \in BOOLEAN
    BY <1>4 DEF clear_all_hw_bkpt
  <2> QED
    BY <1>0, <1>4, <2>1 DEF clear_all_hw_bkpt, Promise!Next, Promise!Command
<1>5. CASE debug_monitor_init
  <2>1. armed' = {} /\ on' \in BOOLEAN
    BY <1>5 DEF debug_monitor_init
  <2> QED
    BY <1>0, <1>5, <2>1 DEF debug_monitor_init, Promise!Next, Promise!Command
<1>6. ASSUME NEW l \in Patchable, add_hw_bkpt(l) PROVE Promise!Next
  <2>1. armed' = armed \cup {l} /\ on' = on
    BY <1>6 DEF add_hw_bkpt, ShellStep
  <2> QED
    BY <1>0, <1>6, <2>1 DEF add_hw_bkpt, Promise!Next, Promise!Command
<1>7. ASSUME NEW l \in {Return, Target}, Skip(l) PROVE Promise!Next
  <2>1. cur \in Thread /\ on /\ loc[cur] \in armed /\ window = None
    BY <1>7 DEF Skip
  <2>2. loc' = [loc EXCEPT ![cur] = l] /\ armed' = armed /\ on' = on /\ window' = window
    BY <1>7 DEF Skip
  <2> QED
    BY <2>1, <2>2 DEF Promise!Next, Promise!Divert
<1>8. CASE Pass
  <2>1. cur \in Thread /\ on /\ loc[cur] \in armed /\ window = None
    BY <1>8 DEF Pass
  <2>2. loc' = loc /\ armed' = armed /\ on' = on /\ window' = cur
    BY <1>8 DEF Pass
  <2> QED
    BY <2>1, <2>2 DEF Promise!Next, Promise!Pass
<1>9. CASE Halted
  <2>1. UNCHANGED <<loc, armed, on, window>>
    BY <1>9 DEF Halted
  <2> QED
    BY <2>1 DEF Promise!vars
<1>10. ASSUME NEW t \in Threads, Switch(t) PROVE UNCHANGED Promise!vars
  BY <1>10 DEF Switch, Promise!vars
<1>11. CASE UNCHANGED vars
  BY <1>11 DEF vars, Promise!vars
<1> QED
  BY <1>1, <1>2, <1>3, <1>4, <1>5, <1>6, <1>7, <1>8, <1>9, <1>10, <1>11
     DEF Next, Instruction, leave_debug_monitor

(* Every PASS verdict of leave_debug_monitor lets one instruction through, *)
(* and every other patched instruction is filtered.                        *)
THEOREM Implements == Spec => OneInstructionPerPass
<1>1. Spec => []StepInv
  BY StepInvariant
<1> QED
  BY <1>1, PromiseInit, PromiseNext, PTL DEF Spec, OneInstructionPerPass, Promise!Spec
=============================================================================
