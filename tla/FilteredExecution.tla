------------------------- MODULE FilteredExecution -------------------------
(***************************************************************************)
(* What patching by breakpoints promises, without exceptions, registers or *)
(* a scheduler: a patched instruction goes through its filter first, and a *)
(* filter that lets it pass lets one instruction run unfiltered.  It is    *)
(* the next one that the processor executes, of whatever thread.           *)
(***************************************************************************)
EXTENDS Integers

CONSTANTS Thread, N, Patchable, Target, Return

None == "none"

VARIABLES loc,       \* the next instruction of each thread
          armed,     \* locations with a patch
          on,        \* whether patches are in force
          window     \* the thread whose instruction a filter has let pass

vars == <<loc, armed, on, window>>

Init ==
  /\ loc = [t \in Thread |-> 0]
  /\ armed = {} /\ on = FALSE /\ window = None

Filtered(t) == on /\ loc[t] \in armed

(* An instruction executes if it needs no filter or the window is open,    *)
(* and uses the window up.                                                 *)
Execute(t) ==
  /\ Filtered(t) => window # None
  /\ loc' = [loc EXCEPT ![t] = (@ + 1) % N]
  /\ window' = None
  /\ UNCHANGED <<armed, on>>

(* The verdicts of a filter. *)
Pass(t) ==
  /\ Filtered(t) /\ window = None
  /\ window' = t
  /\ UNCHANGED <<loc, armed, on>>

Divert(t) ==
  /\ Filtered(t) /\ window = None
  /\ \E l \in {Return, Target} : loc' = [loc EXCEPT ![t] = l]
  /\ UNCHANGED <<armed, on, window>>

(* An instruction of a command: it may patch a location, or take all       *)
(* patches out, and only then may they be put in force or out of force.    *)
Command ==
  /\ \/ UNCHANGED <<armed, on>>
     \/ \E l \in Patchable : armed' = armed \cup {l} /\ UNCHANGED on
     \/ armed' = {} /\ on' \in BOOLEAN
  /\ window' = None
  /\ UNCHANGED loc

Next == Command \/ \E t \in Thread : Execute(t) \/ Pass(t) \/ Divert(t)

Spec == Init /\ [][Next]_vars
=============================================================================
