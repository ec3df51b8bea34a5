----------------------------- MODULE MCFpbRemap -----------------------------
(***************************************************************************)
(* A function of six half-words: two short instructions, one of two        *)
(* half-words that may branch back to the start or into the middle of the  *)
(* last word, and two short ones.  A patch at 0 has no branch before its   *)
(* callback; one at 2 has, and the word of its callback is entered in the  *)
(* middle.                                                                 *)
(***************************************************************************)
EXTENDS FpbRemap, TLC

CONSTANTS t1, t2

Loops == 0 :> {1} @@ 1 :> {2} @@ 2 :> {4, 5, 0} @@ 3 :> {4} @@ 4 :> {6} @@ 5 :> {6}
=============================================================================
