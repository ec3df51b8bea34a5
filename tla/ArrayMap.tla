------------------------------ MODULE ArrayMap ------------------------------
(***************************************************************************)
(* A client of the sorted array map (arraymap_* of libebpf/src/hashmap.c): *)
(* sets, deletes and re-creations in any order.  written records, for each *)
(* key, every value a set call stored under it since the map was created,  *)
(* and latest the value of the last such call that no delete followed.     *)
(* plain is whether every set call was for a key above the one in slot 0,  *)
(* and no slot that was never written happened to hold its key.            *)
(***************************************************************************)
EXTENDS ArrayMapOps

CONSTANTS Key, Val

ASSUME ArrayMapAssumption ==
  /\ Key \subseteq Nat \ {NullKey}
  /\ Junk \notin Key \cup Val

VARIABLES map, written, latest, plain

vars == <<map, written, latest, plain>>

TypeOK ==
  /\ map \in [cur : 0 .. Slots, max : Nat,
              keys : [Slot -> Key \cup {NullKey, Junk}], vals : [Slot -> Val \cup {Junk}]]
  /\ map.cur <= map.max
  /\ written \in [Key -> SUBSET Val]
  /\ latest \in [Key -> Val \cup {NullVal}]
  /\ plain \in BOOLEAN

Init ==
  /\ map = arraymap_new
  /\ written = [k \in Key |-> {}]
  /\ latest = [k \in Key |-> NullVal]
  /\ plain = TRUE

FromSmallest(k) == map.cur > 0 => map.keys[0] < k

(* The set call took an unwritten slot for an entry of k. *)
Mistaken(k) ==
  map.cur > 0 /\ map.keys[lower_bound(map.keys, map.cur, k)] = Junk /\ map'.cur = map.cur

Set(k, v) ==
  /\ map.cur < Slots                      \* model bound
  /\ map' \in arraymap_set(map, k, v)
  /\ written' = [written EXCEPT ![k] = @ \cup {v}]
  /\ latest' = [latest EXCEPT ![k] = v]
  /\ plain' = (plain /\ FromSmallest(k) /\ ~Mistaken(k))

Del(k) ==
  /\ map' = arraymap_del(map, k)
  /\ latest' = [latest EXCEPT ![k] = NullVal]
  /\ UNCHANGED <<written, plain>>

(* arraymap_destroy followed by arraymap_new, as init_patch_sys does after *)
(* destroy_patch_context.                                                  *)
Recreate ==
  /\ map' = arraymap_new
  /\ written' = [k \in Key |-> {}]
  /\ latest' = [k \in Key |-> NullVal]
  /\ plain' = TRUE

Next ==
  \/ \E k \in Key, v \in Val : Set(k, v)
  \/ \E k \in Key : Del(k)
  \/ Recreate

Spec == Init /\ [][Next]_vars
-----------------------------------------------------------------------------
Used == 0 .. map.cur - 1

(* Whatever the order of the calls, the entries after the first one stay   *)
(* strictly sorted: the insertion point lower_bound computes is right for  *)
(* every slot but slot 0, and the shifting loops of set and del keep it.   *)
TailSorted ==
  \A i, j \in Used : 0 < i /\ i < j => map.keys[i] < map.keys[j]

(* arraymap_get never returns a value that was stored under another key:   *)
(* the loops move keys and values in step.                                 *)
GetReturnsOwnValue ==
  \A k \in Key : arraymap_get(map, k) \in written[k] \cup {NullVal}

(* For a client that starts with its smallest key, and whose heap does not *)
(* look like its keys, the array map is a map: get returns what the last   *)
(* set stored, or NULL.                                                    *)
GetReturnsLatest ==
  plain => \A k \in Key : arraymap_get(map, k) = latest[k]
=============================================================================
