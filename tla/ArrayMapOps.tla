---------------------------- MODULE ArrayMapOps ----------------------------
(***************************************************************************)
(* The operations of the sorted array map of libebpf/src/hashmap.c as pure *)
(* operators.  A map is a record                                           *)
(*   cur   cur_size, the number of entries in use                          *)
(*   max   max_size, the capacity that was allocated                       *)
(*   keys, vals   the two heap arrays, functions from slot numbers.        *)
(* A slot that was never written since malloc, or that lies past the       *)
(* capacity, holds Junk: comparing it with a key has one of the outcomes   *)
(* in GarbageEq ({FALSE} for a heap that is known to be zeroed).           *)
(***************************************************************************)
EXTENDS Integers

CONSTANTS Slots,      \* number of slots a map of the model may ever use
          INIT_SIZE,  \* capacity given to arraymap_new
          MAP_GROW,   \* capacity added when the map is full
          Junk,       \* contents of an unwritten slot
          GarbageEq   \* outcomes of comparing Junk with a key

ASSUME ArrayMapOpsAssumption ==
  /\ Slots \in Nat
  /\ INIT_SIZE \in Nat \ {0}
  /\ MAP_GROW \in Nat \ {0}
  /\ GarbageEq \subseteq BOOLEAN

Slot == 0 .. Slots

NullKey == 0
NullVal == Junk

arraymap_new ==
  [cur  |-> 0, max |-> INIT_SIZE,
   keys |-> [i \in Slot |-> Junk], vals |-> [i \in Slot |-> Junk]]

(* The two searches narrow a window w = <<start, end>>. *)
Window(size) == (0 .. size + 1) \X (-1 .. size)

Mid(w) == (w[1] + w[2]) \div 2

(* binary_search: the index of val in arr[0 .. size-1], or -1. *)
BinarySearch_unchecked(arr, size, val) ==
  LET search[w \in Window(size)] ==
        IF w[1] >= w[2] THEN w[2]
        ELSE IF arr[Mid(w)] < val THEN search[<<Mid(w) + 1, w[2]>>]
        ELSE search[<<w[1], Mid(w)>>]
  IN  search

BinarySearch(arr, size, val) ==
  LET search[w \in Window(size)] ==
        IF w[1] > w[2] THEN -1
        ELSE IF arr[Mid(w)] = val THEN Mid(w)
        ELSE IF arr[Mid(w)] > val THEN search[<<w[1], Mid(w) - 1>>]
        ELSE search[<<Mid(w) + 1, w[2]>>]
  IN  search

binary_search(arr, size, val) == BinarySearch(arr, size, val)[<<0, size - 1>>]

(* lower_bound: the loop keeps start below the answer and never looks at   *)
(* slot 0, so the answer is at least 1 whenever size is.                   *)
LowerBound_upper(arr, size, val) ==
  LET search[w \in Window(size)] ==
        IF w[1] + 1 >= w[2] THEN w[2]
        ELSE IF arr[Mid(w)] <= val THEN search[<<Mid(w), w[2]>>]
        ELSE search[<<w[1], Mid(w)>>]
  IN  search

LowerBound(arr, size, val) ==
  LET search[w \in Window(size)] ==
        IF w[1] + 1 >= w[2] THEN w[2]
        ELSE IF arr[Mid(w)] < val THEN search[<<Mid(w), w[2]>>]
        ELSE search[<<w[1], Mid(w)>>]
  IN  search

lower_bound(arr, size, val) == LowerBound(arr, size, val)[<<0, size>>]

Modified(m, at, val) == [m EXCEPT !.vals[at] = val]

Shift(arr, at, cur, x) ==
  [i \in Slot |-> CASE i = at              -> x
                    [] at < i /\ i <= cur  -> arr[i - 1]
                    [] OTHER               -> arr[i]]

Inserted_keys_only(m, at, key, val) ==
  [cur  |-> m.cur + 1,
   max  |-> IF m.cur >= m.max THEN m.max + MAP_GROW ELSE m.max,
   keys |-> Shift(m.keys, at, m.cur, key),
   vals |-> [m.vals EXCEPT ![at] = val]]

Inserted_ungrown(m, at, key, val) ==
  [cur  |-> m.cur + 1,
   max  |-> m.max,
   keys |-> Shift(m.keys, at, m.cur, key),
   vals |-> Shift(m.vals, at, m.cur, val)]

Inserted(m, at, key, val) ==
  [cur  |-> m.cur + 1,
   max  |-> IF m.cur >= m.max THEN m.max + MAP_GROW ELSE m.max,
   keys |-> Shift(m.keys, at, m.cur, key),
   vals |-> Shift(m.vals, at, m.cur, val)]

(* arraymap_set: the set of maps one call can leave behind.  The slot it    *)
(* compares may lie at cur_size, which no entry has written yet.           *)
arraymap_set(m, key, val) ==
  IF m.cur = 0
  THEN {[m EXCEPT !.cur = 1, !.keys[0] = key, !.vals[0] = val]}
  ELSE LET at == lower_bound(m.keys, m.cur, key)
           eq == IF m.keys[at] = Junk THEN GarbageEq ELSE {m.keys[at] = key}
       IN  {IF b THEN Modified(m, at, val) ELSE Inserted(m, at, key, val) : b \in eq}

arraymap_get(m, key) ==
  LET idx == binary_search(m.keys, m.cur, key)
  IN  IF idx # -1 THEN m.vals[idx] ELSE NullVal

arraymap_iter_val(m, idx) ==
  IF idx < 0 \/ idx >= m.cur THEN NullVal ELSE m.vals[idx]

Close(arr, idx, last, null) ==
  [i \in Slot |-> CASE i = last               -> null
                    [] idx <= i /\ i < last   -> arr[i + 1]
                    [] OTHER                  -> arr[i]]

arraymap_del(m, key) ==
  LET idx == binary_search(m.keys, m.cur, key)
  IN  IF idx = -1 THEN m
      ELSE [cur  |-> m.cur - 1, max |-> m.max,
            keys |-> Close(m.keys, idx, m.cur - 1, NullKey),
            vals |-> Close(m.vals, idx, m.cur - 1, NullVal)]
=============================================================================
