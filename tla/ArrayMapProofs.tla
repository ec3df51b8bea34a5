--------------------------- MODULE ArrayMapProofs ---------------------------
(***************************************************************************)
(* What a client of the array map can rely on, for any keys, values,       *)
(* capacities and heap contents: proofs about ArrayMap from the lemmas of  *)
(* ArrayMapOpsProofs on its operations.                                    *)
(***************************************************************************)
EXTENDS ArrayMap, ArrayMapOpsProofs

(* Every entry was written under its key; while plain, slot 0 is in order   *)
(* too and the entries are exactly the latest values.                      *)
IInv ==
  /\ WellFormed(map, Key, Val)
  /\ written \in [Key -> SUBSET Val]
  /\ latest \in [Key -> Val \cup {NullVal}]
  /\ plain \in BOOLEAN
  /\ \A k \in Key, v \in Val : Holds(map, k, v) => v \in written[k]
  /\ plain => Sorted(map) /\ \A k \in Key, v \in Val : Holds(map, k, v) <=> latest[k] = v

(* What the assumption on the constants says of the keys. *)
LEMMA Keys ==
  Key \in SUBSET (Nat \ {NullKey}) /\ Junk \notin Key /\ Junk \notin Val /\ Key \in SUBSET Int
BY ArrayMapAssumption

(* A new map is empty. *)
LEMMA Emptied ==
  ASSUME map' = arraymap_new, written' = [k \in Key |-> {}], latest' = [k \in Key |-> NullVal],
         plain' = TRUE
  PROVE  IInv'
<1>1. WellFormed(map', Key, Val) /\ Sorted(map') /\ \A k, v : ~Holds(map', k, v)
  BY NewMap
<1> QED
  BY <1>1, Keys DEF IInv, NullVal

(* The invariant holds of the first map. *)
LEMMA IInvInit == Init => IInv
<1> SUFFICES ASSUME Init PROVE IInv
  OBVIOUS
<1>1. WellFormed(map, Key, Val) /\ Sorted(map) /\ \A k, v : ~Holds(map, k, v)
  BY NewMap DEF Init
<1> QED
  BY <1>1, Keys DEF IInv, Init, NullVal

(* arraymap_set keeps the invariant. *)
LEMMA SetStep ==
  ASSUME IInv, NEW k \in Key, NEW v \in Val, Set(k, v)
  PROVE  IInv'
<1>1. /\ WellFormed(map, Key, Val) /\ map.cur < Slots /\ map' \in arraymap_set(map, k, v)
  BY DEF IInv, Set
<1>2. /\ WellFormed(map', Key, Val)
      /\ \A a, b : Holds(map', a, b) => Holds(map, a, b) \/ (a = k /\ b = v)
  BY <1>1, Keys, SetMap
<1>3. /\ Sorted(map)
      /\ map.cur > 0 => map.keys[0] < k
      /\ ~(map.cur > 0 /\ map.keys[lower_bound(map.keys, map.cur, k)] = Junk /\ map'.cur = map.cur)
      => /\ Sorted(map')
         /\ \A a, b : Holds(map', a, b) <=> (a = k /\ b = v) \/ (a # k /\ Holds(map, a, b))
  BY <1>1, Keys, SetMap
<1>4. /\ written' = [written EXCEPT ![k] = @ \cup {v}] /\ latest' = [latest EXCEPT ![k] = v]
      /\ written' \in [Key -> SUBSET Val] /\ latest' \in [Key -> Val \cup {NullVal}]
  BY DEF IInv, Set
<1>5. ASSUME NEW a \in Key, NEW b \in Val, Holds(map', a, b) PROVE b \in written'[a]
  BY <1>2, <1>4, <1>5 DEF IInv
<1>6. plain' \in BOOLEAN
  BY DEF Set
<1>7. ASSUME plain'
      PROVE  Sorted(map') /\ \A a \in Key, b \in Val : Holds(map', a, b) <=> latest'[a] = b
  <2>1. plain /\ FromSmallest(k) /\ ~Mistaken(k)
    BY <1>7 DEF Set
  <2>2. /\ Sorted(map')
        /\ \A a, b : Holds(map', a, b) <=> (a = k /\ b = v) \/ (a # k /\ Holds(map, a, b))
    BY <1>3, <2>1 DEF IInv, FromSmallest, Mistaken
  <2>3. \A a \in Key, b \in Val : Holds(map, a, b) <=> latest[a] = b
    BY <2>1 DEF IInv
  <2>4. \A a \in Key : latest'[a] = IF a = k THEN v ELSE latest[a]
    BY <1>4 DEF IInv
  <2> QED
    BY <2>2, <2>3, <2>4
<1> QED
  BY <1>2, <1>4, <1>5, <1>6, <1>7 DEF IInv

(* arraymap_del keeps the invariant. *)
LEMMA DelStep ==
  ASSUME IInv, NEW k \in Key, Del(k)
  PROVE  IInv'
<1>1. /\ WellFormed(map, Key, Val) /\ map' = arraymap_del(map, k)
  BY DEF IInv, Del
<1>2. /\ WellFormed(map', Key, Val)
      /\ \A a, b : Holds(map', a, b) => Holds(map, a, b)
      /\ Sorted(map) => Sorted(map')
      /\ Sorted(map) => \A a, b : Holds(map', a, b) <=> a # k /\ Holds(map, a, b)
  BY <1>1, Keys, DelMap
<1>3. /\ latest' = [latest EXCEPT ![k] = NullVal] /\ latest' \in [Key -> Val \cup {NullVal}]
      /\ written' = written /\ plain' = plain
  BY DEF IInv, Del
<1>4. \A a \in Key : latest'[a] = IF a = k THEN NullVal ELSE latest[a]
  BY <1>3 DEF IInv
<1>5. ASSUME plain
      PROVE  Sorted(map') /\ \A a \in Key, b \in Val : Holds(map', a, b) <=> latest'[a] = b
  <2>1. Sorted(map) /\ \A a \in Key, b \in Val : Holds(map, a, b) <=> latest[a] = b
    BY <1>5 DEF IInv
  <2>2. \A b \in Val : b # NullVal
    BY Keys DEF NullVal
  <2> QED
    BY <1>2, <1>4, <2>1, <2>2
<1> QED
  BY <1>2, <1>3, <1>5 DEF IInv

(* Every step keeps the invariant. *)
LEMMA IInvNext == IInv /\ [Next]_vars => IInv'
<1> SUFFICES ASSUME IInv, [Next]_vars PROVE IInv'
  OBVIOUS
<1>1. CASE \E k \in Key, v \in Val : Set(k, v)
  BY <1>1, SetStep
<1>2. CASE \E k \in Key : Del(k)
  BY <1>2, DelStep
<1>3. CASE Recreate
  BY <1>3, Emptied DEF Recreate
<1>4. CASE UNCHANGED vars
  BY <1>4 DEF vars, IInv
<1> QED
  BY <1>1, <1>2, <1>3, <1>4 DEF Next

(* The inductive invariant holds throughout. *)
THEOREM Invariance == Spec => []IInv
BY IInvInit, IInvNext, PTL DEF Spec

(* Type correctness: no slot outside the arrays is ever in use, and        *)
(* cur_size stays within the capacity that was allocated.                  *)
THEOREM TypeCorrect == Spec => []TypeOK
<1>1. IInv => TypeOK
  BY DEF IInv, TypeOK, WellFormed
<1> QED
  BY <1>1, Invariance, PTL

(* lower_bound and the shifting loops keep the tail strictly sorted.       *)
THEOREM Sortedness == Spec => []TailSorted
<1>1. IInv => TailSorted
  <2> SUFFICES ASSUME IInv, NEW i \in Used, NEW j \in Used, 0 < i, i < j
               PROVE  map.keys[i] < map.keys[j]
    BY DEF TailSorted
  <2>1. map.cur \in Nat /\ map.cur <= Slots /\ Slots \in Nat
    BY Keys, MapFields DEF IInv
  <2>2. i \in Slot /\ j \in Slot /\ j < map.cur
    BY <2>1 DEF Used, Slot
  <2> QED
    BY <2>2 DEF IInv, WellFormed
<1> QED
  BY <1>1, Invariance, PTL

(* arraymap_get never returns a value stored under another key. *)
THEOREM OwnValue == Spec => []GetReturnsOwnValue
<1>1. IInv => GetReturnsOwnValue
  <2> SUFFICES ASSUME IInv, NEW k \in Key PROVE arraymap_get(map, k) \in written[k] \cup {NullVal}
    BY DEF GetReturnsOwnValue
  <2> DEFINE r == arraymap_get(map, k)
  <2>1. r = NullVal \/ Holds(map, k, r)
    BY GetSound DEF IInv
  <2> HIDE DEF r
  <2>2. Holds(map, k, r) => r \in Val
    BY DEF Holds, IInv, WellFormed
  <2>3. r \in written[k] \cup {NullVal}
    BY <2>1, <2>2 DEF IInv
  <2> QED
    BY <2>3 DEF r
<1> QED
  BY <1>1, Invariance, PTL

(* For a client that starts with its smallest key, and on a heap that does  *)
(* not look like its keys, arraymap_get returns what the last set stored.  *)
THEOREM LatestValue == Spec => []GetReturnsLatest
<1>1. IInv => GetReturnsLatest
  <2> SUFFICES ASSUME IInv, plain, NEW k \in Key PROVE arraymap_get(map, k) = latest[k]
    BY DEF GetReturnsLatest
  <2> DEFINE r == arraymap_get(map, k)
  <2>1. r = NullVal \/ Holds(map, k, r)
    BY GetSound DEF IInv
  <2>2. Sorted(map) /\ \A v \in Val : Holds(map, k, v) <=> latest[k] = v
    BY DEF IInv
  <2>3. ASSUME NEW v \in Val, Holds(map, k, v) PROVE r = v
    BY <2>2, <2>3, Keys, GetComplete DEF IInv
  <2> HIDE DEF r
  <2>4. Holds(map, k, r) => r \in Val
    BY DEF Holds, IInv, WellFormed
  <2>5. latest[k] \in Val \cup {NullVal}
    BY DEF IInv
  <2>6. r = latest[k]
    BY <2>1, <2>2, <2>3, <2>4, <2>5
  <2> QED
    BY <2>6 DEF r
<1> QED
  BY <1>1, Invariance, PTL
=============================================================================
