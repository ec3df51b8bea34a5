------------------------- MODULE ArrayMapOpsProofs -------------------------
(***************************************************************************)
(* What the operations of the array map compute, for any array, size and   *)
(* key.  The searches are recursive functions; induction is over sets of   *)
(* numbers.                                                                *)
(***************************************************************************)
EXTENDS ArrayMapOps, WellFoundedInduction, TLAPS

(* A set of numbers that contains 0 and successors is all of them. *)
LEMMA SetInduction ==
  ASSUME NEW T, 0 \in T, \A n \in Nat : n \in T => n + 1 \in T
  PROVE  \A n \in Nat : n \in T
<1> DEFINE S == Nat \ T
<1> SUFFICES ASSUME S # {} PROVE FALSE
  OBVIOUS
<1>1. PICK x \in S : \A y \in S : ~(<<y, x>> \in OpToRel(<, Nat))
  BY NatLessThanWellFounded, WFMin
<1>2. OpToRel(<, Nat) = {ss \in Nat \X Nat : ss[1] < ss[2]}
  BY Zenon DEF OpToRel
<1>3. \A y \in S : <<y, x>> \notin {ss \in Nat \X Nat : ss[1] < ss[2]}
  BY <1>1, <1>2, Zenon
<1>4. x # 0 /\ x - 1 \in Nat
  OBVIOUS
<1>5. x - 1 \notin S
  <2>1. <<x - 1, x>> \in {ss \in Nat \X Nat : ss[1] < ss[2]}
    BY <1>4
  <2> QED
    BY <1>3, <2>1, Zenon
<1>6. (x - 1) + 1 = x
  BY <1>4
<1> QED
  BY <1>4, <1>5, <1>6

(* The windows a search can narrow a window to. *)
LEMMA Narrower ==
  ASSUME NEW size \in Nat, NEW w \in Window(size), w[1] <= w[2]
  PROVE  /\ w[1] \in Int /\ w[2] \in Int
         /\ Mid(w) \in Int /\ w[1] <= Mid(w) /\ Mid(w) <= w[2]
         /\ <<w[1], Mid(w) - 1>> \in Window(size) /\ <<Mid(w) + 1, w[2]>> \in Window(size)
         /\ <<w[1], Mid(w)>> \in Window(size) /\ <<Mid(w), w[2]>> \in Window(size)
         /\ w[1] + 1 < w[2] => w[1] < Mid(w) /\ Mid(w) < w[2]
BY DEF Window, Mid

(* The recursive definition of binary_search has a solution. *)
LEMMA BinarySearchDef ==
  ASSUME NEW arr, NEW size \in Nat, NEW val
  PROVE  BinarySearch(arr, size, val) =
           [w \in Window(size) |->
              IF w[1] > w[2] THEN -1
              ELSE IF arr[Mid(w)] = val THEN Mid(w)
              ELSE IF arr[Mid(w)] > val THEN BinarySearch(arr, size, val)[<<w[1], Mid(w) - 1>>]
              ELSE BinarySearch(arr, size, val)[<<Mid(w) + 1, w[2]>>]]
<1> DEFINE Body(f, w) == IF w[1] > w[2] THEN -1
                         ELSE IF arr[Mid(w)] = val THEN Mid(w)
                         ELSE IF arr[Mid(w)] > val THEN f[<<w[1], Mid(w) - 1>>]
                         ELSE f[<<Mid(w) + 1, w[2]>>]
           D(n) == {w \in Window(size) : w[2] - w[1] < n}
           T == {n \in Nat : \E f : f = [w \in D(n) |-> Body(f, w)]}
<1>1. BinarySearch(arr, size, val) = CHOOSE f : f = [w \in Window(size) |-> Body(f, w)]
  BY Zenon DEF BinarySearch
<1>2. 0 \in T
  <2> DEFINE f == [w \in D(0) |-> -1]
  <2>1. \A w \in D(0) : w[1] > w[2]
    BY DEF Window
  <2>2. f = [w \in D(0) |-> Body(f, w)]
    BY <2>1
  <2> QED
    BY <2>2
<1>3. ASSUME NEW n \in Nat, n \in T PROVE n + 1 \in T
  <2>1. PICK f : f = [w \in D(n) |-> Body(f, w)]
    BY <1>3
  <2> DEFINE g == [w \in D(n + 1) |-> Body(f, w)]
  <2>2. ASSUME NEW w \in Window(size), w[2] - w[1] < n + 1 PROVE Body(f, w) = Body(g, w)
    <3>1. w[1] \in Int /\ w[2] \in Int /\ w[2] - w[1] < n + 1
      BY <2>2 DEF Window
    <3>2. CASE w[1] > w[2]
      BY <3>2
    <3>3. CASE w[1] <= w[2]
      <4>1. <<w[1], Mid(w) - 1>> \in D(n) /\ <<Mid(w) + 1, w[2]>> \in D(n)
        <5>1. /\ Mid(w) \in Int /\ w[1] <= Mid(w) /\ Mid(w) <= w[2]
              /\ <<w[1], Mid(w) - 1>> \in Window(size) /\ <<Mid(w) + 1, w[2]>> \in Window(size)
          BY <3>3, Narrower
        <5>2. (Mid(w) - 1) - w[1] < n /\ w[2] - (Mid(w) + 1) < n
          BY <3>1, <5>1
        <5>3. \A a, b \in Int : <<a, b>> \in Window(size) /\ b - a < n => <<a, b>> \in D(n)
          OBVIOUS
        <5> HIDE DEF D
        <5> QED
          BY <3>1, <5>1, <5>2, <5>3
      <4>2. D(n) \subseteq D(n + 1)
        BY DEF Window
      <4>3. \A v \in D(n) : f[v] = g[v]
        BY <2>1, <4>2
      <4> QED
        BY <4>1, <4>3
    <3> QED
      BY <3>1, <3>2, <3>3
  <2>3. g = [w \in D(n + 1) |-> Body(g, w)]
    BY <2>2
  <2>4. \E h : h = [w \in D(n + 1) |-> Body(h, w)]
    <3> HIDE DEF g
    <3> QED
      BY <2>3, Zenon
  <2>5. n + 1 \in Nat
    OBVIOUS
  <2> QED
    BY <2>4, <2>5, Zenon
<1>4. size + 2 \in T
  <2> HIDE DEF T
  <2>1. \A n \in Nat : n \in T => n + 1 \in T
    BY <1>3
  <2>2. \A n \in Nat : n \in T
    BY <1>2, <2>1, SetInduction
  <2> QED
    BY <2>2
<1>5. D(size + 2) = Window(size)
  BY DEF Window
<1>6. \E f : f = [w \in Window(size) |-> Body(f, w)]
  BY <1>4, <1>5
<1> QED
  BY <1>1, <1>6, Zenon

(* The recursive definition of lower_bound has a solution. *)
LEMMA LowerBoundDef ==
  ASSUME NEW arr, NEW size \in Nat, NEW val
  PROVE  LowerBound(arr, size, val) =
           [w \in Window(size) |->
              IF w[1] + 1 >= w[2] THEN w[2]
              ELSE IF arr[Mid(w)] < val THEN LowerBound(arr, size, val)[<<Mid(w), w[2]>>]
              ELSE LowerBound(arr, size, val)[<<w[1], Mid(w)>>]]
<1> DEFINE Body(f, w) == IF w[1] + 1 >= w[2] THEN w[2]
                         ELSE IF arr[Mid(w)] < val THEN f[<<Mid(w), w[2]>>]
                         ELSE f[<<w[1], Mid(w)>>]
           D(n) == {w \in Window(size) : w[2] - w[1] < n}
           T == {n \in Nat : \E f : f = [w \in D(n) |-> Body(f, w)]}
<1>1. LowerBound(arr, size, val) = CHOOSE f : f = [w \in Window(size) |-> Body(f, w)]
  BY Zenon DEF LowerBound
<1>2. 0 \in T
  <2> DEFINE f == [w \in D(0) |-> w[2]]
  <2>1. \A w \in D(0) : w[1] + 1 >= w[2]
    BY DEF Window
  <2>2. f = [w \in D(0) |-> Body(f, w)]
    BY <2>1
  <2> QED
    BY <2>2
<1>3. ASSUME NEW n \in Nat, n \in T PROVE n + 1 \in T
  <2>1. PICK f : f = [w \in D(n) |-> Body(f, w)]
    BY <1>3
  <2> DEFINE g == [w \in D(n + 1) |-> Body(f, w)]
  <2>2. ASSUME NEW w \in Window(size), w[2] - w[1] < n + 1 PROVE Body(f, w) = Body(g, w)
    <3>1. w[1] \in Int /\ w[2] \in Int /\ w[2] - w[1] < n + 1
      BY <2>2 DEF Window
    <3>2. CASE w[1] + 1 >= w[2]
      BY <3>2
    <3>3. CASE w[1] + 1 < w[2]
      <4>1. <<w[1], Mid(w)>> \in D(n) /\ <<Mid(w), w[2]>> \in D(n)
        <5>1. /\ Mid(w) \in Int /\ w[1] < Mid(w) /\ Mid(w) < w[2]
              /\ <<w[1], Mid(w)>> \in Window(size) /\ <<Mid(w), w[2]>> \in Window(size)
          <6>1. w[1] <= w[2]
            BY <3>1, <3>3
          <6> QED
            BY <3>3, <6>1, Narrower
        <5>2. Mid(w) - w[1] < n /\ w[2] - Mid(w) < n
          BY <3>1, <5>1
        <5>3. \A a, b \in Int : <<a, b>> \in Window(size) /\ b - a < n => <<a, b>> \in D(n)
          OBVIOUS
        <5> HIDE DEF D
        <5> QED
          BY <3>1, <5>1, <5>2, <5>3
      <4>2. D(n) \subseteq D(n + 1)
        BY DEF Window
      <4>3. \A v \in D(n) : f[v] = g[v]
        BY <2>1, <4>2
      <4> QED
        BY <4>1, <4>3
    <3> QED
      BY <3>1, <3>2, <3>3
  <2>3. g = [w \in D(n + 1) |-> Body(g, w)]
    BY <2>2
  <2>4. \E h : h = [w \in D(n + 1) |-> Body(h, w)]
    <3> HIDE DEF g
    <3> QED
      BY <2>3, Zenon
  <2>5. n + 1 \in Nat
    OBVIOUS
  <2> QED
    BY <2>4, <2>5, Zenon
<1>4. size + 2 \in T
  <2> HIDE DEF T
  <2>1. \A n \in Nat : n \in T => n + 1 \in T
    BY <1>3
  <2>2. \A n \in Nat : n \in T
    BY <1>2, <2>1, SetInduction
  <2> QED
    BY <2>2
<1>5. D(size + 2) = Window(size)
  BY DEF Window
<1>6. \E f : f = [w \in Window(size) |-> Body(f, w)]
  BY <1>4, <1>5
<1> QED
  BY <1>1, <1>6, Zenon

(* binary_search returns an index of the window that holds the key, or -1. *)
LEMMA BinarySearchSound ==
  ASSUME NEW arr, NEW size \in Nat, NEW val
  PROVE  \A w \in Window(size) :
           LET r == BinarySearch(arr, size, val)[w]
           IN  r = -1 \/ (r \in Int /\ w[1] <= r /\ r <= w[2] /\ arr[r] = val)
<1> DEFINE f == BinarySearch(arr, size, val)
           P(w) == f[w] = -1 \/ (f[w] \in Int /\ w[1] <= f[w] /\ f[w] <= w[2] /\ arr[f[w]] = val)
           T == {n \in Nat : \A w \in Window(size) : w[2] - w[1] < n => P(w)}
<1>1. \A w \in Window(size) : f[w] = IF w[1] > w[2] THEN -1
                                     ELSE IF arr[Mid(w)] = val THEN Mid(w)
                                     ELSE IF arr[Mid(w)] > val THEN f[<<w[1], Mid(w) - 1>>]
                                     ELSE f[<<Mid(w) + 1, w[2]>>]
  BY BinarySearchDef
<1> HIDE DEF f
<1>2. 0 \in T
  <2>1. \A w \in Window(size) : w[2] - w[1] < 0 => w[1] > w[2]
    BY DEF Window
  <2> QED
    BY <1>1, <2>1
<1>3. ASSUME NEW n \in Nat, n \in T PROVE n + 1 \in T
  <2>1. ASSUME NEW w \in Window(size), w[2] - w[1] < n + 1 PROVE P(w)
    <3>1. w[1] \in Int /\ w[2] \in Int
      BY DEF Window
    <3>2. CASE w[1] > w[2]
      BY <1>1, <3>2
    <3>3. CASE w[1] <= w[2]
      <4> DEFINE lo == <<w[1], Mid(w) - 1>>
                 hi == <<Mid(w) + 1, w[2]>>
      <4>1. /\ Mid(w) \in Int /\ w[1] <= Mid(w) /\ Mid(w) <= w[2]
            /\ lo \in Window(size) /\ hi \in Window(size)
        BY <3>3, Narrower
      <4>2. lo[1] = w[1] /\ lo[2] = Mid(w) - 1 /\ hi[1] = Mid(w) + 1 /\ hi[2] = w[2]
        OBVIOUS
      <4> HIDE DEF lo, hi
      <4>3. P(lo) /\ P(hi)
        BY <1>3, <2>1, <3>1, <4>1, <4>2
      <4>4. (f[w] = Mid(w) /\ arr[Mid(w)] = val) \/ f[w] = f[lo] \/ f[w] = f[hi]
        BY <1>1, <3>1, <3>3 DEF lo, hi
      <4> QED
        BY <3>1, <4>1, <4>2, <4>3, <4>4
    <3> QED
      BY <3>1, <3>2, <3>3
  <2> HIDE DEF P
  <2> QED
    BY <2>1
<1>4. ASSUME NEW w \in Window(size) PROVE P(w)
  <2>1. \A n \in Nat : n \in T => n + 1 \in T
    BY <1>3
  <2>2. \A n \in Nat : n \in T
    <3> HIDE DEF T
    <3> QED
      BY <1>2, <2>1, SetInduction
  <2>3. w[2] - w[1] < size + 1 /\ size + 1 \in Nat
    BY DEF Window
  <2> HIDE DEF P
  <2> QED
    BY <2>2, <2>3
<1> QED
  BY <1>4 DEF f

(* On keys that are strictly sorted, binary_search finds every key. *)
LEMMA BinarySearchComplete ==
  ASSUME NEW arr, NEW size \in Nat, NEW val \in Int,
         \A i \in 0 .. size - 1 : arr[i] \in Int,
         \A i, j \in 0 .. size - 1 : i < j => arr[i] < arr[j],
         NEW k \in 0 .. size - 1, arr[k] = val
  PROVE  binary_search(arr, size, val) = k
<1> DEFINE f == BinarySearch(arr, size, val)
           P(w) == w[1] <= k /\ k <= w[2] /\ w[2] < size => f[w] = k
           T == {n \in Nat : \A w \in Window(size) : w[2] - w[1] < n => P(w)}
<1>1. \A w \in Window(size) : f[w] = IF w[1] > w[2] THEN -1
                                     ELSE IF arr[Mid(w)] = val THEN Mid(w)
                                     ELSE IF arr[Mid(w)] > val THEN f[<<w[1], Mid(w) - 1>>]
                                     ELSE f[<<Mid(w) + 1, w[2]>>]
  BY BinarySearchDef
<1> HIDE DEF f
<1>2. 0 \in T
  <2>1. \A w \in Window(size) : w[2] - w[1] < 0 => ~(w[1] <= k /\ k <= w[2])
    BY DEF Window
  <2> QED
    BY <2>1
<1>3. ASSUME NEW n \in Nat, n \in T PROVE n + 1 \in T
  <2>1. ASSUME NEW w \in Window(size), w[2] - w[1] < n + 1,
               w[1] <= k, k <= w[2], w[2] < size
        PROVE  f[w] = k
    <3>1. w[1] \in Int /\ w[2] \in Int /\ 0 <= w[1] /\ w[1] <= w[2]
      BY <2>1 DEF Window
    <3> DEFINE lo == <<w[1], Mid(w) - 1>>
               hi == <<Mid(w) + 1, w[2]>>
    <3>2. /\ Mid(w) \in Int /\ w[1] <= Mid(w) /\ Mid(w) <= w[2]
          /\ lo \in Window(size) /\ hi \in Window(size)
      BY <3>1, Narrower
    <3>3. lo[1] = w[1] /\ lo[2] = Mid(w) - 1 /\ hi[1] = Mid(w) + 1 /\ hi[2] = w[2]
      OBVIOUS
    <3> HIDE DEF lo, hi
    <3>4. P(lo) /\ P(hi)
      BY <1>3, <2>1, <3>1, <3>2, <3>3
    <3>5. f[w] = IF arr[Mid(w)] = val THEN Mid(w)
                 ELSE IF arr[Mid(w)] > val THEN f[lo] ELSE f[hi]
      BY <1>1, <3>1 DEF lo, hi
    <3>6. Mid(w) \in 0 .. size - 1
      BY <2>1, <3>1, <3>2
    <3>7. /\ Mid(w) < k => arr[Mid(w)] < val
          /\ Mid(w) > k => arr[Mid(w)] > val
          /\ Mid(w) = k => arr[Mid(w)] = val
          /\ arr[Mid(w)] \in Int
      BY <3>6
    <3>8. CASE Mid(w) = k
      BY <3>5, <3>7, <3>8
    <3>9. CASE Mid(w) < k
      <4>1. f[w] = f[hi]
        BY <3>5, <3>7, <3>9
      <4> QED
        BY <2>1, <3>2, <3>3, <3>4, <3>9, <4>1
    <3>10. CASE Mid(w) > k
      <4>1. f[w] = f[lo]
        BY <3>5, <3>7, <3>10
      <4>2. lo[1] <= k /\ k <= lo[2] /\ lo[2] < size
        BY <2>1, <3>1, <3>2, <3>3, <3>10
      <4> QED
        BY <3>4, <4>1, <4>2
    <3> QED
      BY <3>2, <3>8, <3>9, <3>10
  <2> QED
    BY <2>1
<1>4. \A n \in Nat : n \in T
  <2>1. \A n \in Nat : n \in T => n + 1 \in T
    BY <1>3
  <2> HIDE DEF T
  <2> QED
    BY <1>2, <2>1, SetInduction
<1> DEFINE all == <<0, size - 1>>
<1>5. all \in Window(size) /\ all[1] = 0 /\ all[2] = size - 1
  BY DEF Window
<1> HIDE DEF all
<1>6. P(all)
  BY <1>4, <1>5
<1>7. f[all] = k
  BY <1>5, <1>6
<1> QED
  BY <1>7 DEF f, all, binary_search

(* The keys after slot 0 are strictly sorted; at splits them into those    *)
(* below val and the others.                                               *)
SortedTail(arr, size) ==
  /\ \A i \in 1 .. size - 1 : arr[i] \in Int
  /\ \A i, j \in 1 .. size - 1 : i < j => arr[i] < arr[j]

SplitsTail(arr, size, val, at) ==
  /\ at \in Int /\ 1 <= at /\ at <= size
  /\ \A i \in 1 .. size - 1 : (i < at => arr[i] < val) /\ (i >= at => arr[i] >= val)

(* On keys that are strictly sorted after slot 0, lower_bound splits the    *)
(* slots after slot 0 into those below the key and the others.             *)
LEMMA LowerBoundSplits ==
  ASSUME NEW arr, NEW size \in Nat \ {0}, NEW val \in Int, SortedTail(arr, size)
  PROVE  SplitsTail(arr, size, val, lower_bound(arr, size, val))
<1>0. /\ \A i \in 1 .. size - 1 : arr[i] \in Int
      /\ \A i, j \in 1 .. size - 1 : i < j => arr[i] < arr[j]
  BY DEF SortedTail
<1> DEFINE f == LowerBound(arr, size, val)
           Splits(lo, hi) ==
             \A i \in 1 .. size - 1 : (i <= lo => arr[i] < val) /\ (i >= hi => arr[i] >= val)
           P(w) == w[1] < w[2] /\ Splits(w[1], w[2])
                     => /\ f[w] \in Int /\ w[1] < f[w] /\ f[w] <= w[2]
                        /\ Splits(f[w] - 1, f[w])
           T == {n \in Nat : \A w \in Window(size) : w[2] - w[1] < n => P(w)}
<1>1. \A w \in Window(size) : f[w] = IF w[1] + 1 >= w[2] THEN w[2]
                                     ELSE IF arr[Mid(w)] < val THEN f[<<Mid(w), w[2]>>]
                                     ELSE f[<<w[1], Mid(w)>>]
  BY LowerBoundDef
<1> HIDE DEF f
<1>2. 0 \in T
  <2>1. \A w \in Window(size) : w[2] - w[1] < 0 => ~(w[1] < w[2])
    BY DEF Window
  <2> QED
    BY <2>1
<1>3. ASSUME NEW n \in Nat, n \in T PROVE n + 1 \in T
  <2>1. ASSUME NEW w \in Window(size), w[2] - w[1] < n + 1,
               w[1] < w[2], Splits(w[1], w[2])
        PROVE  f[w] \in Int /\ w[1] < f[w] /\ f[w] <= w[2] /\ Splits(f[w] - 1, f[w])
    <3>1. w[1] \in Int /\ w[2] \in Int /\ 0 <= w[1] /\ w[2] <= size
      BY <2>1 DEF Window
    <3>2. CASE w[1] + 1 >= w[2]
      <4>1. w[1] = w[2] - 1
        BY <2>1, <3>1, <3>2
      <4>2. f[w] = w[2]
        BY <1>1, <3>2
      <4> QED
        BY <2>1, <3>1, <4>1, <4>2
    <3>3. CASE w[1] + 1 < w[2]
      <4> DEFINE lo == <<w[1], Mid(w)>>
                 hi == <<Mid(w), w[2]>>
      <4>0. w[1] <= w[2]
        BY <3>1, <3>3
      <4>1. /\ Mid(w) \in Int /\ w[1] < Mid(w) /\ Mid(w) < w[2]
            /\ lo \in Window(size) /\ hi \in Window(size)
        BY <3>3, <4>0, Narrower
      <4>2. lo[1] = w[1] /\ lo[2] = Mid(w) /\ hi[1] = Mid(w) /\ hi[2] = w[2]
        OBVIOUS
      <4> HIDE DEF lo, hi
      <4>3. lo[2] - lo[1] < n /\ hi[2] - hi[1] < n
        BY <2>1, <3>1, <4>1, <4>2
      <4>4. P(lo) /\ P(hi)
        <5> HIDE DEF P
        <5> QED
          BY <1>3, <4>1, <4>3
      <4>5. f[w] = IF arr[Mid(w)] < val THEN f[hi] ELSE f[lo]
        BY <1>1, <3>1, <3>3 DEF lo, hi
      <4>6. Mid(w) \in 1 .. size - 1 /\ arr[Mid(w)] \in Int
        BY <1>0, <3>1, <4>1
      <4>7. CASE arr[Mid(w)] < val
        <5>1. Splits(Mid(w), w[2])
          BY <1>0, <2>1, <4>6, <4>7
        <5> QED
          BY <3>1, <4>1, <4>2, <4>4, <4>5, <4>7, <5>1
      <4>8. CASE ~(arr[Mid(w)] < val)
        <5>1. Splits(w[1], Mid(w))
          BY <1>0, <2>1, <4>6, <4>8
        <5> QED
          BY <3>1, <4>1, <4>2, <4>4, <4>5, <4>8, <5>1
      <4> QED
        BY <4>7, <4>8
    <3> QED
      BY <3>1, <3>2, <3>3
  <2>2. \A w \in Window(size) : w[2] - w[1] < n + 1 => P(w)
    BY <2>1
  <2> HIDE DEF P
  <2> QED
    BY <2>2
<1>4. \A n \in Nat : n \in T
  <2>1. \A n \in Nat : n \in T => n + 1 \in T
    BY <1>3
  <2> HIDE DEF T
  <2> QED
    BY <1>2, <2>1, SetInduction
<1> DEFINE all == <<0, size>>
<1>5. all \in Window(size) /\ all[1] = 0 /\ all[2] = size
  BY DEF Window
<1> HIDE DEF all
<1>6. P(all)
  <2>1. all[2] - all[1] < size + 1 /\ size + 1 \in Nat
    BY <1>5
  <2> HIDE DEF P
  <2> QED
    BY <1>4, <1>5, <2>1
<1>7. f[all] \in Int /\ 0 < f[all] /\ f[all] <= size /\ Splits(f[all] - 1, f[all])
  BY <1>5, <1>6
<1>8. f[all] = lower_bound(arr, size, val)
  BY DEF f, all, lower_bound
<1> QED
  <2> DEFINE r == f[all]
  <2>1. r \in Int /\ 0 < r /\ r <= size /\ Splits(r - 1, r)
    BY <1>7
  <2> HIDE DEF r
  <2>2. SplitsTail(arr, size, val, r)
    BY <2>1 DEF SplitsTail
  <2> QED
    BY <1>8, <2>2 DEF r
-----------------------------------------------------------------------------
(* A map whose entries are keys of K with values of V: the slots after slot *)
(* 0 are strictly sorted and the slots past the entries hold no key.       *)
WellFormed(m, K, V) ==
  /\ m \in [cur : 0 .. Slots, max : Nat \ {0},
            keys : [Slot -> K \cup {NullKey, Junk}], vals : [Slot -> V \cup {Junk}]]
  /\ m.cur <= m.max
  /\ \A i \in Slot : i < m.cur => m.keys[i] \in K /\ m.vals[i] \in V
  /\ \A i \in Slot : i >= m.cur => m.keys[i] \in {NullKey, Junk}
  /\ \A i, j \in Slot : 0 < i /\ i < j /\ j < m.cur => m.keys[i] < m.keys[j]

(* Slot 0 is in order too. *)
Sorted(m) == \A i, j \in Slot : i < j /\ j < m.cur => m.keys[i] < m.keys[j]

(* The map has an entry for k with value v. *)
Holds(m, k, v) == \E i \in Slot : i < m.cur /\ m.keys[i] = k /\ m.vals[i] = v

(* The fields of a well-formed map. *)
LEMMA MapFields ==
  ASSUME NEW K \in SUBSET (Nat \ {NullKey}), NEW V, NEW m, WellFormed(m, K, V)
  PROVE  /\ m = [cur |-> m.cur, max |-> m.max, keys |-> m.keys, vals |-> m.vals]
         /\ m.cur \in Nat /\ m.max \in Nat \ {0} /\ Slots \in Nat /\ m.cur <= Slots /\ m.cur <= m.max
         /\ m.keys \in [Slot -> K \cup {NullKey, Junk}] /\ m.vals \in [Slot -> V \cup {Junk}]
         /\ 0 \in Slot /\ \A i \in Slot : i \in Nat
         /\ \A i \in Slot : i < m.cur => m.keys[i] \in K /\ m.keys[i] \in Nat
<1>1. m.cur \in 0 .. Slots /\ Slots \in Nat
  BY ArrayMapOpsAssumption DEF WellFormed
<1>2. 0 \in Slot /\ \A i \in Slot : i \in Nat
  BY ArrayMapOpsAssumption DEF Slot
<1>3. \A x \in K : x \in Nat
  OBVIOUS
<1>4. \A i \in Slot : i < m.cur => m.keys[i] \in K
  BY DEF WellFormed
<1>5. /\ m.max \in Nat \ {0} /\ m.cur <= m.max
      /\ m = [cur |-> m.cur, max |-> m.max, keys |-> m.keys, vals |-> m.vals]
      /\ m.keys \in [Slot -> K \cup {NullKey, Junk}] /\ m.vals \in [Slot -> V \cup {Junk}]
  BY DEF WellFormed
<1> QED
  BY <1>1, <1>2, <1>3, <1>4, <1>5

(* arraymap_new: an empty map. *)
LEMMA NewMap ==
  ASSUME NEW K, NEW V
  PROVE  /\ WellFormed(arraymap_new, K, V)
         /\ Sorted(arraymap_new)
         /\ \A k, v : ~Holds(arraymap_new, k, v)
<1>1. \A i \in Slot : i >= 0 /\ i \in Int
  BY DEF Slot
<1> QED
  BY <1>1, ArrayMapOpsAssumption DEF WellFormed, Sorted, Holds, arraymap_new

(* The index binary_search finds is an entry of the key; on a sorted map    *)
(* every key that has an entry is found.                                   *)
LEMMA SearchIndex ==
  ASSUME NEW K, NEW V, NEW m, WellFormed(m, K, V), NEW k
  PROVE  LET idx == binary_search(m.keys, m.cur, k)
         IN  /\ idx # -1 => idx \in Slot /\ idx < m.cur /\ m.keys[idx] = k
             /\ K \subseteq Int /\ k \in Int /\ Sorted(m)
                  => \A i \in Slot : i < m.cur /\ m.keys[i] = k => idx = i
<1> DEFINE all == <<0, m.cur - 1>>
           idx == binary_search(m.keys, m.cur, k)
<1>1. m.cur \in Nat /\ m.cur <= Slots
  BY ArrayMapOpsAssumption DEF WellFormed
<1>2. all \in Window(m.cur) /\ all[1] = 0 /\ all[2] = m.cur - 1
  BY <1>1 DEF Window
<1>3. idx = -1 \/ (idx \in Int /\ 0 <= idx /\ idx <= m.cur - 1 /\ m.keys[idx] = k)
  <2> HIDE DEF all
  <2>1. idx = BinarySearch(m.keys, m.cur, k)[all]
    BY DEF binary_search, all
  <2> QED
    <3>1. \A w \in Window(m.cur) :
            LET r == BinarySearch(m.keys, m.cur, k)[w]
            IN  r = -1 \/ (r \in Int /\ w[1] <= r /\ r <= w[2] /\ m.keys[r] = k)
      BY <1>1, BinarySearchSound
    <3> HIDE DEF idx
    <3> QED
      BY <1>2, <2>1, <3>1
<1>4. idx # -1 => idx \in Slot /\ idx < m.cur /\ m.keys[idx] = k
  <2> HIDE DEF idx
  <2> QED
    BY <1>1, <1>3, ArrayMapOpsAssumption DEF Slot
<1>5. ASSUME K \subseteq Int, k \in Int, Sorted(m), NEW i \in Slot, i < m.cur, m.keys[i] = k
      PROVE  idx = i
  <2>1. \A j \in 0 .. m.cur - 1 : j \in Slot /\ j < m.cur
    BY <1>1, ArrayMapOpsAssumption DEF Slot
  <2>2. \A j \in 0 .. m.cur - 1 : m.keys[j] \in Int
    BY <1>5, <2>1 DEF WellFormed
  <2>3. \A a, b \in 0 .. m.cur - 1 : a < b => m.keys[a] < m.keys[b]
    BY <1>5, <2>1 DEF Sorted
  <2>4. i \in 0 .. m.cur - 1
    BY <1>1, <1>5 DEF Slot
  <2> QED
    BY <1>1, <1>5, <2>2, <2>3, <2>4, BinarySearchComplete
<1> QED
  BY <1>4, <1>5

(* What arraymap_get returns: nothing, or the value of an entry for the     *)
(* key.                                                                    *)
LEMMA GetSound ==
  ASSUME NEW K, NEW V, NEW m, WellFormed(m, K, V), NEW k
  PROVE  arraymap_get(m, k) = NullVal \/ Holds(m, k, arraymap_get(m, k))
<1> DEFINE idx == binary_search(m.keys, m.cur, k)
<1>1. idx # -1 => idx \in Slot /\ idx < m.cur /\ m.keys[idx] = k
  BY SearchIndex
<1>2. arraymap_get(m, k) = IF idx # -1 THEN m.vals[idx] ELSE NullVal
  BY DEF arraymap_get
<1> HIDE DEF idx
<1> QED
  BY <1>1, <1>2 DEF Holds

(* On a sorted map arraymap_get finds the value of every entry. *)
LEMMA GetComplete ==
  ASSUME NEW K \in SUBSET Int, NEW V, NEW m, WellFormed(m, K, V), Sorted(m), NEW k \in Int,
         NEW v, Holds(m, k, v)
  PROVE  arraymap_get(m, k) = v
<1> DEFINE idx == binary_search(m.keys, m.cur, k)
<1>1. PICK i \in Slot : i < m.cur /\ m.keys[i] = k /\ m.vals[i] = v
  BY DEF Holds
<1>2. idx = i
  BY <1>1, SearchIndex
<1>3. i # -1
  BY DEF Slot
<1>4. arraymap_get(m, k) = IF idx # -1 THEN m.vals[idx] ELSE NullVal
  BY DEF arraymap_get
<1> HIDE DEF idx
<1> QED
  BY <1>1, <1>2, <1>3, <1>4


(* arraymap_set on a key that has no entry: the new entry goes between the  *)
(* smaller and the larger keys of the tail, and every other entry stays.   *)
LEMMA InsertedMap ==
  ASSUME NEW K \in SUBSET (Nat \ {NullKey}), NEW V, NEW m, WellFormed(m, K, V), m.cur < Slots,
         NEW k \in K, NEW v \in V, NEW at \in Slot, 1 <= at, at <= m.cur,
         \A i \in Slot : 0 < i /\ i < at => m.keys[i] < k,
         \A i \in Slot : at <= i /\ i < m.cur => k < m.keys[i]
  PROVE  LET n == Inserted(m, at, k, v)
         IN  /\ WellFormed(n, K, V)
             /\ Sorted(m) /\ m.keys[0] < k => Sorted(n)
             /\ \A a, b : Holds(n, a, b) <=> Holds(m, a, b) \/ (a = k /\ b = v)
<1> DEFINE n == Inserted(m, at, k, v)
           cur == m.cur
<1>1. /\ cur \in Slot /\ cur \in Nat /\ m.max \in Nat \ {0} /\ cur <= m.max /\ cur + 1 <= Slots
      /\ m.keys \in [Slot -> K \cup {NullKey, Junk}] /\ m.vals \in [Slot -> V \cup {Junk}]
  BY ArrayMapOpsAssumption DEF WellFormed, Slot
<1>2. \A i \in Slot : i \in Nat
  BY DEF Slot
<1>3. /\ n.cur = cur + 1 /\ n.max = (IF m.cur >= m.max THEN m.max + MAP_GROW ELSE m.max)
      /\ n.keys = Shift(m.keys, at, cur, k) /\ n.vals = Shift(m.vals, at, cur, v)
      /\ n = [cur |-> n.cur, max |-> n.max, keys |-> n.keys, vals |-> n.vals]
  BY DEF Inserted
<1>4. /\ n.keys \in [Slot -> K \cup {NullKey, Junk}] /\ n.keys[at] = k
      /\ \A i \in Slot : i < at \/ cur < i => n.keys[i] = m.keys[i]
      /\ \A i \in Slot : at < i /\ i <= cur => n.keys[i] = m.keys[i - 1] /\ i - 1 \in Slot
  <2> DEFINE S == K \cup {NullKey, Junk}
             f == Shift(m.keys, at, cur, k)
  <2>1. m.keys \in [Slot -> S] /\ k \in S /\ n.keys = f
    BY <1>1, <1>3
  <2>2. /\ f \in [Slot -> S] /\ f[at] = k
        /\ \A i \in Slot : i < at \/ cur < i => f[i] = m.keys[i]
        /\ \A i \in Slot : at < i /\ i <= cur => f[i] = m.keys[i - 1] /\ i - 1 \in Slot
    <3>1. \A i \in Slot : i \in Int /\ (at < i => i - 1 \in Slot)
      BY ArrayMapOpsAssumption DEF Slot
    <3> HIDE DEF S, n
    <3> QED
      BY <1>1, <2>1, <3>1 DEF Shift
  <2> HIDE DEF f
  <2> QED
    BY <2>1, <2>2
<1>5. /\ n.vals \in [Slot -> V \cup {Junk}] /\ n.vals[at] = v
      /\ \A i \in Slot : i < at \/ cur < i => n.vals[i] = m.vals[i]
      /\ \A i \in Slot : at < i /\ i <= cur => n.vals[i] = m.vals[i - 1] /\ i - 1 \in Slot
  <2> DEFINE S == V \cup {Junk}
             f == Shift(m.vals, at, cur, v)
  <2>1. m.vals \in [Slot -> S] /\ v \in S /\ n.vals = f
    BY <1>1, <1>3
  <2>2. /\ f \in [Slot -> S] /\ f[at] = v
        /\ \A i \in Slot : i < at \/ cur < i => f[i] = m.vals[i]
        /\ \A i \in Slot : at < i /\ i <= cur => f[i] = m.vals[i - 1] /\ i - 1 \in Slot
    <3>1. \A i \in Slot : i \in Int /\ (at < i => i - 1 \in Slot)
      BY ArrayMapOpsAssumption DEF Slot
    <3> HIDE DEF S, n
    <3> QED
      BY <1>1, <2>1, <3>1 DEF Shift
  <2> HIDE DEF f
  <2> QED
    BY <2>1, <2>2
<1> HIDE DEF n
<1>6. n \in [cur : 0 .. Slots, max : Nat \ {0},
            keys : [Slot -> K \cup {NullKey, Junk}], vals : [Slot -> V \cup {Junk}]]
  <2>1. n.cur \in 0 .. Slots /\ n.max \in Nat \ {0}
    BY <1>1, <1>3, ArrayMapOpsAssumption
  <2> QED
    BY <1>3, <1>4, <1>5, <2>1
<1>7. n.cur <= n.max
  BY <1>1, <1>3, ArrayMapOpsAssumption
<1>8. ASSUME NEW i \in Slot, i < n.cur
      PROVE  /\ n.keys[i] \in K /\ n.vals[i] \in V
             /\ \/ i < at /\ n.keys[i] = m.keys[i] /\ n.vals[i] = m.vals[i] /\ i < cur
                \/ i = at /\ n.keys[i] = k /\ n.vals[i] = v
                \/ at < i /\ i - 1 \in Slot /\ i - 1 < cur /\ n.keys[i] = m.keys[i - 1] /\ n.vals[i] = m.vals[i - 1]
  <2>1. CASE i < at
    <3>1. i < cur
      BY <1>1, <1>2, <2>1
    <3> QED
      BY <1>4, <1>5, <2>1, <3>1 DEF WellFormed
  <2>2. CASE i = at
    BY <1>4, <1>5, <2>2
  <2>3. CASE at < i
    <3>1. i <= cur /\ i - 1 < cur
      BY <1>1, <1>2, <1>3, <1>8
    <3> QED
      BY <1>4, <1>5, <2>3, <3>1 DEF WellFormed
  <2> QED
    BY <1>2, <2>1, <2>2, <2>3
<1>9. \A i \in Slot : i >= n.cur => n.keys[i] \in {NullKey, Junk}
  <2>1. \A i \in Slot : i >= n.cur => cur < i /\ i >= cur
    BY <1>1, <1>2, <1>3
  <2> QED
    BY <1>4, <2>1 DEF WellFormed
<1>10. ASSUME NEW i \in Slot, NEW j \in Slot, i < j, j < n.cur,
              0 < i \/ (Sorted(m) /\ m.keys[0] < k)
       PROVE  n.keys[i] < n.keys[j]
  <2>1. i < n.cur
    BY <1>1, <1>2, <1>3, <1>10
  <2>2. i < at => m.keys[i] < k
    BY <1>2, <1>10
  <2>3. ASSUME NEW a \in Slot, NEW b \in Slot, a < b, b < cur, 0 < a \/ Sorted(m)
        PROVE  m.keys[a] < m.keys[b]
    BY <2>3 DEF WellFormed, Sorted
  <2>4. CASE i < at /\ j < at
    <3>1. j < cur
      BY <1>1, <1>2, <2>4
    <3> QED
      BY <1>4, <1>10, <2>3, <2>4, <3>1
  <2>5. CASE i < at /\ j = at
    BY <1>4, <2>2, <2>5
  <2>6. CASE i < at /\ at < j
    <3>1. j - 1 \in Slot /\ i < j - 1 /\ j - 1 < cur /\ j <= cur
      BY <1>1, <1>2, <1>3, <1>10, <1>8, <2>6
    <3>2. n.keys[j] = m.keys[j - 1] /\ n.keys[i] = m.keys[i]
      BY <1>4, <2>6, <3>1
    <3> QED
      BY <1>10, <2>3, <3>1, <3>2
  <2>7. CASE i = at /\ at < j
    <3>1. j - 1 \in Slot /\ at <= j - 1 /\ j - 1 < cur /\ j <= cur
      BY <1>1, <1>2, <1>3, <1>10, <1>8, <2>7
    <3> QED
      BY <1>4, <2>7, <3>1
  <2>8. CASE at < i
    <3>1. /\ i - 1 \in Slot /\ j - 1 \in Slot /\ 0 < i - 1 /\ i - 1 < j - 1 /\ j - 1 < cur
          /\ i <= cur /\ j <= cur /\ at < j
      BY <1>1, <1>2, <1>3, <1>10, <1>8, <2>1, <2>8
    <3>2. n.keys[j] = m.keys[j - 1] /\ n.keys[i] = m.keys[i - 1]
      BY <1>4, <2>8, <3>1
    <3> QED
      BY <2>3, <3>1, <3>2
  <2> QED
    BY <1>2, <1>10, <2>4, <2>5, <2>6, <2>7, <2>8
<1>11. WellFormed(n, K, V)
  BY <1>6, <1>7, <1>8, <1>9, <1>10 DEF WellFormed
<1>12. Sorted(m) /\ m.keys[0] < k => Sorted(n)
  BY <1>10 DEF Sorted
<1>13. ASSUME NEW a, NEW b, Holds(n, a, b) PROVE Holds(m, a, b) \/ (a = k /\ b = v)
  <2>1. PICK i \in Slot : i < n.cur /\ n.keys[i] = a /\ n.vals[i] = b
    BY <1>13 DEF Holds
  <2> QED
    BY <1>8, <2>1 DEF Holds
<1>14. Holds(n, k, v)
  <2>1. at < n.cur
    BY <1>1, <1>2, <1>3
  <2> QED
    BY <1>4, <1>5, <2>1 DEF Holds
<1>15. ASSUME NEW a, NEW b, Holds(m, a, b) PROVE Holds(n, a, b)
  <2>1. PICK i \in Slot : i < m.cur /\ m.keys[i] = a /\ m.vals[i] = b
    BY <1>15 DEF Holds
  <2>2. CASE i < at
    <3>1. i < n.cur
      BY <1>1, <1>2, <1>3, <2>1
    <3> QED
      BY <1>4, <1>5, <2>1, <2>2, <3>1 DEF Holds
  <2>3. CASE at <= i
    <3>1. i + 1 \in Slot /\ at < i + 1 /\ i + 1 <= cur /\ i + 1 < n.cur /\ (i + 1) - 1 = i
      BY SMTT(30), <1>1, <1>2, <1>3, <2>1, <2>3, ArrayMapOpsAssumption DEF Slot
    <3>2. n.keys[i + 1] = m.keys[i] /\ n.vals[i + 1] = m.vals[i]
      BY <1>4, <1>5, <3>1
    <3> QED
      BY <2>1, <3>1, <3>2 DEF Holds
  <2> QED
    BY <1>2, <2>2, <2>3
<1> QED
  BY <1>11, <1>12, <1>13, <1>14, <1>15 DEF n

(* arraymap_set on the slot at lower_bound: only the value there changes. *)
LEMMA ModifiedMap ==
  ASSUME NEW K \in SUBSET (Nat \ {NullKey}), NEW V, NEW m, WellFormed(m, K, V),
         NEW k \in K, NEW v \in V, NEW at \in Slot, at < m.cur => m.keys[at] = k
  PROVE  LET n == Modified(m, at, v)
         IN  /\ WellFormed(n, K, V)
             /\ \A a, b : Holds(n, a, b) => Holds(m, a, b) \/ (a = k /\ b = v)
             /\ Sorted(m) /\ at < m.cur
                  => /\ Sorted(n)
                     /\ \A a, b : Holds(n, a, b) <=> (a = k /\ b = v) \/ (a # k /\ Holds(m, a, b))
<1> DEFINE n == Modified(m, at, v)
<1>1. /\ n.cur = m.cur /\ n.max = m.max /\ n.keys = m.keys
      /\ n.vals = [m.vals EXCEPT ![at] = v]
      /\ n = [cur |-> n.cur, max |-> n.max, keys |-> n.keys, vals |-> n.vals]
  BY DEF Modified, WellFormed
<1> HIDE DEF n
<1>2. \A i \in Slot : n.vals[i] = IF i = at THEN v ELSE m.vals[i]
  BY <1>1 DEF WellFormed
<1>3. WellFormed(n, K, V)
  BY <1>1, <1>2 DEF WellFormed
<1>4. Sorted(m) => Sorted(n)
  BY <1>1 DEF Sorted
<1>5. ASSUME NEW a, NEW b, Holds(n, a, b) PROVE Holds(m, a, b) \/ (a = k /\ b = v)
  BY <1>1, <1>2, <1>5 DEF Holds
<1>6. ASSUME Sorted(m), at < m.cur
      PROVE  \A a, b : Holds(n, a, b) <=> (a = k /\ b = v) \/ (a # k /\ Holds(m, a, b))
  <2>1. \A i \in Slot : i < m.cur => m.keys[i] \in Nat /\ i \in Nat
    BY MapFields
  <2>2. \A i \in Slot : i < m.cur /\ m.keys[i] = k => i = at
    BY <1>6, <2>1 DEF Sorted
  <2>3. ASSUME NEW a, NEW b, Holds(n, a, b) PROVE (a = k /\ b = v) \/ (a # k /\ Holds(m, a, b))
    BY <1>1, <1>2, <1>6, <2>2, <2>3 DEF Holds
  <2>4. Holds(n, k, v)
    BY <1>1, <1>2, <1>6 DEF Holds
  <2>5. ASSUME NEW a, NEW b, a # k, Holds(m, a, b) PROVE Holds(n, a, b)
    BY <1>1, <1>2, <1>6, <2>5 DEF Holds
  <2> QED
    BY <2>3, <2>4, <2>5
<1> QED
  BY <1>3, <1>4, <1>5, <1>6 DEF n

(* arraymap_set: the map stays well formed and gains at most the new entry; *)
(* above the smallest key, and with no unwritten slot taken for the key,   *)
(* it is the update of a map.                                              *)
LEMMA SetMap ==
  ASSUME NEW K \in SUBSET (Nat \ {NullKey}), Junk \notin K, NEW V, NEW m, WellFormed(m, K, V),
         m.cur < Slots, NEW k \in K, NEW v \in V, NEW n \in arraymap_set(m, k, v)
  PROVE  /\ WellFormed(n, K, V)
         /\ \A a, b : Holds(n, a, b) => Holds(m, a, b) \/ (a = k /\ b = v)
         /\ /\ Sorted(m)
            /\ m.cur > 0 => m.keys[0] < k
            /\ ~(m.cur > 0 /\ m.keys[lower_bound(m.keys, m.cur, k)] = Junk /\ n.cur = m.cur)
            => /\ Sorted(n)
               /\ \A a, b : Holds(n, a, b) <=> (a = k /\ b = v) \/ (a # k /\ Holds(m, a, b))
<1>f. /\ m = [cur |-> m.cur, max |-> m.max, keys |-> m.keys, vals |-> m.vals]
      /\ m.cur \in Nat /\ m.max \in Nat \ {0} /\ Slots \in Nat /\ m.cur <= Slots /\ m.cur <= m.max
      /\ m.keys \in [Slot -> K \cup {NullKey, Junk}] /\ m.vals \in [Slot -> V \cup {Junk}]
      /\ 0 \in Slot /\ \A i \in Slot : i \in Nat
      /\ \A i \in Slot : i < m.cur => m.keys[i] \in K /\ m.keys[i] \in Nat
  BY MapFields
<1>0. /\ m.cur \in Nat /\ Slots \in Nat /\ 0 \in Slot /\ \A i \in Slot : i \in Nat
      /\ k \in Int /\ \A i \in Slot : i < m.cur => m.keys[i] \in Int /\ m.keys[i] # Junk
  BY <1>f
<1>1. CASE m.cur = 0
  <2>1. n = [m EXCEPT !.cur = 1, !.keys[0] = k, !.vals[0] = v]
    BY <1>1 DEF arraymap_set
  <2>s. 1 <= Slots /\ m.max \in Nat \ {0}
    BY <1>f
  <2>2. /\ n.cur = 1 /\ n.max = m.max /\ m.max \in Nat \ {0} /\ 1 <= Slots
        /\ n.keys = [m.keys EXCEPT ![0] = k] /\ n.vals = [m.vals EXCEPT ![0] = v]
        /\ n = [cur |-> n.cur, max |-> n.max, keys |-> n.keys, vals |-> n.vals]
    <3>1. n = [cur |-> 1, max |-> m.max, keys |-> [m.keys EXCEPT ![0] = k],
               vals |-> [m.vals EXCEPT ![0] = v]]
      BY <1>f, <2>1
    <3> QED
      BY <2>s, <3>1
  <2>3. \A i \in Slot : i < n.cur <=> i = 0
    BY <1>0, <2>2
  <2>4. n.keys[0] = k /\ n.vals[0] = v
    BY <1>0, <2>2 DEF WellFormed
  <2>5. WellFormed(n, K, V)
    <3>1. n.cur \in 0 .. Slots
      BY <2>2
    <3>2. /\ n.keys \in [Slot -> K \cup {NullKey, Junk}] /\ n.vals \in [Slot -> V \cup {Junk}]
          /\ \A i \in Slot : i >= n.cur => n.keys[i] = m.keys[i] /\ i >= m.cur
      BY <1>0, <1>1, <2>2 DEF WellFormed
    <3>3. n.cur <= n.max
      BY <2>2
    <3>4. n \in [cur : 0 .. Slots, max : Nat \ {0},
                keys : [Slot -> K \cup {NullKey, Junk}], vals : [Slot -> V \cup {Junk}]]
      BY <2>2, <3>1, <3>2
    <3>5. \A i \in Slot : i >= n.cur => n.keys[i] \in {NullKey, Junk}
      BY <3>2 DEF WellFormed
    <3>6. \A i, j \in Slot : 0 < i /\ i < j /\ j < n.cur => n.keys[i] < n.keys[j]
      BY <1>0, <2>2
    <3> QED
      BY <2>3, <2>4, <3>3, <3>4, <3>5, <3>6 DEF WellFormed
  <2>6. Sorted(n)
    BY <1>0, <2>2 DEF Sorted
  <2>7. \A a, b : Holds(n, a, b) <=> (a = k /\ b = v)
    BY <1>0, <2>3, <2>4 DEF Holds
  <2>8. \A a, b : ~Holds(m, a, b)
    BY <1>0, <1>1 DEF Holds
  <2> QED
    BY <2>5, <2>6, <2>7, <2>8
<1>2. CASE m.cur > 0
  <2> DEFINE at == lower_bound(m.keys, m.cur, k)
             eq == IF m.keys[at] = Junk THEN GarbageEq ELSE {m.keys[at] = k}
  <2>1. PICK b \in eq : n = IF b THEN Modified(m, at, v) ELSE Inserted(m, at, k, v)
    BY <1>0, <1>2 DEF arraymap_set
  <2>2. /\ at \in Int /\ 1 <= at /\ at <= m.cur
        /\ \A i \in 1 .. m.cur - 1 : (i < at => m.keys[i] < k) /\ (i >= at => m.keys[i] >= k)
    <3>1. \A i \in 1 .. m.cur - 1 : i \in Slot /\ 0 < i /\ i < m.cur
      BY <1>0 DEF Slot
    <3>2. \A i \in 1 .. m.cur - 1 : m.keys[i] \in Int
      BY <1>0, <3>1
    <3>3. \A i, j \in 1 .. m.cur - 1 : i < j => m.keys[i] < m.keys[j]
      BY <3>1 DEF WellFormed
    <3>4. m.cur \in Nat \ {0}
      BY <1>0, <1>2
    <3>5. SortedTail(m.keys, m.cur)
      BY <3>2, <3>3 DEF SortedTail
    <3>6. SplitsTail(m.keys, m.cur, k, at)
      BY <1>0, <3>4, <3>5, LowerBoundSplits
    <3> HIDE DEF at
    <3> QED
      BY <3>6 DEF SplitsTail
  <2>3. at \in Slot
    BY <1>0, <2>2 DEF Slot
  <2> HIDE DEF at
  <2>4. at < m.cur => m.keys[at] # Junk
    BY <1>0, <2>3
  <2>5. CASE b = TRUE
    <3>1. n = Modified(m, at, v)
      BY <2>1, <2>5
    <3>2. at < m.cur => m.keys[at] = k
      BY <2>1, <2>4, <2>5
    <3>3. ~(at < m.cur) => m.keys[at] = Junk
      <4>1. ASSUME ~(at < m.cur) PROVE m.keys[at] \in {NullKey, Junk} /\ m.keys[at] # k
        BY <1>0, <2>3, <4>1 DEF WellFormed
      <4> QED
        BY <2>1, <2>5, <4>1
    <3>4. n.cur = m.cur
      BY <3>1 DEF Modified, WellFormed
    <3> QED
      BY <1>2, <2>3, <3>1, <3>2, <3>3, <3>4, ModifiedMap DEF at
  <2>6. CASE b = FALSE
    <3>1. n = Inserted(m, at, k, v)
      BY <2>1, <2>6
    <3>2. m.keys[at] # Junk => m.keys[at] # k
      BY <2>1, <2>6
    <3>3. \A i \in Slot : 0 < i /\ i < at => m.keys[i] < k
      BY <1>0, <2>2
    <3>4. ASSUME NEW i \in Slot, at <= i, i < m.cur PROVE k < m.keys[i]
      <4>1. m.keys[i] >= k /\ m.keys[i] \in Int /\ at < m.cur
        BY <1>0, <2>2, <3>4
      <4>2. m.keys[at] >= k /\ m.keys[at] \in Int /\ m.keys[at] # k
        BY <1>0, <2>2, <2>3, <2>4, <3>2, <4>1
      <4>3. at < i => m.keys[at] < m.keys[i]
        BY <2>2, <2>3, <3>4 DEF WellFormed
      <4> QED
        BY <1>0, <2>2, <3>4, <4>1, <4>2, <4>3
    <3>5. /\ WellFormed(n, K, V)
          /\ Sorted(m) /\ m.keys[0] < k => Sorted(n)
          /\ \A a, c : Holds(n, a, c) <=> Holds(m, a, c) \/ (a = k /\ c = v)
      BY <2>2, <2>3, <3>1, <3>3, <3>4, InsertedMap
    <3>6. ASSUME m.keys[0] < k, NEW c PROVE ~Holds(m, k, c)
      <4>1. \A i \in Slot : i < m.cur => m.keys[i] # k
        BY <1>0, <2>2, <3>3, <3>4, <3>6
      <4> QED
        BY <4>1 DEF Holds
    <3> QED
      BY <1>2, <3>5, <3>6
  <2>7. b \in BOOLEAN
    BY ArrayMapOpsAssumption
  <2> QED
    BY <2>5, <2>6, <2>7
<1> QED
  BY <1>0, <1>1, <1>2

(* arraymap_del: the map stays well formed and loses at most an entry for   *)
(* the key; a sorted map loses exactly the key.                            *)
LEMMA DelMap ==
  ASSUME NEW K \in SUBSET (Nat \ {NullKey}), NEW V, NEW m, WellFormed(m, K, V), NEW k \in K
  PROVE  LET n == arraymap_del(m, k)
         IN  /\ WellFormed(n, K, V)
             /\ \A a, b : Holds(n, a, b) => Holds(m, a, b)
             /\ Sorted(m) => Sorted(n)
             /\ Sorted(m) => \A a, b : Holds(n, a, b) <=> a # k /\ Holds(m, a, b)
<1> DEFINE n == arraymap_del(m, k)
           idx == binary_search(m.keys, m.cur, k)
           last == m.cur - 1
<1>f. /\ m.cur \in Nat /\ m.max \in Nat \ {0} /\ Slots \in Nat /\ m.cur <= Slots /\ m.cur <= m.max
      /\ m.keys \in [Slot -> K \cup {NullKey, Junk}] /\ m.vals \in [Slot -> V \cup {Junk}]
      /\ 0 \in Slot /\ \A i \in Slot : i \in Nat
      /\ \A i \in Slot : i < m.cur => m.keys[i] \in K /\ m.keys[i] \in Nat
  BY MapFields
<1>k. k \in Int /\ K \subseteq Int
  OBVIOUS
<1>1. idx # -1 => idx \in Slot /\ idx < m.cur /\ m.keys[idx] = k
  BY SearchIndex
<1>2. Sorted(m) => \A i \in Slot : i < m.cur /\ m.keys[i] = k => idx = i
  BY <1>k, SearchIndex
<1>3. n = IF idx = -1 THEN m
          ELSE [cur |-> m.cur - 1, max |-> m.max,
                keys |-> Close(m.keys, idx, m.cur - 1, NullKey),
                vals |-> Close(m.vals, idx, m.cur - 1, NullVal)]
  BY DEF arraymap_del
<1> HIDE DEF n, idx
<1>4. CASE idx = -1
  <2>1. n = m
    BY <1>3, <1>4
  <2>2. ASSUME Sorted(m), NEW a, NEW b, Holds(m, a, b) PROVE a # k
    <3>1. PICK i \in Slot : i < m.cur /\ m.keys[i] = a /\ m.vals[i] = b
      BY <2>2 DEF Holds
    <3>2. i # -1
      BY <1>f
    <3> QED
      BY <1>2, <1>4, <2>2, <3>1, <3>2
  <2> QED
    BY <2>1, <2>2 DEF n
<1>5. CASE idx # -1
  <2>1. /\ n.cur = last /\ n.max = m.max
        /\ n.keys = Close(m.keys, idx, last, NullKey) /\ n.vals = Close(m.vals, idx, last, NullVal)
        /\ n = [cur |-> n.cur, max |-> n.max, keys |-> n.keys, vals |-> n.vals]
    BY <1>3, <1>5
  <2>2. /\ idx \in Slot /\ idx \in Nat /\ last \in Slot /\ last \in Nat /\ idx <= last /\ last < m.cur
        /\ last <= Slots /\ last <= m.max
    BY <1>f, <1>1, <1>5 DEF Slot
  <2>3. \A i \in Slot : i \in Int /\ (i < last => i + 1 \in Slot /\ i + 1 < m.cur)
    BY <1>f, <2>2 DEF Slot
  <2>4. /\ n.keys \in [Slot -> K \cup {NullKey, Junk}]
        /\ n.keys[last] = NullKey
        /\ \A i \in Slot : i < idx \/ last < i => n.keys[i] = m.keys[i]
        /\ \A i \in Slot : idx <= i /\ i < last => n.keys[i] = m.keys[i + 1]
    <3> DEFINE f == Close(m.keys, idx, last, NullKey)
    <3>1. /\ f \in [Slot -> K \cup {NullKey, Junk}] /\ f[last] = NullKey
          /\ \A i \in Slot : i < idx \/ last < i => f[i] = m.keys[i]
          /\ \A i \in Slot : idx <= i /\ i < last => f[i] = m.keys[i + 1]
      <4> HIDE DEF last
      <4> QED
        BY <1>f, <2>2, <2>3 DEF Close
    <3> HIDE DEF f
    <3> QED
      BY <2>1, <3>1 DEF f
  <2>5. /\ n.vals \in [Slot -> V \cup {Junk}]
        /\ \A i \in Slot : i < idx \/ last < i => n.vals[i] = m.vals[i]
        /\ \A i \in Slot : idx <= i /\ i < last => n.vals[i] = m.vals[i + 1]
    <3> DEFINE f == Close(m.vals, idx, last, NullVal)
    <3>1. /\ f \in [Slot -> V \cup {Junk}]
          /\ \A i \in Slot : i < idx \/ last < i => f[i] = m.vals[i]
          /\ \A i \in Slot : idx <= i /\ i < last => f[i] = m.vals[i + 1]
      <4> HIDE DEF last
      <4> QED
        BY <1>f, <2>2, <2>3 DEF Close, NullVal
    <3> HIDE DEF f
    <3> QED
      BY <2>1, <3>1 DEF f
  <2> HIDE DEF last
  <2>6. ASSUME NEW i \in Slot, i < n.cur
        PROVE  \E j \in Slot : j < m.cur /\ n.keys[i] = m.keys[j] /\ n.vals[i] = m.vals[j]
                               /\ j = IF i < idx THEN i ELSE i + 1
    <3>1. CASE i < idx
      <4>1. i < m.cur
        BY <1>f, <2>2, <3>1
      <4> QED
        BY <2>4, <2>5, <3>1, <4>1
    <3>2. CASE ~(i < idx)
      <4>1. idx <= i /\ i < last
        BY <2>1, <2>2, <2>3, <2>6, <3>2
      <4> QED
        BY <2>3, <2>4, <2>5, <3>2, <4>1
    <3> QED
      BY <3>1, <3>2
  <2>7. ASSUME NEW i \in Slot, NEW j \in Slot, i < j, j < n.cur, 0 < i \/ Sorted(m)
        PROVE  n.keys[i] < n.keys[j]
    <3>1. i < n.cur
      BY <1>f, <2>1, <2>2, <2>7
    <3>2. PICK p \in Slot : p < m.cur /\ n.keys[i] = m.keys[p] /\ p = IF i < idx THEN i ELSE i + 1
      BY <2>6, <3>1
    <3>3. PICK q \in Slot : q < m.cur /\ n.keys[j] = m.keys[q] /\ q = IF j < idx THEN j ELSE j + 1
      BY <2>6, <2>7
    <3>4. p < q /\ (0 < i => 0 < p)
      BY <1>f, <2>2, <2>7, <3>2, <3>3
    <3>5. m.keys[p] < m.keys[q]
      BY <2>7, <3>3, <3>4 DEF WellFormed, Sorted
    <3> QED
      BY <3>2, <3>3, <3>5
  <2>8. WellFormed(n, K, V)
    <3>1. n \in [cur : 0 .. Slots, max : Nat \ {0},
                keys : [Slot -> K \cup {NullKey, Junk}], vals : [Slot -> V \cup {Junk}]]
      <4>1. n.cur \in 0 .. Slots /\ n.max \in Nat \ {0}
        BY <1>f, <2>1, <2>2
      <4> QED
        BY <2>1, <2>4, <2>5, <4>1
    <3>2. n.cur <= n.max
      BY <2>1, <2>2
    <3>3. \A i \in Slot : i < n.cur => n.keys[i] \in K /\ n.vals[i] \in V
      BY <2>6 DEF WellFormed
    <3>4. ASSUME NEW i \in Slot, i >= n.cur PROVE n.keys[i] \in {NullKey, Junk}
      <4>1. i = last \/ (last < i /\ i >= m.cur)
        BY <1>f, <2>1, <2>2, <3>4 DEF last
      <4> QED
        BY <2>4, <4>1 DEF WellFormed
    <3> QED
      BY <2>7, <3>1, <3>2, <3>3, <3>4 DEF WellFormed
  <2>9. Sorted(m) => Sorted(n)
    BY <2>7 DEF Sorted
  <2>10. \A a, b : Holds(n, a, b) => Holds(m, a, b)
    BY <2>6 DEF Holds
  <2>11. ASSUME Sorted(m), NEW b PROVE ~Holds(n, k, b)
    <3>1. SUFFICES ASSUME NEW i \in Slot, i < n.cur, n.keys[i] = k PROVE FALSE
      BY DEF Holds
    <3>2. PICK j \in Slot : j < m.cur /\ n.keys[i] = m.keys[j] /\ j = IF i < idx THEN i ELSE i + 1
      BY <2>6, <3>1
    <3> QED
      BY <1>f, <1>2, <2>2, <2>11, <3>1, <3>2
  <2>12. ASSUME NEW a, NEW b, a # k, Holds(m, a, b) PROVE Holds(n, a, b)
    <3>1. PICK i \in Slot : i < m.cur /\ m.keys[i] = a /\ m.vals[i] = b
      BY <2>12 DEF Holds
    <3>2. i # idx
      BY <1>1, <1>5, <2>12, <3>1
    <3>3. CASE i < idx
      <4>1. i < n.cur
        BY <1>f, <2>1, <2>2, <3>3
      <4> QED
        BY <2>4, <2>5, <3>1, <3>3, <4>1 DEF Holds
    <3>4. CASE idx < i
      <4>1. i - 1 \in Slot /\ idx <= i - 1 /\ i - 1 < last /\ (i - 1) + 1 = i /\ i - 1 < n.cur
        BY <1>f, <2>1, <2>2, <3>1, <3>4 DEF last, Slot
      <4>2. n.keys[i - 1] = a /\ n.vals[i - 1] = b
        BY <2>4, <2>5, <3>1, <4>1
      <4> QED
        BY <4>1, <4>2 DEF Holds
    <3> QED
      BY <1>f, <2>2, <3>2, <3>3, <3>4
  <2> QED
    BY <2>8, <2>9, <2>10, <2>11, <2>12 DEF n
<1> QED
  BY <1>4, <1>5
=============================================================================
