------------------------ MODULE PatchDeliveryProofs ------------------------
(***************************************************************************)
(* Proofs, for any number of connections, tasks, packets and commands, of  *)
(* the safety properties of PatchDelivery.                                 *)
(***************************************************************************)
EXTENDS PatchDelivery, WellFoundedInduction, TLAPS

Elems(s) == {s[i] : i \in 1 .. Len(s)}
From(s, k) == SubSeq(s, k + 1, Len(s))
Beat == <<HEARTBEAT>>

Reading == {"cmd", "dispatch", "len", "alloc", "sign", "pkt"}
Serving == Reading \cup {"wait"}
Looping == {"loop", "answer", "send"}

(* The operator's packet is one whose length fits in two bytes. *)
Fits(p) == p \in Packet /\ SignLen + Len(p) < Base * Base

(* Which connections the two programs know of. *)
KnownInv ==
  /\ dev \cup srv \cup lost \cup should_close \subseteq used
  /\ Elems(conns) \cup Elems(backlog) \cup Elems(todo) \subseteq used
  /\ \A c \in Conn \ used :
       down[c] = <<>> /\ up[c] = <<>> /\ sent[c] = <<>> /\ delivered[c] = <<>>
  /\ \A t \in Task : task[t].pc \in Serving => sock \in used

(* The dictionary, the backlog and the iteration over the dictionary. *)
ServerInv ==
  /\ spc # "exit" => Elems(conns) \cup Elems(backlog) \subseteq srv
  /\ Elems(conns) \cap Elems(backlog) = {}
  /\ \A i, j \in 1 .. Len(backlog) : i # j => backlog[i] # backlog[j]
  /\ spc \in Looping => should_close \cup Elems(todo) \subseteq Elems(conns)
  /\ spc \in {"answer", "send"} => todo # <<>>
  /\ packet # <<>> => Fits(packet)
  /\ spc = "send" => packet # <<>>

(* One task at a time uses the socket, and the status is its state. *)
TaskInv ==
  ~overlap =>
    /\ \A t, u \in Task : Alive(t) /\ Alive(u) => t = u
    /\ dev = IF status = "RUNNING" THEN {sock} ELSE {}
    /\ \A t \in Task : /\ task[t].pc \in Reading => status = "RUNNING"
                       /\ task[t].pc = "connect" => status = "WAIT_FOR_INIT"

(* A length that was received whole has room for the signature. *)
LengthInv ==
  /\ Clean => \A t \in Task : task[t].pc # "undefined"
                              /\ (task[t].pc = "alloc" => byte2int(buf, 2) > SignLen)
  /\ \A t \in Task : task[t].pc \in {"sign", "pkt"} => task[t].len # 0

(* The device is between two commands and has read everything, but for a   *)
(* heartbeat h.                                                            *)
Ready(t, c, h) ==
  /\ task[t].pc \in {"wait", "cmd"}
  /\ delivered[c] = sent[c] /\ down[c] = h

(* The device has read a heartbeat. *)
Beating(t, c) ==
  /\ task[t].pc = "dispatch" /\ buf[1] = HEARTBEAT
  /\ delivered[c] = sent[c] /\ down[c] = <<>>

(* How much of the frame of p the device has read, and what it remembers.  *)
ReadOf(t, p) ==
  CASE task[t].pc \in {"wait", "cmd"} -> 0
    [] task[t].pc \in {"dispatch", "len"} -> 1
    [] task[t].pc \in {"alloc", "sign"} -> 3
    [] OTHER -> 3 + SignLen

Loading(t, c, p, h) ==
  /\ task[t].pc \in Serving
  /\ Fits(p) /\ sent[c] = Append(delivered[c], p)
  /\ down[c] = From(Frame(p) \o h, ReadOf(t, p))
  /\ task[t].pc = "dispatch" => buf[1] = LOAD
  /\ task[t].pc = "alloc" => byte2int(buf, 2) = SignLen + Len(p)
  /\ task[t].pc \in {"sign", "pkt"} => task[t].len = Len(p)

Parsed(t, c, h) ==
  \/ Ready(t, c, h)
  \/ h = <<>> /\ Beating(t, c)
  \/ \E p \in Packet : Loading(t, c, p, h)

(* The exchange of heartbeats: at most one is on its way, to the device or *)
(* back, and only while the server waits for it.                           *)
Exchange(t, c, h) ==
  IF spc = "answer" /\ Head(todo) = c
  THEN \/ h = Beat /\ up[c] = <<>>
       \/ h = <<>> /\ up[c] = <<>> /\ Beating(t, c)
       \/ h = <<>> /\ up[c] = Beat /\ Ready(t, c, <<>>)
  ELSE /\ h = <<>> /\ up[c] = <<>> /\ ~Beating(t, c)
       /\ spc = "send" /\ Head(todo) = c => Ready(t, c, <<>>)

(* What is on its way over the connection that the device serves. *)
LinkInv ==
  Clean /\ status = "RUNNING" /\ sock \notin lost =>
    \E t \in Task, h \in {<<>>, Beat} :
      Parsed(t, sock, h) /\ (sock \in srv => Exchange(t, sock, h))

(* What was delivered, and which devices are about to be given up. *)
DeliveryInv ==
  Clean =>
    /\ \A c \in Conn : /\ Len(delivered[c]) <= Len(sent[c])
                       /\ \A i \in 1 .. Len(delivered[c]) : delivered[c][i] = sent[c][i]
    /\ spc \in Looping => \A c \in should_close : ~Connected(c)

IInv ==
  TypeOK /\ KnownInv /\ ServerInv /\ TaskInv /\ LengthInv /\ LinkInv /\ DeliveryInv
-----------------------------------------------------------------------------
(* A set of numbers that contains 0 and successors is all of them. *)
LEMMA SetInduction ==
  ASSUME NEW T, 0 \in T, \A n \in Nat : n \in T => n + 1 \in T
  PROVE  \A n \in Nat : n \in T
<1> DEFINE S == Nat \ T
<1> SUFFICES ASSUME S # {} PROVE FALSE
  BY Zenon
<1>1. PICK x \in S : \A y \in S : ~(<<y, x>> \in OpToRel(<, Nat))
  BY Zenon, NatLessThanWellFounded, WFMin
<1>2. OpToRel(<, Nat) = {ss \in Nat \X Nat : ss[1] < ss[2]}
  BY Zenon DEF OpToRel
<1>3. \A y \in S : <<y, x>> \notin {ss \in Nat \X Nat : ss[1] < ss[2]}
  BY <1>1, <1>2, Zenon
<1>4. x # 0 /\ x - 1 \in Nat
  OBVIOUS
<1>5. x - 1 \notin S
  <2>1. <<x - 1, x>> \in {ss \in Nat \X Nat : ss[1] < ss[2]}
    BY <1>4
  <2> QED
    BY <1>3, <2>1, Zenon
<1>6. (x - 1) + 1 = x
  BY <1>4
<1> QED
  BY Zenon, <1>4, <1>5, <1>6

(* The empty sequence is a sequence of anything, and the only one of length 0. *)
LEMMA EmptySeq ==
  ASSUME NEW X
  PROVE  <<>> \in Seq(X) /\ Len(<<>>) = 0 /\ \A s \in Seq(X) : s # <<>> => Len(s) \in Nat \ {0}
OBVIOUS

(* A sequence is a function on the interval its length names. *)
LEMMA LenProperties ==
  ASSUME NEW X, NEW s \in Seq(X)
  PROVE  Len(s) \in Nat /\ s \in [1 .. Len(s) -> X] /\ DOMAIN s = 1 .. Len(s)
OBVIOUS

(* What a sequence holds. *)
LEMMA ElementOfSeq ==
  ASSUME NEW X, NEW s \in Seq(X), NEW i \in 1 .. Len(s)
  PROVE  s[i] \in X
OBVIOUS

(* A function on an initial interval is a sequence. *)
LEMMA FunctionSeq ==
  ASSUME NEW X, NEW n \in Nat, NEW f \in [1 .. n -> X]
  PROVE  f \in Seq(X) /\ Len(f) = n
OBVIOUS

(* A sequence over a set is one over every larger set. *)
LEMMA SeqMonotonic ==
  ASSUME NEW X, NEW Y, X \subseteq Y, NEW s \in Seq(X)
  PROVE  s \in Seq(Y)
<1>1. Len(s) \in Nat /\ s \in [1 .. Len(s) -> Y]
  OBVIOUS
<1> QED
  BY Zenon, <1>1, FunctionSeq

(* Sequences with the same elements in the same places are one. *)
LEMMA SeqEqual ==
  ASSUME NEW X, NEW s \in Seq(X), NEW t \in Seq(X),
         Len(s) = Len(t) /\ \A i \in 1 .. Len(s) : s[i] = t[i]
  PROVE  s = t
OBVIOUS

(* One more element at the end. *)
LEMMA AppendProperties ==
  ASSUME NEW X, NEW s \in Seq(X), NEW x \in X
  PROVE  LET t == Append(s, x)
         IN  /\ t \in Seq(X) /\ t # <<>> /\ Len(t) = Len(s) + 1
             /\ \A i \in 1 .. Len(s) : t[i] = s[i]
             /\ t[Len(s) + 1] = x
OBVIOUS

(* The first element and the others. *)
LEMMA HeadTailProperties ==
  ASSUME NEW X, NEW s \in Seq(X), s # <<>>
  PROVE  /\ Head(s) \in X /\ Tail(s) \in Seq(X) /\ Len(Tail(s)) = Len(s) - 1
         /\ \A i \in 1 .. Len(Tail(s)) : Tail(s)[i] = s[i + 1]
OBVIOUS

(* The slice of a sequence from k to n. *)
LEMMA SubSeqProperties ==
  ASSUME NEW X, NEW s \in Seq(X), NEW k \in 1 .. Len(s) + 1, NEW n \in k - 1 .. Len(s)
  PROVE  /\ SubSeq(s, k, n) \in Seq(X) /\ Len(SubSeq(s, k, n)) = n - k + 1
         /\ \A i \in 1 .. n - k + 1 : SubSeq(s, k, n)[i] = s[k + i - 1]
OBVIOUS

(* One sequence after another. *)
LEMMA ConcatProperties ==
  ASSUME NEW X, NEW s \in Seq(X), NEW t \in Seq(X)
  PROVE  /\ s \o t \in Seq(X) /\ Len(s \o t) = Len(s) + Len(t)
         /\ \A i \in 1 .. Len(s) + Len(t) :
              (s \o t)[i] = IF i <= Len(s) THEN s[i] ELSE t[i - Len(s)]
OBVIOUS

(* The empty sequence adds nothing. *)
LEMMA ConcatEmptySeq ==
  ASSUME NEW X, NEW s \in Seq(X)
  PROVE  s \o <<>> = s /\ <<>> \o s = s
<1>1. <<>> \in Seq(X) /\ Len(<<>>) = 0 /\ Len(s) \in Nat
  BY EmptySeq
<1>2. /\ s \o <<>> \in Seq(X) /\ Len(s \o <<>>) = Len(s)
      /\ \A i \in 1 .. Len(s) : (s \o <<>>)[i] = s[i]
  BY <1>1, ConcatProperties
<1>3. /\ <<>> \o s \in Seq(X) /\ Len(<<>> \o s) = Len(s)
      /\ \A i \in 1 .. Len(s) : (<<>> \o s)[i] = s[i]
  BY <1>1, ConcatProperties
<1> QED
  BY Zenon, <1>2, <1>3, SeqEqual

(* The members of the sequences the server builds. *)
LEMMA ElemsEmpty == Elems(<<>>) = {}
<1>1. Len(<<>>) = 0
  BY Zenon, EmptySeq
<1> QED
  BY <1>1 DEF Elems

(* The elements of a sequence have its type. *)
LEMMA ElemsType ==
  ASSUME NEW X, NEW s \in Seq(X)
  PROVE  Elems(s) \subseteq X
BY Zenon, ElementOfSeq DEF Elems

(* The elements after an append. *)
LEMMA ElemsAppend ==
  ASSUME NEW X, NEW s \in Seq(X), NEW x \in X
  PROVE  Elems(Append(s, x)) = Elems(s) \cup {x}
<1> DEFINE t == Append(s, x)
<1>1. /\ Len(s) \in Nat /\ Len(t) = Len(s) + 1 /\ t[Len(s) + 1] = x
      /\ \A i \in 1 .. Len(s) : t[i] = s[i]
  BY AppendProperties, LenProperties
<1> HIDE DEF t
<1>2. \A i \in 1 .. Len(t) : t[i] \in Elems(s) \cup {x}
  BY <1>1 DEF Elems
<1>3. \A i \in 1 .. Len(s) : s[i] \in Elems(t)
  BY <1>1 DEF Elems
<1>4. x \in Elems(t)
  BY <1>1 DEF Elems
<1>5. Elems(t) = Elems(s) \cup {x}
  BY Zenon, <1>2, <1>3, <1>4 DEF Elems
<1> QED
  BY Zenon, <1>5 DEF t

(* The head and the elements of the tail. *)
LEMMA ElemsTail ==
  ASSUME NEW X, NEW s \in Seq(X), s # <<>>
  PROVE  Head(s) \in Elems(s) /\ Elems(Tail(s)) \subseteq Elems(s)
<1>1. Len(s) \in Nat \ {0}
  BY Zenon, EmptySeq
<1>2. /\ Len(Tail(s)) = Len(s) - 1
      /\ \A i \in 1 .. Len(Tail(s)) : Tail(s)[i] = s[i + 1]
  BY Zenon, HeadTailProperties
<1>3. Head(s) = s[1]
  BY <1>1
<1>4. Head(s) \in Elems(s)
  BY <1>1, <1>3 DEF Elems
<1>5. ASSUME NEW i \in 1 .. Len(Tail(s)) PROVE Tail(s)[i] \in Elems(s)
  <2>1. i + 1 \in 1 .. Len(s)
    BY <1>1, <1>2
  <2> QED
    BY Zenon, <1>2, <2>1 DEF Elems
<1> QED
  BY Zenon, <1>4, <1>5 DEF Elems

(* What close_client leaves of the dictionary. *)
LEMMA WithoutType ==
  ASSUME NEW X, NEW s \in Seq(X), NEW S
  PROVE  Without(s, S) \in Seq(X \ S)
<1> DEFINE Body(f, i) == IF i = 0 THEN <<>>
                         ELSE IF s[i] \in S THEN f[i - 1] ELSE Append(f[i - 1], s[i])
           kept == CHOOSE f : f = [i \in 0 .. Len(s) |-> Body(f, i)]
           T == {n \in Nat : \E f : f = [i \in 0 .. n |-> Body(f, i)]}
<1>1. Without(s, S) = kept[Len(s)]
  BY Zenon DEF Without
<1>2. 0 \in T
  <2> DEFINE f == [i \in 0 .. 0 |-> <<>>]
  <2>1. f = [i \in 0 .. 0 |-> Body(f, i)]
    OBVIOUS
  <2> HIDE DEF f
  <2> QED
    BY Zenon, <2>1
<1>3. ASSUME NEW n \in Nat, n \in T PROVE n + 1 \in T
  <2>1. PICK f : f = [i \in 0 .. n |-> Body(f, i)]
    BY Zenon, <1>3
  <2> DEFINE g == [i \in 0 .. n + 1 |-> Body(f, i)]
  <2>2. \A i \in 0 .. n : g[i] = f[i]
    <3> DEFINE rhs == [i \in 0 .. n |-> Body(f, i)]
    <3>1. \A i \in 0 .. n : rhs[i] = Body(f, i)
      BY Zenon
    <3>2. \A i \in 0 .. n : f[i] = Body(f, i)
      BY <2>1, <3>1, Zenon
    <3>3. \A i \in 0 .. n + 1 : g[i] = Body(f, i)
      BY Zenon
    <3> HIDE DEF g, Body
    <3> QED
      BY <3>2, <3>3
  <2>3. ASSUME NEW i \in 0 .. n + 1 PROVE Body(f, i) = Body(g, i)
    <3>1. i # 0 => i - 1 \in 0 .. n
      OBVIOUS
    <3> HIDE DEF g
    <3> QED
      BY Zenon, <2>2, <3>1
  <2>4. g = [i \in 0 .. n + 1 |-> Body(g, i)]
    BY Zenon, <2>3
  <2>5. \E h : h = [i \in 0 .. n + 1 |-> Body(h, i)]
    <3> HIDE DEF g
    <3> QED
      BY <2>4, Zenon
  <2>6. n + 1 \in Nat
    OBVIOUS
  <2> QED
    BY <2>5, <2>6, Zenon
<1>4. Len(s) \in T
  <2> HIDE DEF T
  <2>1. \A n \in Nat : n \in T => n + 1 \in T
    BY Zenon, <1>3
  <2>2. \A n \in Nat : n \in T
    BY Zenon, <1>2, <2>1, SetInduction
  <2> QED
    BY Zenon, <2>2, LenProperties
<1>5. kept = [i \in 0 .. Len(s) |-> Body(kept, i)]
  <2>1. \E f : f = [i \in 0 .. Len(s) |-> Body(f, i)]
    BY Zenon, <1>4
  <2> QED
    BY <2>1, Zenon
<1> HIDE DEF kept
<1>6. \A i \in 0 .. Len(s) : kept[i] = Body(kept, i)
  <2> DEFINE rhs == [i \in 0 .. Len(s) |-> Body(kept, i)]
  <2>1. \A i \in 0 .. Len(s) : rhs[i] = Body(kept, i)
    BY Zenon
  <2> QED
    BY <1>5, <2>1, Zenon
<1>7. <<>> \in Seq(X \ S) /\ Len(s) \in Nat
  BY Zenon, EmptySeq, LenProperties
<1> DEFINE U == {n \in Nat : n <= Len(s) => kept[n] \in Seq(X \ S)}
<1>8. 0 \in U
  <2>1. 0 \in 0 .. Len(s)
    BY <1>7
  <2>2. kept[0] = <<>>
    BY Zenon, <1>6, <2>1
  <2> QED
    BY Zenon, <1>7, <2>2
<1>9. ASSUME NEW n \in Nat, n \in U PROVE n + 1 \in U
  <2> SUFFICES ASSUME n + 1 <= Len(s) PROVE kept[n + 1] \in Seq(X \ S)
    OBVIOUS
  <2>1. kept[n] \in Seq(X \ S) /\ n + 1 \in 0 .. Len(s) /\ n + 1 \in 1 .. Len(s) /\ (n + 1) - 1 = n
    BY <1>7, <1>9
  <2>2. kept[n + 1] = IF s[n + 1] \in S THEN kept[n] ELSE Append(kept[n], s[n + 1])
    BY <1>6, <2>1
  <2>3. s[n + 1] \in X
    BY Zenon, <2>1, ElementOfSeq
  <2>4. CASE s[n + 1] \in S
    BY Zenon, <2>1, <2>2, <2>4
  <2>5. CASE s[n + 1] \notin S
    BY <2>1, <2>2, <2>3, <2>5, AppendProperties
  <2> QED
    BY Zenon, <2>4, <2>5
<1>10. Len(s) \in U
  <2> HIDE DEF U
  <2>1. \A n \in Nat : n \in U => n + 1 \in U
    BY Zenon, <1>9
  <2>2. \A n \in Nat : n \in U
    BY Zenon, <1>8, <2>1, SetInduction
  <2> QED
    BY Zenon, <1>7, <2>2
<1> QED
  BY <1>1, <1>7, <1>10

(* close_client removes what it should and adds nothing. *)
LEMMA WithoutElems ==
  ASSUME NEW X, NEW s \in Seq(X), NEW S
  PROVE  Without(s, S) \in Seq(X) /\ Elems(Without(s, S)) \subseteq Elems(s) \ S
<1>1. s \in Seq(Elems(s))
  <2>1. /\ s \in [1 .. Len(s) -> X] /\ Len(s) \in Nat
    BY Zenon, LenProperties
  <2>2. s \in [1 .. Len(s) -> Elems(s)]
    BY Zenon, <2>1 DEF Elems
  <2> QED
    BY Zenon, <2>1, <2>2, FunctionSeq
<1>2. Without(s, S) \in Seq(Elems(s) \ S) /\ Without(s, S) \in Seq(X \ S)
  BY Zenon, <1>1, WithoutType
<1>3. Without(s, S) \in Seq(X)
  BY Zenon, <1>2, SeqMonotonic
<1> QED
  BY Zenon, <1>2, <1>3, ElemsType

(* The rest of a sequence after its first k elements. *)
LEMMA FromType ==
  ASSUME NEW X, NEW s \in Seq(X), NEW k \in 0 .. Len(s)
  PROVE  /\ From(s, k) \in Seq(X) /\ Len(From(s, k)) = Len(s) - k
         /\ \A i \in 1 .. Len(s) - k : From(s, k)[i] = s[k + i]
<1>1. Len(s) \in Nat
  BY Zenon, LenProperties
<1>2. k + 1 \in 1 .. Len(s) + 1 /\ Len(s) \in (k + 1) - 1 .. Len(s)
  BY <1>1
<1>3. /\ From(s, k) \in Seq(X)
      /\ Len(From(s, k)) = Len(s) - (k + 1) + 1
      /\ \A i \in 1 .. Len(s) - (k + 1) + 1 : From(s, k)[i] = s[(k + 1) + i - 1]
  BY <1>2, SubSeqProperties DEF From
<1> QED
  BY <1>1, <1>3

(* Reading k bytes and then n is reading k + n. *)
LEMMA FromFrom ==
  ASSUME NEW X, NEW s \in Seq(X), NEW k \in 0 .. Len(s), NEW n \in 0 .. Len(s) - k
  PROVE  From(From(s, k), n) = From(s, k + n)
<1> DEFINE t == From(s, k)
<1>1. Len(s) \in Nat
  BY Zenon, LenProperties
<1>2. /\ t \in Seq(X) /\ Len(t) = Len(s) - k
      /\ \A i \in 1 .. Len(s) - k : t[i] = s[k + i]
  BY Zenon, FromType
<1>3. k + n \in 0 .. Len(s) /\ n \in 0 .. Len(t)
  BY <1>1, <1>2
<1> HIDE DEF t
<1>4. /\ From(s, k + n) \in Seq(X) /\ Len(From(s, k + n)) = Len(s) - (k + n)
      /\ \A i \in 1 .. Len(s) - (k + n) : From(s, k + n)[i] = s[(k + n) + i]
  BY Zenon, <1>3, FromType
<1>5. /\ From(t, n) \in Seq(X) /\ Len(From(t, n)) = Len(t) - n
      /\ \A i \in 1 .. Len(t) - n : From(t, n)[i] = t[n + i]
  BY <1>2, <1>3, FromType
<1>6. \A i \in 1 .. Len(t) - n : From(t, n)[i] = From(s, k + n)[i]
  BY <1>1, <1>2, <1>4, <1>5
<1>7. From(t, n) = From(s, k + n)
  <2>1. Len(From(t, n)) = Len(From(s, k + n))
    <3>1. /\ Len(s) \in Nat /\ k \in 0 .. Len(s) /\ n \in 0 .. Len(s) - k /\ Len(t) = Len(s) - k
          /\ Len(From(s, k + n)) = Len(s) - (k + n) /\ Len(From(t, n)) = Len(t) - n
      BY Zenon, <1>1, <1>2, <1>4, <1>5
    <3> QED
      BY ONLY <3>1
  <2> QED
    BY Zenon, <1>4, <1>5, <1>6, <2>1, SeqEqual
<1> QED
  BY Zenon, <1>7 DEF t

(* Nothing read yet. *)
LEMMA FromZero ==
  ASSUME NEW X, NEW s \in Seq(X)
  PROVE  From(s, 0) = s
<1>1. Len(s) \in Nat
  BY Zenon, LenProperties
<1>2. /\ From(s, 0) \in Seq(X) /\ Len(From(s, 0)) = Len(s)
      /\ \A i \in 1 .. Len(s) : From(s, 0)[i] = s[i]
  BY <1>1, FromType
<1> QED
  BY Zenon, <1>2, SeqEqual

(* Bytes that are added after the rest of a sequence. *)
LEMMA FromConcat ==
  ASSUME NEW X, NEW s \in Seq(X), NEW u \in Seq(X), NEW k \in 0 .. Len(s)
  PROVE  From(s \o u, k) = From(s, k) \o u
<1> DEFINE t == From(s, k)
           v == s \o u
<1>1. Len(s) \in Nat /\ Len(u) \in Nat
  BY Zenon, LenProperties
<1>2. /\ t \in Seq(X) /\ Len(t) = Len(s) - k
      /\ \A i \in 1 .. Len(s) - k : t[i] = s[k + i]
  BY Zenon, FromType
<1>3. /\ v \in Seq(X) /\ Len(v) = Len(s) + Len(u)
      /\ \A i \in 1 .. Len(s) + Len(u) : v[i] = IF i <= Len(s) THEN s[i] ELSE u[i - Len(s)]
  BY Zenon, ConcatProperties
<1> HIDE DEF t, v
<1>4. /\ t \o u \in Seq(X) /\ Len(t \o u) = Len(t) + Len(u)
      /\ \A i \in 1 .. Len(t) + Len(u) : (t \o u)[i] = IF i <= Len(t) THEN t[i] ELSE u[i - Len(t)]
  BY Zenon, <1>2, ConcatProperties
<1>5. k \in 0 .. Len(v)
  BY <1>1, <1>3
<1>6. /\ From(v, k) \in Seq(X) /\ Len(From(v, k)) = Len(v) - k
      /\ \A i \in 1 .. Len(v) - k : From(v, k)[i] = v[k + i]
  BY ONLY ZenonT(30), <1>3, <1>5, FromType
<1>7. ASSUME NEW i \in 1 .. Len(From(v, k)) PROVE From(v, k)[i] = (t \o u)[i]
  <2>1. i \in 1 .. Len(v) - k /\ i \in 1 .. Len(t) + Len(u) /\ k + i \in 1 .. Len(s) + Len(u)
    BY <1>1, <1>2, <1>3, <1>6
  <2>2. CASE i <= Len(t)
    BY <1>1, <1>2, <1>3, <1>4, <1>6, <2>1, <2>2
  <2>3. CASE ~(i <= Len(t))
    <3>1. (k + i) - Len(s) = i - Len(t) /\ ~(k + i <= Len(s))
      BY <1>1, <1>2, <2>1, <2>3
    <3> QED
      BY Zenon, <1>3, <1>4, <1>6, <2>1, <2>3, <3>1
  <2> QED
    BY Zenon, <2>2, <2>3
<1>8. From(v, k) = t \o u
  <2>1. Len(From(v, k)) = Len(t \o u)
    BY <1>1, <1>2, <1>3, <1>4, <1>6
  <2> QED
    BY Zenon, <1>4, <1>6, <1>7, <2>1, SeqEqual
<1> QED
  BY Zenon, <1>8 DEF t, v
-----------------------------------------------------------------------------
(* The bytes of the protocol. *)
LEMMA Bytes ==
  /\ Beat \in Seq(Byte) /\ Len(Beat) = 1 /\ Beat[1] = HEARTBEAT /\ Beat # <<>>
  /\ Answer = Beat /\ <<>> \in Seq(Byte) /\ Len(<<>>) = 0
  /\ HEARTBEAT # LOAD
<1>1. HEARTBEAT \in Byte
  BY StreamAssumption DEF HEARTBEAT, Byte
<1> QED
  BY <1>1, EmptySeq DEF Beat, Answer, HEARTBEAT, LOAD

(* A length below Base * Base is split into two bytes and put together. *)
LEMMA TwoBytes ==
  ASSUME NEW n \in Nat, n < Base * Base
  PROVE  /\ n \div Base \in Byte /\ n % Base \in Byte
         /\ (n \div Base) * Base + (n % Base) = n
<1> DEFINE b == Base
<1>1. b \in Nat \ {0}
  BY StreamAssumption
<1> HIDE DEF b
<1>2. \A m \in Nat : m < b * b =>
        /\ m \div b \in 0 .. b - 1 /\ m % b \in 0 .. b - 1
        /\ (m \div b) * b + (m % b) = m
  BY <1>1
<1> QED
  BY Zenon, <1>2 DEF b, Byte

(* The frame of a packet that fits. *)
LEMMA FrameFacts ==
  ASSUME NEW p, Fits(p)
  PROVE  /\ p \in Seq(Byte) /\ Len(p) \in Nat \ {0}
         /\ Frame(p) \in Seq(Byte) /\ Len(Frame(p)) = 3 + SignLen + Len(p)
         /\ Frame(p)[1] = LOAD
         /\ Frame(p)[2] * Base + Frame(p)[3] = SignLen + Len(p)
         /\ \A i \in 1 .. Len(p) : Frame(p)[3 + SignLen + i] = p[i]
<1> DEFINE sz == SignLen + Len(p)
           x == <<LOAD, sz \div Base, sz % Base>>
<1>1. p \in Seq(Byte) /\ p # <<>> /\ SignLen + Len(p) < Base * Base
  BY Zenon, PacketAssumption DEF Fits
<1>2. Len(p) \in Nat \ {0}
  BY Zenon, <1>1, EmptySeq
<1>3. SignLen \in Nat \ {0} /\ sz \in Nat
  BY <1>2, StreamAssumption
<1>4. sz \div Base \in Byte /\ sz % Base \in Byte /\ (sz \div Base) * Base + (sz % Base) = sz
  BY Zenon, <1>1, <1>3, TwoBytes
<1>5. LOAD \in Byte /\ Base - 1 \in Byte
  BY StreamAssumption DEF LOAD, Byte
<1>6. x \in Seq(Byte) /\ Len(x) = 3 /\ x[1] = LOAD /\ x[2] = sz \div Base /\ x[3] = sz % Base
  BY <1>4, <1>5
<1>7. Signature \in Seq(Byte) /\ Len(Signature) = SignLen
  <2>1. Signature \in [1 .. SignLen -> Byte]
    BY Zenon, <1>5 DEF Signature
  <2>2. Signature \in Seq(Byte)
    BY Zenon, <1>3, <2>1, FunctionSeq
  <2>3. DOMAIN Signature = 1 .. Len(Signature) /\ Len(Signature) \in Nat
    BY Zenon, <2>2, LenProperties
  <2>4. 1 .. Len(Signature) = 1 .. SignLen
    BY Zenon, <2>1, <2>3
  <2>5. ASSUME NEW n \in Nat, 1 .. n = 1 .. SignLen PROVE n = SignLen
    <3>1. SignLen \in 1 .. n
      BY <1>3, <2>5
    <3>2. n \in 1 .. SignLen
      BY <2>5, <3>1
    <3> QED
      BY <1>3, <3>1, <3>2
  <2> QED
    BY Zenon, <2>2, <2>3, <2>4, <2>5
<1> DEFINE xs == x \o Signature
<1>8. Frame(p) = xs \o p
  BY Zenon DEF Frame
<1> HIDE DEF x, sz
<1>9. /\ xs \in Seq(Byte) /\ Len(xs) = 3 + SignLen
      /\ xs[1] = x[1] /\ xs[2] = x[2] /\ xs[3] = x[3]
  <2>1. /\ xs \in Seq(Byte) /\ Len(xs) = Len(x) + Len(Signature)
        /\ \A i \in 1 .. Len(x) + Len(Signature) :
             xs[i] = IF i <= Len(x) THEN x[i] ELSE Signature[i - Len(x)]
    BY Zenon, <1>6, <1>7, ConcatProperties
  <2> HIDE DEF xs
  <2> QED
    BY <1>3, <1>6, <1>7, <2>1
<1> HIDE DEF xs
<1>10. /\ Frame(p) \in Seq(Byte) /\ Len(Frame(p)) = 3 + SignLen + Len(p)
       /\ \A i \in 1 .. 3 + SignLen + Len(p) :
            Frame(p)[i] = IF i <= 3 + SignLen THEN xs[i] ELSE p[i - (3 + SignLen)]
  <2>1. /\ xs \o p \in Seq(Byte) /\ Len(xs \o p) = Len(xs) + Len(p)
        /\ \A i \in 1 .. Len(xs) + Len(p) :
             (xs \o p)[i] = IF i <= Len(xs) THEN xs[i] ELSE p[i - Len(xs)]
    BY Zenon, <1>1, <1>9, ConcatProperties
  <2>2. Len(xs) + Len(p) = 3 + SignLen + Len(p) /\ Len(xs) = 3 + SignLen
    BY Zenon, <1>2, <1>3, <1>9
  <2> QED
    BY <1>8, <2>1, <2>2, Zenon
<1>11. Frame(p)[1] = x[1] /\ Frame(p)[2] = x[2] /\ Frame(p)[3] = x[3]
  BY <1>2, <1>3, <1>9, <1>10
<1>12. Frame(p)[2] * Base + Frame(p)[3] = SignLen + Len(p)
  BY Zenon, <1>4, <1>6, <1>11 DEF sz
<1>13. ASSUME NEW i \in 1 .. Len(p) PROVE Frame(p)[3 + SignLen + i] = p[i]
  <2>1. /\ 3 + SignLen + i \in 1 .. 3 + SignLen + Len(p) /\ ~(3 + SignLen + i <= 3 + SignLen)
        /\ (3 + SignLen + i) - (3 + SignLen) = i
    BY <1>2, <1>3
  <2> QED
    BY Zenon, <1>10, <2>1
<1> QED
  BY Zenon, <1>1, <1>2, <1>6, <1>10, <1>11, <1>12, <1>13

(* The same of the rest of the frame, followed by a heartbeat or nothing. *)
LEMMA RestFacts ==
  ASSUME NEW p, Fits(p), NEW h \in {<<>>, Beat}, NEW k \in 0 .. 3 + SignLen + Len(p)
  PROVE  /\ From(Frame(p) \o h, k) \in Seq(Byte)
         /\ Len(From(Frame(p) \o h, k)) = (3 + SignLen + Len(p)) - k + Len(h)
         /\ \A i \in 1 .. (3 + SignLen + Len(p)) - k :
              From(Frame(p) \o h, k)[i] = Frame(p)[k + i]
         /\ \A n \in 0 .. (3 + SignLen + Len(p)) - k :
              From(From(Frame(p) \o h, k), n) = From(Frame(p) \o h, k + n)
         /\ From(Frame(p) \o h, 3 + SignLen + Len(p)) = h
<1> DEFINE f == Frame(p)
           n == 3 + SignLen + Len(p)
           x == f \o h
<1>1. /\ f \in Seq(Byte) /\ Len(f) = n /\ n \in Nat /\ h \in Seq(Byte) /\ Len(h) \in Nat
  <2>1. f \in Seq(Byte) /\ Len(f) = n /\ n \in Nat
    BY FrameFacts, StreamAssumption
  <2>2. h \in Seq(Byte) /\ Len(h) \in Nat
    BY Zenon, Bytes, LenProperties
  <2> QED
    BY Zenon, <2>1, <2>2
<1>2. /\ x \in Seq(Byte) /\ Len(x) = n + Len(h)
      /\ \A i \in 1 .. n + Len(h) : x[i] = IF i <= n THEN f[i] ELSE h[i - n]
  <2> HIDE DEF f, n
  <2> QED
    BY Zenon, <1>1, ConcatProperties
<1>3. k \in 0 .. n
  BY Zenon
<1> HIDE DEF f, n
<1>4. From(x, n) = h
  <2>1. n \in 0 .. Len(f)
    BY <1>1
  <2>2. From(x, n) = From(f, n) \o h
    BY Zenon, <1>1, <2>1, FromConcat
  <2>3. From(f, n) \in Seq(Byte) /\ Len(From(f, n)) = 0
    <3>1. From(f, n) \in Seq(Byte) /\ Len(From(f, n)) = Len(f) - n
      BY ONLY Zenon, <1>1, <2>1, FromType
    <3> QED
      BY ONLY <1>1, <3>1
  <2>4. From(f, n) = <<>>
    BY Zenon, <2>3, EmptySeq
  <2> QED
    BY Zenon, <1>1, <2>2, <2>4, ConcatEmptySeq
<1> HIDE DEF x
<1>5. k \in 0 .. Len(x)
  BY <1>1, <1>2, <1>3
<1>6. /\ From(x, k) \in Seq(Byte) /\ Len(From(x, k)) = Len(x) - k
      /\ \A i \in 1 .. Len(x) - k : From(x, k)[i] = x[k + i]
  BY ONLY Zenon, <1>2, <1>5, FromType
<1>7. ASSUME NEW i \in 1 .. n - k PROVE From(x, k)[i] = f[k + i]
  <2>1. i \in 1 .. Len(x) - k /\ k + i \in 1 .. n + Len(h) /\ k + i <= n
    BY <1>1, <1>2, <1>3
  <2> QED
    BY Zenon, <1>2, <1>6, <2>1
<1>8. ASSUME NEW m \in 0 .. n - k PROVE From(From(x, k), m) = From(x, k + m)
  <2>1. m \in 0 .. Len(x) - k
    BY <1>1, <1>2, <1>3
  <2> QED
    BY Zenon, <1>2, <1>5, <2>1, FromFrom
<1>9. Len(From(x, k)) = n - k + Len(h)
  BY <1>1, <1>2, <1>3, <1>6
<1> QED
  BY Zenon, <1>4, <1>6, <1>7, <1>8, <1>9 DEF f, n, x

(* What a receive of n bytes returns and what it leaves. *)
LEMMA ReceiveFacts ==
  ASSUME down \in [Conn -> Seq(Byte)], NEW c \in Conn, NEW n \in Nat, NEW got \in Received(c, n)
  PROVE  /\ got \in Seq(Byte) /\ Len(got) \in Nat /\ Len(got) <= n
         /\ Len(got) \in 0 .. Len(down[c])
         /\ \A i \in 1 .. Len(got) : got[i] = down[c][i]
         /\ From(down[c], Len(got)) \in Seq(Byte)
         /\ got # <<>> => c \in dev /\ c \notin lost
<1> DEFINE d == down[c]
<1>1. d \in Seq(Byte) /\ Len(d) \in Nat
  BY Zenon, LenProperties
<1>2. CASE got = <<>>
  <2>1. got \in Seq(Byte) /\ Len(got) = 0
    BY Zenon, <1>2, EmptySeq
  <2>2. From(d, 0) \in Seq(Byte)
    BY Zenon, <1>1, FromZero
  <2> QED
    BY <1>1, <1>2, <2>1, <2>2
<1>3. CASE got # <<>>
  <2>1. /\ c \in dev /\ c \notin lost /\ d # <<>>
        /\ \E k \in 1 .. IF Len(d) < n THEN Len(d) ELSE n : got = SubSeq(d, 1, k)
    BY Zenon, <1>3 DEF Received
  <2>2. PICK k \in 1 .. IF Len(d) < n THEN Len(d) ELSE n : got = SubSeq(d, 1, k)
    BY Zenon, <2>1
  <2>3. k \in 1 .. Len(d) /\ k <= n
    BY <1>1
  <2>4. 1 \in 1 .. Len(d) + 1 /\ k \in 1 - 1 .. Len(d)
    BY <1>1, <2>3
  <2> HIDE DEF d
  <2>5. got \in Seq(Byte) /\ Len(got) = k /\ \A i \in 1 .. k : got[i] = d[i]
    <3>1. /\ SubSeq(d, 1, k) \in Seq(Byte)
          /\ Len(SubSeq(d, 1, k)) = k - 1 + 1
          /\ \A i \in 1 .. k - 1 + 1 : SubSeq(d, 1, k)[i] = d[1 + i - 1]
      BY <1>1, <2>4, SubSeqProperties
    <3> QED
      BY <2>2, <2>3, <3>1
  <2>6. k \in 0 .. Len(d)
    BY <1>1, <2>3
  <2>7. From(d, k) \in Seq(Byte)
    BY Zenon, <1>1, <2>6, FromType
  <2> QED
    BY <1>1, <2>1, <2>3, <2>5, <2>6, <2>7 DEF d
<1> QED
  BY Zenon, <1>2, <1>3

(* What a receive takes off the stream. *)
LEMMA ConsumeFacts ==
  ASSUME down \in [Conn -> Seq(Byte)], NEW c \in Conn, NEW n \in Nat, NEW got \in Received(c, n),
         Consume(c, got)
  PROVE  /\ down' \in [Conn -> Seq(Byte)] /\ down'[c] = From(down[c], Len(got))
         /\ \A e \in Conn : e # c => down'[e] = down[e]
<1>1. From(down[c], Len(got)) \in Seq(Byte)
  BY Zenon, ReceiveFacts
<1>2. down' = [down EXCEPT ![c] = From(down[c], Len(got))]
  BY Zenon DEF Consume, From
<1> QED
  BY Zenon, <1>1, <1>2

(* The task variable. *)
PcSet == {"none", "connect", "wait", "cmd", "dispatch", "len", "alloc", "sign", "pkt", "undefined"}
TaskType == [Task -> [pc : PcSet, len : 0 .. Base * Base]]

(* A step of a task changes the place of that task only. *)
LEMMA GotoFacts ==
  ASSUME task \in TaskType, NEW t \in Task, NEW x \in PcSet, Goto(t, x)
  PROVE  /\ task' \in TaskType /\ task'[t].pc = x /\ task'[t].len = task[t].len
         /\ \A u \in Task : u # t => task'[u] = task[u]
BY Zenon DEF TaskType, Goto
-----------------------------------------------------------------------------
(* The types, by component. *)
StreamType ==
  /\ down \in [Conn -> Seq(Byte)] /\ up \in [Conn -> Seq(Byte)]
  /\ dev \subseteq Conn /\ srv \subseteq Conn /\ lost \subseteq Conn
  /\ listening \in BOOLEAN /\ backlog \in Seq(Conn)

ClientType ==
  /\ status \in {"WAIT_FOR_INIT", "RUNNING"} /\ sock \in Conn \cup {NoConn}
  /\ buf \in [1 .. 2 -> Byte] /\ task \in TaskType
  /\ delivered \in [Conn -> Seq(Seq(Byte))] /\ used \subseteq Conn

ServerType ==
  /\ conns \in Seq(Conn) /\ todo \in Seq(Conn) /\ should_close \subseteq Conn
  /\ spc \in {"idle", "loop", "answer", "send", "exit"}
  /\ sent \in [Conn -> Seq(Packet)]

(* The three parts are the type invariant. *)
LEMMA Types == TypeOK <=> StreamType /\ ClientType /\ ServerType
BY Zenon DEF TypeOK, StreamType, ClientType, ServerType, TaskType, PcSet

(* The part of the invariant that holds whatever the receives return. *)
BaseInv == StreamType /\ ClientType /\ ServerType /\ KnownInv /\ ServerInv

(* The part holds initially. *)
LEMMA BaseInit == Init => BaseInv
<1> SUFFICES ASSUME Init PROVE BaseInv
  BY Zenon
<1> USE DEF Init, StreamInit, ClientInit, ServerInit
<1>1. \A X : <<>> \in Seq(X)
  BY Zenon, EmptySeq
<1>2. StreamType
  BY Zenon, <1>1 DEF StreamType
<1>3. ClientType
  <2>1. 0 \in Byte /\ 0 \in 0 .. Base * Base
    BY StreamAssumption DEF Byte
  <2>2. buf \in [1 .. 2 -> Byte] /\ task \in TaskType
    BY Zenon, <2>1 DEF TaskType, PcSet
  <2> QED
    BY Zenon, <1>1, <2>2 DEF ClientType
<1>4. ServerType
  BY Zenon, <1>1 DEF ServerType
<1>5. Elems(conns) = {} /\ Elems(backlog) = {} /\ Elems(todo) = {} /\ Len(backlog) = 0
  BY Zenon, ElemsEmpty, EmptySeq
<1>6. KnownInv
  BY Zenon, <1>5 DEF KnownInv, Serving, Reading
<1>7. ServerInv
  BY <1>5 DEF ServerInv, Looping
<1> QED
  BY Zenon, <1>2, <1>3, <1>4, <1>6, <1>7 DEF BaseInv

(* A step of the device that does not connect. *)
ClientFrame ==
  /\ UNCHANGED <<server, sock, used, srv, lost, listener>> /\ dev' \subseteq dev
  /\ down' \in [Conn -> Seq(Byte)] /\ up' \in [Conn -> Seq(Byte)]
  /\ delivered' \in [Conn -> Seq(Seq(Byte))]
  /\ status' \in {"WAIT_FOR_INIT", "RUNNING"} /\ buf' \in [1 .. 2 -> Byte] /\ task' \in TaskType
  /\ \A t \in Task : task'[t].pc \in Serving => task[t].pc \in Serving
  /\ \A c \in Conn \ used :
       down'[c] = down[c] /\ up'[c] = up[c] /\ delivered'[c] = delivered[c]

(* Such a step keeps the part. *)
LEMMA BaseClient ==
  ASSUME BaseInv, ClientFrame
  PROVE  BaseInv'
<1> USE DEF BaseInv, ClientFrame, server, listener
<1>1. StreamType' /\ ClientType' /\ ServerType'
  BY Zenon DEF StreamType, ClientType, ServerType
<1>2. KnownInv'
  BY Zenon DEF KnownInv
<1>3. ServerInv'
  BY Zenon DEF ServerInv
<1> QED
  BY Zenon, <1>1, <1>2, <1>3

(* What a receive into buf stores. *)
LEMMA StoreFacts ==
  ASSUME buf \in [1 .. 2 -> Byte], NEW got \in Seq(Byte), Store(got)
  PROVE  /\ buf' \in [1 .. 2 -> Byte]
         /\ \A i \in 1 .. 2 : buf'[i] = IF i <= Len(got) THEN got[i] ELSE buf[i]
<1>1. Len(got) \in Nat /\ \A i \in 1 .. Len(got) : got[i] \in Byte
  BY Zenon, LenProperties, ElementOfSeq
<1>2. \A i \in 1 .. 2 : i <= Len(got) => got[i] \in Byte
  BY <1>1
<1> QED
  BY Zenon, <1>2 DEF Store

(* A task that serves does so on a connection. *)
LEMMA ServedConn ==
  ASSUME BaseInv, NEW t \in Task, task[t].pc \in Serving
  PROVE  sock \in used /\ sock \in Conn
BY Zenon DEF BaseInv, KnownInv, ClientType

(* The length in the buffer is at most what the type allows. *)
LEMMA LengthType ==
  ASSUME buf \in [1 .. 2 -> Byte]
  PROVE  byte2int(buf, 2) \in 0 .. Base * Base
<1> DEFINE b == Base
           x == buf[1]
           y == buf[2]
<1>1. b \in Nat \ {0}
  BY StreamAssumption
<1>2. x \in 0 .. b - 1 /\ y \in 0 .. b - 1
  BY DEF Byte
<1>3. byte2int(buf, 2) = x * b + y
  BY DEF byte2int
<1> HIDE DEF b, x, y
<1>4. x * b + y \in 0 .. b * b
  BY <1>1, <1>2
<1> QED
  BY Zenon, <1>3, <1>4 DEF b

(* Every step of the device but the connect is such a step. *)
LEMMA ClientFrames ==
  ASSUME BaseInv, NEW t \in Task, UNCHANGED server,
         \/ start_patch_service(t) \/ connect_failed(t)
         \/ check_status(t) \/ receive_cmd(t)
         \/ dispatch_exit(t) \/ dispatch_heartbeat(t) \/ dispatch_other(t)
         \/ receive_len(t) \/ alloc_packet(t) \/ receive_sign(t) \/ receive_packet(t)
  PROVE  ClientFrame
<1>t. /\ down \in [Conn -> Seq(Byte)] /\ up \in [Conn -> Seq(Byte)]
      /\ delivered \in [Conn -> Seq(Seq(Byte))] /\ used \subseteq Conn
      /\ status \in {"WAIT_FOR_INIT", "RUNNING"} /\ buf \in [1 .. 2 -> Byte] /\ task \in TaskType
  BY Zenon DEF BaseInv, StreamType, ClientType
<1>g. ASSUME NEW x \in PcSet, Goto(t, x), x \in Serving => task[t].pc \in Serving
      PROVE  task' \in TaskType /\ \A u \in Task : task'[u].pc \in Serving => task[u].pc \in Serving
  BY <1>t, <1>g, GotoFacts
<1> USE DEF streams, listener, Serving, Reading
<1>1. CASE start_patch_service(t) \/ connect_failed(t) \/ check_status(t) \/ dispatch_other(t)
  <2>1. PICK x \in PcSet : Goto(t, x) /\ (x \in Serving => task[t].pc \in Serving)
    BY Zenon, <1>1 DEF start_patch_service, connect_failed, check_status, dispatch_other, PcSet
  <2>2. UNCHANGED <<status, sock, buf, delivered, used, streams>>
    BY Zenon, <1>1 DEF start_patch_service, connect_failed, check_status, dispatch_other
  <2> QED
    BY Zenon, <1>t, <1>g, <2>1, <2>2 DEF ClientFrame
<1>2. CASE receive_cmd(t)
  <2>1. task[t].pc \in Serving /\ sock \in used /\ sock \in Conn
    BY Zenon, <1>2, ServedConn DEF receive_cmd
  <2>2. UNCHANGED <<up, srv, lost, listener, sock, delivered, used>>
    BY Zenon, <1>2 DEF receive_cmd
  <2>3. PICK got \in Received(sock, 1) :
          IF Len(got) # 1
          THEN dis_connect /\ Goto(t, "none") /\ UNCHANGED <<down, buf>>
          ELSE /\ Consume(sock, got) /\ Store(got) /\ Goto(t, "dispatch")
               /\ UNCHANGED <<dev, status>>
    BY Zenon, <1>2 DEF receive_cmd
  <2>4. CASE dis_connect /\ Goto(t, "none") /\ UNCHANGED <<down, buf>>
    <3>1. "none" \in PcSet /\ ("none" \in Serving => task[t].pc \in Serving)
      BY Zenon DEF PcSet
    <3>2. dev' \subseteq dev /\ status' = "WAIT_FOR_INIT"
      BY Zenon, <2>4 DEF dis_connect
    <3> QED
      BY Zenon, <1>t, <1>g, <2>2, <2>4, <3>1, <3>2 DEF ClientFrame
  <2>5. CASE /\ Consume(sock, got) /\ Store(got) /\ Goto(t, "dispatch")
             /\ UNCHANGED <<dev, status>>
    <3>1. "dispatch" \in PcSet
      BY Zenon DEF PcSet
    <3>2. got \in Seq(Byte)
      BY Zenon, <1>t, <2>1, ReceiveFacts
    <3>3. buf' \in [1 .. 2 -> Byte]
      BY Zenon, <1>t, <2>5, <3>2, StoreFacts
    <3>4. down' \in [Conn -> Seq(Byte)] /\ \A e \in Conn : e # sock => down'[e] = down[e]
      BY <1>t, <2>1, <2>5, ConsumeFacts
    <3> QED
      BY Zenon, <1>t, <1>g, <2>1, <2>2, <2>5, <3>1, <3>3, <3>4 DEF ClientFrame
  <2> QED
    BY Zenon, <2>3, <2>4, <2>5
<1>3. CASE dispatch_exit(t)
  <2>1. "wait" \in PcSet /\ task[t].pc \in Serving /\ Goto(t, "wait")
    BY Zenon, <1>3 DEF dispatch_exit, PcSet
  <2>2. dev' \subseteq dev /\ status' = "WAIT_FOR_INIT"
    BY Zenon, <1>3 DEF dispatch_exit, dis_connect
  <2> QED
    BY Zenon, <1>3, <1>t, <1>g, <2>1, <2>2 DEF ClientFrame, dispatch_exit
<1>4. CASE dispatch_heartbeat(t)
  <2>1. "wait" \in PcSet /\ task[t].pc \in Serving /\ Goto(t, "wait")
    BY Zenon, <1>4 DEF dispatch_heartbeat, PcSet
  <2>2. sock \in used /\ sock \in Conn
    BY Zenon, <2>1, ServedConn
  <2>3. dev' \subseteq dev /\ status' \in {"WAIT_FOR_INIT", "RUNNING"}
    BY Zenon, <1>4 DEF dispatch_heartbeat
  <2>4. up' = up \/ up' = [up EXCEPT ![sock] = @ \o Answer]
    BY <1>4 DEF dispatch_heartbeat
  <2>5. up[sock] \o Answer \in Seq(Byte)
    BY <1>t, <2>2, Bytes, ConcatProperties
  <2>6. up' \in [Conn -> Seq(Byte)] /\ \A e \in Conn : e # sock => up'[e] = up[e]
    BY Zenon, <1>t, <2>2, <2>4, <2>5
  <2> QED
    BY Zenon, <1>4, <1>t, <1>g, <2>1, <2>2, <2>3, <2>6 DEF ClientFrame, dispatch_heartbeat
<1>5. CASE receive_len(t)
  <2>1. "alloc" \in PcSet /\ task[t].pc \in Serving /\ Goto(t, "alloc")
    BY Zenon, <1>5 DEF receive_len, PcSet
  <2>2. sock \in used /\ sock \in Conn
    BY Zenon, <2>1, ServedConn
  <2>3. PICK got \in Received(sock, 2) : Consume(sock, got) /\ Store(got)
    BY Zenon, <1>5 DEF receive_len
  <2>4. got \in Seq(Byte)
    BY Zenon, <1>t, <2>2, ReceiveFacts
  <2>5. buf' \in [1 .. 2 -> Byte]
    BY Zenon, <1>t, <2>3, <2>4, StoreFacts
  <2>6. down' \in [Conn -> Seq(Byte)] /\ \A e \in Conn : e # sock => down'[e] = down[e]
    BY Zenon, <1>t, <2>2, <2>3, ConsumeFacts
  <2> QED
    BY <1>5, <1>t, <1>g, <2>1, <2>2, <2>5, <2>6 DEF ClientFrame, receive_len
<1>6. CASE alloc_packet(t)
  <2> DEFINE len == byte2int(buf, 2)
             r == IF len <= SignLen THEN [pc |-> "undefined", len |-> 0]
                  ELSE [pc |-> "sign", len |-> len - SignLen]
  <2>1. task[t].pc \in Serving /\ task' = [task EXCEPT ![t] = r]
    BY Zenon, <1>6 DEF alloc_packet
  <2>2. len \in 0 .. Base * Base /\ SignLen \in Nat
    BY Zenon, <1>t, LengthType, StreamAssumption
  <2> HIDE DEF len
  <2>3. r \in [pc : PcSet, len : 0 .. Base * Base]
    BY <2>2, StreamAssumption DEF PcSet
  <2> HIDE DEF r
  <2>4. task' \in TaskType /\ \A u \in Task : task'[u].pc \in Serving => task[u].pc \in Serving
    BY Zenon, <1>t, <2>1, <2>3 DEF TaskType
  <2>5. UNCHANGED <<status, sock, buf, delivered, used, streams>>
    BY Zenon, <1>6 DEF alloc_packet
  <2> QED
    BY Zenon, <1>t, <2>4, <2>5 DEF ClientFrame
<1>7. CASE receive_sign(t)
  <2>1. "pkt" \in PcSet /\ task[t].pc \in Serving /\ Goto(t, "pkt")
    BY Zenon, <1>7 DEF receive_sign, PcSet
  <2>2. sock \in used /\ sock \in Conn /\ SignLen \in Nat
    BY Zenon, <2>1, ServedConn, StreamAssumption
  <2>3. PICK got \in Received(sock, SignLen) : Consume(sock, got)
    BY Zenon, <1>7 DEF receive_sign
  <2>4. down' \in [Conn -> Seq(Byte)] /\ \A e \in Conn : e # sock => down'[e] = down[e]
    BY Zenon, <1>t, <2>2, <2>3, ConsumeFacts
  <2> QED
    BY Zenon, <1>7, <1>t, <1>g, <2>1, <2>2, <2>4 DEF ClientFrame, receive_sign
<1>8. CASE receive_packet(t)
  <2>1. "wait" \in PcSet /\ task[t].pc \in Serving /\ Goto(t, "wait")
    BY Zenon, <1>8 DEF receive_packet, PcSet
  <2>2. sock \in used /\ sock \in Conn /\ task[t].len \in Nat
    BY <1>t, <2>1, ServedConn DEF TaskType
  <2>3. PICK got \in Received(sock, task[t].len) :
          Consume(sock, got) /\ delivered' = [delivered EXCEPT ![sock] = Append(@, got)]
    BY Zenon, <1>8 DEF receive_packet
  <2>4. down' \in [Conn -> Seq(Byte)] /\ \A e \in Conn : e # sock => down'[e] = down[e]
    BY Zenon, <1>t, <2>2, <2>3, ConsumeFacts
  <2>5. got \in Seq(Byte)
    BY Zenon, <1>t, <2>2, ReceiveFacts
  <2>6. Append(delivered[sock], got) \in Seq(Seq(Byte))
    BY Zenon, <1>t, <2>2, <2>5, AppendProperties
  <2>7. /\ delivered' \in [Conn -> Seq(Seq(Byte))]
        /\ \A e \in Conn : e # sock => delivered'[e] = delivered[e]
    BY Zenon, <1>t, <2>2, <2>3, <2>6
  <2> QED
    BY Zenon, <1>8, <1>t, <1>g, <2>1, <2>2, <2>4, <2>7 DEF ClientFrame, receive_packet
<1> QED
  BY Zenon, <1>1, <1>2, <1>3, <1>4, <1>5, <1>6, <1>7, <1>8

(* A connect uses a new connection. *)
LEMMA BaseConnect ==
  ASSUME BaseInv, NEW t \in Task, NEW c \in Conn, UNCHANGED server, setup_connect(t, c)
  PROVE  BaseInv'
<1> USE DEF BaseInv, server
<1>1. /\ c \notin used /\ dev' = dev \cup {c} /\ srv' = srv \cup {c} /\ used' = used \cup {c}
      /\ backlog' = Append(backlog, c) /\ sock' = c /\ status' = "RUNNING" /\ Goto(t, "wait")
      /\ UNCHANGED <<down, up, lost, listening, buf, delivered, cut, overlap>>
  BY Zenon DEF setup_connect
<1>2. task' \in TaskType
  BY Zenon, <1>1, GotoFacts DEF ClientType, PcSet
<1>3. /\ backlog' \in Seq(Conn) /\ Elems(backlog') = Elems(backlog) \cup {c}
      /\ Len(backlog) \in Nat /\ Len(backlog') = Len(backlog) + 1 /\ backlog'[Len(backlog) + 1] = c
      /\ \A i \in 1 .. Len(backlog) : backlog'[i] = backlog[i] /\ backlog[i] \in Elems(backlog)
  BY SMTT(30), <1>1, ElemsAppend, AppendProperties, LenProperties DEF StreamType, Elems
<1>4. StreamType' /\ ClientType' /\ ServerType'
  BY Zenon, <1>1, <1>2, <1>3 DEF StreamType, ClientType, ServerType
<1>5. c \notin Elems(backlog) \cup Elems(conns)
  BY Zenon, <1>1 DEF KnownInv
<1>6. KnownInv'
  BY Zenon, <1>1, <1>3 DEF KnownInv
<1>7. ServerInv'
  <2>1. \A i, j \in 1 .. Len(backlog') : i # j => backlog'[i] # backlog'[j]
    BY <1>3, <1>5 DEF ServerInv
  <2> QED
    BY <1>1, <1>3, <1>5, <2>1 DEF ServerInv
<1> QED
  BY Zenon, <1>4, <1>6, <1>7

(* A step of the server inside the iteration over the connections. *)
LoopFrame ==
  /\ UNCHANGED <<client, conns, packet, dev, srv, lost, listener>>
  /\ spc \in Looping /\ spc' \in Looping /\ todo # <<>>
  /\ todo' \in {todo, Tail(todo)} /\ (spc' \in {"answer", "send"} => todo' = todo)
  /\ should_close' \in {should_close, should_close \cup {Head(todo)}}
  /\ spc' = "send" => packet # <<>>
  /\ down' \in [Conn -> Seq(Byte)] /\ up' \in [Conn -> Seq(Byte)] /\ sent' \in [Conn -> Seq(Packet)]
  /\ \A c \in Conn : c # Head(todo) =>
       down'[c] = down[c] /\ up'[c] = up[c] /\ sent'[c] = sent[c]

(* The connection that the iteration is at. *)
LEMMA TodoFacts ==
  ASSUME BaseInv, todo # <<>>
  PROVE  /\ Head(todo) \in Conn /\ Head(todo) \in used
         /\ Tail(todo) \in Seq(Conn) /\ Elems(Tail(todo)) \subseteq Elems(todo)
         /\ Head(todo) \in Elems(todo)
         /\ spc \in Looping => Head(todo) \in Elems(conns) /\ Head(todo) \in srv
<1>1. todo \in Seq(Conn)
  BY Zenon DEF BaseInv, ServerType
<1>2. Head(todo) \in Elems(todo) /\ Elems(Tail(todo)) \subseteq Elems(todo)
  BY Zenon, <1>1, ElemsTail
<1>3. Head(todo) \in Conn /\ Tail(todo) \in Seq(Conn)
  BY Zenon, <1>1, HeadTailProperties
<1>4. Elems(todo) \subseteq used
  BY Zenon DEF BaseInv, KnownInv
<1>5. spc \in Looping => Elems(todo) \subseteq Elems(conns) /\ Elems(conns) \subseteq srv
  BY Zenon DEF BaseInv, ServerInv, Looping
<1> QED
  BY Zenon, <1>2, <1>3, <1>4, <1>5

(* Such a step keeps the part. *)
LEMMA BaseLoop ==
  ASSUME BaseInv, LoopFrame
  PROVE  BaseInv'
<1> DEFINE h == Head(todo)
<1>1. /\ h \in Conn /\ h \in used /\ Tail(todo) \in Seq(Conn)
      /\ Elems(Tail(todo)) \subseteq Elems(todo) /\ h \in Elems(conns)
  BY Zenon, TodoFacts DEF LoopFrame
<1>2. Elems(todo') \subseteq Elems(todo) /\ todo' \in Seq(Conn)
  BY Zenon, <1>1 DEF LoopFrame, BaseInv, ServerType
<1> HIDE DEF h
<1>3. /\ UNCHANGED <<client, conns, packet, dev, srv, lost, listener>>
      /\ spc \in Looping /\ spc' \in Looping /\ todo # <<>>
      /\ (spc' \in {"answer", "send"} => todo' = todo)
      /\ should_close' \subseteq should_close \cup {h}
      /\ spc' = "send" => packet # <<>>
      /\ down' \in [Conn -> Seq(Byte)] /\ up' \in [Conn -> Seq(Byte)]
      /\ sent' \in [Conn -> Seq(Packet)]
      /\ \A c \in Conn : c # h => down'[c] = down[c] /\ up'[c] = up[c] /\ sent'[c] = sent[c]
  BY Zenon DEF LoopFrame, h
<1> USE DEF BaseInv, client, listener
<1>4. StreamType' /\ ClientType'
  BY Zenon, <1>3 DEF StreamType, ClientType
<1>5. ServerType'
  BY Zenon, <1>1, <1>2, <1>3 DEF ServerType, Looping
<1>6. KnownInv'
  BY Zenon, <1>1, <1>2, <1>3 DEF KnownInv
<1>7. ServerInv'
  BY Zenon, <1>1, <1>2, <1>3 DEF ServerInv, Looping
<1> QED
  BY Zenon, <1>4, <1>5, <1>6, <1>7

(* What sendall puts on its way. *)
LEMMA PutFacts ==
  ASSUME down \in [Conn -> Seq(Byte)], NEW c \in Conn, NEW s \in Seq(Byte), Put(c, s)
  PROVE  /\ down' \in [Conn -> Seq(Byte)]
         /\ down'[c] = IF Connected(c) THEN down[c] \o s ELSE down[c]
         /\ \A e \in Conn : e # c => down'[e] = down[e]
<1>1. down[c] \o s \in Seq(Byte)
  BY Zenon, ConcatProperties
<1> QED
  BY Zenon, <1>1 DEF Put

(* The four steps of the iteration, each with what it does. *)
LEMMA LoopFrames ==
  ASSUME BaseInv, UNCHANGED client,
         send_heartbeat \/ receive_answer \/ receive_nothing \/ send_packet
  PROVE  LoopFrame
<1> DEFINE h == Head(todo)
<1>0. /\ down \in [Conn -> Seq(Byte)] /\ up \in [Conn -> Seq(Byte)] /\ sent \in [Conn -> Seq(Packet)]
  BY Zenon DEF BaseInv, StreamType, ServerType
<1>1. spc \in Looping /\ todo # <<>>
  BY Zenon DEF send_heartbeat, receive_answer, receive_nothing, send_packet, Looping, BaseInv, ServerInv
<1>2. h \in Conn
  BY Zenon, <1>1, TodoFacts
<1> USE DEF Looping, listener
<1>3. CASE send_heartbeat
  <2>1. UNCHANGED <<conns, packet, sent, up, dev, srv, lost, listener>>
    BY Zenon, <1>3 DEF send_heartbeat
  <2>2. CASE Put(h, Beat) /\ spc' = "answer" /\ UNCHANGED <<todo, should_close>>
    <3>1. down' \in [Conn -> Seq(Byte)] /\ \A e \in Conn : e # h => down'[e] = down[e]
      BY Zenon, <1>0, <1>2, <2>2, PutFacts, Bytes
    <3> QED
      BY Zenon, <1>0, <1>1, <2>1, <2>2, <3>1 DEF LoopFrame
  <2>3. CASE Drop /\ UNCHANGED down
    BY Zenon, <1>0, <1>1, <2>1, <2>3 DEF LoopFrame, Drop
  <2> QED
    BY Zenon, <1>3, <2>2, <2>3 DEF send_heartbeat, Beat
<1>4. CASE receive_answer
  <2>1. UNCHANGED <<conns, packet, sent, down, dev, srv, lost, listener>>
    BY Zenon, <1>4 DEF receive_answer
  <2>2. up' = [up EXCEPT ![h] = <<>>]
    BY Zenon, <1>4 DEF receive_answer
  <2>3. <<>> \in Seq(Byte)
    BY Zenon, Bytes
  <2>4. up' \in [Conn -> Seq(Byte)] /\ \A e \in Conn : e # h => up'[e] = up[e]
    BY Zenon, <1>0, <1>2, <2>2, <2>3
  <2>5. CASE packet = <<>> /\ spc' = "loop" /\ todo' = Tail(todo) /\ UNCHANGED should_close
    BY Zenon, <1>0, <1>1, <2>1, <2>4, <2>5 DEF LoopFrame
  <2>6. CASE packet # <<>> /\ spc' = "send" /\ UNCHANGED <<todo, should_close>>
    BY Zenon, <1>0, <1>1, <2>1, <2>4, <2>6 DEF LoopFrame
  <2>7. CASE Drop
    BY Zenon, <1>0, <1>1, <2>1, <2>4, <2>7 DEF LoopFrame, Drop
  <2> QED
    BY Zenon, <1>4, <2>5, <2>6, <2>7 DEF receive_answer
<1>5. CASE receive_nothing
  BY Zenon, <1>0, <1>1, <1>5 DEF LoopFrame, Drop, receive_nothing, streams
<1>6. CASE send_packet
  <2>1. UNCHANGED <<conns, packet, up, dev, srv, lost, listener>>
    BY Zenon, <1>6 DEF send_packet
  <2>2. CASE /\ Put(h, Frame(packet)) /\ sent' = [sent EXCEPT ![h] = Append(@, packet)]
             /\ spc' = "loop" /\ todo' = Tail(todo) /\ UNCHANGED should_close
    <3>1. Fits(packet) /\ packet \in Packet
      BY Zenon, <1>6 DEF BaseInv, ServerInv, Fits, send_packet
    <3>2. Frame(packet) \in Seq(Byte)
      BY Zenon, <3>1, FrameFacts
    <3>3. down' \in [Conn -> Seq(Byte)] /\ \A e \in Conn : e # h => down'[e] = down[e]
      BY Zenon, <1>0, <1>2, <2>2, <3>2, PutFacts
    <3>4. Append(sent[h], packet) \in Seq(Packet)
      BY Zenon, <1>0, <1>2, <3>1, AppendProperties
    <3>5. sent' \in [Conn -> Seq(Packet)] /\ \A e \in Conn : e # h => sent'[e] = sent[e]
      BY Zenon, <1>0, <1>2, <2>2, <3>4
    <3> QED
      BY Zenon, <1>0, <1>1, <2>1, <2>2, <3>3, <3>5 DEF LoopFrame
  <2>3. CASE Drop /\ UNCHANGED <<down, sent>>
    BY Zenon, <1>0, <1>1, <2>1, <2>3 DEF LoopFrame, Drop
  <2> QED
    BY Zenon, <1>6, <2>2, <2>3 DEF send_packet
<1> QED
  BY Zenon, <1>3, <1>4, <1>5, <1>6

(* The other steps of the server. *)
LEMMA BaseAccept ==
  ASSUME BaseInv, UNCHANGED client, accept
  PROVE  BaseInv'
<1> DEFINE h == Head(backlog)
<1>1. /\ spc # "exit" /\ backlog # <<>> /\ conns' = Append(conns, h) /\ backlog' = Tail(backlog)
      /\ UNCHANGED <<spc, todo, should_close, packet, sent, down, up, dev, srv, lost, listening>>
  BY Zenon DEF accept
<1>2. backlog \in Seq(Conn) /\ conns \in Seq(Conn)
  BY Zenon DEF BaseInv, StreamType, ServerType
<1>3. h \in Elems(backlog) /\ Elems(backlog') \subseteq Elems(backlog)
  BY Zenon, <1>1, <1>2, ElemsTail
<1>4. /\ Len(backlog) \in Nat \ {0} /\ backlog' \in Seq(Conn) /\ Len(backlog') = Len(backlog) - 1
      /\ \A i \in 1 .. Len(backlog') : backlog'[i] = backlog[i + 1]
      /\ h \in Conn /\ h = backlog[1]
  BY <1>1, <1>2, HeadTailProperties, EmptySeq
<1>5. conns' \in Seq(Conn) /\ Elems(conns') = Elems(conns) \cup {h}
  BY <1>1, <1>2, <1>4, ElemsAppend, AppendProperties
<1> HIDE DEF h
<1>6. \A i, j \in 1 .. Len(backlog) : i # j => backlog[i] # backlog[j]
  BY Zenon DEF BaseInv, ServerInv
<1>7. \A i \in 1 .. Len(backlog') : i + 1 \in 1 .. Len(backlog) /\ i + 1 # 1 /\ 1 \in 1 .. Len(backlog)
  BY <1>4
<1>8. h \notin Elems(backlog')
  <2>1. \A i \in 1 .. Len(backlog') : backlog'[i] # h
    BY <1>4, <1>6, <1>7
  <2> QED
    BY Zenon, <2>1 DEF Elems
<1>9. \A i, j \in 1 .. Len(backlog') : i # j => backlog'[i] # backlog'[j]
  <2> SUFFICES ASSUME NEW i \in 1 .. Len(backlog'), NEW j \in 1 .. Len(backlog'), i # j
               PROVE  backlog'[i] # backlog'[j]
    BY Zenon
  <2>1. i + 1 # j + 1
    BY <1>4
  <2> QED
    BY <1>4, <1>6, <1>7, <2>1
<1> USE DEF BaseInv, client
<1>10. StreamType' /\ ClientType' /\ ServerType'
  BY Zenon, <1>1, <1>4, <1>5 DEF StreamType, ClientType, ServerType
<1>11. KnownInv'
  BY <1>1, <1>3, <1>5 DEF KnownInv
<1>12. ServerInv'
  BY <1>1, <1>3, <1>5, <1>8, <1>9 DEF ServerInv, Looping
<1> QED
  BY Zenon, <1>10, <1>11, <1>12

(* The start of load and alive. *)
LEMMA BaseBegin ==
  ASSUME BaseInv, UNCHANGED client, NEW p, Begin(p), p # <<>> => Fits(p)
  PROVE  BaseInv'
<1>1. /\ spc' = "loop" /\ todo' = conns /\ should_close' = {} /\ packet' = p
      /\ spc = "idle" /\ UNCHANGED <<conns, sent, streams>>
  BY Zenon DEF Begin
<1> USE DEF BaseInv, client, streams, listener
<1>2. StreamType' /\ ClientType' /\ ServerType'
  BY Zenon, <1>1 DEF StreamType, ClientType, ServerType
<1>3. KnownInv'
  BY Zenon, <1>1 DEF KnownInv
<1>4. ServerInv'
  BY Zenon, <1>1 DEF ServerInv, Looping
<1> QED
  BY Zenon, <1>2, <1>3, <1>4

(* The end of the server process. *)
LEMMA BaseExit ==
  ASSUME BaseInv, UNCHANGED client, Exit
  PROVE  BaseInv'
<1>1. /\ spc' = "exit" /\ listening' = FALSE /\ srv' = {} /\ backlog' = <<>>
      /\ UNCHANGED <<conns, todo, should_close, packet, sent, down, up, dev, lost>>
  BY Zenon DEF Exit
<1>2. <<>> \in Seq(Conn) /\ Elems(<<>>) = {} /\ Len(<<>>) = 0
  BY Zenon, ElemsEmpty, EmptySeq
<1> USE DEF BaseInv, client
<1>3. StreamType' /\ ClientType' /\ ServerType'
  BY Zenon, <1>1, <1>2 DEF StreamType, ClientType, ServerType
<1>4. KnownInv'
  BY Zenon, <1>1, <1>2 DEF KnownInv
<1>5. ServerInv'
  BY <1>1, <1>2 DEF ServerInv, Looping
<1> QED
  BY Zenon, <1>3, <1>4, <1>5

(* The end of the iteration, which closes the clients that failed. *)
LEMMA BaseClose ==
  ASSUME BaseInv, UNCHANGED client, close_clients
  PROVE  BaseInv'
<1>1. /\ spc = "loop" /\ conns' = Without(conns, should_close) /\ srv' = srv \ should_close
      /\ spc' = "idle" /\ UNCHANGED <<todo, should_close, packet, sent, down, up, dev, lost, listener>>
  BY Zenon DEF close_clients
<1>2. conns' \in Seq(Conn) /\ Elems(conns') \subseteq Elems(conns) \ should_close
  BY Zenon, <1>1, WithoutElems DEF BaseInv, ServerType
<1> USE DEF BaseInv, client, listener
<1>3. StreamType' /\ ClientType' /\ ServerType'
  BY Zenon, <1>1, <1>2 DEF StreamType, ClientType, ServerType
<1>4. KnownInv'
  BY Zenon, <1>1, <1>2 DEF KnownInv
<1>5. ServerInv'
  BY <1>1, <1>2 DEF ServerInv, Looping
<1> QED
  BY Zenon, <1>3, <1>4, <1>5

(* A connection that the network tears down. *)
LEMMA BaseLose ==
  ASSUME BaseInv, UNCHANGED <<client, server>>, NEW c \in Conn, Lose(c)
  PROVE  BaseInv'
<1>1. /\ c \in dev \cup srv /\ lost' = lost \cup {c} /\ down' = [down EXCEPT ![c] = <<>>]
      /\ up' = [up EXCEPT ![c] = <<>>] /\ UNCHANGED <<dev, srv, listener>>
  BY Zenon DEF Lose
<1>2. <<>> \in Seq(Byte)
  BY Zenon, Bytes
<1> USE DEF BaseInv, client, server, listener
<1>3. StreamType' /\ ClientType' /\ ServerType'
  BY Zenon, <1>1, <1>2 DEF StreamType, ClientType, ServerType
<1>4. KnownInv'
  BY <1>1 DEF KnownInv, StreamType
<1>5. ServerInv'
  BY Zenon, <1>1 DEF ServerInv
<1> QED
  BY Zenon, <1>3, <1>4, <1>5

(* The command load begins with a packet whose length fits, or exits. *)
LEMMA LoadFacts ==
  ASSUME NEW p \in Packet, load(p)
  PROVE  Exit \/ (Begin(p) /\ Fits(p))
<1>1. Len(p) \in Nat /\ SignLen \in Nat /\ Base \in Nat /\ Base * Base \in Nat
  BY PacketAssumption, StreamAssumption, LenProperties
<1> QED
  BY <1>1 DEF load, Fits

(* Every step of the composition, one by one. *)
LEMMA Steps ==
  ASSUME Next
  PROVE  \/ \E t \in Task : /\ UNCHANGED server
                            /\ \/ start_patch_service(t) \/ connect_failed(t)
                               \/ check_status(t) \/ receive_cmd(t)
                               \/ dispatch_exit(t) \/ dispatch_heartbeat(t) \/ dispatch_other(t)
                               \/ receive_len(t) \/ alloc_packet(t)
                               \/ receive_sign(t) \/ receive_packet(t)
         \/ \E t \in Task, c \in Conn : setup_connect(t, c) /\ UNCHANGED server
         \/ UNCHANGED client /\ (send_heartbeat \/ receive_answer \/ receive_nothing \/ send_packet)
         \/ UNCHANGED client /\ accept
         \/ UNCHANGED client /\ \E p \in Packet \cup {<<>>} : Begin(p) /\ (p # <<>> => Fits(p))
         \/ UNCHANGED client /\ Exit
         \/ UNCHANGED client /\ close_clients
         \/ UNCHANGED <<client, server>> /\ \E c \in Conn : Lose(c)
<1>1. CASE ClientMoves
  BY Zenon, <1>1 DEF ClientMoves, ClientNext, TaskStep
<1>2. CASE ServerMoves
  <2>1. CASE \E p \in Packet : load(p)
    BY Zenon, <1>2, <2>1, LoadFacts DEF ServerMoves
  <2>2. CASE check_alive
    BY Zenon, <1>2, <2>2 DEF check_alive, ServerMoves
  <2>3. CASE quit \/ iteration_error
    BY Zenon, <1>2, <2>3 DEF quit, iteration_error, ServerMoves
  <2> QED
    BY Zenon, <1>2, <2>1, <2>2, <2>3 DEF ServerMoves, ServerNext, LoopStep
<1>3. CASE NetworkMoves
  BY Zenon, <1>3 DEF NetworkMoves
<1> QED
  BY Zenon, <1>1, <1>2, <1>3 DEF Next

(* Every step keeps the part. *)
LEMMA BaseNext == BaseInv /\ [Next]_vars => BaseInv'
<1> SUFFICES ASSUME BaseInv, [Next]_vars PROVE BaseInv'
  BY Zenon
<1>1. CASE UNCHANGED vars
  <2> USE <1>1 DEF vars, client, server, streams, listener
  <2>1. StreamType' /\ ClientType' /\ ServerType'
    BY Zenon DEF BaseInv, StreamType, ClientType, ServerType
  <2>2. KnownInv' /\ ServerInv'
    BY Zenon DEF BaseInv, KnownInv, ServerInv
  <2> QED
    BY Zenon, <2>1, <2>2 DEF BaseInv
<1>2. CASE Next
  BY Zenon, <1>2, Steps, ClientFrames, BaseClient, BaseConnect, LoopFrames, BaseLoop, BaseAccept, BaseBegin,
     BaseExit, BaseClose, BaseLose
<1> QED
  BY Zenon, <1>1, <1>2

(* Types, known connections and the server's dictionary hold throughout. *)
THEOREM BaseInvariance == Spec => []BaseInv
BY BaseInit, BaseNext, PTL DEF Spec

(* Every variable of the device, the server and the streams keeps its      *)
(* type.                                                                   *)
THEOREM TypeCorrect == Spec => []TypeOK
<1>1. BaseInv => TypeOK
  BY Zenon, Types DEF BaseInv
<1> QED
  BY <1>1, BaseInvariance, PTL
-----------------------------------------------------------------------------
(* One task at a time, and the status is its state. *)
LEMMA TaskInit == Init => TaskInv
BY DEF Init, ClientInit, StreamInit, TaskInv, Alive, Reading

(* The steps of the device but the connect. *)
LEMMA TaskClient ==
  ASSUME BaseInv, TaskInv, NEW t \in Task, UNCHANGED server,
         \/ start_patch_service(t) \/ connect_failed(t)
         \/ check_status(t) \/ receive_cmd(t)
         \/ dispatch_exit(t) \/ dispatch_heartbeat(t) \/ dispatch_other(t)
         \/ receive_len(t) \/ alloc_packet(t) \/ receive_sign(t) \/ receive_packet(t)
  PROVE  TaskInv'
<1>1. task \in TaskType /\ status \in {"WAIT_FOR_INIT", "RUNNING"}
  BY Zenon DEF BaseInv, ClientType
<1>2. SUFFICES ASSUME ~overlap' PROVE TaskInv'
  BY Zenon DEF TaskInv
<1>3. ~overlap
  BY Zenon, <1>2 DEF start_patch_service, connect_failed, check_status, receive_cmd, dispatch_exit,
              dispatch_heartbeat, dispatch_other, receive_len, alloc_packet, receive_sign,
              receive_packet
<1>4. /\ \A x, u \in Task : Alive(x) /\ Alive(u) => x = u
      /\ dev = IF status = "RUNNING" THEN {sock} ELSE {}
      /\ \A x \in Task : /\ task[x].pc \in Reading => status = "RUNNING"
                         /\ task[x].pc = "connect" => status = "WAIT_FOR_INIT"
  BY Zenon, <1>3 DEF TaskInv
<1>5. CASE start_patch_service(t)
  <2>1. /\ status = "WAIT_FOR_INIT" /\ UNCHANGED <<status, sock, dev>>
        /\ Goto(t, "connect") /\ \A u \in Task : u # t => ~Alive(u)
    BY Zenon, <1>2, <1>5 DEF start_patch_service, streams
  <2>2. /\ task'[t].pc = "connect" /\ \A u \in Task : u # t => task'[u] = task[u]
    BY Zenon, <1>1, <2>1, GotoFacts DEF PcSet
  <2> QED
    BY Zenon, <1>4, <2>1, <2>2 DEF TaskInv, Alive, Reading
<1>6. CASE ~start_patch_service(t)
  <2>1. Alive(t)
    BY Zenon, <1>6 DEF connect_failed, check_status, receive_cmd, dispatch_exit, dispatch_heartbeat,
                dispatch_other, receive_len, alloc_packet, receive_sign, receive_packet, Alive
  <2>2. \A u \in Task : u # t => ~Alive(u)
    BY Zenon, <1>4, <2>1
  <2>3. ASSUME NEW x \in PcSet, Goto(t, x), sock' = sock,
               x \in Reading => status' = "RUNNING", x # "connect",
               dev' = IF status' = "RUNNING" THEN {sock} ELSE {}
        PROVE  TaskInv'
    <3>1. /\ task'[t].pc = x /\ \A u \in Task : u # t => task'[u] = task[u]
      BY Zenon, <1>1, <2>3, GotoFacts
    <3>2. \A u \in Task : u # t => task'[u].pc = "none"
      BY Zenon, <2>2, <3>1 DEF Alive
    <3> QED
      BY Zenon, <2>3, <3>1, <3>2 DEF TaskInv, Alive, Reading
  <2> USE DEF Reading, PcSet
  <2>4. CASE connect_failed(t)
    BY Zenon, <1>4, <2>3, <2>4 DEF connect_failed, streams
  <2>5. CASE check_status(t)
    BY Zenon, <1>4, <2>3, <2>5 DEF check_status, streams
  <2>6. CASE receive_cmd(t)
    <3>1. sock' = sock /\ status = "RUNNING" /\ dev = {sock}
      BY Zenon, <1>4, <2>6 DEF receive_cmd
    <3>2. \/ dis_connect /\ Goto(t, "none")
          \/ Goto(t, "dispatch") /\ UNCHANGED <<dev, status>>
      BY Zenon, <2>6 DEF receive_cmd
    <3>3. CASE dis_connect /\ Goto(t, "none")
      BY Zenon, <2>3, <3>1, <3>3 DEF dis_connect
    <3>4. CASE Goto(t, "dispatch") /\ UNCHANGED <<dev, status>>
      BY Zenon, <2>3, <3>1, <3>4
    <3> QED
      BY Zenon, <3>2, <3>3, <3>4
  <2>7. CASE dispatch_exit(t)
    BY Zenon, <1>4, <2>3, <2>7 DEF dispatch_exit, dis_connect
  <2>8. CASE dispatch_heartbeat(t)
    <3>1. sock' = sock /\ status = "RUNNING" /\ dev = {sock} /\ Goto(t, "wait")
      BY Zenon, <1>4, <2>8 DEF dispatch_heartbeat
    <3>2. \/ status' = "RUNNING" /\ UNCHANGED dev
          \/ dev' = dev \ {sock} /\ status' = "WAIT_FOR_INIT"
      BY Zenon, <2>8 DEF dispatch_heartbeat
    <3> QED
      BY Zenon, <2>3, <3>1, <3>2
  <2>9. CASE dispatch_other(t)
    BY Zenon, <1>4, <2>3, <2>9 DEF dispatch_other, streams
  <2>10. CASE receive_len(t)
    BY Zenon, <1>4, <2>3, <2>10 DEF receive_len
  <2>11. CASE alloc_packet(t)
    <3>1. UNCHANGED <<status, sock, dev>> /\ status = "RUNNING"
      BY Zenon, <1>4, <2>11 DEF alloc_packet, streams
    <3>2. /\ task'[t].pc \in {"undefined", "sign"}
          /\ \A u \in Task : u # t => task'[u] = task[u]
      BY Zenon, <1>1, <2>11 DEF alloc_packet, TaskType
    <3>3. \A u \in Task : u # t => task'[u].pc = "none"
      BY Zenon, <2>2, <3>2 DEF Alive
    <3> QED
      BY Zenon, <1>4, <3>1, <3>2, <3>3 DEF TaskInv, Alive
  <2>12. CASE receive_sign(t)
    BY Zenon, <1>4, <2>3, <2>12 DEF receive_sign
  <2>13. CASE receive_packet(t)
    BY Zenon, <1>4, <2>3, <2>13 DEF receive_packet
  <2> QED
    BY Zenon, <1>6, <2>4, <2>5, <2>6, <2>7, <2>8, <2>9, <2>10, <2>11, <2>12, <2>13
<1> QED
  BY Zenon, <1>5, <1>6

(* The connect, by the only task. *)
LEMMA TaskConnect ==
  ASSUME BaseInv, TaskInv, NEW t \in Task, NEW c \in Conn, setup_connect(t, c)
  PROVE  TaskInv'
<1>1. SUFFICES ASSUME ~overlap' PROVE TaskInv'
  BY Zenon DEF TaskInv
<1>2. /\ task[t].pc = "connect" /\ dev' = dev \cup {c} /\ sock' = c /\ status' = "RUNNING"
      /\ Goto(t, "wait") /\ ~overlap
  BY Zenon, <1>1 DEF setup_connect
<1>3. /\ dev = {} /\ \A u \in Task : u # t => ~Alive(u)
  BY Zenon, <1>2 DEF TaskInv, Alive
<1>4. /\ task'[t].pc = "wait" /\ \A u \in Task : u # t => task'[u] = task[u]
  BY Zenon, <1>2, GotoFacts DEF PcSet, BaseInv, ClientType
<1> QED
  BY Zenon, <1>2, <1>3, <1>4 DEF TaskInv, Alive, Reading

(* A step that leaves the device alone. *)
LEMMA TaskFrame ==
  ASSUME TaskInv, UNCHANGED <<client, dev>>
  PROVE  TaskInv'
BY Zenon DEF TaskInv, client, Alive

(* Every step of the server and of the network leaves the device alone. *)
LEMMA OthersFrame ==
  ASSUME UNCHANGED client,
         \/ send_heartbeat \/ receive_answer \/ receive_nothing \/ send_packet
         \/ accept \/ (\E p \in Packet \cup {<<>>} : Begin(p)) \/ Exit \/ close_clients
         \/ \E c \in Conn : Lose(c)
  PROVE  UNCHANGED dev
BY Zenon DEF send_heartbeat, receive_answer, receive_nothing, send_packet, accept, Begin, Exit,
       close_clients, Lose, streams

(* Every step keeps the relation between the tasks and the status. *)
LEMMA TaskNext == BaseInv /\ TaskInv /\ [Next]_vars => TaskInv'
<1> SUFFICES ASSUME BaseInv, TaskInv, [Next]_vars PROVE TaskInv'
  BY Zenon
<1>1. CASE UNCHANGED vars
  BY Zenon, <1>1, TaskFrame DEF vars, streams
<1>2. CASE Next
  <2>1. \/ \E t \in Task : /\ UNCHANGED server
                           /\ \/ start_patch_service(t) \/ connect_failed(t)
                              \/ check_status(t) \/ receive_cmd(t)
                              \/ dispatch_exit(t) \/ dispatch_heartbeat(t) \/ dispatch_other(t)
                              \/ receive_len(t) \/ alloc_packet(t)
                              \/ receive_sign(t) \/ receive_packet(t)
        \/ \E t \in Task, c \in Conn : setup_connect(t, c)
        \/ UNCHANGED client /\ UNCHANGED dev
    BY Zenon, <1>2, Steps, OthersFrame
  <2> QED
    BY Zenon, <2>1, TaskClient, TaskConnect, TaskFrame
<1> QED
  BY Zenon, <1>1, <1>2

-----------------------------------------------------------------------------
(* The stream of the connection that the device serves. *)
Answering(c) == spc = "answer" /\ Head(todo) = c
Sending(c) == spc = "send" /\ Head(todo) = c

(* The exchange while a frame is on its way. *)
Inside(c, h) ==
  /\ up[c] = <<>> /\ ~Sending(c)
  /\ h = IF Answering(c) THEN Beat ELSE <<>>

(* How far the device has read is within the frame. *)
LEMMA ReadOfType ==
  ASSUME NEW t \in Task, NEW p
  PROVE  ReadOf(t, p) \in 0 .. 3 + SignLen
BY StreamAssumption DEF ReadOf

(* The device that reads a frame has not come to its end. *)
LEMMA LoadingFacts ==
  ASSUME NEW t \in Task, NEW c \in Conn, NEW h \in {<<>>, Beat}, NEW p, Loading(t, c, p, h)
  PROVE  /\ down[c] # <<>> /\ ~Ready(t, c, <<>>) /\ ~Beating(t, c)
         /\ Exchange(t, c, h) <=> Inside(c, h)
<1>1. Fits(p) /\ down[c] = From(Frame(p) \o h, ReadOf(t, p))
  BY Zenon DEF Loading
<1>2. Len(p) \in Nat \ {0} /\ SignLen \in Nat /\ Len(h) \in Nat
  BY SMTT(30), <1>1, FrameFacts, StreamAssumption, Bytes
<1>3. ReadOf(t, p) \in 0 .. 3 + SignLen
  BY Zenon, ReadOfType
<1>4. ReadOf(t, p) \in 0 .. 3 + SignLen + Len(p)
  BY <1>2, <1>3
<1>5. Len(down[c]) = (3 + SignLen + Len(p)) - ReadOf(t, p) + Len(h)
  BY Zenon, <1>1, <1>4, RestFacts
<1>6. Len(down[c]) # 0
  BY <1>2, <1>3, <1>5
<1>7. down[c] # <<>>
  BY <1>6, Bytes
<1>8. ~Ready(t, c, <<>>) /\ ~Beating(t, c)
  BY Zenon, <1>7 DEF Ready, Beating
<1>9. Exchange(t, c, h) <=> Inside(c, h)
  BY Zenon, <1>8, Bytes DEF Exchange, Inside, Answering, Sending
<1> QED
  BY Zenon, <1>7, <1>8, <1>9

Link(t, c, h) == Parsed(t, c, h) /\ (c \in srv => Exchange(t, c, h))

(* What the invariant says while a task is alive. *)
LEMMA LinkOpen ==
  ASSUME BaseInv, TaskInv, LinkInv, Clean, status = "RUNNING", sock \notin lost
  PROVE  \E t \in Task, h \in {<<>>, Beat} :
           /\ Link(t, sock, h) /\ Alive(t) /\ \A u \in Task : Alive(u) => u = t
           /\ sock \in Conn /\ dev = {sock}
<1>1. PICK t \in Task, h \in {<<>>, Beat} : Link(t, sock, h)
  BY Zenon DEF LinkInv, Link
<1>2. task[t].pc \in Serving
  BY Zenon, <1>1 DEF Link, Parsed, Ready, Beating, Loading, Serving, Reading
<1>3. Alive(t)
  BY Zenon, <1>2 DEF Alive, Serving, Reading
<1>4. sock \in Conn
  BY Zenon, <1>2, ServedConn
<1>5. dev = {sock} /\ \A u \in Task : Alive(u) => u = t
  BY Zenon, <1>3 DEF TaskInv, Clean
<1> QED
  BY Zenon, <1>1, <1>3, <1>4, <1>5

(* A receive inside the frame of p, of which k bytes have been read, that  *)
(* returns the n bytes it asked for.                                       *)
WholeRead(c, h, p, k, n, got) ==
  /\ c \in Conn /\ h \in {<<>>, Beat} /\ Fits(p)
  /\ k \in 0 .. 3 + SignLen /\ down[c] = From(Frame(p) \o h, k)
  /\ n \in Nat /\ n <= (3 + SignLen + Len(p)) - k
  /\ got \in Received(c, n) /\ Len(got) = n /\ Consume(c, got)

(* What was read and what is left. *)
LEMMA ReadFacts ==
  ASSUME down \in [Conn -> Seq(Byte)],
         NEW c, NEW h, NEW p, NEW k, NEW n, NEW got, WholeRead(c, h, p, k, n, got)
  PROVE  /\ down'[c] = From(Frame(p) \o h, k + n)
         /\ \A i \in 1 .. n : got[i] = Frame(p)[k + i]
<1>1. /\ c \in Conn /\ h \in {<<>>, Beat} /\ Fits(p)
      /\ k \in 0 .. 3 + SignLen /\ down[c] = From(Frame(p) \o h, k)
      /\ n \in Nat /\ n <= (3 + SignLen + Len(p)) - k
      /\ got \in Received(c, n) /\ Len(got) = n /\ Consume(c, got)
  BY Zenon DEF WholeRead
<1>2. Len(p) \in Nat \ {0} /\ SignLen \in Nat
  BY Zenon, <1>1, FrameFacts, StreamAssumption
<1>4. k \in 0 .. 3 + SignLen + Len(p) /\ n \in 0 .. (3 + SignLen + Len(p)) - k
  BY <1>1, <1>2
<1>5. /\ \A i \in 1 .. (3 + SignLen + Len(p)) - k : From(Frame(p) \o h, k)[i] = Frame(p)[k + i]
      /\ From(From(Frame(p) \o h, k), n) = From(Frame(p) \o h, k + n)
  <2> DEFINE r == From(Frame(p) \o h, k)
             m == (3 + SignLen + Len(p)) - k
  <2>1. Fits(p) /\ h \in {<<>>, Beat} /\ k \in 0 .. 3 + SignLen + Len(p)
    BY Zenon, <1>1, <1>4
  <2>2. \A i \in 1 .. m : r[i] = Frame(p)[k + i]
    BY ONLY ZenonT(30), <2>1, RestFacts
  <2>3. From(r, n) = From(Frame(p) \o h, k + n)
    <3> DEFINE f == Frame(p) \o h
    <3>1. Frame(p) \in Seq(Byte) /\ Len(Frame(p)) = 3 + SignLen + Len(p) /\ h \in Seq(Byte)
      BY Zenon, <2>1, FrameFacts, Bytes
    <3>2. f \in Seq(Byte) /\ Len(f) = 3 + SignLen + Len(p) + Len(h) /\ Len(h) \in Nat
      BY Zenon, <3>1, ConcatProperties, LenProperties
    <3> HIDE DEF f
    <3>3. k \in 0 .. Len(f) /\ n \in 0 .. Len(f) - k
      BY <1>2, <1>4, <3>2
    <3>4. From(From(f, k), n) = From(f, k + n)
      BY Zenon, <3>2, <3>3, FromFrom
    <3> QED
      BY Zenon, <3>4 DEF f
  <2> QED
    BY <2>2, <2>3, Zenon
<1>6. down'[c] = From(down[c], n)
  BY Zenon, <1>1, ConsumeFacts
<1>7. \A i \in 1 .. n : got[i] = down[c][i]
  BY Zenon, <1>1, ReceiveFacts
<1>8. \A i \in 1 .. n : i \in 1 .. (3 + SignLen + Len(p)) - k
  BY <1>2, <1>4
<1> QED
  BY Zenon, <1>1, <1>5, <1>6, <1>7, <1>8

(* A step inside a frame keeps the exchange of heartbeats. *)
LEMMA LoadingStep ==
  ASSUME NEW t \in Task, NEW c \in Conn, NEW h \in {<<>>, Beat}, NEW p \in Packet,
         Loading(t, c, p, h), c \in srv => Exchange(t, c, h),
         Loading(t, c, p, h)', UNCHANGED <<srv, up, spc, todo>>
  PROVE  Link(t, c, h)'
<1>1. c \in srv => Inside(c, h)
  BY Zenon, LoadingFacts
<1>2. (c \in srv => Inside(c, h))'
  BY Zenon, <1>1 DEF Inside, Answering, Sending
<1>3. ~Beating(t, c)'
  BY Zenon, Bytes DEF Loading, Beating
<1>4. (c \in srv => Exchange(t, c, h))'
  BY Zenon, <1>2, <1>3 DEF Inside, Answering, Sending, Exchange
<1>5. Parsed(t, c, h)'
  BY Zenon DEF Parsed
<1> QED
  BY Zenon, <1>4, <1>5 DEF Link

(* The end of the test at the head of the loop. *)
LEMMA LinkCheck ==
  ASSUME BaseInv, NEW t \in Task, NEW h \in {<<>>, Beat}, NEW c \in Conn, c = sock, Link(t, c, h),
         UNCHANGED server, check_status(t), status' = "RUNNING"
  PROVE  Link(t, c, h)'
<1>1. /\ task[t].pc = "wait" /\ Goto(t, "cmd") /\ UNCHANGED <<down, up, srv, buf, delivered>>
  BY Zenon DEF check_status, streams
<1>2. UNCHANGED <<spc, todo, sent>>
  BY Zenon DEF server
<1>3. task'[t].pc = "cmd"
  BY Zenon, <1>1, GotoFacts DEF PcSet, BaseInv, ClientType
<1>4. CASE Ready(t, c, h)
  <2>1. Ready(t, c, h)' /\ (Ready(t, c, <<>>) => Ready(t, c, <<>>)') /\ ~Beating(t, c) /\ ~Beating(t, c)'
    BY Zenon, <1>1, <1>2, <1>3, <1>4 DEF Ready, Beating
  <2>2. (c \in srv => Exchange(t, c, h))'
    BY Zenon, <1>1, <1>2, <2>1 DEF Exchange, Link
  <2> QED
    BY Zenon, <2>1, <2>2 DEF Link, Parsed
<1>5. ASSUME NEW p \in Packet, Loading(t, c, p, h) PROVE Link(t, c, h)'
  <2>1. ReadOf(t, p) = 0 /\ ReadOf(t, p)' = 0
    BY Zenon, <1>1, <1>3 DEF ReadOf
  <2>2. Loading(t, c, p, h)'
    BY Zenon, <1>1, <1>2, <1>3, <1>5, <2>1 DEF Loading, Serving, Reading
  <2> QED
    BY Zenon, <1>1, <1>2, <1>5, <2>2, LoadingStep DEF Link
<1>6. ~Beating(t, c)
  BY Zenon, <1>1 DEF Beating
<1> QED
  BY Zenon, <1>4, <1>5, <1>6 DEF Link, Parsed

(* The command byte. *)
LEMMA LinkCommand ==
  ASSUME BaseInv, NEW t \in Task, NEW h \in {<<>>, Beat}, NEW c \in Conn, c = sock, Link(t, c, h),
         UNCHANGED server, receive_cmd(t), status' = "RUNNING"
  PROVE  \E g \in {<<>>, Beat} : Link(t, c, g)'
<1>1. /\ task[t].pc = "cmd" /\ UNCHANGED <<up, srv, lost, delivered>>
  BY Zenon DEF receive_cmd
<1>2. UNCHANGED <<spc, todo, sent>>
  BY Zenon DEF server
<1>3. PICK got \in Received(c, 1) :
        Len(got) = 1 /\ Consume(c, got) /\ Store(got) /\ Goto(t, "dispatch")
  BY Zenon DEF receive_cmd, dis_connect
<1>4. /\ down \in [Conn -> Seq(Byte)] /\ buf \in [1 .. 2 -> Byte] /\ task \in TaskType
  BY Zenon DEF BaseInv, StreamType, ClientType
<1>5. task'[t].pc = "dispatch"
  BY Zenon, <1>3, <1>4, GotoFacts DEF PcSet
<1>6. /\ got \in Seq(Byte) /\ Len(got) \in 0 .. Len(down[c]) /\ got[1] = down[c][1]
  BY SMTT(30), <1>3, <1>4, ReceiveFacts
<1>7. buf'[1] = got[1]
  BY ONLY <1>3, <1>4, <1>6, StoreFacts
<1>8. down'[c] = From(down[c], 1)
  BY Zenon, <1>3, <1>4, ConsumeFacts
<1>9. down[c] # <<>>
  BY ONLY <1>3, <1>6, Bytes
<1>10. CASE Ready(t, c, h)
  <2>1. h = Beat /\ down[c] = Beat /\ delivered[c] = sent[c]
    BY Zenon, <1>9, <1>10 DEF Ready
  <2>2. down'[c] = <<>>
    <3>0. Beat \in Seq(Byte) /\ Len(Beat) = 1 /\ 1 \in 0 .. Len(Beat)
      BY Bytes
    <3>1. From(Beat, 1) \in Seq(Byte) /\ Len(From(Beat, 1)) = Len(Beat) - 1
      BY Zenon, <3>0, FromType
    <3>2. Len(From(Beat, 1)) = 0
      BY <3>0, <3>1
    <3> QED
      BY Zenon, <1>8, <2>1, <3>1, <3>2, EmptySeq
  <2>3. Beating(t, c)'
    BY Zenon, <1>1, <1>2, <1>5, <1>6, <1>7, <2>1, <2>2, Bytes DEF Beating
  <2>4. c \in srv => Answering(c) /\ up[c] = <<>>
    BY Zenon, <2>1, Bytes DEF Link, Exchange, Answering
  <2>5. (c \in srv => Exchange(t, c, <<>>))'
    BY Zenon, <1>1, <1>2, <2>3, <2>4 DEF Exchange, Answering
  <2> QED
    BY Zenon, <2>3, <2>5 DEF Link, Parsed
<1>11. ASSUME NEW p \in Packet, Loading(t, c, p, h) PROVE Link(t, c, h)'
  <2>1. ReadOf(t, p) = 0 /\ ReadOf(t, p)' = 1
    BY Zenon, <1>1, <1>5 DEF ReadOf
  <2>2. Fits(p) /\ Len(p) \in Nat /\ SignLen \in Nat /\ Frame(p)[1] = LOAD
    BY Zenon, <1>11, FrameFacts, StreamAssumption DEF Loading
  <2>3. 1 \in Nat /\ 1 <= (3 + SignLen + Len(p)) - 0 /\ 0 \in 0 .. 3 + SignLen
    BY <2>2
  <2>r. down[c] = From(Frame(p) \o h, 0)
    BY Zenon, <1>11, <2>1 DEF Loading
  <2>4. /\ down'[c] = From(Frame(p) \o h, 0 + 1)
        /\ \A i \in 1 .. 1 : got[i] = Frame(p)[0 + i]
    <3>1. WholeRead(c, h, p, 0, 1, got)
      BY Zenon, <1>3, <2>2, <2>3, <2>r DEF WholeRead
    <3> QED
      BY ONLY <1>4, <3>1, ReadFacts
  <2>5. down'[c] = From(Frame(p) \o h, 1) /\ buf'[1] = LOAD
    BY ONLY <1>7, <2>2, <2>4
  <2>6. sent[c] = Append(delivered[c], p)
    BY Zenon, <1>11 DEF Loading
  <2>7. Loading(t, c, p, h)'
    BY Zenon, <1>1, <1>2, <1>5, <2>1, <2>2, <2>5, <2>6 DEF Loading, Serving, Reading
  <2> QED
    BY Zenon, <1>1, <1>2, <1>11, <2>7, LoadingStep DEF Link
<1>12. ~Beating(t, c)
  BY Zenon, <1>1 DEF Beating
<1> QED
  BY Zenon, <1>10, <1>11, <1>12 DEF Link, Parsed

(* The answer to a heartbeat. *)
LEMMA LinkHeartbeat ==
  ASSUME BaseInv, NEW t \in Task, NEW h \in {<<>>, Beat}, NEW c \in Conn, c = sock, Link(t, c, h),
         UNCHANGED server, dispatch_heartbeat(t), status' = "RUNNING", dev = {c}, c \notin lost
  PROVE  Link(t, c, <<>>)'
<1>1. /\ task[t].pc = "dispatch" /\ buf[1] = HEARTBEAT /\ Goto(t, "wait")
      /\ up' = IF Connected(c) THEN [up EXCEPT ![c] = @ \o Answer] ELSE up
      /\ UNCHANGED <<down, srv, delivered>>
  BY Zenon DEF dispatch_heartbeat, byte2int
<1>2. UNCHANGED <<spc, todo, sent>>
  BY Zenon DEF server
<1>3. task'[t].pc = "wait"
  BY Zenon, <1>1, GotoFacts DEF PcSet, BaseInv, ClientType
<1>4. h = <<>> /\ Beating(t, c)
  BY Zenon, <1>1, Bytes DEF Link, Parsed, Ready, Loading
<1>5. Ready(t, c, <<>>)'
  BY Zenon, <1>1, <1>2, <1>3, <1>4 DEF Ready, Beating
<1>6. ASSUME c \in srv PROVE Exchange(t, c, <<>>)'
  <2>1. Answering(c) /\ up[c] = <<>>
    BY Zenon, <1>1, <1>4, <1>6, Bytes DEF Link, Exchange, Answering, Ready
  <2>2. up' = [up EXCEPT ![c] = @ \o Answer] /\ up \in [Conn -> Seq(Byte)]
    BY Zenon, <1>1, <1>6 DEF Connected, BaseInv, StreamType
  <2>3. up'[c] = <<>> \o Beat
    BY Zenon, <2>1, <2>2, Bytes
  <2>4. <<>> \o Beat = Beat
    BY Zenon, Bytes, ConcatEmptySeq
  <2> QED
    BY Zenon, <1>2, <1>5, <2>1, <2>3, <2>4 DEF Exchange, Answering
<1> QED
  BY Zenon, <1>1, <1>5, <1>6 DEF Link, Parsed

(* The other commands and the steps inside a load. *)
LEMMA LinkLoad ==
  ASSUME BaseInv, NEW t \in Task, NEW h \in {<<>>, Beat}, NEW c \in Conn, c = sock, Link(t, c, h),
         UNCHANGED server, ~cut',
         dispatch_other(t) \/ receive_len(t) \/ alloc_packet(t) \/ receive_sign(t)
  PROVE  \E p \in Packet : Loading(t, c, p, h)' /\ Link(t, c, h)'
<1>1. PICK p \in Packet : Loading(t, c, p, h)
  BY Zenon, Bytes DEF Link, Parsed, Ready, Beating, dispatch_other, byte2int, receive_len, alloc_packet,
               receive_sign
<1>2. UNCHANGED <<spc, todo, sent>>
  BY Zenon DEF server
<1>3. UNCHANGED <<up, srv, delivered>>
  BY Zenon DEF dispatch_other, receive_len, alloc_packet, receive_sign, streams
<1>4. /\ Fits(p) /\ Len(p) \in Nat \ {0} /\ SignLen \in Nat \ {0}
      /\ Frame(p)[2] * Base + Frame(p)[3] = SignLen + Len(p)
      /\ sent[c] = Append(delivered[c], p) /\ down[c] = From(Frame(p) \o h, ReadOf(t, p))
  BY Zenon, <1>1, FrameFacts, StreamAssumption DEF Loading
<1>5. /\ down \in [Conn -> Seq(Byte)] /\ buf \in [1 .. 2 -> Byte] /\ task \in TaskType
  BY Zenon DEF BaseInv, StreamType, ClientType
<1>6. SUFFICES Loading(t, c, p, h)'
  BY Zenon, <1>1, <1>2, <1>3, LoadingStep DEF Link
<1>7. CASE dispatch_other(t)
  <2>1. task[t].pc = "dispatch" /\ buf[1] = LOAD
    BY Zenon, <1>1, <1>7 DEF dispatch_other, Loading
  <2>2. Goto(t, "len") /\ UNCHANGED <<down, buf>>
    BY Zenon, <1>7, <2>1 DEF dispatch_other, byte2int, streams
  <2>3. task'[t].pc = "len"
    BY Zenon, <1>5, <2>2, GotoFacts DEF PcSet
  <2>4. ReadOf(t, p) = 1 /\ ReadOf(t, p)' = 1
    BY Zenon, <2>1, <2>3 DEF ReadOf
  <2> QED
    BY Zenon, <1>2, <1>3, <1>4, <2>2, <2>3, <2>4 DEF Loading, Serving, Reading
<1>8. CASE receive_len(t)
  <2>1. task[t].pc = "len" /\ Goto(t, "alloc")
    BY Zenon, <1>8 DEF receive_len
  <2>2. PICK got \in Received(c, 2) : Consume(c, got) /\ Store(got) /\ ~(Len(got) < 2)
    BY Zenon, <1>8 DEF receive_len, Short
  <2>3. task'[t].pc = "alloc"
    BY Zenon, <1>5, <2>1, GotoFacts DEF PcSet
  <2>4. ReadOf(t, p) = 1 /\ ReadOf(t, p)' = 3
    BY Zenon, <2>1, <2>3 DEF ReadOf
  <2>5. got \in Seq(Byte) /\ Len(got) \in Nat /\ Len(got) <= 2
    BY Zenon, <1>5, ReceiveFacts
  <2>n. Len(p) \in Nat \ {0} /\ SignLen \in Nat \ {0} /\ ~(Len(got) < 2)
    BY Zenon, <1>4, <2>2
  <2>6. /\ Len(got) = 2 /\ 2 \in Nat
        /\ 2 <= (3 + SignLen + Len(p)) - 1 /\ 1 \in 0 .. 3 + SignLen
    <3> DEFINE g == Len(got)
               m == Len(p)
               z == SignLen
    <3>1. g \in Nat /\ g <= 2 /\ ~(g < 2) /\ m \in Nat \ {0} /\ z \in Nat \ {0}
      BY Zenon, <2>n, <2>5
    <3> HIDE DEF g, m, z
    <3>2. g = 2 /\ 2 \in Nat /\ 2 <= (3 + z + m) - 1 /\ 1 \in 0 .. 3 + z
      BY <3>1
    <3> QED
      BY Zenon, <3>2 DEF g, m, z
  <2>r. down[c] = From(Frame(p) \o h, 1)
    BY Zenon, <1>4, <2>4
  <2>7. /\ down'[c] = From(Frame(p) \o h, 1 + 2)
        /\ \A i \in 1 .. 2 : got[i] = Frame(p)[1 + i]
    <3>1. WholeRead(c, h, p, 1, 2, got)
      BY Zenon, <1>4, <2>2, <2>6, <2>r DEF WholeRead
    <3>2. down \in [Conn -> Seq(Byte)]
      BY ONLY Zenon, <1>5
    <3> QED
      BY ONLY <3>1, <3>2, ReadFacts
  <2>8. down'[c] = From(Frame(p) \o h, 3) /\ got[1] = Frame(p)[2] /\ got[2] = Frame(p)[3]
    BY ONLY <2>7
  <2>9. buf'[1] = got[1] /\ buf'[2] = got[2]
    BY SMTT(30), <1>5, <2>2, <2>5, <2>6, StoreFacts
  <2>10. byte2int(buf, 2)' = SignLen + Len(p)
    BY ONLY <1>4, <2>8, <2>9 DEF byte2int
  <2> QED
    BY Zenon, <1>2, <1>3, <1>4, <2>3, <2>4, <2>8, <2>10 DEF Loading, Serving, Reading
<1>9. CASE alloc_packet(t)
  <2>1. task[t].pc = "alloc" /\ byte2int(buf, 2) = SignLen + Len(p)
    BY Zenon, <1>1, <1>9 DEF alloc_packet, Loading
  <2>2. ~(SignLen + Len(p) <= SignLen) /\ (SignLen + Len(p)) - SignLen = Len(p)
    BY ONLY <1>4
  <2>3. task' = [task EXCEPT ![t] = [pc |-> "sign", len |-> Len(p)]] /\ UNCHANGED <<down, buf>>
    BY Zenon, <1>9, <2>1, <2>2 DEF alloc_packet, streams
  <2>4. task'[t].pc = "sign" /\ task'[t].len = Len(p)
    BY Zenon, <1>5, <2>3 DEF TaskType
  <2>5. ReadOf(t, p) = 3 /\ ReadOf(t, p)' = 3
    BY Zenon, <2>1, <2>4 DEF ReadOf
  <2> QED
    BY Zenon, <1>2, <1>3, <1>4, <2>3, <2>4, <2>5 DEF Loading, Serving, Reading
<1>10. CASE receive_sign(t)
  <2>1. task[t].pc = "sign" /\ Goto(t, "pkt")
    BY Zenon, <1>10 DEF receive_sign
  <2>2. PICK got \in Received(c, SignLen) : Consume(c, got) /\ ~(Len(got) < SignLen)
    BY Zenon, <1>10 DEF receive_sign, Short
  <2>3. task'[t].pc = "pkt" /\ task'[t].len = task[t].len
    BY Zenon, <1>5, <2>1, GotoFacts DEF PcSet
  <2>4. ReadOf(t, p) = 3 /\ ReadOf(t, p)' = 3 + SignLen
    BY Zenon, <2>1, <2>3 DEF ReadOf
  <2>5. Len(got) \in Nat /\ Len(got) <= SignLen /\ SignLen \in Nat
    BY <1>4, <1>5, ReceiveFacts
  <2>6. /\ Len(got) = SignLen /\ SignLen \in Nat
        /\ SignLen <= (3 + SignLen + Len(p)) - 3 /\ 3 \in 0 .. 3 + SignLen
    BY ONLY <1>4, <2>2, <2>5
  <2>r. down[c] = From(Frame(p) \o h, 3)
    BY Zenon, <1>4, <2>4
  <2>7. down'[c] = From(Frame(p) \o h, 3 + SignLen)
    <3>1. WholeRead(c, h, p, 3, SignLen, got)
      BY Zenon, <1>4, <2>2, <2>6, <2>r DEF WholeRead
    <3> QED
      BY ONLY <1>5, <3>1, ReadFacts
  <2>8. task[t].len = Len(p)
    BY Zenon, <1>1, <2>1 DEF Loading
  <2> QED
    BY Zenon, <1>2, <1>3, <1>4, <2>3, <2>4, <2>7, <2>8 DEF Loading, Serving, Reading
<1> QED
  BY Zenon, <1>7, <1>8, <1>9, <1>10

(* The packet is the one that was sent. *)
LEMMA LinkPacket ==
  ASSUME BaseInv, NEW t \in Task, NEW h \in {<<>>, Beat}, NEW c \in Conn, c = sock, Link(t, c, h),
         UNCHANGED server, ~cut', receive_packet(t)
  PROVE  /\ Link(t, c, h)' /\ delivered'[c] = sent[c]
         /\ \A e \in Conn : e # c => delivered'[e] = delivered[e]
<1>1. PICK p \in Packet : Loading(t, c, p, h)
  BY Zenon DEF Link, Parsed, Ready, Beating, receive_packet
<1>2. UNCHANGED <<spc, todo, sent>>
  BY Zenon DEF server
<1>3. /\ Fits(p) /\ Len(p) \in Nat \ {0} /\ SignLen \in Nat \ {0} /\ p \in Seq(Byte)
      /\ \A i \in 1 .. Len(p) : Frame(p)[3 + SignLen + i] = p[i]
      /\ sent[c] = Append(delivered[c], p)
  BY Zenon, <1>1, FrameFacts, StreamAssumption DEF Loading
<1>4. /\ task[t].pc = "pkt" /\ task[t].len = Len(p) /\ Goto(t, "wait") /\ UNCHANGED <<up, srv>>
  BY Zenon, <1>1 DEF receive_packet, Loading
<1>5. PICK got \in Received(c, Len(p)) :
        /\ Consume(c, got) /\ ~(Len(got) < Len(p))
        /\ delivered' = [delivered EXCEPT ![c] = Append(@, got)]
  BY Zenon, <1>4 DEF receive_packet, Short
<1>6. /\ down \in [Conn -> Seq(Byte)] /\ task \in TaskType
      /\ delivered \in [Conn -> Seq(Seq(Byte))]
  BY Zenon DEF BaseInv, StreamType, ClientType
<1>7. task'[t].pc = "wait"
  BY Zenon, <1>4, <1>6, GotoFacts DEF PcSet
<1>8. ReadOf(t, p) = 3 + SignLen
  BY Zenon, <1>4 DEF ReadOf
<1>9. got \in Seq(Byte) /\ Len(got) \in Nat /\ Len(got) <= Len(p)
  BY Zenon, <1>3, <1>6, ReceiveFacts
<1>10. /\ Len(got) = Len(p) /\ Len(p) \in Nat
       /\ Len(p) <= (3 + SignLen + Len(p)) - (3 + SignLen) /\ 3 + SignLen \in 0 .. 3 + SignLen
  <2>1. Len(p) \in Nat \ {0} /\ SignLen \in Nat \ {0} /\ ~(Len(got) < Len(p))
    BY Zenon, <1>3, <1>5
  <2>2. Len(got) \in Nat /\ Len(got) <= Len(p)
    BY Zenon, <1>9
  <2> QED
    BY ONLY <2>1, <2>2
<1>r. down[c] = From(Frame(p) \o h, 3 + SignLen)
  BY Zenon, <1>1, <1>8 DEF Loading
<1>11. /\ down'[c] = From(Frame(p) \o h, (3 + SignLen) + Len(p))
       /\ \A i \in 1 .. Len(p) : got[i] = Frame(p)[(3 + SignLen) + i]
  <2>1. WholeRead(c, h, p, 3 + SignLen, Len(p), got)
    BY Zenon, <1>3, <1>5, <1>10, <1>r DEF WholeRead
  <2> QED
    BY ONLY <1>6, <2>1, ReadFacts
<1>12. got = p
  <2>1. \A i \in 1 .. Len(p) : got[i] = p[i]
    BY Zenon, <1>3, <1>11
  <2> QED
    BY Zenon, <1>3, <1>9, <1>10, <2>1, SeqEqual
<1>13. down'[c] = h
  <2>1. 0 \in 0 .. 3 + SignLen + Len(p)
    BY SMTT(30), <1>3
  <2>2. From(Frame(p) \o h, 3 + SignLen + Len(p)) = h
    BY Zenon, <1>3, <2>1, RestFacts
  <2> QED
    BY Zenon, <1>11, <2>2
<1>14. delivered'[c] = sent[c] /\ \A e \in Conn : e # c => delivered'[e] = delivered[e]
  BY Zenon, <1>3, <1>5, <1>6, <1>12
<1>15. Ready(t, c, h)' /\ ~Beating(t, c)'
  BY Zenon, <1>2, <1>7, <1>13, <1>14 DEF Ready, Beating
<1>16. c \in srv => Inside(c, h)
  BY Zenon, <1>1, LoadingFacts DEF Link
<1>17. (c \in srv => Exchange(t, c, h))'
  BY Zenon, <1>2, <1>4, <1>15, <1>16 DEF Inside, Exchange, Answering, Sending
<1> QED
  BY Zenon, <1>14, <1>15, <1>17 DEF Link, Parsed

(* A step of the server that does not concern the connection. *)
LEMMA ParsedFrame ==
  ASSUME UNCHANGED <<task, buf, delivered>>, NEW t \in Task, NEW c \in Conn,
         down'[c] = down[c], sent'[c] = sent[c]
  PROVE  /\ Beating(t, c)' <=> Beating(t, c)
         /\ \A x : Ready(t, c, x)' <=> Ready(t, c, x)
         /\ \A x : Parsed(t, c, x)' <=> Parsed(t, c, x)
<1>1. Beating(t, c)' <=> Beating(t, c)
  BY Zenon DEF Beating
<1>2. ASSUME NEW x PROVE Ready(t, c, x)' <=> Ready(t, c, x)
  BY Zenon DEF Ready
<1>3. ASSUME NEW x, NEW p PROVE Loading(t, c, p, x)' <=> Loading(t, c, p, x)
  BY Zenon DEF Loading, ReadOf, byte2int
<1>4. ASSUME NEW x PROVE Parsed(t, c, x)' <=> Parsed(t, c, x)
  BY Zenon, <1>1, <1>2, <1>3 DEF Parsed
<1> QED
  BY Zenon, <1>1, <1>2, <1>4

(* Such a step keeps what is on its way. *)
LEMMA LinkKept ==
  ASSUME UNCHANGED <<task, buf, delivered>>, NEW t \in Task, NEW c \in Conn, NEW h, Link(t, c, h),
         down'[c] = down[c], sent'[c] = sent[c], up'[c] = up[c], srv' \subseteq srv,
         \/ c \notin srv'
         \/ UNCHANGED <<spc, todo>>
         \/ ~Answering(c) /\ ~Answering(c)' /\ ~Sending(c)'
  PROVE  Link(t, c, h)'
<1>1. /\ Beating(t, c)' <=> Beating(t, c)
      /\ Ready(t, c, <<>>)' <=> Ready(t, c, <<>>)
      /\ Parsed(t, c, h)' <=> Parsed(t, c, h)
  BY Zenon, ParsedFrame
<1>2. CASE c \notin srv'
  BY Zenon, <1>1, <1>2 DEF Link
<1>3. CASE UNCHANGED <<spc, todo>>
  BY Zenon, <1>1, <1>3 DEF Link, Exchange
<1>4. CASE ~Answering(c) /\ ~Answering(c)' /\ ~Sending(c)'
  BY Zenon, <1>1, <1>4 DEF Link, Exchange, Answering, Sending
<1> QED
  BY Zenon, <1>2, <1>3, <1>4

(* The steps of the server outside the iteration. *)
LEMMA LinkOutside ==
  ASSUME BaseInv, UNCHANGED client, NEW t \in Task, NEW h \in {<<>>, Beat}, NEW c \in Conn,
         Link(t, c, h),
         accept \/ (\E p \in Packet \cup {<<>>} : Begin(p)) \/ Exit \/ close_clients
  PROVE  Link(t, c, h)'
<1>1. UNCHANGED <<task, buf, delivered, down, sent, up>> /\ srv' \subseteq srv
  BY Zenon DEF client, accept, Begin, Exit, close_clients, streams
<1>2. \/ c \notin srv'
      \/ UNCHANGED <<spc, todo>>
      \/ ~Answering(c) /\ ~Answering(c)' /\ ~Sending(c)'
  BY Zenon DEF accept, Begin, Exit, close_clients, Answering, Sending
<1> QED
  BY Zenon, <1>1, <1>2, LinkKept

(* The heartbeat of the server, before and in the middle of a frame. *)
LEMMA LinkBeat ==
  ASSUME BaseInv, UNCHANGED client, NEW t \in Task, NEW h \in {<<>>, Beat}, NEW c \in Conn,
         Link(t, c, h), Connected(c), c = Head(todo), send_heartbeat
  PROVE  Link(t, c, Beat)'
<1>1. /\ spc = "loop" /\ Put(c, Beat) /\ spc' = "answer" /\ UNCHANGED <<todo, sent, up, srv>>
  BY Zenon DEF send_heartbeat, Beat
<1>2. UNCHANGED <<task, buf, delivered>>
  BY Zenon DEF client
<1>3. /\ down \in [Conn -> Seq(Byte)] /\ Beat \in Seq(Byte)
  BY Zenon, Bytes DEF BaseInv, StreamType
<1>4. down'[c] = down[c] \o Beat
  BY Zenon, <1>1, <1>3, PutFacts
<1>5. h = <<>> /\ up[c] = <<>> /\ ~Beating(t, c)
  BY Zenon, <1>1 DEF Link, Exchange, Connected
<1>6. Exchange(t, c, Beat)'
  BY <1>1, <1>5 DEF Exchange
<1>7. CASE Ready(t, c, h)
  <2>1. down'[c] = <<>> \o Beat
    BY <1>4, <1>5, <1>7 DEF Ready
  <2>2. <<>> \o Beat = Beat
    BY Zenon, <1>3, ConcatEmptySeq
  <2>3. Ready(t, c, Beat)'
    BY Zenon, <1>1, <1>2, <1>7, <2>1, <2>2 DEF Ready
  <2> QED
    BY Zenon, <1>6, <2>3 DEF Link, Parsed
<1>8. ASSUME NEW p \in Packet, Loading(t, c, p, h) PROVE Link(t, c, Beat)'
  <2> DEFINE k == ReadOf(t, p)
  <2>1. Fits(p) /\ down[c] = From(Frame(p) \o <<>>, k)
    BY Zenon, <1>5, <1>8 DEF Loading
  <2>2. /\ Frame(p) \in Seq(Byte) /\ Len(Frame(p)) = 3 + SignLen + Len(p)
        /\ Len(p) \in Nat /\ SignLen \in Nat
    BY Zenon, <2>1, FrameFacts, StreamAssumption
  <2>3. k \in 0 .. 3 + SignLen
    BY Zenon, ReadOfType
  <2> HIDE DEF k
  <2>4. k \in 0 .. Len(Frame(p))
    BY <2>2, <2>3
  <2>5. Frame(p) \o <<>> = Frame(p)
    BY Zenon, <2>2, ConcatEmptySeq
  <2>6. From(Frame(p) \o Beat, k) = From(Frame(p), k) \o Beat
    BY Zenon, <1>3, <2>2, <2>4, FromConcat
  <2>7. down'[c] = From(Frame(p) \o Beat, k)
    BY <1>4, <2>1, <2>5, <2>6
  <2>8. ReadOf(t, p)' = k
    BY Zenon, <1>2 DEF ReadOf, k
  <2>9. Loading(t, c, p, Beat)'
    BY Zenon, <1>1, <1>2, <1>8, <2>7, <2>8 DEF Loading, byte2int
  <2> QED
    BY Zenon, <1>6, <2>9 DEF Link, Parsed
<1> QED
  BY Zenon, <1>5, <1>7, <1>8 DEF Link, Parsed

(* The answer of the device. *)
LEMMA LinkAnswer ==
  ASSUME BaseInv, UNCHANGED client, NEW t \in Task, NEW h \in {<<>>, Beat}, NEW c \in Conn,
         Link(t, c, h), Connected(c), c = Head(todo), receive_answer
  PROVE  up[c] = Beat /\ Link(t, c, <<>>)'
<1>1. /\ spc = "answer" /\ up[c] # <<>> /\ up' = [up EXCEPT ![c] = <<>>]
      /\ UNCHANGED <<sent, down, srv>>
  BY Zenon DEF receive_answer
<1>2. UNCHANGED <<task, buf, delivered>>
  BY Zenon DEF client
<1>3. h = <<>> /\ up[c] = Beat /\ Ready(t, c, <<>>)
  BY Zenon, <1>1 DEF Link, Exchange, Connected
<1>4. spc' # "answer"
  BY Zenon, <1>3 DEF receive_answer, Beat
<1>5. up'[c] = <<>>
  BY Zenon, <1>1 DEF BaseInv, StreamType
<1>6. Ready(t, c, <<>>)' /\ ~Beating(t, c)'
  <2>1. Ready(t, c, <<>>)'
    BY Zenon, <1>1, <1>2, <1>3, ParsedFrame
  <2> QED
    BY Zenon, <2>1 DEF Ready, Beating
<1>7. Exchange(t, c, <<>>)'
  BY Zenon, <1>4, <1>5, <1>6 DEF Exchange
<1> QED
  BY Zenon, <1>3, <1>6, <1>7 DEF Link, Parsed

(* The packet, which follows an answer. *)
LEMMA LinkSend ==
  ASSUME BaseInv, UNCHANGED client, NEW t \in Task, NEW h \in {<<>>, Beat}, NEW c \in Conn,
         Link(t, c, h), Connected(c), c = Head(todo), send_packet
  PROVE  Link(t, c, <<>>)'
<1>1. /\ spc = "send" /\ Put(c, Frame(packet)) /\ sent' = [sent EXCEPT ![c] = Append(@, packet)]
      /\ spc' = "loop" /\ UNCHANGED <<up, srv>>
  BY Zenon DEF send_packet
<1>2. UNCHANGED <<task, buf, delivered>>
  BY Zenon DEF client
<1>3. PICK p : p = packet
  BY Zenon
<1>4. Fits(p) /\ p \in Packet
  BY Zenon, <1>1, <1>3 DEF BaseInv, ServerInv, Fits
<1>5. Frame(p) \in Seq(Byte)
  BY Zenon, <1>4, FrameFacts
<1>6. h = <<>> /\ up[c] = <<>> /\ Ready(t, c, <<>>)
  BY Zenon, <1>1 DEF Link, Exchange, Connected
<1>7. down'[c] = <<>> \o Frame(p)
  BY Zenon, <1>1, <1>3, <1>5, <1>6, PutFacts DEF BaseInv, StreamType, Ready
<1>8. down'[c] = From(Frame(p) \o <<>>, 0)
  <2>1. <<>> \o Frame(p) = Frame(p) /\ Frame(p) \o <<>> = Frame(p)
    BY Zenon, <1>5, ConcatEmptySeq
  <2>2. From(Frame(p), 0) = Frame(p)
    BY Zenon, <1>5, FromZero
  <2> QED
    BY <1>7, <2>1, <2>2
<1>9. sent'[c] = Append(delivered[c], p)
  BY Zenon, <1>1, <1>3, <1>6 DEF BaseInv, ServerType, Ready
<1>10. task[t].pc \in {"wait", "cmd"}
  BY Zenon, <1>6 DEF Ready
<1>11. ReadOf(t, p)' = 0
  BY <1>2, <1>10 DEF ReadOf
<1>12. Loading(t, c, p, <<>>)'
  BY <1>2, <1>4, <1>8, <1>9, <1>10, <1>11 DEF Loading, Serving, Reading
<1>13. Exchange(t, c, <<>>)'
  BY Zenon, <1>1, <1>2, <1>6, <1>10 DEF Exchange, Beating
<1> QED
  BY <1>4, <1>12, <1>13 DEF Link, Parsed

(* Every step of the iteration. *)
LEMMA LinkIteration ==
  ASSUME BaseInv, UNCHANGED client, NEW t \in Task, NEW h \in {<<>>, Beat}, NEW c \in Conn,
         Link(t, c, h), c \in dev, c \notin lost,
         send_heartbeat \/ receive_answer \/ receive_nothing \/ send_packet
  PROVE  \E g \in {<<>>, Beat} : Link(t, c, g)'
<1>1. LoopFrame
  BY Zenon, LoopFrames
<1>2. CASE c # Head(todo)
  <2>1. /\ down'[c] = down[c] /\ sent'[c] = sent[c] /\ up'[c] = up[c] /\ srv' = srv
        /\ UNCHANGED <<task, buf, delivered>>
        /\ spc' \in {"answer", "send"} => todo' = todo
    BY Zenon, <1>1, <1>2 DEF LoopFrame, client
  <2>2. ~Answering(c) /\ ~Answering(c)' /\ ~Sending(c)'
    BY Zenon, <1>2, <2>1 DEF Answering, Sending
  <2> QED
    BY Zenon, <2>1, <2>2, LinkKept
<1>3. CASE c = Head(todo)
  <2>1. c \in srv
    BY <1>1, <1>3, TodoFacts DEF LoopFrame
  <2>2. Connected(c)
    BY Zenon, <2>1 DEF Connected
  <2>3. ~receive_nothing
    BY Zenon, <1>3, <2>2 DEF receive_nothing
  <2> QED
    BY Zenon, <1>3, <2>2, <2>3, LinkBeat, LinkAnswer, LinkSend
<1> QED
  BY Zenon, <1>2, <1>3

-----------------------------------------------------------------------------
(* The connection that the device serves, under any step. *)
LEMMA LinkInit == Init => LinkInv
BY Zenon DEF Init, ClientInit, LinkInv

(* The two histories only grow. *)
LEMMA CleanBefore ==
  ASSUME NEW t \in Task, Clean',
         \/ start_patch_service(t) \/ connect_failed(t)
         \/ check_status(t) \/ receive_cmd(t)
         \/ dispatch_exit(t) \/ dispatch_heartbeat(t) \/ dispatch_other(t)
         \/ receive_len(t) \/ alloc_packet(t) \/ receive_sign(t) \/ receive_packet(t)
  PROVE  Clean
<1>0. ~cut' /\ ~overlap'
  BY Zenon DEF Clean
<1>1. CASE start_patch_service(t)
  BY Zenon, <1>0, <1>1 DEF Clean, start_patch_service
<1>2. CASE \/ connect_failed(t) \/ check_status(t) \/ receive_cmd(t) \/ dispatch_exit(t)
           \/ dispatch_heartbeat(t) \/ dispatch_other(t) \/ alloc_packet(t)
  <2>1. UNCHANGED <<cut, overlap>>
    BY Zenon, <1>2 DEF connect_failed, check_status, receive_cmd, dispatch_exit, dispatch_heartbeat,
                dispatch_other, alloc_packet
  <2> QED
    BY Zenon, <1>0, <2>1 DEF Clean
<1>3. CASE receive_len(t)
  <2>1. overlap' = overlap /\ \E got \in Received(sock, 2) : cut' = (cut \/ Len(got) < 2)
    BY Zenon, <1>3 DEF receive_len, Short
  <2> QED
    BY Zenon, <1>0, <2>1 DEF Clean
<1>4. CASE receive_sign(t)
  <2>1. overlap' = overlap /\ \E got \in Received(sock, SignLen) : cut' = (cut \/ Len(got) < SignLen)
    BY Zenon, <1>4 DEF receive_sign, Short
  <2> QED
    BY Zenon, <1>0, <2>1 DEF Clean
<1>5. CASE receive_packet(t)
  <2>1. /\ overlap' = overlap
        /\ \E got \in Received(sock, task[t].len) : cut' = (cut \/ Len(got) < task[t].len)
    BY Zenon, <1>5 DEF receive_packet, Short
  <2> QED
    BY Zenon, <1>0, <2>1 DEF Clean
<1> QED
  BY <1>1, <1>2, <1>3, <1>4, <1>5

(* The steps of the device but the connect. *)
LEMMA LinkClient ==
  ASSUME BaseInv, TaskInv, LinkInv, NEW t \in Task, UNCHANGED server,
         \/ start_patch_service(t) \/ connect_failed(t)
         \/ check_status(t) \/ receive_cmd(t)
         \/ dispatch_exit(t) \/ dispatch_heartbeat(t) \/ dispatch_other(t)
         \/ receive_len(t) \/ alloc_packet(t) \/ receive_sign(t) \/ receive_packet(t)
  PROVE  LinkInv'
<1>1. SUFFICES ASSUME Clean', status' = "RUNNING", sock' \notin lost' PROVE LinkInv'
  BY Zenon DEF LinkInv
<1>2. sock' = sock /\ lost' = lost
  BY Zenon, ClientFrames DEF ClientFrame
<1>3. Clean
  BY Zenon, <1>1, CleanBefore
<1>4. status = "RUNNING" /\ Alive(t) /\ ~connect_failed(t) /\ ~dispatch_exit(t)
      /\ ~start_patch_service(t)
  <2>1. /\ task[t].pc \in Reading => status = "RUNNING"
        /\ task[t].pc = "connect" => status = "WAIT_FOR_INIT"
    BY Zenon, <1>3 DEF TaskInv, Clean
  <2>2. ~start_patch_service(t)
    BY Zenon, <1>1 DEF start_patch_service
  <2>3. ~connect_failed(t)
    BY Zenon, <1>1, <2>1 DEF connect_failed
  <2>4. ~dispatch_exit(t)
    BY Zenon, <1>1 DEF dispatch_exit, dis_connect
  <2>5. CASE check_status(t)
    BY Zenon, <1>1, <2>2, <2>3, <2>4, <2>5 DEF check_status, Alive
  <2>6. CASE ~check_status(t)
    <3>1. task[t].pc \in Reading
      BY Zenon, <2>2, <2>3, <2>4, <2>6 DEF receive_cmd, dispatch_heartbeat, dispatch_other, receive_len,
           alloc_packet, receive_sign, receive_packet, Reading
    <3> QED
      BY Zenon, <2>1, <2>2, <2>3, <2>4, <3>1 DEF Alive, Reading
  <2> QED
    BY Zenon, <2>5, <2>6
<1>5. PICK h \in {<<>>, Beat} : Link(t, sock, h) /\ sock \in Conn /\ dev = {sock}
  BY <1>1, <1>2, <1>3, <1>4, LinkOpen
<1>6. PICK c \in Conn : c = sock
  BY Zenon, <1>5
<1>7. ~cut' /\ c \notin lost
  BY <1>1, <1>2, <1>6 DEF Clean
<1>8. \E g \in {<<>>, Beat} : Link(t, c, g)'
  <2>1. CASE check_status(t)
    BY <1>1, <1>5, <1>6, <2>1, LinkCheck
  <2>2. CASE receive_cmd(t)
    BY <1>1, <1>5, <1>6, <2>2, LinkCommand
  <2>3. CASE dispatch_heartbeat(t)
    BY <1>1, <1>5, <1>6, <1>7, <2>3, LinkHeartbeat
  <2>4. CASE dispatch_other(t) \/ receive_len(t) \/ alloc_packet(t) \/ receive_sign(t)
    BY <1>5, <1>6, <1>7, <2>4, LinkLoad
  <2>5. CASE receive_packet(t)
    BY Zenon, <1>5, <1>6, <1>7, <2>5, LinkPacket
  <2> QED
    BY <1>4, <2>1, <2>2, <2>3, <2>4, <2>5
<1> QED
  BY Zenon, <1>2, <1>6, <1>8 DEF LinkInv, Link

(* The connect, over which nothing is on its way. *)
LEMMA LinkConnect ==
  ASSUME BaseInv, NEW t \in Task, NEW c \in Conn, UNCHANGED server, setup_connect(t, c)
  PROVE  LinkInv'
<1>1. c \notin used /\ sock' = c /\ Goto(t, "wait") /\ UNCHANGED <<down, up, delivered>>
  BY Zenon DEF setup_connect
<1>2. UNCHANGED <<spc, todo, sent>>
  BY Zenon DEF server
<1>3. task'[t].pc = "wait"
  BY Zenon, <1>1, GotoFacts DEF PcSet, BaseInv, ClientType
<1>4. down[c] = <<>> /\ up[c] = <<>> /\ sent[c] = <<>> /\ delivered[c] = <<>>
  BY Zenon, <1>1 DEF BaseInv, KnownInv
<1>5. Ready(t, c, <<>>)' /\ ~Beating(t, c)'
  BY <1>1, <1>2, <1>3, <1>4 DEF Ready, Beating
<1>6. ~Answering(c)
  <2>1. ASSUME spc = "answer" PROVE Head(todo) \in used
    BY Zenon, <2>1, TodoFacts DEF BaseInv, ServerInv
  <2> QED
    BY Zenon, <1>1, <2>1 DEF Answering
<1>7. Exchange(t, c, <<>>)'
  BY Zenon, <1>1, <1>2, <1>4, <1>5, <1>6 DEF Exchange, Answering
<1> QED
  BY Zenon, <1>1, <1>5, <1>7 DEF LinkInv, Parsed

(* The steps of the server and of the network. *)
LEMMA LinkOthers ==
  ASSUME BaseInv, TaskInv, LinkInv, UNCHANGED client,
         \/ send_heartbeat \/ receive_answer \/ receive_nothing \/ send_packet
         \/ accept \/ (\E p \in Packet \cup {<<>>} : Begin(p)) \/ Exit \/ close_clients
         \/ \E c \in Conn : Lose(c) /\ UNCHANGED server
  PROVE  LinkInv'
<1>1. SUFFICES ASSUME Clean', status' = "RUNNING", sock' \notin lost' PROVE LinkInv'
  BY Zenon DEF LinkInv
<1>2. Clean /\ status = "RUNNING" /\ sock' = sock
  BY Zenon, <1>1 DEF Clean, client
<1>3. lost \subseteq lost'
  BY Zenon DEF send_heartbeat, receive_answer, receive_nothing, send_packet, accept, Begin, Exit,
         close_clients, Lose, streams
<1>4. sock \notin lost
  BY <1>1, <1>2, <1>3
<1>5. PICK t \in Task, h \in {<<>>, Beat} : Link(t, sock, h) /\ sock \in Conn /\ dev = {sock}
  BY Zenon, <1>2, <1>4, LinkOpen
<1>6. PICK c \in Conn : c = sock
  BY Zenon, <1>5
<1>7. \E g \in {<<>>, Beat} : Link(t, c, g)'
  <2>1. CASE send_heartbeat \/ receive_answer \/ receive_nothing \/ send_packet
    BY <1>4, <1>5, <1>6, <2>1, LinkIteration
  <2>2. CASE accept \/ (\E p \in Packet \cup {<<>>} : Begin(p)) \/ Exit \/ close_clients
    BY <1>5, <1>6, <2>2, LinkOutside
  <2>3. ASSUME NEW e \in Conn, Lose(e), UNCHANGED server PROVE Link(t, c, h)'
    <3>1. e # c
      BY <1>1, <1>2, <1>6, <2>3 DEF Lose
    <3>2. down'[c] = down[c] /\ up'[c] = up[c] /\ srv' = srv
      BY Zenon, <2>3, <3>1 DEF Lose, BaseInv, StreamType
    <3>3. UNCHANGED <<task, buf, delivered, spc, todo, sent>>
      BY Zenon, <2>3 DEF client, server
    <3> QED
      BY Zenon, <1>5, <1>6, <3>2, <3>3, LinkKept
  <2> QED
    BY <2>1, <2>2, <2>3
<1> QED
  BY Zenon, <1>2, <1>6, <1>7 DEF LinkInv, Link

(* Every step keeps the account of the stream. *)
LEMMA LinkNext == BaseInv /\ TaskInv /\ LinkInv /\ [Next]_vars => LinkInv'
<1> SUFFICES ASSUME BaseInv, TaskInv, LinkInv, [Next]_vars PROVE LinkInv'
  BY Zenon
<1>1. CASE UNCHANGED vars
  <2> USE <1>1 DEF vars, client, server, streams
  <2>1. Clean' <=> Clean
    BY Zenon DEF Clean
  <2>2. ASSUME NEW t \in Task, NEW h, Link(t, sock, h) PROVE Link(t, sock, h)'
    <3>1. Beating(t, sock)' <=> Beating(t, sock)
      BY Zenon DEF Beating
    <3>2. \A x : Ready(t, sock, x)' <=> Ready(t, sock, x)
      BY Zenon DEF Ready
    <3>3. \A p : Loading(t, sock, p, h)' <=> Loading(t, sock, p, h)
      BY Zenon DEF Loading, ReadOf, byte2int
    <3>4. Parsed(t, sock, h)'
      BY <2>2, <3>1, <3>2, <3>3 DEF Parsed, Link
    <3>5. (sock \in srv => Exchange(t, sock, h))'
      BY Zenon, <2>2, <3>1, <3>2 DEF Exchange, Link
    <3> QED
      BY Zenon, <3>4, <3>5 DEF Link
  <2> QED
    BY <2>1, <2>2 DEF LinkInv, Link
<1>2. CASE Next
  <2>1. \/ \E t \in Task : /\ UNCHANGED server
                           /\ \/ start_patch_service(t) \/ connect_failed(t)
                              \/ check_status(t) \/ receive_cmd(t)
                              \/ dispatch_exit(t) \/ dispatch_heartbeat(t) \/ dispatch_other(t)
                              \/ receive_len(t) \/ alloc_packet(t)
                              \/ receive_sign(t) \/ receive_packet(t)
        \/ \E t \in Task, c \in Conn : setup_connect(t, c) /\ UNCHANGED server
        \/ /\ UNCHANGED client
           /\ \/ send_heartbeat \/ receive_answer \/ receive_nothing \/ send_packet
              \/ accept \/ (\E p \in Packet \cup {<<>>} : Begin(p)) \/ Exit \/ close_clients
              \/ \E c \in Conn : Lose(c) /\ UNCHANGED server
    BY Zenon, <1>2, Steps
  <2> QED
    BY <2>1, LinkClient, LinkConnect, LinkOthers
<1> QED
  BY Zenon, <1>1, <1>2

-----------------------------------------------------------------------------
(* The lengths. *)
LEMMA LengthInit == Init => LengthInv
BY DEF Init, ClientInit, LengthInv

(* A receive inside a load that returns all it asked for was from a        *)
(* connection that is up.                                                  *)
LEMMA LoadOpen ==
  ASSUME BaseInv, TaskInv, LinkInv, Clean, NEW t \in Task, task[t].pc \in Reading,
         NEW n \in Nat \ {0}, NEW got \in Received(sock, n), ~(Len(got) < n)
  PROVE  \E h \in {<<>>, Beat} : Link(t, sock, h) /\ sock \in Conn /\ dev = {sock}
<1>1. status = "RUNNING" /\ Alive(t)
  BY Zenon DEF TaskInv, Clean, Reading, Alive
<1>2. sock \in Conn
  BY Zenon, ServedConn DEF Serving
<1>3. got # <<>>
  BY Bytes
<1>4. sock \notin lost
  BY Zenon, <1>2, <1>3, ReceiveFacts DEF BaseInv, StreamType
<1> QED
  BY Zenon, <1>1, <1>4, LinkOpen

(* Where the steps of a task lead. *)
LEMMA Moves ==
  ASSUME NEW t \in Task,
         \/ start_patch_service(t) \/ connect_failed(t)
         \/ check_status(t) \/ receive_cmd(t)
         \/ dispatch_exit(t) \/ dispatch_heartbeat(t) \/ dispatch_other(t)
         \/ receive_len(t) \/ receive_sign(t) \/ receive_packet(t)
  PROVE  \E x \in PcSet : /\ Goto(t, x) /\ x \notin {"undefined", "sign"}
                          /\ x = "alloc" => receive_len(t)
                          /\ x = "pkt" => task[t].pc = "sign"
<1> USE DEF PcSet
<1>1. CASE start_patch_service(t) \/ connect_failed(t) \/ check_status(t)
  BY Zenon, <1>1 DEF start_patch_service, connect_failed, check_status
<1>2. CASE receive_cmd(t)
  <2>1. Goto(t, "none") \/ Goto(t, "dispatch")
    BY Zenon, <1>2 DEF receive_cmd
  <2> QED
    BY Zenon, <2>1
<1>3. CASE dispatch_exit(t) \/ dispatch_heartbeat(t) \/ dispatch_other(t)
  BY Zenon, <1>3 DEF dispatch_exit, dispatch_heartbeat, dispatch_other
<1>4. CASE receive_len(t)
  <2>1. Goto(t, "alloc")
    BY Zenon, <1>4 DEF receive_len
  <2> QED
    BY Zenon, <1>4, <2>1
<1>5. CASE receive_sign(t)
  <2>1. Goto(t, "pkt") /\ task[t].pc = "sign"
    BY Zenon, <1>5 DEF receive_sign
  <2> QED
    BY Zenon, <2>1
<1>6. CASE receive_packet(t)
  <2>1. Goto(t, "wait")
    BY Zenon, <1>6 DEF receive_packet
  <2> QED
    BY Zenon, <2>1
<1> QED
  BY Zenon, <1>1, <1>2, <1>3, <1>4, <1>5, <1>6

(* The steps of the device but the connect. *)
LEMMA LengthClient ==
  ASSUME BaseInv, TaskInv, LinkInv, LengthInv, NEW t \in Task, UNCHANGED server,
         \/ start_patch_service(t) \/ connect_failed(t)
         \/ check_status(t) \/ receive_cmd(t)
         \/ dispatch_exit(t) \/ dispatch_heartbeat(t) \/ dispatch_other(t)
         \/ receive_len(t) \/ alloc_packet(t) \/ receive_sign(t) \/ receive_packet(t)
  PROVE  LengthInv'
<1>1. task \in TaskType /\ buf \in [1 .. 2 -> Byte] /\ SignLen \in Nat \ {0}
  BY Zenon, StreamAssumption DEF BaseInv, ClientType
<1>2. \A u \in Task : u # t => task'[u] = task[u]
  <2>1. CASE alloc_packet(t)
    BY Zenon, <1>1, <2>1 DEF alloc_packet, TaskType
  <2>2. CASE ~alloc_packet(t)
    BY Zenon, <1>1, <2>2, Moves, GotoFacts
  <2> QED
    BY Zenon, <2>1, <2>2
<1>3. \A u \in Task : task[u].pc \in {"sign", "pkt"} => task[u].len # 0
  BY Zenon DEF LengthInv
<1>4. task'[t].pc \in {"sign", "pkt"} => task'[t].len # 0
  <2>1. CASE alloc_packet(t)
    <3> DEFINE len == byte2int(buf, 2)
    <3>1. len \in Nat
      BY <1>1, LengthType
    <3>2. task' = [task EXCEPT ![t] = IF len <= SignLen THEN [pc |-> "undefined", len |-> 0]
                                      ELSE [pc |-> "sign", len |-> len - SignLen]]
      BY Zenon, <2>1 DEF alloc_packet
    <3> HIDE DEF len
    <3>3. CASE len <= SignLen
      BY Zenon, <1>1, <3>2, <3>3 DEF TaskType
    <3>4. CASE ~(len <= SignLen)
      <4>1. task'[t].len = len - SignLen
        BY Zenon, <1>1, <3>2, <3>4 DEF TaskType
      <4> QED
        BY ONLY <1>1, <3>1, <3>4, <4>1
    <3> QED
      BY Zenon, <3>3, <3>4
  <2>2. CASE ~alloc_packet(t)
    <3>1. PICK x \in PcSet : /\ Goto(t, x) /\ x \notin {"undefined", "sign"}
                             /\ x = "pkt" => task[t].pc = "sign"
      BY Zenon, <2>2, Moves
    <3>2. task'[t].pc = x /\ task'[t].len = task[t].len
      BY Zenon, <1>1, <3>1, GotoFacts
    <3> QED
      BY Zenon, <1>3, <3>1, <3>2
  <2> QED
    BY Zenon, <2>1, <2>2
<1>5. ASSUME Clean', NEW u \in Task
      PROVE  task'[u].pc # "undefined" /\ (task'[u].pc = "alloc" => byte2int(buf', 2) > SignLen)
  <2>1. Clean
    BY Zenon, <1>5, CleanBefore
  <2>2. \A v \in Task : /\ task[v].pc # "undefined"
                        /\ task[v].pc = "alloc" => byte2int(buf, 2) > SignLen
    BY Zenon, <2>1 DEF LengthInv
  <2>3. CASE u # t
    <3>1. CASE receive_cmd(t) \/ receive_len(t)
      <4>1. Alive(t)
        BY Zenon, <3>1 DEF receive_cmd, receive_len, Alive
      <4>2. ~Alive(u)
        BY Zenon, <2>1, <2>3, <4>1 DEF TaskInv, Clean
      <4> QED
        BY Zenon, <1>2, <2>3, <4>2 DEF Alive
    <3>2. CASE ~(receive_cmd(t) \/ receive_len(t))
      <4>1. buf' = buf
        BY Zenon, <3>2 DEF start_patch_service, connect_failed, check_status, dispatch_exit,
                    dispatch_heartbeat, dispatch_other, alloc_packet, receive_sign, receive_packet
      <4> QED
        BY Zenon, <1>2, <2>2, <2>3, <4>1
    <3> QED
      BY Zenon, <3>1, <3>2
  <2>4. CASE u = t
    <3>1. CASE alloc_packet(t)
      <4>1. byte2int(buf, 2) > SignLen /\ byte2int(buf, 2) \in Nat
        BY SMTT(30), <1>1, <2>2, <3>1, LengthType DEF alloc_packet
      <4>2. ~(byte2int(buf, 2) <= SignLen)
        BY <1>1, <4>1
      <4>3. task'[t].pc = "sign"
        BY Zenon, <1>1, <3>1, <4>2 DEF alloc_packet, TaskType
      <4> QED
        BY Zenon, <2>4, <4>3
    <3>2. CASE receive_len(t)
      <4>1. PICK got \in Received(sock, 2) : ~(Len(got) < 2)
        BY Zenon, <1>5, <3>2 DEF receive_len, Short, Clean
      <4>2. task[t].pc \in Reading /\ 2 \in Nat \ {0} /\ Goto(t, "alloc")
        BY ONLY <3>2 DEF receive_len, Reading
      <4>3. PICK h \in {<<>>, Beat} : Link(t, sock, h) /\ sock \in Conn
        BY <2>1, <4>1, <4>2, LoadOpen
      <4>4. PICK c \in Conn : c = sock
        BY Zenon, <4>3
      <4>5. PICK p \in Packet : Loading(t, c, p, h)'
        BY <1>5, <3>2, <4>3, <4>4, LinkLoad DEF Clean
      <4>6. task'[t].pc = "alloc"
        BY Zenon, <1>1, <4>2, GotoFacts DEF PcSet
      <4>7. Fits(p) /\ byte2int(buf', 2) = SignLen + Len(p)
        BY Zenon, <4>5, <4>6 DEF Loading
      <4>8. Len(p) \in Nat \ {0}
        BY <4>7, FrameFacts
      <4> QED
        BY ONLY <1>1, <2>4, <4>6, <4>7, <4>8
    <3>3. CASE ~alloc_packet(t) /\ ~receive_len(t)
      <4>1. PICK x \in PcSet : Goto(t, x) /\ x \notin {"undefined", "alloc"}
        BY Zenon, <3>3, Moves
      <4>2. task'[t].pc = x
        BY Zenon, <1>1, <4>1, GotoFacts
      <4> QED
        BY Zenon, <2>4, <4>1, <4>2
    <3> QED
      BY Zenon, <3>1, <3>2, <3>3
  <2> QED
    BY Zenon, <2>3, <2>4
<1>6. ASSUME NEW u \in Task, task'[u].pc \in {"sign", "pkt"} PROVE task'[u].len # 0
  BY Zenon, <1>2, <1>3, <1>4, <1>6
<1> QED
  BY Zenon, <1>5, <1>6 DEF LengthInv

(* The connect. *)
LEMMA LengthConnect ==
  ASSUME BaseInv, LengthInv, NEW t \in Task, NEW c \in Conn, setup_connect(t, c)
  PROVE  LengthInv'
<1>1. Goto(t, "wait") /\ UNCHANGED <<buf, cut, overlap>>
  BY Zenon DEF setup_connect
<1>2. task'[t].pc = "wait" /\ \A u \in Task : u # t => task'[u] = task[u]
  BY Zenon, <1>1, GotoFacts DEF PcSet, BaseInv, ClientType
<1>3. Clean' <=> Clean
  BY <1>1 DEF Clean
<1> QED
  BY Zenon, <1>1, <1>2, <1>3 DEF LengthInv

(* A step that leaves the device alone. *)
LEMMA LengthFrame ==
  ASSUME LengthInv, UNCHANGED client
  PROVE  LengthInv'
BY DEF LengthInv, client, Clean

(* Every step keeps the lengths. *)
LEMMA LengthNext == BaseInv /\ TaskInv /\ LinkInv /\ LengthInv /\ [Next]_vars => LengthInv'
<1> SUFFICES ASSUME BaseInv, TaskInv, LinkInv, LengthInv, [Next]_vars PROVE LengthInv'
  BY Zenon
<1>1. \/ \E t \in Task : /\ UNCHANGED server
                         /\ \/ start_patch_service(t) \/ connect_failed(t)
                            \/ check_status(t) \/ receive_cmd(t)
                            \/ dispatch_exit(t) \/ dispatch_heartbeat(t) \/ dispatch_other(t)
                            \/ receive_len(t) \/ alloc_packet(t)
                            \/ receive_sign(t) \/ receive_packet(t)
      \/ \E t \in Task, c \in Conn : setup_connect(t, c)
      \/ UNCHANGED client
  BY Zenon, Steps DEF vars
<1> QED
  BY <1>1, LengthClient, LengthConnect, LengthFrame

-----------------------------------------------------------------------------
(* What was delivered, and the devices about to be given up. *)
PrefixOf(c) ==
  /\ Len(delivered[c]) <= Len(sent[c])
  /\ \A i \in 1 .. Len(delivered[c]) : delivered[c][i] = sent[c][i]

(* Nothing is delivered or given up initially. *)
LEMMA DeliveryInit == Init => DeliveryInv
<1> SUFFICES ASSUME Init PROVE DeliveryInv
  BY Zenon
<1>1. \A c \in Conn : delivered[c] = <<>> /\ sent[c] = <<>>
  BY Zenon DEF Init, ClientInit, ServerInit
<1>2. Len(<<>>) = 0
  BY Zenon, Bytes
<1>3. should_close = {}
  BY Zenon DEF Init, ServerInit
<1> QED
  BY <1>1, <1>2, <1>3 DEF DeliveryInv

(* The invariant, by connection. *)
LEMMA DeliveryOpen ==
  DeliveryInv <=> (Clean => /\ \A c \in Conn : PrefixOf(c)
                            /\ spc \in Looping => \A c \in should_close : ~Connected(c))
BY Zenon DEF DeliveryInv, PrefixOf

(* The steps of the device but the connect. *)
LEMMA DeliveryClient ==
  ASSUME BaseInv, TaskInv, LinkInv, LengthInv, DeliveryInv, NEW t \in Task, UNCHANGED server,
         \/ start_patch_service(t) \/ connect_failed(t)
         \/ check_status(t) \/ receive_cmd(t)
         \/ dispatch_exit(t) \/ dispatch_heartbeat(t) \/ dispatch_other(t)
         \/ receive_len(t) \/ alloc_packet(t) \/ receive_sign(t) \/ receive_packet(t)
  PROVE  DeliveryInv'
<1>1. SUFFICES ASSUME Clean' PROVE DeliveryInv'
  BY Zenon DEF DeliveryInv
<1>2. Clean
  BY <1>1, CleanBefore
<1>3. /\ \A c \in Conn : PrefixOf(c)
      /\ spc \in Looping => \A c \in should_close : ~Connected(c)
  BY <1>2, DeliveryOpen
<1>4. /\ dev' \subseteq dev /\ UNCHANGED <<srv, lost, spc, should_close, sent>>
  BY Zenon, ClientFrames DEF ClientFrame, server
<1>5. spc' \in Looping => \A c \in should_close' : ~Connected(c)'
  BY <1>3, <1>4 DEF Connected
<1>6. ASSUME NEW c \in Conn PROVE PrefixOf(c)'
  <2>1. CASE receive_packet(t)
    <3>1. PICK got \in Received(sock, task[t].len) : ~(Len(got) < task[t].len)
      BY Zenon, <1>1, <2>1 DEF receive_packet, Short, Clean
    <3>2. task[t].pc = "pkt" /\ task[t].pc \in Reading
      BY Zenon, <2>1 DEF receive_packet, Reading
    <3>3. task[t].len \in Nat \ {0}
      BY SMTT(30), <3>2 DEF LengthInv, BaseInv, ClientType, TaskType
    <3>4. PICK n \in Nat \ {0} : n = task[t].len
      BY Zenon, <3>3
    <3>5. PICK h \in {<<>>, Beat} : Link(t, sock, h) /\ sock \in Conn
      BY Zenon, <1>2, <3>1, <3>2, <3>4, LoadOpen
    <3>6. PICK e \in Conn : e = sock
      BY Zenon, <3>5
    <3>7. delivered'[e] = sent[e] /\ \A x \in Conn : x # e => delivered'[x] = delivered[x]
      BY Zenon, <1>1, <2>1, <3>5, <3>6, LinkPacket DEF Clean
    <3>8. CASE c = e
      <4>1. delivered'[c] = sent[c] /\ sent' = sent
        BY Zenon, <1>4, <3>7, <3>8
      <4>2. Len(sent[c]) \in Nat
        BY LenProperties DEF BaseInv, ServerType
      <4> QED
        BY ONLY <4>1, <4>2 DEF PrefixOf
    <3>9. CASE c # e
      BY Zenon, <1>3, <1>4, <3>7, <3>9 DEF PrefixOf
    <3> QED
      BY <3>8, <3>9
  <2>2. CASE ~receive_packet(t)
    <3>1. delivered' = delivered
      BY Zenon, <2>2 DEF start_patch_service, connect_failed, check_status, receive_cmd, dispatch_exit,
                  dispatch_heartbeat, dispatch_other, receive_len, alloc_packet, receive_sign
    <3> QED
      BY Zenon, <1>3, <1>4, <3>1 DEF PrefixOf
  <2> QED
    BY <2>1, <2>2
<1> QED
  BY Zenon, <1>5, <1>6 DEF DeliveryInv, PrefixOf

(* The connect, over a connection the server has not given up. *)
LEMMA DeliveryConnect ==
  ASSUME BaseInv, DeliveryInv, NEW t \in Task, NEW c \in Conn, UNCHANGED server, setup_connect(t, c)
  PROVE  DeliveryInv'
<1>1. /\ c \notin used /\ dev' = dev \cup {c} /\ srv' = srv \cup {c}
      /\ UNCHANGED <<lost, delivered, cut, overlap>>
  BY Zenon DEF setup_connect
<1>2. UNCHANGED <<spc, should_close, sent>>
  BY Zenon DEF server
<1>3. should_close \subseteq used
  BY Zenon DEF BaseInv, KnownInv
<1>4. Clean' <=> Clean
  BY Zenon, <1>1 DEF Clean
<1>5. \A e \in should_close : Connected(e)' => Connected(e)
  BY <1>1, <1>3 DEF Connected
<1> QED
  BY Zenon, <1>1, <1>2, <1>4, <1>5 DEF DeliveryInv

(* An answer that is not one heartbeat comes from no live device. *)
LEMMA GivenUp ==
  ASSUME BaseInv, TaskInv, LinkInv, Clean, UNCHANGED client,
         send_heartbeat \/ receive_answer \/ receive_nothing \/ send_packet
  PROVE  \A c \in should_close' : c \in should_close \/ ~Connected(c)
<1>1. SUFFICES ASSUME NEW c \in should_close', c \notin should_close, Connected(c) PROVE FALSE
  BY Zenon
<1>2. LoopFrame
  BY Zenon, LoopFrames
<1>3. c = Head(todo)
  BY Zenon, <1>1, <1>2 DEF LoopFrame
<1>4. c \in Conn
  BY <1>2, <1>3, TodoFacts DEF LoopFrame
<1>5. CASE receive_answer
  <2>1. dev = {sock} /\ status = "RUNNING"
    BY Zenon, <1>1 DEF TaskInv, Clean, Connected
  <2>2. c = sock /\ c \notin lost
    BY Zenon, <1>1, <2>1 DEF Connected
  <2>3. PICK t \in Task, h \in {<<>>, Beat} : Link(t, c, h)
    BY <2>1, <2>2, LinkOpen
  <2>4. up[c] = Beat
    BY Zenon, <1>1, <1>3, <1>4, <1>5, <2>3, LinkAnswer
  <2> QED
    BY <1>1, <1>3, <1>5, <2>4 DEF receive_answer, Beat
<1>6. CASE send_heartbeat \/ receive_nothing \/ send_packet
  BY Zenon, <1>1, <1>3, <1>6 DEF send_heartbeat, receive_nothing, send_packet
<1> QED
  BY <1>5, <1>6

(* The steps of the server and of the network. *)
LEMMA DeliveryOthers ==
  ASSUME BaseInv, TaskInv, LinkInv, DeliveryInv, UNCHANGED client,
         \/ send_heartbeat \/ receive_answer \/ receive_nothing \/ send_packet
         \/ accept \/ (\E p \in Packet \cup {<<>>} : Begin(p)) \/ Exit \/ close_clients
         \/ \E c \in Conn : Lose(c) /\ UNCHANGED server
  PROVE  DeliveryInv'
<1>1. SUFFICES ASSUME Clean' PROVE DeliveryInv'
  BY DEF DeliveryInv
<1>2. Clean /\ delivered' = delivered
  BY Zenon, <1>1 DEF Clean, client
<1>3. /\ \A c \in Conn : PrefixOf(c)
      /\ spc \in Looping => \A c \in should_close : ~Connected(c)
  BY <1>2, DeliveryOpen
<1>4. CASE send_heartbeat \/ receive_answer \/ receive_nothing \/ send_packet
  <2>1. LoopFrame
    BY Zenon, <1>4, LoopFrames
  <2>2. \A c \in should_close' : ~Connected(c)
    BY Zenon, <1>2, <1>3, <1>4, <2>1, GivenUp DEF LoopFrame
  <2>3. \A c \in should_close' : ~Connected(c)'
    BY Zenon, <2>1, <2>2 DEF LoopFrame, Connected
  <2>4. ASSUME NEW c \in Conn PROVE PrefixOf(c)'
    <3>1. sent'[c] = sent[c] \/ (sent'[c] = Append(sent[c], packet) /\ packet \in Packet)
      <4>1. CASE send_packet
        <5>1. packet \in Packet
          BY <4>1 DEF send_packet, BaseInv, ServerInv, Fits
        <5>2. sent' = sent \/ sent' = [sent EXCEPT ![Head(todo)] = Append(@, packet)]
          BY <4>1 DEF send_packet
        <5>3. sent \in [Conn -> Seq(Packet)]
          BY Zenon DEF BaseInv, ServerType
        <5> QED
          BY <5>1, <5>2, <5>3
      <4>2. CASE ~send_packet
        <5>1. sent' = sent
          BY Zenon, <1>4, <4>2 DEF send_heartbeat, receive_answer, receive_nothing
        <5> QED
          BY Zenon, <5>1
      <4> QED
        BY Zenon, <4>1, <4>2
    <3>2. sent[c] \in Seq(Packet) /\ Len(sent[c]) \in Nat /\ Len(delivered[c]) \in Nat
      BY Zenon, LenProperties DEF BaseInv, ServerType, ClientType
    <3>3. PrefixOf(c)
      BY Zenon, <1>3
    <3>4. CASE sent'[c] = sent[c]
      BY <1>2, <3>3, <3>4 DEF PrefixOf
    <3>5. CASE sent'[c] = Append(sent[c], packet) /\ packet \in Packet
      <4>1. /\ Len(sent'[c]) = Len(sent[c]) + 1
            /\ \A i \in 1 .. Len(sent[c]) : sent'[c][i] = sent[c][i]
        BY SMTT(30), <3>2, <3>5, AppendProperties
      <4>2. Len(delivered[c]) <= Len(sent'[c])
        BY SMTT(30), <3>2, <3>3, <4>1 DEF PrefixOf
      <4>3. \A i \in 1 .. Len(delivered[c]) : i \in 1 .. Len(sent[c])
        BY SMTT(30), <3>2, <3>3 DEF PrefixOf
      <4> QED
        BY <1>2, <3>3, <4>1, <4>2, <4>3 DEF PrefixOf
    <3> QED
      BY <3>1, <3>4, <3>5
  <2> QED
    BY <2>3, <2>4 DEF DeliveryInv, PrefixOf
<1>5. CASE accept \/ (\E p \in Packet \cup {<<>>} : Begin(p)) \/ Exit \/ close_clients
  <2>1. sent' = sent /\ UNCHANGED <<dev, lost>> /\ srv' \subseteq srv
    BY Zenon, <1>5 DEF accept, Begin, Exit, close_clients, streams
  <2>2. \/ UNCHANGED <<spc, should_close>>
        \/ should_close' = {}
        \/ spc' \notin Looping
    BY Zenon, <1>5 DEF accept, Begin, Exit, close_clients, Looping
  <2>3. spc' \in Looping => \A c \in should_close' : ~Connected(c)'
    BY <1>3, <2>1, <2>2 DEF Connected
  <2> QED
    BY Zenon, <1>2, <1>3, <2>1, <2>3 DEF DeliveryInv, PrefixOf
<1>6. ASSUME NEW e \in Conn, Lose(e), UNCHANGED server PROVE DeliveryInv'
  <2>1. UNCHANGED <<sent, spc, should_close, dev, srv>> /\ lost \subseteq lost'
    BY Zenon, <1>6 DEF Lose, server
  <2>2. spc' \in Looping => \A c \in should_close' : ~Connected(c)'
    BY Zenon, <1>3, <2>1 DEF Connected
  <2> QED
    BY Zenon, <1>2, <1>3, <2>1, <2>2 DEF DeliveryInv, PrefixOf
<1> QED
  BY <1>4, <1>5, <1>6

(* Every step keeps what was delivered a prefix of what was sent. *)
LEMMA DeliveryNext ==
  BaseInv /\ TaskInv /\ LinkInv /\ LengthInv /\ DeliveryInv /\ [Next]_vars => DeliveryInv'
<1> SUFFICES ASSUME BaseInv, TaskInv, LinkInv, LengthInv, DeliveryInv, [Next]_vars
             PROVE  DeliveryInv'
  BY Zenon
<1>1. CASE UNCHANGED vars
  BY Zenon, <1>1 DEF vars, client, server, streams, DeliveryInv, Clean, Connected
<1>2. CASE Next
  <2>1. \/ \E t \in Task : /\ UNCHANGED server
                           /\ \/ start_patch_service(t) \/ connect_failed(t)
                              \/ check_status(t) \/ receive_cmd(t)
                              \/ dispatch_exit(t) \/ dispatch_heartbeat(t) \/ dispatch_other(t)
                              \/ receive_len(t) \/ alloc_packet(t)
                              \/ receive_sign(t) \/ receive_packet(t)
        \/ \E t \in Task, c \in Conn : setup_connect(t, c) /\ UNCHANGED server
        \/ /\ UNCHANGED client
           /\ \/ send_heartbeat \/ receive_answer \/ receive_nothing \/ send_packet
              \/ accept \/ (\E p \in Packet \cup {<<>>} : Begin(p)) \/ Exit \/ close_clients
              \/ \E c \in Conn : Lose(c) /\ UNCHANGED server
    BY Zenon, <1>2, Steps
  <2> QED
    BY <2>1, DeliveryClient, DeliveryConnect, DeliveryOthers
<1> QED
  BY Zenon, <1>1, <1>2

-----------------------------------------------------------------------------
(* The conjunction that describes the exchange between the device and the  *)
(* server is an invariant.                                                 *)
THEOREM Invariance == Spec => []IInv
<1>1. Init => BaseInv /\ TaskInv /\ LinkInv /\ LengthInv /\ DeliveryInv
  BY BaseInit, TaskInit, LinkInit, LengthInit, DeliveryInit
<1>2. BaseInv /\ TaskInv /\ LinkInv /\ LengthInv /\ DeliveryInv /\ [Next]_vars
        => (BaseInv /\ TaskInv /\ LinkInv /\ LengthInv /\ DeliveryInv)'
  BY BaseNext, TaskNext, LinkNext, LengthNext, DeliveryNext
<1>3. BaseInv /\ TaskInv /\ LinkInv /\ LengthInv /\ DeliveryInv => IInv
  BY Zenon, Types DEF BaseInv, IInv
<1> QED
  BY <1>1, <1>2, <1>3, PTL DEF Spec

(* The invariant implies the property. *)
LEMMA Framing == IInv => FramingHolds
<1> SUFFICES ASSUME IInv, Clean PROVE FramingHolds
  BY Zenon DEF FramingHolds
<1>1. \A t \in Task : task[t].pc # "undefined"
  BY Zenon DEF IInv, LengthInv
<1>2. \A c \in Conn : Begins(delivered[c], sent[c])
  BY Zenon DEF IInv, DeliveryInv, Begins
<1> QED
  BY <1>1, <1>2 DEF FramingHolds

(* While no receive inside a load falls short and one task serves, what    *)
(* notify_new_patch is given on a connection is a prefix of what the       *)
(* server sent on it, and no length is misread.                            *)
THEOREM DeliveredInOrder == Spec => []FramingHolds
BY Invariance, Framing, PTL

(* Under the same condition the server gives up no device that still       *)
(* serves its connection.                                                  *)
THEOREM LiveKept == Spec => LiveDeviceKept
<1>1. IInv /\ [Next]_vars =>
        [\A c \in Conn : Clean /\ c \in srv /\ c \notin srv' /\ spc' # "exit" => ~Connected(c)]_vars
  <2> SUFFICES ASSUME IInv, Next, NEW c \in Conn, Clean, c \in srv, c \notin srv', spc' # "exit"
               PROVE  ~Connected(c)
    BY Zenon
  <2>1. BaseInv
    BY Zenon, Types DEF IInv, BaseInv
  <2>2. close_clients
    <3>1. CASE \E t \in Task : /\ UNCHANGED server
                               /\ \/ start_patch_service(t) \/ connect_failed(t)
                                  \/ check_status(t) \/ receive_cmd(t)
                                  \/ dispatch_exit(t) \/ dispatch_heartbeat(t)
                                  \/ dispatch_other(t) \/ receive_len(t) \/ alloc_packet(t)
                                  \/ receive_sign(t) \/ receive_packet(t)
      BY Zenon, <2>1, <3>1, ClientFrames DEF ClientFrame
    <3>2. ~(\E t \in Task, e \in Conn : setup_connect(t, e) /\ UNCHANGED server)
      BY Zenon DEF setup_connect
    <3>3. ~(UNCHANGED client
              /\ (send_heartbeat \/ receive_answer \/ receive_nothing \/ send_packet))
      BY Zenon, <2>1, LoopFrames DEF LoopFrame
    <3>4. ~accept /\ ~(\E p \in Packet \cup {<<>>} : Begin(p)) /\ ~Exit /\ ~(\E e \in Conn : Lose(e))
      BY Zenon DEF accept, Begin, Exit, Lose, streams
    <3> QED
      BY <3>1, <3>2, <3>3, <3>4, Steps
  <2>3. c \in should_close /\ spc \in Looping
    BY Zenon, <2>2 DEF close_clients, Looping
  <2> QED
    BY Zenon, <2>3 DEF IInv, DeliveryInv
<1> QED
  BY <1>1, Invariance, PTL DEF Spec, LiveDeviceKept
=============================================================================
