---------------------------- MODULE UtHashProofs ----------------------------
(***************************************************************************)
(* A cache of any size, built on uthash with any hash function, holds the  *)
(* most recently used entries; HASH_FIND finds each of them, and the lists *)
(* of the table pass HASH_FSCK after every call.                           *)
(***************************************************************************)
EXTENDS LruCache, TLAPS, FiniteSetTheorems, SequenceTheorems, WellFoundedInduction

Ptr == Elem \cup {Nil}
Links == [Elem -> Ptr]
Injective(s) == \A i, j \in 1 .. Len(s) : s[i] = s[j] => i = j
Members(s) == {s[i] : i \in 1 .. Len(s)}

\* The elements of s, in this order, linked both ways from head on.
IsList(next, prev, head, s) ==
    /\ s \in Seq(Elem) /\ Injective(s)
    /\ head = IF Len(s) = 0 THEN Nil ELSE s[1]
    /\ \A i \in 1 .. Len(s) : /\ next[s[i]] = IF i = Len(s) THEN Nil ELSE s[i + 1]
                              /\ prev[s[i]] = IF i = 1 THEN Nil ELSE s[i - 1]

Pushed(e, s) == [i \in 1 .. Len(s) + 1 |-> IF i = 1 THEN e ELSE s[i - 1]]
Put(s, e) == [i \in 1 .. Len(s) + 1 |-> IF i = Len(s) + 1 THEN e ELSE s[i]]
Cut(s, p) == [i \in 1 .. Len(s) - 1 |-> IF i < p THEN s[i] ELSE s[i + 1]]

\* What the macros do to the links.
PushNext(next, head, e) == [next EXCEPT ![e] = head]
PushPrev(prev, head, e) == SetLink([prev EXCEPT ![e] = Nil], head, e)
CutNext(next, prev, e) == SetLink(next, prev[e], next[e])
CutPrev(next, prev, e) == SetLink(prev, next[e], prev[e])
CutHead(next, head, e) == IF head = e THEN next[e] ELSE head
-----------------------------------------------------------------------------
(* Elements and sequences.                                                 *)

LEMMA NilApart == Nil \notin Elem /\ Elem \subseteq Nat
<1>1. Elem \subseteq Nat \ {0}
  BY SizesAssumption
<1> QED
  BY <1>1 DEF Nil

LEMMA Listing ==
  ASSUME NEW n \in Nat, NEW s \in [1 .. n -> Elem]
  PROVE  s \in Seq(Elem) /\ Len(s) = n
OBVIOUS

LEMMA OfSeq ==
  ASSUME NEW s \in Seq(Elem)
  PROVE  Len(s) \in Nat /\ s \in [1 .. Len(s) -> Elem] /\ DOMAIN s = 1 .. Len(s)
OBVIOUS

LEMMA PushedSeq ==
  ASSUME NEW s \in Seq(Elem), NEW e \in Elem
  PROVE  /\ Pushed(e, s) \in Seq(Elem) /\ Len(Pushed(e, s)) = Len(s) + 1
         /\ \A i \in 1 .. Len(s) + 1 : Pushed(e, s)[i] = IF i = 1 THEN e ELSE s[i - 1]
<1>1. Len(s) \in Nat /\ \A i \in 1 .. Len(s) : s[i] \in Elem
  OBVIOUS
<1>2. Pushed(e, s) \in [1 .. Len(s) + 1 -> Elem]
  BY <1>1 DEF Pushed
<1>3. \A i \in 1 .. Len(s) + 1 : Pushed(e, s)[i] = IF i = 1 THEN e ELSE s[i - 1]
  BY DEF Pushed
<1> QED
  BY <1>1, <1>2, <1>3, Listing

LEMMA PutSeq ==
  ASSUME NEW s \in Seq(Elem), NEW e \in Elem
  PROVE  /\ Put(s, e) \in Seq(Elem) /\ Len(Put(s, e)) = Len(s) + 1
         /\ \A i \in 1 .. Len(s) + 1 : Put(s, e)[i] = IF i = Len(s) + 1 THEN e ELSE s[i]
         /\ Put(s, e) = Append(s, e)
<1>1. Len(s) \in Nat /\ \A i \in 1 .. Len(s) : s[i] \in Elem
  OBVIOUS
<1>2. Put(s, e) \in [1 .. Len(s) + 1 -> Elem]
  BY <1>1 DEF Put
<1>3. \A i \in 1 .. Len(s) + 1 : Put(s, e)[i] = IF i = Len(s) + 1 THEN e ELSE s[i]
  BY DEF Put
<1>4. Put(s, e) \in Seq(Elem) /\ Len(Put(s, e)) = Len(s) + 1
  BY <1>1, <1>2, Listing
<1>5. Append(s, e) \in Seq(Elem) /\ Len(Append(s, e)) = Len(s) + 1
      /\ \A i \in 1 .. Len(s) + 1 : Append(s, e)[i] = IF i = Len(s) + 1 THEN e ELSE s[i]
  BY <1>1
<1>6. Put(s, e) = Append(s, e)
  <2> HIDE DEF Put
  <2> QED
    BY <1>3, <1>4, <1>5, SeqEqual
<1> QED
  BY <1>3, <1>4, <1>6

LEMMA CutSeq ==
  ASSUME NEW s \in Seq(Elem), NEW p \in 1 .. Len(s)
  PROVE  /\ Cut(s, p) \in Seq(Elem) /\ Len(Cut(s, p)) = Len(s) - 1
         /\ \A i \in 1 .. Len(s) - 1 : Cut(s, p)[i] = IF i < p THEN s[i] ELSE s[i + 1]
         /\ Cut(s, p) = SubSeq(s, 1, p - 1) \o SubSeq(s, p + 1, Len(s))
<1>1. Len(s) \in Nat /\ Len(s) - 1 \in Nat /\ p \in Nat /\ \A i \in 1 .. Len(s) : s[i] \in Elem
  OBVIOUS
<1>2. Cut(s, p) \in [1 .. Len(s) - 1 -> Elem]
  BY <1>1 DEF Cut
<1>3. \A i \in 1 .. Len(s) - 1 : Cut(s, p)[i] = IF i < p THEN s[i] ELSE s[i + 1]
  BY DEF Cut
<1>4. Cut(s, p) \in Seq(Elem) /\ Len(Cut(s, p)) = Len(s) - 1
  BY <1>1, <1>2, Listing
<1> DEFINE a == SubSeq(s, 1, p - 1)
           b == SubSeq(s, p + 1, Len(s))
<1>5. a \in Seq(Elem) /\ Len(a) = p - 1 /\ \A i \in 1 .. p - 1 : a[i] = s[i]
  BY <1>1
<1>6. b \in Seq(Elem) /\ Len(b) = Len(s) - p /\ \A i \in 1 .. Len(s) - p : b[i] = s[p + i]
  BY <1>1
<1>7. a \o b \in Seq(Elem) /\ Len(a \o b) = Len(s) - 1
  <2> HIDE DEF a, b
  <2>1. a \o b \in Seq(Elem) /\ Len(a \o b) = Len(a) + Len(b)
    BY <1>5, <1>6, ConcatProperties
  <2> QED
    BY <2>1, <1>1, <1>5, <1>6
<1>8. ASSUME NEW i \in 1 .. Len(s) - 1 PROVE (a \o b)[i] = Cut(s, p)[i]
  <2> HIDE DEF a, b
  <2>1. (a \o b)[i] = IF i <= p - 1 THEN a[i] ELSE b[i - (p - 1)]
    BY <1>1, <1>5, <1>6
  <2>2. CASE i < p
    BY <2>1, <2>2, <1>1, <1>3, <1>5
  <2>3. CASE ~(i < p)
    <3>1. i - (p - 1) \in 1 .. Len(s) - p /\ p + (i - (p - 1)) = i + 1
      BY <2>3, <1>1
    <3>2. b[i - (p - 1)] = s[i + 1]
      BY <3>1, <1>6
    <3> QED
      BY <2>1, <2>3, <3>2, <1>1, <1>3
  <2> QED
    BY <2>2, <2>3
<1>9. Cut(s, p) = a \o b
  <2> HIDE DEF a, b
  <2> QED
    BY <1>4, <1>7, <1>8, SeqEqual
<1> QED
  BY <1>3, <1>4, <1>9

-----------------------------------------------------------------------------
(* Lists.                                                                  *)

LEMMA ListKept ==
  ASSUME NEW next, NEW prev, NEW head, NEW s, NEW next2, NEW prev2,
         IsList(next, prev, head, s),
         \A i \in 1 .. Len(s) : next2[s[i]] = next[s[i]] /\ prev2[s[i]] = prev[s[i]]
  PROVE  IsList(next2, prev2, head, s)
BY DEF IsList

LEMMA LinkSet ==
  ASSUME NEW link \in Links, NEW e \in Ptr, NEW v \in Ptr
  PROVE  /\ SetLink(link, e, v) \in Links
         /\ \A x \in Elem : SetLink(link, e, v)[x] = IF x = e THEN v ELSE link[x]
BY NilApart DEF SetLink, Links, Ptr

\* e goes before the first element.
LEMMA ListPush ==
  ASSUME NEW next \in Links, NEW prev \in Links, NEW head, NEW s, NEW e \in Elem,
         IsList(next, prev, head, s), \A i \in 1 .. Len(s) : s[i] # e
  PROVE  /\ PushNext(next, head, e) \in Links /\ PushPrev(prev, head, e) \in Links /\ head \in Ptr
         /\ \A x \in Elem : x # e => /\ PushNext(next, head, e)[x] = next[x]
                                     /\ x # head => PushPrev(prev, head, e)[x] = prev[x]
         /\ IsList(PushNext(next, head, e), PushPrev(prev, head, e), e, Pushed(e, s))
<1> DEFINE next2 == PushNext(next, head, e)
           prev2 == PushPrev(prev, head, e)
<1>1. s \in Seq(Elem) /\ Injective(s) /\ head = IF Len(s) = 0 THEN Nil ELSE s[1]
  BY DEF IsList
<1>2. Len(s) \in Nat /\ \A i \in 1 .. Len(s) : s[i] \in Elem
  BY <1>1
<1>3. head \in Ptr
  BY <1>1, <1>2 DEF Ptr
<1>4. next2 \in Links /\ \A x \in Elem : next2[x] = IF x = e THEN head ELSE next[x]
  BY <1>3 DEF Links, PushNext
<1>5. prev2 \in Links /\ \A x \in Elem : prev2[x] = IF x = head THEN e ELSE IF x = e THEN Nil ELSE prev[x]
  <2> DEFINE q == [prev EXCEPT ![e] = Nil]
  <2>1. q \in Links
    BY DEF Links, Ptr
  <2>2. e \in Ptr
    BY DEF Ptr
  <2>3. \A x \in Elem : q[x] = IF x = e THEN Nil ELSE prev[x]
    BY DEF Links
  <2>4. prev2 = SetLink(q, head, e)
    BY DEF PushPrev
  <2> HIDE DEF q
  <2>5. /\ SetLink(q, head, e) \in Links
        /\ \A x \in Elem : SetLink(q, head, e)[x] = IF x = head THEN e ELSE q[x]
    BY <2>1, <2>2, <1>3, LinkSet
  <2> QED
    BY <2>3, <2>4, <2>5
<1> HIDE DEF next2, prev2
<1> DEFINE n == Len(s)
           r == Pushed(e, s)
<1>6. r \in Seq(Elem) /\ Len(r) = n + 1 /\ \A i \in 1 .. n + 1 : r[i] = IF i = 1 THEN e ELSE s[i - 1]
  BY <1>1, PushedSeq
<1> HIDE DEF r
<1>7. \A i \in 1 .. n + 1 : i = 1 \/ i - 1 \in 1 .. n
  BY <1>2
<1>8. Injective(r)
  <2> SUFFICES ASSUME NEW i \in 1 .. n + 1, NEW j \in 1 .. n + 1, r[i] = r[j] PROVE i = j
    BY <1>6 DEF Injective
  <2>1. CASE i = 1 /\ j # 1
    BY <2>1, <1>6, <1>7
  <2>2. CASE i # 1 /\ j = 1
    BY <2>2, <1>6, <1>7
  <2>3. CASE i # 1 /\ j # 1
    <3>1. s[i - 1] = s[j - 1] /\ i - 1 \in 1 .. n /\ j - 1 \in 1 .. n
      BY <2>3, <1>6, <1>7
    <3>2. i - 1 = j - 1
      BY <3>1, <1>1 DEF Injective
    <3> QED
      BY <3>2
  <2> QED
    BY <2>1, <2>2, <2>3
<1>9. head # e
  BY <1>1, <1>2, NilApart
<1>10. ASSUME NEW i \in 1 .. n + 1
       PROVE  /\ next2[r[i]] = IF i = n + 1 THEN Nil ELSE r[i + 1]
              /\ prev2[r[i]] = IF i = 1 THEN Nil ELSE r[i - 1]
  <2>1. CASE i = 1
    <3>1. r[i] = e /\ next2[e] = head /\ prev2[e] = Nil
      BY <2>1, <1>4, <1>5, <1>6, <1>9
    <3>2. CASE n = 0
      BY <3>1, <3>2, <2>1, <1>1
    <3>3. CASE n # 0
      <4>1. r[2] = s[1] /\ head = s[1]
        <5>1. 2 \in 1 .. n + 1 /\ 2 # 1 /\ 2 - 1 = 1
          BY <3>3, <1>2
        <5> QED
          BY <5>1, <3>3, <1>1, <1>6
      <4> QED
        BY <3>1, <3>3, <4>1, <2>1, <1>2
    <3> QED
      BY <3>2, <3>3
  <2>2. CASE i # 1
    <3>1. i - 1 \in 1 .. n /\ r[i] = s[i - 1] /\ s[i - 1] \in Elem /\ s[i - 1] # e
      BY <2>2, <1>2, <1>6, <1>7
    <3>2. /\ next[s[i - 1]] = IF i - 1 = n THEN Nil ELSE s[(i - 1) + 1]
          /\ prev[s[i - 1]] = IF i - 1 = 1 THEN Nil ELSE s[(i - 1) - 1]
      BY <3>1 DEF IsList
    <3>3. next2[r[i]] = next[s[i - 1]]
      BY <3>1, <1>4
    <3>4. i # n + 1 => r[i + 1] = s[(i - 1) + 1]
      BY <2>2, <1>2, <1>6
    <3>5. i - 1 = n <=> i = n + 1
      BY <1>2
    <3>6. CASE i = 2
      <4>1. head = s[i - 1] /\ r[i - 1] = e
        <5>1. 1 \in 1 .. n + 1 /\ i - 1 = 1 /\ n # 0
          BY <3>6, <3>1, <1>2
        <5> QED
          BY <5>1, <1>1, <1>6
      <4>2. prev2[r[i]] = e
        BY <4>1, <3>1, <1>5
      <4> QED
        BY <2>2, <3>2, <3>3, <3>4, <3>5, <4>1, <4>2
    <3>7. CASE i # 2
      <4>1. 1 \in 1 .. n /\ i - 1 # 1 /\ head = s[1]
        BY <3>1, <3>7, <1>1, <1>2
      <4>2. s[i - 1] # head
        BY <3>1, <4>1, <1>1 DEF Injective
      <4>3. prev2[r[i]] = s[(i - 1) - 1]
        BY <3>1, <3>2, <4>1, <4>2, <1>5
      <4>4. r[i - 1] = s[(i - 1) - 1]
        BY <3>1, <3>7, <2>2, <1>2, <1>6
      <4> QED
        BY <2>2, <3>2, <3>3, <3>4, <3>5, <4>3, <4>4
    <3> QED
      BY <3>6, <3>7
  <2> QED
    BY <2>1, <2>2
<1>11. e = IF Len(r) = 0 THEN Nil ELSE r[1]
  BY <1>2, <1>6
<1>12. IsList(next2, prev2, e, r)
  <2> HIDE DEF n
  <2> QED
    BY <1>6, <1>8, <1>10, <1>11 DEF IsList
<1>13. \A x \in Elem : x # e => next2[x] = next[x] /\ (x # head => prev2[x] = prev[x])
  BY <1>4, <1>5
<1> QED
  BY <1>3, <1>4, <1>5, <1>12, <1>13 DEF r, next2, prev2

\* e goes behind the last element.
LEMMA ListPut ==
  ASSUME NEW next \in Links, NEW prev \in Links, NEW head, NEW s, NEW e \in Elem,
         IsList(next, prev, head, s), \A i \in 1 .. Len(s) : s[i] # e, Len(s) # 0,
         NEW next2, next2 = [[next EXCEPT ![e] = Nil] EXCEPT ![s[Len(s)]] = e],
         NEW prev2, prev2 = [prev EXCEPT ![e] = s[Len(s)]]
  PROVE  /\ next2 \in Links /\ prev2 \in Links
         /\ IsList(next2, prev2, head, Put(s, e))
<1> DEFINE n == Len(s)
           r == Put(s, e)
<1>1. s \in Seq(Elem) /\ Injective(s) /\ head = IF n = 0 THEN Nil ELSE s[1]
  BY DEF IsList
<1>2. n \in Nat /\ n \in 1 .. n /\ \A i \in 1 .. n : s[i] \in Elem
  BY <1>1
<1>3. next2 \in Links /\ \A x \in Elem : next2[x] = IF x = s[n] THEN e ELSE IF x = e THEN Nil ELSE next[x]
  BY <1>2 DEF Links, Ptr
<1>4. prev2 \in Links /\ \A x \in Elem : prev2[x] = IF x = e THEN s[n] ELSE prev[x]
  BY <1>2 DEF Links, Ptr
<1>5. r \in Seq(Elem) /\ Len(r) = n + 1 /\ \A i \in 1 .. n + 1 : r[i] = IF i = n + 1 THEN e ELSE s[i]
  BY <1>1, PutSeq
<1> HIDE DEF r
<1>6. \A i \in 1 .. n + 1 : i = n + 1 \/ i \in 1 .. n
  BY <1>2
<1>7. Injective(r)
  <2> SUFFICES ASSUME NEW i \in 1 .. n + 1, NEW j \in 1 .. n + 1, r[i] = r[j] PROVE i = j
    BY <1>5 DEF Injective
  <2>1. CASE i = n + 1
    BY <2>1, <1>5, <1>6
  <2>2. CASE j = n + 1
    BY <2>2, <1>5, <1>6
  <2>3. CASE i # n + 1 /\ j # n + 1
    <3>1. s[i] = s[j] /\ i \in 1 .. n /\ j \in 1 .. n
      BY <2>3, <1>5, <1>6
    <3> QED
      BY <3>1, <1>1 DEF Injective
  <2> QED
    BY <2>1, <2>2, <2>3
<1>8. ASSUME NEW i \in 1 .. n + 1
      PROVE  /\ next2[r[i]] = IF i = n + 1 THEN Nil ELSE r[i + 1]
             /\ prev2[r[i]] = IF i = 1 THEN Nil ELSE r[i - 1]
  <2>1. CASE i = n + 1
    <3>1. r[i] = e /\ r[i - 1] = s[n] /\ i # 1 /\ e # s[n]
      BY <2>1, <1>2, <1>5
    <3> QED
      BY <3>1, <2>1, <1>3, <1>4
  <2>2. CASE i # n + 1
    <3>1. i \in 1 .. n /\ r[i] = s[i] /\ s[i] \in Elem /\ s[i] # e
      BY <2>2, <1>2, <1>5, <1>6
    <3>2. /\ next[s[i]] = IF i = n THEN Nil ELSE s[i + 1]
          /\ prev[s[i]] = IF i = 1 THEN Nil ELSE s[i - 1]
      BY <3>1 DEF IsList
    <3>3. prev2[r[i]] = IF i = 1 THEN Nil ELSE r[i - 1]
      <4>1. i # 1 => r[i - 1] = s[i - 1]
        BY <3>1, <1>2, <1>5
      <4> QED
        BY <3>1, <3>2, <4>1, <1>4
    <3>4. CASE i = n
      <4>1. r[i + 1] = e
        BY <3>4, <1>2, <1>5
      <4> QED
        BY <3>1, <3>3, <3>4, <4>1, <2>2, <1>3
    <3>5. CASE i # n
      <4>1. r[i + 1] = s[i + 1] /\ s[i] # s[n]
        BY <3>1, <3>5, <1>1, <1>2, <1>5 DEF Injective
      <4> QED
        BY <3>1, <3>2, <3>3, <3>5, <4>1, <2>2, <1>3
    <3> QED
      BY <3>4, <3>5
  <2> QED
    BY <2>1, <2>2
<1>9. head = IF Len(r) = 0 THEN Nil ELSE r[1]
  BY <1>1, <1>2, <1>5
<1>10. IsList(next2, prev2, head, r)
  <2>1. \A i \in 1 .. Len(r) : /\ next2[r[i]] = IF i = Len(r) THEN Nil ELSE r[i + 1]
                               /\ prev2[r[i]] = IF i = 1 THEN Nil ELSE r[i - 1]
    BY <1>5, <1>8
  <2> QED
    BY <2>1, <1>5, <1>7, <1>9 DEF IsList
<1> QED
  BY <1>3, <1>4, <1>10 DEF r

\* The p-th element is taken out.
LEMMA ListCut ==
  ASSUME NEW next \in Links, NEW prev \in Links, NEW head, NEW s, NEW p \in 1 .. Len(s), NEW e, e = s[p],
         IsList(next, prev, head, s)
  PROVE  /\ CutNext(next, prev, e) \in Links /\ CutPrev(next, prev, e) \in Links /\ CutHead(next, head, e) \in Ptr
         /\ prev[e] # Nil => \E i \in 1 .. Len(s) : s[i] = prev[e]
         /\ next[e] # Nil => \E i \in 1 .. Len(s) : s[i] = next[e]
         /\ \A x \in Elem : /\ x # prev[e] => CutNext(next, prev, e)[x] = next[x]
                            /\ x # next[e] => CutPrev(next, prev, e)[x] = prev[x]
         /\ head = e <=> prev[e] = Nil
         /\ next[e] = Nil <=> p = Len(s)
         /\ IsList(CutNext(next, prev, e), CutPrev(next, prev, e), CutHead(next, head, e), Cut(s, p))
<1> DEFINE n == Len(s)
           next2 == CutNext(next, prev, e)
           prev2 == CutPrev(next, prev, e)
           head2 == CutHead(next, head, e)
           r == Cut(s, p)
<1>1. s \in Seq(Elem) /\ Injective(s) /\ head = IF n = 0 THEN Nil ELSE s[1]
  BY DEF IsList
<1>2. n \in Nat /\ n # 0 /\ 1 \in 1 .. n /\ (\A i \in 1 .. n : s[i] \in Elem) /\ e \in Elem /\ p \in Nat
  BY <1>1
<1>3. \A i \in 1 .. n : /\ next[s[i]] = IF i = n THEN Nil ELSE s[i + 1]
                        /\ prev[s[i]] = IF i = 1 THEN Nil ELSE s[i - 1]
  BY DEF IsList
<1>4. next[e] = IF p = n THEN Nil ELSE s[p + 1]
  BY <1>3
<1>5. prev[e] = IF p = 1 THEN Nil ELSE s[p - 1]
  BY <1>3
<1>6. next[e] \in Ptr /\ prev[e] \in Ptr
  BY <1>2 DEF Links
<1>7. /\ next2 \in Links /\ \A x \in Elem : next2[x] = IF x = prev[e] THEN next[e] ELSE next[x]
      /\ prev2 \in Links /\ \A x \in Elem : prev2[x] = IF x = next[e] THEN prev[e] ELSE prev[x]
  <2>1. next \in Links /\ prev \in Links
    OBVIOUS
  <2>2. next2 = SetLink(next, prev[e], next[e]) /\ prev2 = SetLink(prev, next[e], prev[e])
    BY DEF CutNext, CutPrev
  <2> HIDE DEF next2, prev2
  <2>3. next2 \in Links /\ \A x \in Elem : next2[x] = IF x = prev[e] THEN next[e] ELSE next[x]
    BY ONLY <2>1, <2>2, <1>6, LinkSet
  <2>4. prev2 \in Links /\ \A x \in Elem : prev2[x] = IF x = next[e] THEN prev[e] ELSE prev[x]
    BY ONLY <2>1, <2>2, <1>6, LinkSet
  <2> QED
    BY <2>3, <2>4
<1> HIDE DEF next2, prev2
<1>8. \A i \in 1 .. n : next2[s[i]] = IF i = p - 1 THEN next[e] ELSE next[s[i]]
  <2> SUFFICES ASSUME NEW i \in 1 .. n PROVE next2[s[i]] = IF i = p - 1 THEN next[e] ELSE next[s[i]]
    OBVIOUS
  <2>1. s[i] = prev[e] <=> i = p - 1
    <3>1. CASE p = 1
      BY <3>1, <1>2, <1>5, NilApart
    <3>2. CASE p # 1
      <4>1. p - 1 \in 1 .. n /\ prev[e] = s[p - 1]
        BY <3>2, <1>2, <1>5
      <4> QED
        BY <4>1, <1>1 DEF Injective
    <3> QED
      BY <3>1, <3>2
  <2> QED
    BY <2>1, <1>2, <1>7
<1>9. \A i \in 1 .. n : prev2[s[i]] = IF i = p + 1 THEN prev[e] ELSE prev[s[i]]
  <2> SUFFICES ASSUME NEW i \in 1 .. n PROVE prev2[s[i]] = IF i = p + 1 THEN prev[e] ELSE prev[s[i]]
    OBVIOUS
  <2>1. s[i] = next[e] <=> i = p + 1
    <3>1. CASE p = n
      BY <3>1, <1>2, <1>4, NilApart
    <3>2. CASE p # n
      <4>1. p + 1 \in 1 .. n /\ next[e] = s[p + 1]
        BY <3>2, <1>2, <1>4
      <4> QED
        BY <4>1, <1>1 DEF Injective
    <3> QED
      BY <3>1, <3>2
  <2> QED
    BY <2>1, <1>2, <1>7
<1>10. r \in Seq(Elem) /\ Len(r) = n - 1 /\ \A i \in 1 .. n - 1 : r[i] = IF i < p THEN s[i] ELSE s[i + 1]
  BY <1>1, CutSeq
<1> HIDE DEF r
<1>11. Injective(r)
  <2> SUFFICES ASSUME NEW i \in 1 .. n - 1, NEW j \in 1 .. n - 1, r[i] = r[j] PROVE i = j
    BY <1>10 DEF Injective
  <2> DEFINE a == IF i < p THEN i ELSE i + 1
             b == IF j < p THEN j ELSE j + 1
  <2>1. a \in 1 .. n /\ b \in 1 .. n /\ r[i] = s[a] /\ r[j] = s[b]
    BY <1>2, <1>10
  <2>2. a = b
    <3> HIDE DEF a, b
    <3> QED
      BY <2>1, <1>1 DEF Injective
  <2> QED
    BY <2>2, <1>2
<1>12. ASSUME NEW i \in 1 .. n - 1
       PROVE  next2[r[i]] = IF i = n - 1 THEN Nil ELSE r[i + 1]
  <2>1. CASE i = p - 1
    <3>1. i < p /\ i \in 1 .. n
      BY <2>1, <1>2
    <3>2. r[i] = s[i] /\ next2[r[i]] = next[e]
      BY <2>1, <3>1, <1>8, <1>10
    <3>3. i = n - 1 <=> p = n
      BY <2>1, <1>2
    <3>4. ASSUME i # n - 1 PROVE r[i + 1] = s[p + 1]
      <4>1. i + 1 \in 1 .. n - 1 /\ i + 1 = p /\ ~(p < p)
        BY <3>4, <2>1, <1>2
      <4> QED
        BY <4>1, <1>10
    <3> QED
      BY <3>2, <3>3, <3>4, <1>4
  <2>2. CASE i < p - 1
    <3>1. i < p /\ i \in 1 .. n /\ i # p - 1 /\ i # n /\ i + 1 < p /\ i # n - 1 /\ i + 1 \in 1 .. n - 1
      BY <2>2, <1>2
    <3> QED
      BY <3>1, <1>3, <1>8, <1>10
  <2>3. CASE ~(i < p)
    <3>1. i + 1 \in 1 .. n /\ i + 1 # p - 1 /\ ~(i + 1 < p) /\ (i + 1 = n <=> i = n - 1)
      BY <2>3, <1>2
    <3>2. next2[r[i]] = IF i + 1 = n THEN Nil ELSE s[(i + 1) + 1]
      BY <2>3, <3>1, <1>3, <1>8, <1>10
    <3>3. i # n - 1 => r[i + 1] = s[(i + 1) + 1]
      BY <3>1, <1>2, <1>10
    <3> QED
      BY <3>1, <3>2, <3>3
  <2> QED
    BY <2>1, <2>2, <2>3, <1>2
<1>13. ASSUME NEW i \in 1 .. n - 1
       PROVE  prev2[r[i]] = IF i = 1 THEN Nil ELSE r[i - 1]
  <2>1. CASE i < p
    <3>1. i \in 1 .. n /\ i # p + 1 /\ r[i] = s[i]
      BY <2>1, <1>2, <1>10
    <3>2. prev2[r[i]] = IF i = 1 THEN Nil ELSE s[i - 1]
      BY <3>1, <1>3, <1>9
    <3>3. i # 1 => r[i - 1] = s[i - 1]
      BY <2>1, <1>2, <1>10
    <3> QED
      BY <3>2, <3>3
  <2>2. CASE i = p
    <3>1. p + 1 \in 1 .. n /\ ~(i < p)
      BY <2>2, <1>2
    <3>2. prev2[r[i]] = prev[e]
      BY <2>2, <3>1, <1>9, <1>10
    <3>3. i # 1 => r[i - 1] = s[p - 1]
      BY <2>2, <1>2, <1>10
    <3> QED
      BY <2>2, <3>2, <3>3, <1>5
  <2>3. CASE i > p
    <3>1. i + 1 \in 1 .. n /\ i + 1 # p + 1 /\ i + 1 # 1 /\ ~(i < p) /\ i # 1 /\ (i + 1) - 1 = i
      BY <2>3, <1>2
    <3>2. prev2[r[i]] = s[i]
      BY <3>1, <1>3, <1>9, <1>10
    <3>3. i - 1 \in 1 .. n - 1 /\ ~(i - 1 < p) /\ (i - 1) + 1 = i
      BY <2>3, <1>2
    <3>4. r[i - 1] = s[i]
      BY <3>3, <1>10
    <3> QED
      BY <3>1, <3>2, <3>4
  <2> QED
    BY <2>1, <2>2, <2>3, <1>2
<1>14. head = e <=> p = 1
  BY <1>1, <1>2 DEF Injective
<1>15. head2 = IF Len(r) = 0 THEN Nil ELSE r[1]
  <2>1. CASE p = 1
    <3>1. head2 = IF n = 1 THEN Nil ELSE s[2]
      BY <2>1, <1>4, <1>14 DEF CutHead
    <3>2. n # 1 => 1 \in 1 .. n - 1 /\ r[1] = s[2]
      BY <2>1, <1>2, <1>10
    <3> QED
      BY <3>1, <3>2, <1>2, <1>10
  <2>2. CASE p # 1
    <3>1. head2 = s[1]
      BY <2>2, <1>1, <1>2, <1>14 DEF CutHead
    <3>2. 1 \in 1 .. n - 1 /\ 1 < p
      BY <2>2, <1>2
    <3> QED
      BY <3>1, <3>2, <1>10
  <2> QED
    BY <2>1, <2>2
<1>16. IsList(next2, prev2, head2, r)
  <2>1. \A i \in 1 .. Len(r) : /\ next2[r[i]] = IF i = Len(r) THEN Nil ELSE r[i + 1]
                               /\ prev2[r[i]] = IF i = 1 THEN Nil ELSE r[i - 1]
    BY <1>10, <1>12, <1>13
  <2> QED
    BY <2>1, <1>10, <1>11, <1>15 DEF IsList
<1>17. /\ prev[e] # Nil => \E i \in 1 .. n : s[i] = prev[e]
       /\ next[e] # Nil => \E i \in 1 .. n : s[i] = next[e]
  <2>1. p # 1 => p - 1 \in 1 .. n
    BY <1>2
  <2>2. p # n => p + 1 \in 1 .. n
    BY <1>2
  <2> QED
    BY <2>1, <2>2, <1>4, <1>5
<1>18. (head = e <=> prev[e] = Nil) /\ (next[e] = Nil <=> p = n)
  <2>1. p # 1 => p - 1 \in 1 .. n
    BY <1>2
  <2>2. p # n => p + 1 \in 1 .. n
    BY <1>2
  <2> QED
    BY <2>1, <2>2, <1>2, <1>4, <1>5, <1>14, NilApart
<1>19. head2 \in Ptr
  BY <1>6, <1>1, <1>2 DEF Ptr, CutHead
<1>20. \A x \in Elem : (x # prev[e] => next2[x] = next[x]) /\ (x # next[e] => prev2[x] = prev[x])
  BY <1>7
<1> QED
  BY <1>7, <1>16, <1>17, <1>18, <1>19, <1>20 DEF r, next2, prev2

-----------------------------------------------------------------------------
(* Counting and walking.                                                   *)

(* A set of natural numbers that is not empty has a least element. *)
LEMMA LeastNumber ==
  ASSUME NEW S \in SUBSET Nat, S # {}
  PROVE  \E a \in S : \A b \in S : a <= b
<1> DEFINE Less == {q \in Nat \X Nat : q[1] < q[2]}
<1>1. IsWellFoundedOn(Less, Nat)
  BY NatLessThanWellFounded DEF OpToRel
<1>2. \A a, b \in Nat : <<b, a>> \in Less <=> b < a
  OBVIOUS
<1> HIDE DEF Less
<1>3. PICK a \in S : \A b \in S : <<b, a>> \notin Less
  BY <1>1, WFMin
<1>4. ASSUME NEW b \in S PROVE a <= b
  <2>1. a \in Nat /\ b \in Nat
    OBVIOUS
  <2>2. ~(b < a)
    BY <2>1, <1>2, <1>3
  <2> QED
    BY <2>1, <2>2
<1> QED
  BY <1>4

LEMMA ElemCounted == IsFiniteSet(Elem) /\ Cardinality(Elem) \in Nat
<1>1. IsFiniteSet(Elem)
  BY SizesAssumption
<1> QED
  BY <1>1, FS_CardinalityType

(* A list without repetitions has as many elements as places. *)
LEMMA ListCounted ==
  ASSUME NEW s \in Seq(Elem), Injective(s)
  PROVE  Cardinality(Members(s)) = Len(s) /\ Len(s) <= Cardinality(Elem)
<1>1. Len(s) \in Nat /\ s \in [1 .. Len(s) -> Elem] /\ s \in [1 .. Len(s) -> Members(s)]
  BY OfSeq DEF Members
<1>2. IsFiniteSet(1 .. Len(s)) /\ Cardinality(1 .. Len(s)) = Len(s)
  BY <1>1, FS_Interval
<1>3. s \in Injection(1 .. Len(s), Members(s)) /\ s \in Injection(1 .. Len(s), Elem)
  BY <1>1 DEF Injective, Injection, IsInjective
<1>4. s \in Surjection(1 .. Len(s), Members(s))
  BY <1>1 DEF Surjection, Members
<1>5. Cardinality(Members(s)) = Cardinality(1 .. Len(s))
  BY <1>2, <1>3, <1>4, FS_Surjection
<1>6. Cardinality(1 .. Len(s)) <= Cardinality(Elem)
  BY <1>3, ElemCounted, FS_Injection
<1> QED
  BY <1>2, <1>5, <1>6

LEMMA WalkIs ==
  ASSUME NEW next, NEW prev, NEW head, NEW s, IsList(next, prev, head, s)
  PROVE  Walk(next, head) = s
<1> DEFINE n == Len(s)
           N == Cardinality(Elem)
           G(k) == IF k < n THEN s[k + 1] ELSE Nil
<1>1. s \in Seq(Elem) /\ Injective(s) /\ head = IF n = 0 THEN Nil ELSE s[1]
  BY DEF IsList
<1>2. n \in Nat /\ N \in Nat /\ n <= N /\ \A i \in 1 .. n : s[i] \in Elem
  BY <1>1, ElemCounted, ListCounted
<1>3. G(0) = head
  BY <1>1, <1>2
<1>4. \A k \in 1 .. N : G(k) = IF G(k - 1) = Nil THEN Nil ELSE next[G(k - 1)]
  <2> SUFFICES ASSUME NEW k \in 1 .. N PROVE G(k) = IF G(k - 1) = Nil THEN Nil ELSE next[G(k - 1)]
    OBVIOUS
  <2>1. CASE k - 1 < n
    <3>1. k \in 1 .. n /\ (k - 1) + 1 = k
      BY <2>1, <1>2
    <3>2. G(k - 1) = s[k] /\ s[k] # Nil
      BY <2>1, <3>1, <1>2, NilApart
    <3>3. next[s[k]] = IF k = n THEN Nil ELSE s[k + 1]
      BY <3>1 DEF IsList
    <3>4. k = n <=> ~(k < n)
      BY <3>1, <1>2
    <3> QED
      BY <3>2, <3>3, <3>4
  <2>2. CASE ~(k - 1 < n)
    <3>1. ~(k < n)
      BY <2>2, <1>2
    <3> QED
      BY <2>2, <3>1
  <2> QED
    BY <2>1, <2>2
<1> DEFINE Meets(f) == f = [k \in 0 .. N |-> IF k = 0 THEN head
                                ELSE IF f[k - 1] = Nil THEN Nil ELSE next[f[k - 1]]]
<1>5. \E f : Meets(f)
  <2> DEFINE g == [k \in 0 .. N |-> G(k)]
  <2>1. \A k \in 1 .. N : k - 1 \in 0 .. N /\ k # 0
    BY <1>2
  <2>2. \A k \in 1 .. N : g[k - 1] = G(k - 1)
    BY <2>1
  <2>3. \A k \in 0 .. N : k = 0 \/ k \in 1 .. N
    BY <1>2
  <2> HIDE DEF G
  <2>4. \A k \in 0 .. N : G(k) = IF k = 0 THEN head
                                ELSE IF g[k - 1] = Nil THEN Nil ELSE next[g[k - 1]]
    <3> HIDE DEF g, N
    <3> QED
      BY <2>1, <2>2, <2>3, <1>3, <1>4
  <2>5. Meets(g)
    BY <2>4
  <2> HIDE DEF Meets, g
  <2> QED
    BY <2>5
<1> DEFINE met == Met(next, head)
<1>6. met = CHOOSE f : Meets(f)
  BY DEF Met
<1>7. Meets(met)
  <2> HIDE DEF Meets, met
  <2> QED
    BY <1>5, <1>6, Zenon
<1> HIDE DEF met, G
<1>8. DOMAIN met = 0 .. N
  BY <1>7
<1>9. ASSUME \E k \in 0 .. N : met[k] # G(k) PROVE FALSE
  <2> DEFINE S == {k \in 0 .. N : met[k] # G(k)}
  <2>1. S \in SUBSET Nat /\ S # {}
    BY <1>2, <1>9
  <2>2. PICK k \in S : \A b \in S : k <= b
    <3> HIDE DEF S
    <3> QED
      BY <2>1, LeastNumber
  <2>3. met[0] = head
    BY <1>2, <1>7
  <2>4. k # 0
    BY <2>3, <1>3
  <2>5. k \in 1 .. N /\ k - 1 \in 0 .. N /\ k - 1 \notin S
    BY <2>2, <2>4, <1>2
  <2>6. met[k - 1] = G(k - 1)
    BY <2>5
  <2>7. met[k] = IF met[k - 1] = Nil THEN Nil ELSE next[met[k - 1]]
    BY <2>4, <1>7
  <2> QED
    BY <2>5, <2>6, <2>7, <1>4
<1>10. \A k \in 0 .. N : (met[k] # Nil <=> k < n) /\ (k < n => met[k] = s[k + 1])
  <2> SUFFICES ASSUME NEW k \in 0 .. N PROVE (met[k] # Nil <=> k < n) /\ (k < n => met[k] = s[k + 1])
    OBVIOUS
  <2>1. met[k] = IF k < n THEN s[k + 1] ELSE Nil
    BY <1>9 DEF G
  <2>2. k < n => s[k + 1] # Nil
    <3>1. k < n => k + 1 \in 1 .. n
      BY <1>2
    <3> QED
      BY <3>1, <1>2, NilApart
  <2> QED
    BY <2>1, <2>2
<1>11. {k \in DOMAIN met : met[k] # Nil} = 0 .. n - 1
  <2>1. \A k : k \in 0 .. n - 1 <=> k \in 0 .. N /\ k < n
    BY <1>2
  <2> QED
    BY <2>1, <1>8, <1>10
<1>12. Cardinality(0 .. n - 1) = n
  <2>1. 0 \in Int /\ n - 1 \in Int
    BY <1>2
  <2> HIDE DEF n
  <2>2. Cardinality(0 .. n - 1) = IF 0 > n - 1 THEN 0 ELSE ((n - 1) - 0) + 1
    BY <2>1, FS_Interval
  <2> QED
    BY <2>2, <1>2
<1>13. Walk(next, head) = [i \in 1 .. n |-> met[i - 1]]
  BY <1>11, <1>12 DEF Walk, met
<1>14. \A i \in 1 .. n : met[i - 1] = s[i]
  <2> SUFFICES ASSUME NEW i \in 1 .. n PROVE met[i - 1] = s[i]
    OBVIOUS
  <2>1. i - 1 \in 0 .. N /\ i - 1 < n /\ (i - 1) + 1 = i
    BY <1>2
  <2> QED
    BY <2>1, <1>10
<1>15. s = [i \in 1 .. n |-> s[i]]
  BY <1>1
<1> QED
  BY <1>13, <1>14, <1>15

-----------------------------------------------------------------------------
(* The chains of the buckets.                                              *)

Bucket == [hh_head : Ptr, count : Nat, expand_mult : Nat]
Buckets(n) == [0 .. n - 1 -> Bucket]
Slot(hv, e, n) == HASH_TO_BKT(hv[e], n)

\* ch[b] is the chain of bucket b; the elements of M are each in the one of their hash.
Chains(n, bk, nx, pv, hv, ch, M) ==
    /\ ch \in [0 .. n - 1 -> Seq(Elem)]
    /\ \A b \in 0 .. n - 1 :
          /\ IsList(nx, pv, bk[b].hh_head, ch[b]) /\ bk[b].count = Len(ch[b])
          /\ \A i \in 1 .. Len(ch[b]) : ch[b][i] \in M /\ Slot(hv, ch[b][i], n) = b
    /\ M \subseteq Elem
    /\ \A e \in M : \E i \in 1 .. Len(ch[Slot(hv, e, n)]) : ch[Slot(hv, e, n)][i] = e

LEMMA SlotOK ==
  ASSUME NEW n \in Nat \ {0}, NEW hv \in [Elem -> Nat], NEW e \in Elem
  PROVE  Slot(hv, e, n) \in 0 .. n - 1
<1>1. hv[e] \in Nat
  OBVIOUS
<1>2. hv[e] % n \in 0 .. n - 1
  BY <1>1
<1> QED
  BY <1>2 DEF Slot, HASH_TO_BKT

LEMMA NoChains ==
  ASSUME NEW n \in Nat \ {0}, NEW nx, NEW pv, NEW hv
  PROVE  /\ NoBuckets(n) \in Buckets(n)
         /\ Chains(n, NoBuckets(n), nx, pv, hv, [b \in 0 .. n - 1 |-> <<>>], {})
<1>1. NoBuckets(n) \in Buckets(n)
  BY DEF NoBuckets, Buckets, Bucket, Ptr
<1>2. <<>> \in Seq(Elem) /\ Len(<<>>) = 0 /\ Injective(<<>>)
  BY DEF Injective
<1>3. IsList(nx, pv, Nil, <<>>)
  BY <1>2 DEF IsList
<1> QED
  BY <1>1, <1>2, <1>3 DEF NoBuckets, Chains

LEMMA PushChain ==
  ASSUME NEW n \in Nat \ {0}, NEW bk \in Buckets(n), NEW nx \in Links, NEW pv \in Links,
         NEW hv \in [Elem -> Nat], NEW ch, NEW M, Chains(n, bk, nx, pv, hv, ch, M),
         NEW e \in Elem, e \notin M, NEW b, b = Slot(hv, e, n),
         NEW bk2, \A c \in 0 .. n - 1 : c # b => bk2[c] = bk[c],
         bk2[b].hh_head = e, bk2[b].count = bk[b].count + 1,
         NEW nx2, nx2 = PushNext(nx, bk[b].hh_head, e),
         NEW pv2, pv2 = PushPrev(pv, bk[b].hh_head, e)
  PROVE  /\ nx2 \in Links /\ pv2 \in Links
         /\ \E ch2 : Chains(n, bk2, nx2, pv2, hv, ch2, M \cup {e})
<1> DEFINE h == bk[b].hh_head
           s == ch[b]
           r == Pushed(e, s)
           ch2 == [ch EXCEPT ![b] = r]
<1>1. b \in 0 .. n - 1
  BY SlotOK
<1>2. /\ ch \in [0 .. n - 1 -> Seq(Elem)] /\ M \subseteq Elem
      /\ IsList(nx, pv, h, s) /\ bk[b].count = Len(s)
      /\ \A i \in 1 .. Len(s) : s[i] \in M /\ Slot(hv, s[i], n) = b
  BY <1>1 DEF Chains
<1>3. s \in Seq(Elem) /\ Len(s) \in Nat
  BY <1>1, <1>2
<1>4. \A i \in 1 .. Len(s) : s[i] # e
  BY <1>2
<1>5. /\ nx2 \in Links /\ pv2 \in Links /\ h \in Ptr
      /\ \A x \in Elem : x # e => nx2[x] = nx[x] /\ (x # h => pv2[x] = pv[x])
      /\ IsList(nx2, pv2, e, r)
  <2> HIDE DEF h, s
  <2>1. nx2 = PushNext(nx, h, e) /\ pv2 = PushPrev(pv, h, e)
    BY DEF h
  <2>2. IsList(nx, pv, h, s)
    BY <1>2
  <2>3. /\ PushNext(nx, h, e) \in Links /\ PushPrev(pv, h, e) \in Links /\ h \in Ptr
        /\ \A x \in Elem : x # e => /\ PushNext(nx, h, e)[x] = nx[x]
                                    /\ x # h => PushPrev(pv, h, e)[x] = pv[x]
        /\ IsList(PushNext(nx, h, e), PushPrev(pv, h, e), e, Pushed(e, s))
    BY ONLY <2>2, <1>4, ListPush, e \in Elem, nx \in Links, pv \in Links
  <2>4. nx2 \in Links /\ pv2 \in Links /\ h \in Ptr
    BY ONLY <2>1, <2>3
  <2>5. \A x \in Elem : x # e => nx2[x] = nx[x] /\ (x # h => pv2[x] = pv[x])
    BY ONLY <2>1, <2>3
  <2>6. IsList(nx2, pv2, e, Pushed(e, s))
    BY ONLY <2>1, <2>3
  <2> QED
    BY <2>4, <2>5, <2>6, Zenon
<1>6. r \in Seq(Elem) /\ Len(r) = Len(s) + 1 /\ \A i \in 1 .. Len(s) + 1 : r[i] = IF i = 1 THEN e ELSE s[i - 1]
  <2> HIDE DEF s
  <2> QED
    BY <1>3, PushedSeq
<1>7. h = Nil \/ (h \in M /\ Slot(hv, h, n) = b)
  <2>1. h = IF Len(s) = 0 THEN Nil ELSE s[1]
    BY <1>2 DEF IsList
  <2>2. Len(s) # 0 => 1 \in 1 .. Len(s)
    BY <1>3
  <2> QED
    BY <2>1, <2>2, <1>2
<1> HIDE DEF r, h
<1>8. ch2 \in [0 .. n - 1 -> Seq(Elem)] /\ ch2[b] = r /\ \A c \in 0 .. n - 1 : c # b => ch2[c] = ch[c]
  BY <1>1, <1>2, <1>6
<1> HIDE DEF ch2
<1>9. ASSUME NEW c \in 0 .. n - 1
      PROVE  /\ IsList(nx2, pv2, bk2[c].hh_head, ch2[c]) /\ bk2[c].count = Len(ch2[c])
             /\ \A i \in 1 .. Len(ch2[c]) : ch2[c][i] \in M \cup {e} /\ Slot(hv, ch2[c][i], n) = c
  <2>1. CASE c = b
    <3>1. ASSUME NEW i \in 1 .. Len(r) PROVE r[i] \in M \cup {e} /\ Slot(hv, r[i], n) = c
      <4>1. i = 1 \/ (i # 1 /\ i - 1 \in 1 .. Len(s))
        <5>1. Len(s) \in Nat /\ i \in 1 .. Len(s) + 1
          BY <1>3, <1>6
        <5> HIDE DEF s
        <5> QED
          BY ONLY <5>1
      <4>2. r[i] = IF i = 1 THEN e ELSE s[i - 1]
        BY <1>6
      <4> HIDE DEF s
      <4>3. CASE i = 1
        <5>1. r[i] = e
          BY ONLY <4>2, <4>3
        <5> QED
          BY <5>1, <2>1
      <4>4. CASE i # 1
        <5>1. r[i] = s[i - 1] /\ i - 1 \in 1 .. Len(s)
          BY ONLY <4>1, <4>2, <4>4
        <5>2. s[i - 1] \in M /\ Slot(hv, s[i - 1], n) = b
          BY ONLY <5>1, <1>2
        <5> QED
          BY ONLY <5>1, <5>2, <2>1
      <4> QED
        BY ONLY <4>3, <4>4
    <3>2. IsList(nx2, pv2, bk2[c].hh_head, ch2[c])
      BY <2>1, <1>5, <1>8
    <3>3. bk2[c].count = Len(ch2[c])
      BY <2>1, <1>2, <1>6, <1>8
    <3> QED
      BY <3>1, <3>2, <3>3, <2>1, <1>8
  <2>2. CASE c # b
    <3>1. ch2[c] = ch[c] /\ bk2[c] = bk[c]
      BY <2>2, <1>8
    <3>2. /\ IsList(nx, pv, bk[c].hh_head, ch[c]) /\ bk[c].count = Len(ch[c])
          /\ \A i \in 1 .. Len(ch[c]) : ch[c][i] \in M /\ Slot(hv, ch[c][i], n) = c
      BY DEF Chains
    <3>3. ASSUME NEW i \in 1 .. Len(ch[c])
          PROVE  nx2[ch[c][i]] = nx[ch[c][i]] /\ pv2[ch[c][i]] = pv[ch[c][i]]
      <4>1. ch[c][i] \in Elem /\ ch[c][i] # e
        BY <3>2, <1>2
      <4>2. ch[c][i] # h
        BY <3>2, <4>1, <2>2, <1>7, NilApart
      <4> QED
        BY <4>1, <4>2, <1>5
    <3>4. IsList(nx2, pv2, bk[c].hh_head, ch[c])
      <4>1. IsList(nx, pv, bk[c].hh_head, ch[c])
        BY <3>2
      <4>2. \A i \in 1 .. Len(ch[c]) : nx2[ch[c][i]] = nx[ch[c][i]] /\ pv2[ch[c][i]] = pv[ch[c][i]]
        BY <3>3
      <4> QED
        BY ONLY <4>1, <4>2, ListKept
    <3> QED
      BY <3>1, <3>2, <3>4
  <2> QED
    BY <2>1, <2>2
<1>10. ASSUME NEW f \in M \cup {e}
       PROVE  \E i \in 1 .. Len(ch2[Slot(hv, f, n)]) : ch2[Slot(hv, f, n)][i] = f
  <2>1. CASE f = e
    <3>1. 1 \in 1 .. Len(r) /\ r[1] = e
      BY <1>3, <1>6
    <3> QED
      BY <3>1, <2>1, <1>8
  <2>2. CASE f \in M
    <3>1. Slot(hv, f, n) \in 0 .. n - 1
      BY <2>2, <1>2, SlotOK
    <3>2. PICK i \in 1 .. Len(ch[Slot(hv, f, n)]) : ch[Slot(hv, f, n)][i] = f
      BY <2>2 DEF Chains
    <3>3. CASE Slot(hv, f, n) = b
      <4>1. i + 1 \in 1 .. Len(r) /\ r[i + 1] = s[i]
        <5>1. i \in 1 .. Len(s)
          BY <3>3
        <5> HIDE DEF s
        <5>2. i + 1 \in 1 .. Len(s) + 1 /\ i + 1 # 1 /\ (i + 1) - 1 = i
          BY <5>1, <1>3
        <5> QED
          BY <5>2, <1>6
      <4> QED
        BY <4>1, <3>2, <3>3, <1>8
    <3>4. CASE Slot(hv, f, n) # b
      BY <3>1, <3>2, <3>4, <1>8
    <3> QED
      BY <3>3, <3>4
  <2> QED
    BY <2>1, <2>2
<1>11. Chains(n, bk2, nx2, pv2, hv, ch2, M \cup {e})
  BY <1>2, <1>8, <1>9, <1>10 DEF Chains
<1> QED
  BY <1>5, <1>11

\* What happens outside of M does not matter to the chains of M.
LEMMA ChainsKept ==
  ASSUME NEW n, NEW bk, NEW nx, NEW pv, NEW hv, NEW ch, NEW M, Chains(n, bk, nx, pv, hv, ch, M),
         NEW nx2, NEW pv2, NEW hv2,
         \A x \in M : nx2[x] = nx[x] /\ pv2[x] = pv[x] /\ hv2[x] = hv[x]
  PROVE  Chains(n, bk, nx2, pv2, hv2, ch, M)
<1>1. \A x \in M : Slot(hv2, x, n) = Slot(hv, x, n)
  BY DEF Slot
<1>2. ASSUME NEW b \in 0 .. n - 1
      PROVE  /\ IsList(nx2, pv2, bk[b].hh_head, ch[b]) /\ bk[b].count = Len(ch[b])
             /\ \A i \in 1 .. Len(ch[b]) : ch[b][i] \in M /\ Slot(hv2, ch[b][i], n) = b
  <2>1. /\ IsList(nx, pv, bk[b].hh_head, ch[b]) /\ bk[b].count = Len(ch[b])
        /\ \A i \in 1 .. Len(ch[b]) : ch[b][i] \in M /\ Slot(hv, ch[b][i], n) = b
    BY DEF Chains
  <2>2. \A i \in 1 .. Len(ch[b]) : nx2[ch[b][i]] = nx[ch[b][i]] /\ pv2[ch[b][i]] = pv[ch[b][i]]
    BY <2>1
  <2>3. IsList(nx2, pv2, bk[b].hh_head, ch[b])
    BY ONLY <2>1, <2>2, ListKept
  <2> QED
    BY <2>1, <2>3, <1>1
<1>3. /\ ch \in [0 .. n - 1 -> Seq(Elem)] /\ M \subseteq Elem
      /\ \A e \in M : \E i \in 1 .. Len(ch[Slot(hv, e, n)]) : ch[Slot(hv, e, n)][i] = e
  BY DEF Chains
<1>4. \A e \in M : \E i \in 1 .. Len(ch[Slot(hv2, e, n)]) : ch[Slot(hv2, e, n)][i] = e
  BY <1>1, <1>3
<1> QED
  BY <1>2, <1>3, <1>4 DEF Chains

\* The links and bucket b are as they should be once the chains hold M.
ChainsOf(n, b, bk, nx, pv, hv, M) ==
    /\ nx \in Links /\ pv \in Links /\ bk[b].hh_head \in Ptr /\ bk[b].count \in Nat
    /\ \E ch : Chains(n, bk, nx, pv, hv, ch, M)

LEMMA CutChain ==
  ASSUME NEW n \in Nat \ {0}, NEW bk \in Buckets(n), NEW nx \in Links, NEW pv \in Links,
         NEW hv \in [Elem -> Nat], NEW ch, NEW M, Chains(n, bk, nx, pv, hv, ch, M),
         NEW e \in M, NEW b, b = Slot(hv, e, n),
         NEW bk2, \A c \in 0 .. n - 1 : c # b => bk2[c] = bk[c],
         bk2[b].hh_head = CutHead(nx, bk[b].hh_head, e), bk2[b].count = bk[b].count - 1,
         NEW nx2, nx2 = CutNext(nx, pv, e),
         NEW pv2, pv2 = CutPrev(nx, pv, e)
  PROVE  ChainsOf(n, b, bk2, nx2, pv2, hv, M \ {e})
<1> DEFINE h == bk[b].hh_head
           s == ch[b]
<1>1. ch \in [0 .. n - 1 -> Seq(Elem)] /\ M \subseteq Elem
  BY DEF Chains
<1>2. b \in 0 .. n - 1
  BY <1>1, SlotOK
<1>3. /\ IsList(nx, pv, h, s) /\ bk[b].count = Len(s)
      /\ \A i \in 1 .. Len(s) : s[i] \in M /\ Slot(hv, s[i], n) = b
  BY <1>2 DEF Chains
<1>4. s \in Seq(Elem) /\ Len(s) \in Nat /\ Injective(s)
  BY <1>1, <1>2, <1>3 DEF IsList
<1>5. PICK p \in 1 .. Len(s) : s[p] = e
  BY DEF Chains
<1> DEFINE r == Cut(s, p)
           ch2 == [ch EXCEPT ![b] = r]
<1>6. /\ nx2 \in Links /\ pv2 \in Links /\ bk2[b].hh_head \in Ptr
      /\ nx[e] # Nil => \E i \in 1 .. Len(s) : s[i] = nx[e]
      /\ pv[e] # Nil => \E i \in 1 .. Len(s) : s[i] = pv[e]
      /\ \A x \in Elem : (x # pv[e] => nx2[x] = nx[x]) /\ (x # nx[e] => pv2[x] = pv[x])
      /\ IsList(nx2, pv2, bk2[b].hh_head, r)
  <2> HIDE DEF h, s
  <2>1. nx2 = CutNext(nx, pv, e) /\ pv2 = CutPrev(nx, pv, e) /\ bk2[b].hh_head = CutHead(nx, h, e)
    BY DEF h
  <2>2. IsList(nx, pv, h, s)
    BY <1>3
  <2>3. /\ CutNext(nx, pv, e) \in Links /\ CutPrev(nx, pv, e) \in Links /\ CutHead(nx, h, e) \in Ptr
        /\ pv[e] # Nil => \E i \in 1 .. Len(s) : s[i] = pv[e]
        /\ nx[e] # Nil => \E i \in 1 .. Len(s) : s[i] = nx[e]
        /\ \A x \in Elem : /\ x # pv[e] => CutNext(nx, pv, e)[x] = nx[x]
                           /\ x # nx[e] => CutPrev(nx, pv, e)[x] = pv[x]
        /\ IsList(CutNext(nx, pv, e), CutPrev(nx, pv, e), CutHead(nx, h, e), Cut(s, p))
    BY ONLY <2>2, <1>5, ListCut, nx \in Links, pv \in Links
  <2>4. nx2 \in Links /\ pv2 \in Links /\ bk2[b].hh_head \in Ptr
    BY ONLY <2>1, <2>3
  <2>5. \A x \in Elem : (x # pv[e] => nx2[x] = nx[x]) /\ (x # nx[e] => pv2[x] = pv[x])
    BY ONLY <2>1, <2>3
  <2>6. IsList(nx2, pv2, bk2[b].hh_head, Cut(s, p))
    BY ONLY <2>1, <2>3
  <2> QED
    BY <2>3, <2>4, <2>5, <2>6, Zenon
<1>7. r \in Seq(Elem) /\ Len(r) = Len(s) - 1 /\ \A i \in 1 .. Len(s) - 1 : r[i] = IF i < p THEN s[i] ELSE s[i + 1]
  <2> HIDE DEF s
  <2> QED
    BY <1>4, CutSeq
<1> HIDE DEF r, h
<1>8. ch2 \in [0 .. n - 1 -> Seq(Elem)] /\ ch2[b] = r /\ \A c \in 0 .. n - 1 : c # b => ch2[c] = ch[c]
  BY <1>1, <1>2, <1>7
<1> HIDE DEF ch2
<1>9. ASSUME NEW i \in 1 .. Len(r) PROVE r[i] \in M \ {e} /\ Slot(hv, r[i], n) = b
  <2> DEFINE j == IF i < p THEN i ELSE i + 1
  <2> HIDE DEF s
  <2>1. j \in 1 .. Len(s) /\ j # p
    BY <1>4, <1>7
  <2>2. r[i] = s[j]
    BY <1>7
  <2> HIDE DEF j
  <2>3. s[j] # e
    BY <2>1, <1>4, <1>5 DEF Injective
  <2> QED
    BY <2>1, <2>2, <2>3, <1>3
<1>10. (nx[e] = Nil \/ (nx[e] \in M /\ Slot(hv, nx[e], n) = b)) /\ (pv[e] = Nil \/ (pv[e] \in M /\ Slot(hv, pv[e], n) = b))
  <2> HIDE DEF s
  <2> QED
    BY <1>3, <1>6
<1>11. ASSUME NEW c \in 0 .. n - 1
       PROVE  /\ IsList(nx2, pv2, bk2[c].hh_head, ch2[c]) /\ bk2[c].count = Len(ch2[c])
              /\ \A i \in 1 .. Len(ch2[c]) : ch2[c][i] \in M \ {e} /\ Slot(hv, ch2[c][i], n) = c
  <2>1. CASE c = b
    <3>1. bk2[b].count = Len(r)
      BY <1>3, <1>7
    <3>2. IsList(nx2, pv2, bk2[b].hh_head, r)
      BY <1>6
    <3> HIDE DEF s
    <3> QED
      BY ONLY <3>1, <3>2, <2>1, <1>8, <1>9
  <2>2. CASE c # b
    <3>1. ch2[c] = ch[c] /\ bk2[c] = bk[c]
      BY <2>2, <1>8
    <3>2. /\ IsList(nx, pv, bk[c].hh_head, ch[c]) /\ bk[c].count = Len(ch[c])
          /\ \A i \in 1 .. Len(ch[c]) : ch[c][i] \in M /\ Slot(hv, ch[c][i], n) = c
      BY DEF Chains
    <3>3. ASSUME NEW i \in 1 .. Len(ch[c])
          PROVE  /\ nx2[ch[c][i]] = nx[ch[c][i]] /\ pv2[ch[c][i]] = pv[ch[c][i]]
                 /\ ch[c][i] # e
      <4>1. ch[c][i] \in Elem /\ ch[c][i] # e
        BY <3>2, <2>2, <1>1
      <4>2. ch[c][i] # nx[e] /\ ch[c][i] # pv[e]
        BY <3>2, <4>1, <2>2, <1>10, NilApart
      <4>3. \A x \in Elem : (x # pv[e] => nx2[x] = nx[x]) /\ (x # nx[e] => pv2[x] = pv[x])
        BY <1>6
      <4> QED
        BY ONLY <4>1, <4>2, <4>3
    <3>4. IsList(nx2, pv2, bk[c].hh_head, ch[c])
      <4>1. IsList(nx, pv, bk[c].hh_head, ch[c])
        BY <3>2
      <4>2. \A i \in 1 .. Len(ch[c]) : nx2[ch[c][i]] = nx[ch[c][i]] /\ pv2[ch[c][i]] = pv[ch[c][i]]
        BY <3>3
      <4> QED
        BY ONLY <4>1, <4>2, ListKept
    <3> QED
      BY <3>1, <3>2, <3>3, <3>4
  <2> QED
    BY <2>1, <2>2
<1>12. ASSUME NEW f \in M \ {e}
       PROVE  \E i \in 1 .. Len(ch2[Slot(hv, f, n)]) : ch2[Slot(hv, f, n)][i] = f
  <2>1. Slot(hv, f, n) \in 0 .. n - 1
    BY <1>1, SlotOK
  <2>2. PICK i \in 1 .. Len(ch[Slot(hv, f, n)]) : ch[Slot(hv, f, n)][i] = f
    BY DEF Chains
  <2>3. CASE Slot(hv, f, n) = b
    <3>1. i \in 1 .. Len(s) /\ s[i] = f
      BY <2>2, <2>3
    <3> HIDE DEF s
    <3> DEFINE j == IF i < p THEN i ELSE i - 1
    <3>2. i # p
      BY <3>1, <1>5
    <3>3. j \in 1 .. Len(s) - 1 /\ (IF j < p THEN j ELSE j + 1) = i
      BY <3>1, <3>2, <1>4
    <3> HIDE DEF j
    <3>4. j \in 1 .. Len(r) /\ r[j] = f
      BY <3>1, <3>3, <1>7
    <3> QED
      BY <3>4, <2>3, <1>8
  <2>4. CASE Slot(hv, f, n) # b
    BY <2>1, <2>2, <2>4, <1>8
  <2> QED
    BY <2>3, <2>4
<1>13. Chains(n, bk2, nx2, pv2, hv, ch2, M \ {e})
  BY <1>1, <1>8, <1>11, <1>12 DEF Chains
<1>14. bk2[b].count \in Nat
  <2> HIDE DEF s
  <2> QED
    BY <1>3, <1>4
<1> QED
  BY <1>6, <1>13, <1>14 DEF ChainsOf

(* Induction up to a number, on a set. *)
LEMMA Reach ==
  ASSUME NEW N \in Nat, NEW P, 0 \in P, \A k \in 1 .. N : k - 1 \in P => k \in P
  PROVE  \A k \in 0 .. N : k \in P
<1> SUFFICES ASSUME \E k \in 0 .. N : k \notin P PROVE FALSE
  OBVIOUS
<1> DEFINE S == {k \in 0 .. N : k \notin P}
<1>1. S \in SUBSET Nat /\ S # {}
  OBVIOUS
<1>2. PICK k \in S : \A b \in S : k <= b
  <2> HIDE DEF S
  <2> QED
    BY <1>1, LeastNumber
<1>3. k \in 1 .. N /\ k - 1 \in 0 .. N /\ ~(k <= k - 1) /\ k \notin P
  BY <1>2
<1>4. k - 1 \notin S
  <2> HIDE DEF S
  <2> QED
    BY <1>2, <1>3
<1> QED
  BY <1>3, <1>4

\* The sequences w[0] .. w[N - 1] can be put together one after the other.
LEMMA Joining ==
  ASSUME NEW N \in Nat, NEW w
  PROVE  \E f : f = [b \in 0 .. N |-> IF b = 0 THEN <<>> ELSE f[b - 1] \o w[b - 1]]
<1> DEFINE Joins(f, m) == f = [b \in 0 .. m |-> IF b = 0 THEN <<>> ELSE f[b - 1] \o w[b - 1]]
           P == {m \in 0 .. N : \E f : Joins(f, m)}
<1>1. 0 \in P
  <2> DEFINE f == [b \in 0 .. 0 |-> <<>>]
  <2>1. Joins(f, 0)
    OBVIOUS
  <2> HIDE DEF Joins, f
  <2> QED
    BY <2>1
<1>2. ASSUME NEW m \in 1 .. N, m - 1 \in P PROVE m \in P
  <2>1. PICK f : Joins(f, m - 1)
    BY <1>2
  <2> DEFINE g == [b \in 0 .. m |-> IF b = m THEN f[m - 1] \o w[m - 1] ELSE f[b]]
  <2>2. ASSUME NEW b \in 0 .. m PROVE g[b] = IF b = 0 THEN <<>> ELSE g[b - 1] \o w[b - 1]
    <3>1. CASE b = m
      <4>1. b # 0 /\ b - 1 \in 0 .. m /\ b - 1 # m
        BY <3>1
      <4>2. g[b] = f[m - 1] \o w[m - 1] /\ g[b - 1] = f[m - 1]
        BY <3>1, <4>1
      <4> QED
        BY <3>1, <4>1, <4>2
    <3>2. CASE b # m
      <4>1. b \in 0 .. m - 1 /\ (b # 0 => b - 1 \in 0 .. m /\ b - 1 # m)
        BY <3>2
      <4>2. g[b] = f[b] /\ (b # 0 => g[b - 1] = f[b - 1])
        BY <3>2, <4>1
      <4>3. f[b] = IF b = 0 THEN <<>> ELSE f[b - 1] \o w[b - 1]
        BY <2>1, <4>1
      <4> QED
        BY <4>2, <4>3
    <3> QED
      BY <3>1, <3>2
  <2>3. g = [b \in 0 .. m |-> g[b]]
    OBVIOUS
  <2>4. Joins(g, m)
    <3> HIDE DEF g
    <3> QED
      BY <2>2, <2>3
  <2>5. m \in 0 .. N
    OBVIOUS
  <2> HIDE DEF Joins, g
  <2> QED
    BY <2>4, <2>5
<1>3. N \in P
  <2> HIDE DEF P
  <2>1. \A k \in 0 .. N : k \in P
    BY <1>1, <1>2, Reach
  <2> QED
    BY <2>1
<1> QED
  BY <1>3

LEMMA JoinSeq ==
  ASSUME NEW a \in Seq(Elem), NEW c \in Seq(Elem), Injective(a), Injective(c), Members(a) \cap Members(c) = {}
  PROVE  a \o c \in Seq(Elem) /\ Injective(a \o c) /\ Members(a \o c) = Members(a) \cup Members(c)
<1> DEFINE d == a \o c
           m == Len(a)
           n == Len(c)
<1>1. m \in Nat /\ n \in Nat
  OBVIOUS
<1>2. d \in Seq(Elem) /\ Len(d) = m + n
  OBVIOUS
<1>3. \A i \in 1 .. m + n : d[i] = IF i <= m THEN a[i] ELSE c[i - m]
  OBVIOUS
<1> HIDE DEF d
<1>4. \A i \in 1 .. m + n : IF i <= m THEN i \in 1 .. m /\ d[i] = a[i] ELSE i - m \in 1 .. n /\ d[i] = c[i - m]
  BY <1>1, <1>3
<1>5. ASSUME NEW i \in 1 .. m + n, NEW j \in 1 .. m + n, i <= m, ~(j <= m) PROVE d[i] # d[j]
  <2>1. d[i] \in Members(a) /\ d[j] \in Members(c)
    BY <1>4, <1>5 DEF Members
  <2> QED
    BY <2>1
<1>6. Injective(d)
  <2> SUFFICES ASSUME NEW i \in 1 .. m + n, NEW j \in 1 .. m + n, d[i] = d[j] PROVE i = j
    BY <1>2 DEF Injective
  <2>1. CASE i <= m /\ j <= m
    BY <2>1, <1>4 DEF Injective
  <2>2. CASE ~(i <= m) /\ ~(j <= m)
    <3>1. i - m \in 1 .. n /\ j - m \in 1 .. n /\ c[i - m] = c[j - m]
      BY <2>2, <1>4
    <3>2. i - m = j - m
      BY <3>1 DEF Injective
    <3> QED
      BY <3>2, <1>1
  <2> QED
    BY <2>1, <2>2, <1>5
<1>7. ASSUME NEW i \in 1 .. m + n PROVE d[i] \in Members(a) \cup Members(c)
  BY <1>4 DEF Members
<1>8. ASSUME NEW i \in 1 .. m PROVE a[i] \in Members(d)
  <2>1. i \in 1 .. m + n /\ i <= m
    BY <1>1
  <2> QED
    BY <2>1, <1>2, <1>3 DEF Members
<1>9. ASSUME NEW i \in 1 .. n PROVE c[i] \in Members(d)
  <2>1. i + m \in 1 .. m + n /\ ~(i + m <= m) /\ (i + m) - m = i
    BY <1>1
  <2>2. d[i + m] = c[i]
    BY <2>1, <1>3
  <2> QED
    BY <2>1, <2>2, <1>2 DEF Members
<1>10. Members(d) = Members(a) \cup Members(c)
  <2>1. Members(d) \subseteq Members(a) \cup Members(c)
    <3> SUFFICES ASSUME NEW i \in 1 .. Len(d) PROVE d[i] \in Members(a) \cup Members(c)
      BY DEF Members
    <3> QED
      BY <1>2, <1>7
  <2>2. Members(a) \subseteq Members(d)
    <3> SUFFICES ASSUME NEW i \in 1 .. m PROVE a[i] \in Members(d)
      BY DEF Members
    <3> QED
      BY <1>8
  <2>3. Members(c) \subseteq Members(d)
    <3> SUFFICES ASSUME NEW i \in 1 .. n PROVE c[i] \in Members(d)
      BY DEF Members
    <3> QED
      BY <1>9
  <2> QED
    BY <2>1, <2>2, <2>3
<1> QED
  BY <1>2, <1>6, <1>10 DEF d

\* Bucket after bucket, every element of the table is met once.
LEMMA ChainedIs ==
  ASSUME NEW t, NEW n \in Nat \ {0}, t.num_buckets = n, NEW hv \in [Elem -> Nat], NEW ch, NEW M,
         Chains(n, t.buckets, t.hh_next, t.hh_prev, hv, ch, M)
  PROVE  Chained(t) \in Seq(Elem) /\ Injective(Chained(t)) /\ Members(Chained(t)) = M
<1> DEFINE W(b) == Walk(t.hh_next, t.buckets[b].hh_head)
           w == [b \in 0 .. n - 1 |-> W(b)]
           Joins(f) == f = [b \in 0 .. t.num_buckets |-> IF b = 0 THEN <<>> ELSE f[b - 1] \o W(b - 1)]
           joined == CHOOSE f : Joins(f)
<1>1. /\ ch \in [0 .. n - 1 -> Seq(Elem)] /\ M \subseteq Elem
      /\ \A b \in 0 .. n - 1 : /\ IsList(t.hh_next, t.hh_prev, t.buckets[b].hh_head, ch[b])
                               /\ \A i \in 1 .. Len(ch[b]) : ch[b][i] \in M /\ Slot(hv, ch[b][i], n) = b
      /\ \A e \in M : \E i \in 1 .. Len(ch[Slot(hv, e, n)]) : ch[Slot(hv, e, n)][i] = e
  BY DEF Chains
<1>2. ASSUME NEW b \in 0 .. n - 1
      PROVE  W(b) = ch[b] /\ ch[b] \in Seq(Elem) /\ Injective(ch[b])
  <2>1. IsList(t.hh_next, t.hh_prev, t.buckets[b].hh_head, ch[b])
    BY <1>1
  <2>2. Walk(t.hh_next, t.buckets[b].hh_head) = ch[b]
    BY ONLY <2>1, WalkIs
  <2>3. ch[b] \in Seq(Elem) /\ Injective(ch[b])
    BY <2>1 DEF IsList
  <2> QED
    BY <2>2, <2>3
<1>3. \E f : Joins(f)
  <2>1. PICK f : f = [b \in 0 .. n |-> IF b = 0 THEN <<>> ELSE f[b - 1] \o w[b - 1]]
    <3> HIDE DEF w
    <3>1. n \in Nat
      OBVIOUS
    <3> QED
      BY ONLY <3>1, Joining
  <2>2. \A b \in 0 .. n : b # 0 => b - 1 \in 0 .. n - 1
    OBVIOUS
  <2>3. \A b \in 0 .. n : b # 0 => w[b - 1] = W(b - 1)
    <3> HIDE DEF W
    <3> QED
      BY <2>2
  <2> HIDE DEF W, w
  <2>4. Joins(f)
    BY <2>1, <2>3
  <2> HIDE DEF Joins
  <2> QED
    BY <2>4
<1>4. Joins(joined)
  <2> HIDE DEF Joins
  <2> QED
    BY <1>3, Zenon
<1>5. Chained(t) = joined[n]
  BY DEF Chained
<1> HIDE DEF W, joined
<1>6. joined[0] = <<>> /\ \A k \in 1 .. n : joined[k] = joined[k - 1] \o ch[k - 1]
  <2>1. joined[0] = <<>>
    BY <1>4
  <2>2. ASSUME NEW k \in 1 .. n PROVE joined[k] = joined[k - 1] \o ch[k - 1]
    <3>1. k \in 0 .. n /\ k # 0 /\ k - 1 \in 0 .. n - 1
      OBVIOUS
    <3>2. joined[k] = joined[k - 1] \o W(k - 1)
      BY <3>1, <1>4
    <3> QED
      BY <3>1, <3>2, <1>2
  <2> QED
    BY <2>1, <2>2
<1> HIDE DEF Joins
<1> DEFINE Upto(k) == {x \in M : Slot(hv, x, n) < k}
           P == {k \in 0 .. n : joined[k] \in Seq(Elem) /\ Injective(joined[k]) /\ Members(joined[k]) = Upto(k)}
<1>7. \A x \in M : Slot(hv, x, n) \in 0 .. n - 1
  BY <1>1, SlotOK
<1>8. 0 \in P
  <2>1. Upto(0) = {}
    BY <1>7
  <2>2. <<>> \in Seq(Elem) /\ Injective(<<>>) /\ Members(<<>>) = {}
    BY DEF Injective, Members
  <2>3. joined[0] = <<>> /\ 0 \in 0 .. n
    BY <1>6
  <2> HIDE DEF Upto
  <2>4. joined[0] \in Seq(Elem) /\ Injective(joined[0]) /\ Members(joined[0]) = Upto(0)
    BY ONLY <2>1, <2>2, <2>3
  <2> QED
    BY <2>3, <2>4
<1>9. ASSUME NEW b \in 0 .. n - 1 PROVE Members(ch[b]) = {x \in M : Slot(hv, x, n) = b}
  <2>1. ASSUME NEW x \in Members(ch[b]) PROVE x \in M /\ Slot(hv, x, n) = b
    BY <1>1 DEF Members
  <2>2. ASSUME NEW x \in M, Slot(hv, x, n) = b PROVE x \in Members(ch[b])
    BY <2>2, <1>1 DEF Members
  <2> QED
    BY <2>1, <2>2
<1>10. ASSUME NEW k \in 1 .. n, k - 1 \in P PROVE k \in P
  <2>1. joined[k - 1] \in Seq(Elem) /\ Injective(joined[k - 1]) /\ Members(joined[k - 1]) = Upto(k - 1)
    BY <1>10
  <2>2. k - 1 \in 0 .. n - 1 /\ k \in 0 .. n
    OBVIOUS
  <2>3. ch[k - 1] \in Seq(Elem) /\ Injective(ch[k - 1]) /\ Members(ch[k - 1]) = {x \in M : Slot(hv, x, n) = k - 1}
    BY <2>2, <1>2, <1>9
  <2>4. Upto(k - 1) \cap {x \in M : Slot(hv, x, n) = k - 1} = {} /\ Upto(k - 1) \cup {x \in M : Slot(hv, x, n) = k - 1} = Upto(k)
    BY <2>2, <1>7
  <2> HIDE DEF Upto
  <2>5. Members(joined[k - 1]) \cap Members(ch[k - 1]) = {} /\ Members(joined[k - 1]) \cup Members(ch[k - 1]) = Upto(k)
    BY <2>1, <2>3, <2>4
  <2>6. joined[k - 1] \o ch[k - 1] \in Seq(Elem) /\ Injective(joined[k - 1] \o ch[k - 1])
        /\ Members(joined[k - 1] \o ch[k - 1]) = Members(joined[k - 1]) \cup Members(ch[k - 1])
    BY ONLY <2>1, <2>3, <2>5, JoinSeq
  <2> QED
    BY <2>2, <2>5, <2>6, <1>6
<1>11. n \in P
  <2> HIDE DEF P
  <2>1. n \in Nat
    OBVIOUS
  <2>2. \A k \in 0 .. n : k \in P
    BY ONLY <2>1, <1>8, <1>10, Reach
  <2> QED
    BY <2>2
<1>12. Upto(n) = M
  BY <1>7
<1> QED
  BY <1>5, <1>11, <1>12

-----------------------------------------------------------------------------
(* Tables.                                                                 *)

Positive == Nat \ {0}
Hashvs == [Elem -> Nat]

\* A table with n buckets
Table(n) == [head : Ptr, tail : Ptr, num_buckets : {n}, num_items : Nat, ineff_expands : Nat,
             noexpand : BOOLEAN, buckets : Buckets(n), hashv : Hashvs,
             prev : Links, next : Links, hh_prev : Links, hh_next : Links]

\* Its buckets hold the elements of M.
Hashed(t, n, M) == /\ t \in Table(n)
                   /\ \E ch : Chains(n, t.buckets, t.hh_next, t.hh_prev, t.hashv, ch, M)

\* Everything but the buckets is the same.
SameList(t, u) == /\ u.head = t.head /\ u.tail = t.tail /\ u.num_items = t.num_items
                  /\ u.next = t.next /\ u.prev = t.prev /\ u.hashv = t.hashv

LEMMA CeilPositive ==
  ASSUME NEW n \in Positive, NEW b \in Positive
  PROVE  Ceil(n, b) \in Positive
<1>1. n \in Nat /\ b \in Nat /\ n > 0 /\ b > 0
  BY DEF Positive
<1>2. n \div b \in Nat /\ n % b \in Nat
  BY <1>1
<1>3. n % b = 0 => n \div b # 0
  <2>1. n = b * (n \div b) + (n % b)
    BY <1>1
  <2> QED
    BY <2>1, <1>1, <1>2
<1> QED
  BY <1>2, <1>3 DEF Ceil, Positive

LEMMA MultNat ==
  ASSUME NEW bk \in Bucket, NEW count \in Nat, NEW ideal \in Positive
  PROVE  Mult(bk, count, ideal) \in Nat
<1>1. count \div ideal \in Nat
  BY DEF Positive
<1>2. bk.expand_mult \in Nat
  BY DEF Bucket
<1> QED
  BY <1>1, <1>2 DEF Mult

\* What a step that puts e before the chain of its bucket leaves behind.
LEMMA HashedPush ==
  ASSUME NEW n \in Positive, NEW t, NEW M, Hashed(t, n, M), NEW e \in Elem, e \notin M,
         NEW b, b = Slot(t.hashv, e, n), NEW u \in Table(n), SameList(t, u),
         \A c \in 0 .. n - 1 : c # b => u.buckets[c] = t.buckets[c],
         u.buckets[b].hh_head = e, u.buckets[b].count = t.buckets[b].count + 1,
         u.hh_next = PushNext(t.hh_next, t.buckets[b].hh_head, e),
         u.hh_prev = PushPrev(t.hh_prev, t.buckets[b].hh_head, e)
  PROVE  Hashed(u, n, M \cup {e})
<1>1. t.buckets \in Buckets(n) /\ t.hh_next \in Links /\ t.hh_prev \in Links /\ t.hashv \in Hashvs
  BY DEF Hashed, Table
<1>2. PICK ch : Chains(n, t.buckets, t.hh_next, t.hh_prev, t.hashv, ch, M)
  BY DEF Hashed
<1>3. u.hashv = t.hashv
  BY DEF SameList
<1>4. n \in Nat \ {0} /\ t.hashv \in [Elem -> Nat]
  BY <1>1 DEF Positive, Hashvs
<1>5. \E ch2 : Chains(n, u.buckets, u.hh_next, u.hh_prev, t.hashv, ch2, M \cup {e})
  <2> DEFINE bk == t.buckets
             nx == t.hh_next
             pv == t.hh_prev
             hv == t.hashv
             bk2 == u.buckets
             nx2 == u.hh_next
             pv2 == u.hh_prev
  <2>1. /\ bk \in Buckets(n) /\ nx \in Links /\ pv \in Links /\ hv \in [Elem -> Nat] /\ n \in Nat \ {0}
        /\ Chains(n, bk, nx, pv, hv, ch, M)
    BY <1>1, <1>2, <1>4
  <2>2. /\ e \in Elem /\ e \notin M /\ b = Slot(hv, e, n)
        /\ \A c \in 0 .. n - 1 : c # b => bk2[c] = bk[c]
        /\ bk2[b].hh_head = e /\ bk2[b].count = bk[b].count + 1
        /\ nx2 = PushNext(nx, bk[b].hh_head, e) /\ pv2 = PushPrev(pv, bk[b].hh_head, e)
    OBVIOUS
  <2> HIDE DEF bk, nx, pv, hv, bk2, nx2, pv2
  <2>3. \E ch2 : Chains(n, bk2, nx2, pv2, hv, ch2, M \cup {e})
    BY ONLY <2>1, <2>2, PushChain
  <2> QED
    BY <2>3 DEF bk2, nx2, pv2, hv
<1> QED
  BY <1>3, <1>5 DEF Hashed

Rehashing(n) == [t : Table(n), nonideal : Nat]

LEMMA RehashStep ==
  ASSUME NEW n \in Positive, NEW r \in Rehashing(n), NEW M, Hashed(r.t, n, M),
         NEW e \in Elem, e \notin M, NEW ideal \in Positive
  PROVE  /\ Rehash(r, e, ideal) \in Rehashing(n)
         /\ Hashed(Rehash(r, e, ideal).t, n, M \cup {e})
         /\ SameList(r.t, Rehash(r, e, ideal).t)
<1> DEFINE t == r.t
           b == HASH_TO_BKT(t.hashv[e], t.num_buckets)
           bk == t.buckets[b]
           count == bk.count + 1
           new == [hh_head |-> e, count |-> count, expand_mult |-> Mult(bk, count, ideal)]
           pv2 == SetLink([t.hh_prev EXCEPT ![e] = Nil], bk.hh_head, e)
           u == [t EXCEPT !.buckets[b] = new, !.hh_prev = pv2, !.hh_next[e] = bk.hh_head]
<1>1. t \in Table(n) /\ r.nonideal \in Nat
  BY DEF Rehashing
<1>2. t.buckets \in Buckets(n) /\ t.hh_next \in Links /\ t.hh_prev \in Links /\ t.hashv \in Hashvs /\ t.num_buckets = n
  BY <1>1 DEF Table
<1>3. n \in Nat \ {0} /\ t.hashv \in [Elem -> Nat]
  BY <1>2 DEF Positive, Hashvs
<1>4. b = Slot(t.hashv, e, n) /\ b \in 0 .. n - 1
  BY <1>2, <1>3, SlotOK DEF Slot
<1>5. bk \in Bucket
  BY <1>2, <1>4 DEF Buckets
<1>6. bk.hh_head \in Ptr /\ count \in Nat
  BY <1>5 DEF Bucket
<1>7. new \in Bucket
  <2>1. Mult(bk, count, ideal) \in Nat
    <3> HIDE DEF bk, count
    <3> QED
      BY <1>5, <1>6, MultNat
  <2>2. e \in Ptr
    BY DEF Ptr
  <2> QED
    BY <2>1, <2>2, <1>6 DEF Bucket
<1>8. pv2 = PushPrev(t.hh_prev, bk.hh_head, e) /\ pv2 \in Links
  <2>1. pv2 = PushPrev(t.hh_prev, bk.hh_head, e)
    BY DEF PushPrev
  <2>2. [t.hh_prev EXCEPT ![e] = Nil] \in Links /\ e \in Ptr
    BY <1>2 DEF Links, Ptr
  <2> QED
    BY <2>1, <2>2, <1>6, LinkSet
<1>9. Rehash(r, e, ideal) = [t |-> u, nonideal |-> IF count > ideal THEN r.nonideal + 1 ELSE r.nonideal]
  BY DEF Rehash
<1> HIDE DEF t, b, bk, new, pv2, count
<1>10. [t.buckets EXCEPT ![b] = new] \in Buckets(n)
  BY <1>2, <1>7 DEF Buckets
<1>11. [t.hh_next EXCEPT ![e] = bk.hh_head] \in Links
  BY <1>2, <1>6 DEF Links
<1>12. /\ u \in Table(n)
       /\ u.buckets = [t.buckets EXCEPT ![b] = new] /\ u.hh_prev = pv2
       /\ u.hh_next = [t.hh_next EXCEPT ![e] = bk.hh_head]
       /\ SameList(t, u)
  BY <1>1, <1>8, <1>10, <1>11 DEF Table, SameList
<1> HIDE DEF u
<1>13. /\ \A c \in 0 .. n - 1 : c # b => u.buckets[c] = t.buckets[c]
       /\ u.buckets[b] = new
  BY <1>2, <1>4, <1>12 DEF Buckets
<1>14. new.hh_head = e /\ new.count = t.buckets[b].count + 1
  BY DEF new, count, bk
<1>15. u.hh_next = PushNext(t.hh_next, t.buckets[b].hh_head, e) /\ u.hh_prev = PushPrev(t.hh_prev, t.buckets[b].hh_head, e)
  BY <1>8, <1>12 DEF PushNext, bk
<1>16. Hashed(u, n, M \cup {e})
  <2>1. Hashed(t, n, M)
    BY DEF t
  <2>2. u.buckets[b].hh_head = e /\ u.buckets[b].count = t.buckets[b].count + 1
    BY <1>13, <1>14
  <2>3. n \in Positive /\ e \in Elem /\ e \notin M /\ b = Slot(t.hashv, e, n) /\ u \in Table(n) /\ SameList(t, u)
    BY <1>4, <1>12
  <2>4. \A c \in 0 .. n - 1 : c # b => u.buckets[c] = t.buckets[c]
    BY <1>13
  <2> QED
    BY ONLY <2>1, <2>2, <2>3, <2>4, <1>15, HashedPush
<1>17. (IF count > ideal THEN r.nonideal + 1 ELSE r.nonideal) \in Nat
  BY <1>1
<1>18. Rehash(r, e, ideal) \in Rehashing(n) /\ Rehash(r, e, ideal).t = u
  BY <1>9, <1>12, <1>17 DEF Rehashing
<1> QED
  BY <1>12, <1>16, <1>18 DEF t

\* The elements es[1] .. es[N] can be rehashed one after the other.
Rehashed(f, N, a, es, ideal) ==
    f = [i \in 0 .. N |-> IF i = 0 THEN a ELSE Rehash(f[i - 1], es[i], ideal)]

LEMMA Rehashes ==
  ASSUME NEW N \in Nat, NEW a, NEW es, NEW ideal
  PROVE  \E f : Rehashed(f, N, a, es, ideal)
<1> DEFINE Runs(f, m) == f = [i \in 0 .. m |-> IF i = 0 THEN a ELSE Rehash(f[i - 1], es[i], ideal)]
           P == {m \in 0 .. N : \E f : Runs(f, m)}
<1>1. 0 \in P
  <2> DEFINE f == [i \in 0 .. 0 |-> a]
  <2>1. Runs(f, 0)
    OBVIOUS
  <2> HIDE DEF Runs, f
  <2> QED
    BY <2>1
<1>2. ASSUME NEW m \in 1 .. N, m - 1 \in P PROVE m \in P
  <2>1. PICK f : Runs(f, m - 1)
    BY <1>2
  <2> DEFINE g == [i \in 0 .. m |-> IF i = m THEN Rehash(f[m - 1], es[m], ideal) ELSE f[i]]
  <2>2. ASSUME NEW i \in 0 .. m PROVE g[i] = IF i = 0 THEN a ELSE Rehash(g[i - 1], es[i], ideal)
    <3>1. CASE i = m
      <4>1. i # 0 /\ i - 1 \in 0 .. m /\ i - 1 # m
        BY <3>1
      <4>2. g[i] = Rehash(f[m - 1], es[m], ideal) /\ g[i - 1] = f[m - 1]
        BY <3>1, <4>1
      <4> QED
        BY <3>1, <4>1, <4>2
    <3>2. CASE i # m
      <4>1. i \in 0 .. m - 1 /\ (i # 0 => i - 1 \in 0 .. m /\ i - 1 # m)
        BY <3>2
      <4>2. g[i] = f[i] /\ (i # 0 => g[i - 1] = f[i - 1])
        BY <3>2, <4>1
      <4>3. f[i] = IF i = 0 THEN a ELSE Rehash(f[i - 1], es[i], ideal)
        BY <2>1, <4>1
      <4> QED
        BY <4>2, <4>3
    <3> QED
      BY <3>1, <3>2
  <2>3. g = [i \in 0 .. m |-> g[i]]
    OBVIOUS
  <2>4. Runs(g, m)
    <3> HIDE DEF g
    <3> QED
      BY <2>2, <2>3
  <2>5. m \in 0 .. N
    OBVIOUS
  <2> HIDE DEF Runs, g
  <2> QED
    BY <2>4, <2>5
<1>3. N \in P
  <2> HIDE DEF P
  <2>1. \A k \in 0 .. N : k \in P
    BY <1>1, <1>2, Reach
  <2> QED
    BY <2>1
<1> QED
  BY <1>3 DEF Rehashed

\* The first i elements
Upto(es, i) == {es[j] : j \in 1 .. i}

\* The new buckets hold what the old ones held.
LEMMA Expanded ==
  ASSUME NEW n \in Positive, NEW t, NEW M, Hashed(t, n, M), t.num_items \in Positive
  PROVE  /\ 2 * n \in Positive
         /\ Hashed(HASH_EXPAND_BUCKETS(t), 2 * n, M)
         /\ SameList(t, HASH_EXPAND_BUCKETS(t))
<1> DEFINE m == 2 * n
           es == Chained(t)
           ideal == Ceil(t.num_items, m)
           t0 == [t EXCEPT !.buckets = NoBuckets(m), !.num_buckets = m]
           r0 == [t |-> t0, nonideal |-> 0]
           Runs(f) == f = [i \in 0 .. Len(es) |-> IF i = 0 THEN r0 ELSE Rehash(f[i - 1], es[i], ideal)]
           rehashed == CHOOSE f : Runs(f)
           r == rehashed[Len(es)]
           ineff == IF r.nonideal > t.num_items \div 2 THEN t.ineff_expands + 1 ELSE 0
           u == [r.t EXCEPT !.ineff_expands = ineff, !.noexpand = @ \/ ineff > 1]
<1>1. n \in Nat \ {0} /\ m \in Nat \ {0} /\ m \in Positive /\ n \in Nat
  BY DEF Positive
<1>2. t \in Table(n) /\ t.num_buckets = n /\ t.hashv \in Hashvs
  BY DEF Hashed, Table
<1>3. HASH_EXPAND_BUCKETS(t) = u
  BY <1>2 DEF HASH_EXPAND_BUCKETS
<1>4. es \in Seq(Elem) /\ Injective(es) /\ Members(es) = M
  <2>1. PICK ch : Chains(n, t.buckets, t.hh_next, t.hh_prev, t.hashv, ch, M)
    BY DEF Hashed
  <2>2. t.hashv \in [Elem -> Nat]
    BY <1>2 DEF Hashvs
  <2> QED
    BY ONLY <2>1, <2>2, <1>1, <1>2, ChainedIs
<1>5. Len(es) \in Nat /\ \A i \in 1 .. Len(es) : es[i] \in Elem
  <2> HIDE DEF es
  <2> QED
    BY <1>4
<1>6. ideal \in Positive
  BY <1>1, CeilPositive
<1> HIDE DEF es, ideal, m
<1>7. \E f : Runs(f)
  <2> HIDE DEF r0
  <2>1. Len(es) \in Nat
    BY <1>5
  <2>2. \E f : Rehashed(f, Len(es), r0, es, ideal)
    BY ONLY <2>1, Rehashes
  <2> QED
    BY <2>2 DEF Rehashed
<1>8. Runs(rehashed)
  <2> HIDE DEF Runs
  <2> QED
    BY <1>7, Zenon
<1> HIDE DEF rehashed, t0
<1>9. rehashed[0] = r0 /\ \A i \in 1 .. Len(es) : rehashed[i] = Rehash(rehashed[i - 1], es[i], ideal)
  <2> HIDE DEF r0
  <2>1. \A i \in 1 .. Len(es) : i \in 0 .. Len(es) /\ i # 0
    BY <1>5
  <2>2. 0 \in 0 .. Len(es)
    BY <1>5
  <2> QED
    BY <2>1, <2>2, <1>8
<1> HIDE DEF Runs
<1> DEFINE P == {i \in 0 .. Len(es) : /\ rehashed[i] \in Rehashing(m)
                                      /\ Hashed(rehashed[i].t, m, Upto(es, i))
                                      /\ SameList(t, rehashed[i].t)}
<1>10. t0 \in Table(m) /\ t0.buckets = NoBuckets(m) /\ SameList(t, t0)
  <2>1. NoBuckets(m) \in Buckets(m)
    BY <1>1, NoChains
  <2> QED
    BY <2>1, <1>2 DEF Table, SameList, t0
<1>11. 0 \in P
  <2>1. r0 \in Rehashing(m) /\ r0.t = t0
    BY <1>10 DEF Rehashing
  <2>2. Upto(es, 0) = {}
    BY DEF Upto
  <2>3. Chains(m, t0.buckets, t0.hh_next, t0.hh_prev, t0.hashv, [b \in 0 .. m - 1 |-> <<>>], {})
    BY <1>1, <1>10, NoChains
  <2>4. Hashed(t0, m, {})
    BY <2>3, <1>10 DEF Hashed
  <2>5. 0 \in 0 .. Len(es)
    BY <1>5
  <2> HIDE DEF r0
  <2> QED
    BY <2>1, <2>2, <2>4, <2>5, <1>9, <1>10
<1>12. ASSUME NEW i \in 1 .. Len(es), i - 1 \in P PROVE i \in P
  <2> DEFINE q == rehashed[i - 1]
             e == es[i]
             M1 == Upto(es, i - 1)
  <2>1. q \in Rehashing(m) /\ Hashed(q.t, m, M1) /\ SameList(t, q.t)
    BY <1>12
  <2>2. e \in Elem /\ e \notin M1
    <3>1. ASSUME NEW j \in 1 .. i - 1 PROVE es[j] # es[i]
      <4>1. j \in 1 .. Len(es) /\ j # i
        BY <1>5
      <4> QED
        BY <4>1, <1>4 DEF Injective
    <3> QED
      BY <3>1, <1>5 DEF Upto
  <2>3. Upto(es, i) = M1 \cup {e}
    <3>1. \A j : j \in 1 .. i <=> j \in 1 .. i - 1 \/ j = i
      BY <1>5
    <3> QED
      BY <3>1 DEF Upto
  <2>4. rehashed[i] = Rehash(q, e, ideal) /\ i \in 0 .. Len(es)
    BY <1>5, <1>9
  <2> HIDE DEF q, e, M1
  <2>5. /\ Rehash(q, e, ideal) \in Rehashing(m)
        /\ Hashed(Rehash(q, e, ideal).t, m, M1 \cup {e})
        /\ SameList(q.t, Rehash(q, e, ideal).t)
    BY ONLY <2>1, <2>2, <1>1, <1>6, RehashStep
  <2>6. SameList(t, Rehash(q, e, ideal).t)
    BY ONLY <2>1, <2>5 DEF SameList
  <2>7. rehashed[i] \in Rehashing(m) /\ Hashed(rehashed[i].t, m, Upto(es, i)) /\ SameList(t, rehashed[i].t)
    BY ONLY <2>3, <2>4, <2>5, <2>6
  <2> QED
    BY <2>4, <2>7
<1>13. Len(es) \in P
  <2> HIDE DEF P
  <2>1. \A k \in 0 .. Len(es) : k \in P
    BY ONLY <1>5, <1>11, <1>12, Reach
  <2> QED
    BY <2>1, <1>5
<1>14. r \in Rehashing(m) /\ Hashed(r.t, m, M) /\ SameList(t, r.t)
  <2>1. Upto(es, Len(es)) = M
    BY <1>4 DEF Upto, Members
  <2> QED
    BY <2>1, <1>13
<1> HIDE DEF r, P
<1>15. r.t \in Table(m) /\ r.nonideal \in Nat
  BY <1>14 DEF Rehashing
<1>16. ineff \in Nat
  BY <1>2 DEF Table
<1> HIDE DEF ineff
<1>17. /\ u \in Table(m) /\ SameList(r.t, u) /\ u.buckets = r.t.buckets
       /\ u.hh_next = r.t.hh_next /\ u.hh_prev = r.t.hh_prev
  BY <1>15, <1>16 DEF Table, SameList
<1> HIDE DEF u
<1>18. Hashed(u, m, M)
  <2>1. \E ch : Chains(m, r.t.buckets, r.t.hh_next, r.t.hh_prev, r.t.hashv, ch, M)
    BY <1>14 DEF Hashed
  <2>2. u.hashv = r.t.hashv
    BY <1>17 DEF SameList
  <2> QED
    BY <2>1, <2>2, <1>17 DEF Hashed
<1>19. SameList(t, u)
  BY <1>14, <1>17 DEF SameList
<1> QED
  BY <1>1, <1>3, <1>18, <1>19 DEF m

PushBkt(bk, e) == [bk EXCEPT !.hh_head = e, !.count = bk.count + 1]

LEMMA BucketPush ==
  ASSUME NEW bk \in Bucket, NEW e \in Elem
  PROVE  /\ bk.hh_head \in Ptr /\ PushBkt(bk, e) \in Bucket
         /\ PushBkt(bk, e).hh_head = e /\ PushBkt(bk, e).count = bk.count + 1
<1>1. e \in Ptr
  BY DEF Ptr
<1>2. bk.hh_head \in Ptr /\ bk.count \in Nat /\ bk.count + 1 \in Nat
  BY DEF Bucket
<1> QED
  BY <1>1, <1>2 DEF Bucket, PushBkt

LEMMA AddedToBkt ==
  ASSUME NEW n \in Positive, NEW t, NEW M, Hashed(t, n, M), t.num_items \in Positive,
         NEW e \in Elem, e \notin M, NEW b, b = Slot(t.hashv, e, n)
  PROVE  /\ \E m \in Positive : Hashed(HASH_ADD_TO_BKT(t, b, e), m, M \cup {e})
         /\ SameList(t, HASH_ADD_TO_BKT(t, b, e))
<1> DEFINE first == t.buckets[b].hh_head
           new == PushBkt(t.buckets[b], e)
           pv2 == SetLink([t.hh_prev EXCEPT ![e] = Nil], first, e)
           u == [t EXCEPT !.buckets[b] = new, !.hh_prev = pv2, !.hh_next[e] = first]
<1>1. t \in Table(n)
  BY DEF Hashed
<1>2. t.buckets \in Buckets(n) /\ t.hh_next \in Links /\ t.hh_prev \in Links /\ t.hashv \in Hashvs
  BY <1>1 DEF Table
<1>3. n \in Nat \ {0} /\ t.hashv \in [Elem -> Nat]
  BY <1>2 DEF Positive, Hashvs
<1>4. b \in 0 .. n - 1
  BY <1>3, SlotOK
<1>5. t.buckets[b] \in Bucket
  BY <1>2, <1>4 DEF Buckets
<1>6. first \in Ptr /\ new \in Bucket /\ new.hh_head = e /\ new.count = t.buckets[b].count + 1
  <2> DEFINE old == t.buckets[b]
  <2>1. old \in Bucket /\ e \in Elem /\ new = PushBkt(old, e)
    BY <1>5
  <2> HIDE DEF old, new
  <2>2. old.hh_head \in Ptr /\ new \in Bucket /\ new.hh_head = e /\ new.count = old.count + 1
    BY ONLY <2>1, BucketPush
  <2> QED
    BY <2>2 DEF old
<1>7. pv2 = PushPrev(t.hh_prev, first, e) /\ pv2 \in Links
  <2>1. pv2 = PushPrev(t.hh_prev, first, e)
    BY DEF PushPrev
  <2>2. [t.hh_prev EXCEPT ![e] = Nil] \in Links /\ e \in Ptr
    BY <1>2 DEF Links, Ptr
  <2> QED
    BY <2>1, <2>2, <1>6, LinkSet
<1>8. HASH_ADD_TO_BKT(t, b, e) = IF HasRoom(u.buckets[b]) \/ t.noexpand THEN u ELSE HASH_EXPAND_BUCKETS(u)
  BY DEF HASH_ADD_TO_BKT, PushBkt
<1> HIDE DEF first, new, pv2
<1>10. [t.buckets EXCEPT ![b] = new] \in Buckets(n)
  BY <1>2, <1>6 DEF Buckets
<1>11. [t.hh_next EXCEPT ![e] = first] \in Links
  BY <1>2, <1>6 DEF Links
<1>12. /\ u \in Table(n) /\ SameList(t, u)
       /\ u.buckets = [t.buckets EXCEPT ![b] = new] /\ u.hh_prev = pv2
       /\ u.hh_next = [t.hh_next EXCEPT ![e] = first]
  BY <1>1, <1>7, <1>10, <1>11 DEF Table, SameList
<1> HIDE DEF u
<1>13. /\ \A c \in 0 .. n - 1 : c # b => u.buckets[c] = t.buckets[c]
       /\ u.buckets[b] = new
  BY <1>2, <1>4, <1>12 DEF Buckets
<1>14. u.hh_next = PushNext(t.hh_next, t.buckets[b].hh_head, e) /\ u.hh_prev = PushPrev(t.hh_prev, t.buckets[b].hh_head, e)
  BY <1>7, <1>12 DEF PushNext, first
<1>15. Hashed(u, n, M \cup {e})
  <2>1. u.buckets[b].hh_head = e /\ u.buckets[b].count = t.buckets[b].count + 1
    BY <1>6, <1>13
  <2>2. n \in Positive /\ e \in Elem /\ e \notin M /\ b = Slot(t.hashv, e, n) /\ u \in Table(n) /\ SameList(t, u) /\ Hashed(t, n, M)
    BY <1>12
  <2>3. \A c \in 0 .. n - 1 : c # b => u.buckets[c] = t.buckets[c]
    BY <1>13
  <2> QED
    BY ONLY <2>1, <2>2, <2>3, <1>14, HashedPush
<1>16. u.num_items \in Positive
  BY <1>12 DEF SameList
<1>17. /\ 2 * n \in Positive
       /\ Hashed(HASH_EXPAND_BUCKETS(u), 2 * n, M \cup {e})
       /\ SameList(u, HASH_EXPAND_BUCKETS(u))
  <2>1. n \in Positive
    OBVIOUS
  <2> QED
    BY ONLY <2>1, <1>15, <1>16, Expanded
<1>18. SameList(t, HASH_EXPAND_BUCKETS(u))
  BY <1>12, <1>17 DEF SameList
<1> QED
  BY <1>8, <1>12, <1>15, <1>17, <1>18

-----------------------------------------------------------------------------
(* The table of a list of elements.                                        *)

Sound(t, n, s) == /\ n \in Positive /\ Hashed(t, n, Members(s)) /\ IsList(t.next, t.prev, t.head, s)
                  /\ Len(s) # 0 /\ t.tail = s[Len(s)] /\ t.num_items = Len(s)

IsTable(t, s) == /\ s \in Seq(Elem)
                 /\ Len(s) = 0 => t = Empty
                 /\ Len(s) # 0 => \E n : Sound(t, n, s)

LEMMA InitialBuckets == HASH_INITIAL_NUM_BUCKETS \in Positive
<1>1. HASH_INITIAL_NUM_BUCKETS \in {1, 2, 4, 8, 16, 32}
  BY SizesAssumption
<1> QED
  BY <1>1 DEF Positive

LEMMA EmptyHandles ==
  /\ NoLinks \in Links /\ Empty.hashv \in Hashvs /\ Empty.head = Nil
  /\ Empty.prev = NoLinks /\ Empty.next = NoLinks /\ Empty.hh_prev = NoLinks /\ Empty.hh_next = NoLinks
BY DEF Empty, NoLinks, Links, Ptr, Hashvs

LEMMA HeadIs ==
  ASSUME NEW t, NEW s, IsTable(t, s)
  PROVE  /\ t.head = Nil <=> Len(s) = 0
         /\ Len(s) # 0 => t.head = s[1]
<1>1. CASE Len(s) = 0
  BY <1>1, EmptyHandles DEF IsTable
<1>2. CASE Len(s) # 0
  <2>1. s \in Seq(Elem) /\ t.head = s[1]
    BY <1>2 DEF IsTable, Sound, IsList
  <2>2. s[1] \in Elem
    BY <2>1, <1>2
  <2> QED
    BY <2>1, <2>2, <1>2, NilApart
<1> QED
  BY <1>1, <1>2

LEMMA MembersPut ==
  ASSUME NEW s \in Seq(Elem), NEW e \in Elem
  PROVE  Members(Put(s, e)) = Members(s) \cup {e}
<1> DEFINE n == Len(s)
           r == Put(s, e)
<1>1. Len(s) \in Nat /\ Len(r) = n + 1 /\ \A i \in 1 .. n + 1 : r[i] = IF i = n + 1 THEN e ELSE s[i]
  <2>1. Len(s) \in Nat
    OBVIOUS
  <2> QED
    BY <2>1, PutSeq
<1> HIDE DEF r
<1>2. \A i : i \in 1 .. n + 1 <=> i \in 1 .. n \/ i = n + 1
  BY <1>1
<1>3. n + 1 \notin 1 .. n
  BY <1>1
<1>4. Members(r) \subseteq Members(s) \cup {e}
  <2> SUFFICES ASSUME NEW i \in 1 .. n + 1 PROVE r[i] \in Members(s) \cup {e}
    BY <1>1 DEF Members
  <2> QED
    BY <1>1, <1>2 DEF Members
<1>5. Members(s) \subseteq Members(r)
  <2> SUFFICES ASSUME NEW i \in 1 .. n PROVE s[i] \in Members(r)
    BY DEF Members
  <2>1. i \in 1 .. n + 1 /\ r[i] = s[i]
    BY <1>1, <1>2, <1>3
  <2> QED
    BY <2>1, <1>1 DEF Members
<1>6. e \in Members(r)
  BY <1>1, <1>2 DEF Members
<1> QED
  BY <1>4, <1>5, <1>6 DEF r

\* HASH_ADD_TO_BKT(v, ..., e) completes what is done once e is in the list.
LEMMA Completed ==
  ASSUME NEW n \in Positive, NEW v, NEW s, NEW e, s \in Seq(Elem), e \in Elem, e \notin Members(s),
         Hashed(v, n, Members(s)), IsList(v.next, v.prev, v.head, Put(s, e)),
         v.tail = e, v.num_items = Len(s) + 1
  PROVE  /\ IsTable(HASH_ADD_TO_BKT(v, Slot(v.hashv, e, n), e), Put(s, e))
         /\ HASH_ADD_TO_BKT(v, Slot(v.hashv, e, n), e).hashv = v.hashv
<1> DEFINE u == HASH_ADD_TO_BKT(v, Slot(v.hashv, e, n), e)
           r == Put(s, e)
<1>1. r \in Seq(Elem) /\ Len(r) = Len(s) + 1 /\ Len(s) \in Nat /\ r[Len(r)] = e
  <2>1. Len(s) \in Nat /\ Len(s) + 1 \in 1 .. Len(s) + 1
    OBVIOUS
  <2> QED
    BY <2>1, PutSeq
<1>2. Members(r) = Members(s) \cup {e}
  BY MembersPut
<1>3. v.num_items \in Positive
  BY <1>1 DEF Positive
<1>4. (\E m \in Positive : Hashed(u, m, Members(s) \cup {e})) /\ SameList(v, u)
  <2>1. n \in Positive /\ Hashed(v, n, Members(s)) /\ e \in Elem /\ e \notin Members(s)
    OBVIOUS
  <2> QED
    BY ONLY <2>1, <1>3, AddedToBkt
<1> HIDE DEF u, r
<1>5. PICK m \in Positive : Hashed(u, m, Members(r))
  BY <1>2, <1>4
<1>6. u.head = v.head /\ u.tail = v.tail /\ u.num_items = v.num_items /\ u.next = v.next /\ u.prev = v.prev /\ u.hashv = v.hashv
  BY <1>4 DEF SameList
<1>7. IsList(u.next, u.prev, u.head, r)
  BY <1>6 DEF r
<1>8. Sound(u, m, r)
  BY <1>1, <1>5, <1>6, <1>7 DEF Sound
<1>9. Len(r) # 0
  BY <1>1
<1>10. IsTable(u, r)
  BY <1>1, <1>8, <1>9 DEF IsTable
<1> QED
  BY <1>6, <1>10 DEF u, r

LEMMA EmptyTable == Empty \in Table(0)
<1>1. NoBuckets(0) \in Buckets(0)
  BY DEF NoBuckets, Buckets
<1>2. NoLinks \in Links /\ [e \in Elem |-> 0] \in Hashvs /\ Nil \in Ptr
  BY DEF NoLinks, Links, Ptr, Hashvs
<1> QED
  BY <1>1, <1>2 DEF Empty, Table

\* e is counted and keeps its hash value.
Counted(a, e, hv) == [a EXCEPT !.num_items = @ + 1, !.hashv[e] = hv]

LEMMA CountedIs ==
  ASSUME NEW n, NEW a \in Table(n), NEW e \in Elem, NEW hv \in Nat
  PROVE  /\ Counted(a, e, hv) \in Table(n)
         /\ Counted(a, e, hv).num_items = a.num_items + 1
         /\ Counted(a, e, hv).hashv = [a.hashv EXCEPT ![e] = hv]
         /\ Counted(a, e, hv).head = a.head /\ Counted(a, e, hv).tail = a.tail
         /\ Counted(a, e, hv).next = a.next /\ Counted(a, e, hv).prev = a.prev
         /\ Counted(a, e, hv).buckets = a.buckets
         /\ Counted(a, e, hv).hh_next = a.hh_next /\ Counted(a, e, hv).hh_prev = a.hh_prev
<1>1. [a.hashv EXCEPT ![e] = hv] \in Hashvs
  BY DEF Table, Hashvs
<1>2. a.num_items + 1 \in Nat
  BY DEF Table
<1> QED
  BY <1>1, <1>2 DEF Table, Counted

\* The first element makes the table.
LEMMA FirstAppended ==
  ASSUME NEW e \in Elem
  PROVE  LET a == Append_(Empty, e)
             n == HASH_INITIAL_NUM_BUCKETS
         IN  /\ a \in Table(n) /\ a.num_items = 0 /\ a.buckets = NoBuckets(n) /\ a.hashv = Empty.hashv
             /\ a.head = e /\ a.tail = e /\ a.next[e] = Nil /\ a.prev[e] = Nil
<1> DEFINE n == HASH_INITIAL_NUM_BUCKETS
           t1 == [Empty EXCEPT !.head = e, !.prev[e] = Nil, !.next[e] = Nil]
<1>1. Append_(Empty, e) = HASH_MAKE_TABLE(t1)
  BY EmptyHandles DEF Append_
<1>2. /\ t1 \in Table(0) /\ t1.head = e /\ t1.hashv = Empty.hashv
      /\ t1.next[e] = Nil /\ t1.prev[e] = Nil
  <2>1. Empty \in Table(0)
    BY EmptyTable
  <2>2. [Empty.prev EXCEPT ![e] = Nil] \in Links /\ [Empty.next EXCEPT ![e] = Nil] \in Links
    BY EmptyHandles DEF Links, Ptr
  <2>3. [Empty.prev EXCEPT ![e] = Nil][e] = Nil /\ [Empty.next EXCEPT ![e] = Nil][e] = Nil
    BY EmptyHandles DEF Links
  <2>4. e \in Ptr
    BY DEF Ptr
  <2> QED
    BY <2>1, <2>2, <2>3, <2>4 DEF Table
<1> HIDE DEF t1
<1>3. NoBuckets(n) \in Buckets(n)
  BY InitialBuckets, NoChains DEF Positive
<1>4. /\ HASH_MAKE_TABLE(t1) \in Table(n) /\ HASH_MAKE_TABLE(t1).num_items = 0
      /\ HASH_MAKE_TABLE(t1).buckets = NoBuckets(n) /\ HASH_MAKE_TABLE(t1).hashv = t1.hashv
      /\ HASH_MAKE_TABLE(t1).head = t1.head /\ HASH_MAKE_TABLE(t1).tail = t1.head
      /\ HASH_MAKE_TABLE(t1).next = t1.next /\ HASH_MAKE_TABLE(t1).prev = t1.prev
  BY <1>2, <1>3 DEF HASH_MAKE_TABLE, Table
<1> QED
  BY <1>1, <1>2, <1>4

LEMMA SingleList ==
  ASSUME NEW s \in Seq(Elem), Len(s) = 0, NEW e \in Elem, NEW nx, NEW pv, nx[e] = Nil, pv[e] = Nil
  PROVE  IsList(nx, pv, e, Put(s, e)) /\ Members(s) = {}
<1> DEFINE r == Put(s, e)
<1>1. r \in Seq(Elem) /\ Len(r) = 1 /\ r[1] = e
  <2>1. /\ r \in Seq(Elem) /\ Len(r) = Len(s) + 1
        /\ \A i \in 1 .. Len(s) + 1 : r[i] = IF i = Len(s) + 1 THEN e ELSE s[i]
    BY PutSeq
  <2> HIDE DEF r
  <2>2. 1 \in 1 .. Len(s) + 1 /\ Len(s) + 1 = 1
    OBVIOUS
  <2> QED
    BY <2>1, <2>2
<1> HIDE DEF r
<1>2. Injective(r)
  BY <1>1 DEF Injective
<1>3. IsList(nx, pv, e, r)
  BY <1>1, <1>2 DEF IsList
<1>4. Members(s) = {}
  BY DEF Members
<1> QED
  BY <1>3, <1>4 DEF r

\* A later one goes behind the tail.
LEMMA NextAppended ==
  ASSUME NEW t, NEW s, NEW n, Sound(t, n, s), NEW e \in Elem, e \notin Members(s)
  PROVE  LET a == Append_(t, e)
         IN  /\ a \in Table(n) /\ a.num_items = Len(s) /\ a.hashv = t.hashv
             /\ a.buckets = t.buckets /\ a.hh_next = t.hh_next /\ a.hh_prev = t.hh_prev
             /\ a.tail = e /\ IsList(a.next, a.prev, a.head, Put(s, e))
<1> DEFINE last == s[Len(s)]
           nx2 == [[t.next EXCEPT ![e] = Nil] EXCEPT ![last] = e]
           pv2 == [t.prev EXCEPT ![e] = last]
           a == Append_(t, e)
<1>1. t \in Table(n) /\ IsList(t.next, t.prev, t.head, s) /\ Len(s) # 0 /\ t.tail = last /\ t.num_items = Len(s)
  BY DEF Sound, Hashed
<1>2. t.next \in Links /\ t.prev \in Links
  BY <1>1 DEF Table
<1>3. s \in Seq(Elem) /\ t.head = s[1]
  BY <1>1 DEF IsList
<1>4. t.head # Nil
  <2>1. s[1] \in Elem
    BY <1>1, <1>3
  <2> QED
    BY <2>1, <1>3, NilApart
<1>5. nx2 \in Links /\ pv2 \in Links /\ IsList(nx2, pv2, t.head, Put(s, e))
  <2> DEFINE nx == t.next
             pv == t.prev
             h == t.head
  <2>1. nx \in Links /\ pv \in Links /\ IsList(nx, pv, h, s) /\ Len(s) # 0 /\ e \in Elem
    BY <1>1, <1>2
  <2>2. \A i \in 1 .. Len(s) : s[i] # e
    BY DEF Members
  <2>3. nx2 = [[nx EXCEPT ![e] = Nil] EXCEPT ![s[Len(s)]] = e] /\ pv2 = [pv EXCEPT ![e] = s[Len(s)]]
    OBVIOUS
  <2> HIDE DEF nx, pv, h, nx2, pv2
  <2>4. nx2 \in Links /\ pv2 \in Links /\ IsList(nx2, pv2, h, Put(s, e))
    BY ONLY <2>1, <2>2, <2>3, ListPut
  <2> QED
    BY <2>4 DEF h
<1>6. a = [t EXCEPT !.next = nx2, !.prev = pv2, !.tail = e]
  <2>1. a = [t EXCEPT !.next = [[t.next EXCEPT ![e] = Nil] EXCEPT ![t.tail] = e], !.prev[e] = t.tail, !.tail = e]
    BY <1>4 DEF Append_
  <2> QED
    BY <2>1, <1>1 DEF Table
<1> HIDE DEF nx2, pv2, a
<1>7. e \in Ptr
  BY DEF Ptr
<1>8. /\ a \in Table(n) /\ a.num_items = t.num_items /\ a.hashv = t.hashv
      /\ a.buckets = t.buckets /\ a.hh_next = t.hh_next /\ a.hh_prev = t.hh_prev
      /\ a.tail = e /\ a.next = nx2 /\ a.prev = pv2 /\ a.head = t.head
  BY <1>1, <1>5, <1>6, <1>7 DEF Table
<1> QED
  BY <1>1, <1>5, <1>8 DEF a

\* HASH_ADD_KEYPTR puts the element behind the others, and in its bucket.
LEMMA Added ==
  ASSUME NEW t, NEW s, IsTable(t, s), NEW e \in Elem, e \notin Members(s), NEW hv \in Nat
  PROVE  /\ IsTable(HASH_ADD_KEYPTR(t, e, hv), Put(s, e))
         /\ HASH_ADD_KEYPTR(t, e, hv).hashv[e] = hv
         /\ \A x \in Elem : x # e => HASH_ADD_KEYPTR(t, e, hv).hashv[x] = t.hashv[x]
<1> DEFINE a == Append_(t, e)
           v == Counted(a, e, hv)
           u == HASH_ADD_KEYPTR(t, e, hv)
<1>1. s \in Seq(Elem) /\ Len(s) \in Nat
  BY DEF IsTable
<1>2. u = HASH_ADD_TO_BKT(v, HASH_TO_BKT(hv, a.num_buckets), e)
  BY DEF HASH_ADD_KEYPTR, Counted
<1> HIDE DEF v, u, a
<1>3. ASSUME NEW n \in Positive, a \in Table(n), Hashed(v, n, Members(s)), IsList(v.next, v.prev, v.head, Put(s, e)),
             v.tail = e, v.num_items = Len(s) + 1, t.hashv \in Hashvs, v.hashv = [t.hashv EXCEPT ![e] = hv]
      PROVE  IsTable(u, Put(s, e)) /\ u.hashv[e] = hv /\ \A x \in Elem : x # e => u.hashv[x] = t.hashv[x]
  <2>1. a.num_buckets = n
    BY <1>3 DEF Table
  <2>2. v.hashv[e] = hv /\ \A x \in Elem : x # e => v.hashv[x] = t.hashv[x]
    BY <1>3 DEF Hashvs
  <2>3. u = HASH_ADD_TO_BKT(v, Slot(v.hashv, e, n), e)
    BY <2>1, <2>2, <1>2 DEF Slot
  <2>4. /\ IsTable(HASH_ADD_TO_BKT(v, Slot(v.hashv, e, n), e), Put(s, e))
        /\ HASH_ADD_TO_BKT(v, Slot(v.hashv, e, n), e).hashv = v.hashv
    <3>1. e \in Elem /\ e \notin Members(s)
      OBVIOUS
    <3> QED
      BY ONLY <3>1, <1>1, <1>3, Completed
  <2> QED
    BY <2>2, <2>3, <2>4
<1>4. CASE Len(s) = 0
  <2> DEFINE n == HASH_INITIAL_NUM_BUCKETS
  <2>1. t = Empty
    BY <1>4 DEF IsTable
  <2>2. /\ a \in Table(n) /\ a.num_items = 0 /\ a.buckets = NoBuckets(n) /\ a.hashv = t.hashv
        /\ a.head = e /\ a.tail = e /\ a.next[e] = Nil /\ a.prev[e] = Nil
    BY <2>1, FirstAppended DEF a
  <2>3. n \in Positive
    BY InitialBuckets
  <2> HIDE DEF n
  <2>4. /\ v \in Table(n) /\ v.num_items = a.num_items + 1 /\ v.hashv = [a.hashv EXCEPT ![e] = hv]
        /\ v.head = a.head /\ v.tail = a.tail /\ v.next = a.next /\ v.prev = a.prev
        /\ v.buckets = a.buckets /\ v.hh_next = a.hh_next /\ v.hh_prev = a.hh_prev
    <3>1. a \in Table(n) /\ e \in Elem /\ hv \in Nat
      BY <2>2
    <3> QED
      BY ONLY <3>1, CountedIs DEF v
  <2>5. IsList(v.next, v.prev, v.head, Put(s, e)) /\ Members(s) = {}
    <3> DEFINE nx == v.next
               pv == v.prev
    <3>1. nx[e] = Nil /\ pv[e] = Nil /\ e \in Elem /\ v.head = e
      BY <2>2, <2>4
    <3> HIDE DEF nx, pv
    <3>2. IsList(nx, pv, e, Put(s, e)) /\ Members(s) = {}
      BY ONLY <3>1, <1>1, <1>4, SingleList
    <3> QED
      BY <3>1, <3>2 DEF nx, pv
  <2>6. Hashed(v, n, Members(s))
    <3>1. Chains(n, NoBuckets(n), v.hh_next, v.hh_prev, v.hashv, [b \in 0 .. n - 1 |-> <<>>], {})
      BY <2>3, NoChains DEF Positive
    <3>2. v.buckets = NoBuckets(n)
      BY <2>2, <2>4
    <3> QED
      BY <3>1, <3>2, <2>4, <2>5 DEF Hashed
  <2>7. v.tail = e /\ v.num_items = Len(s) + 1 /\ v.hashv = [t.hashv EXCEPT ![e] = hv] /\ t.hashv \in Hashvs
    BY <2>1, <2>2, <2>4, <1>4, EmptyHandles
  <2> QED
    BY <2>2, <2>3, <2>5, <2>6, <2>7, <1>3 DEF u
<1>5. CASE Len(s) # 0
  <2>1. PICK n : Sound(t, n, s)
    BY <1>5 DEF IsTable
  <2>2. /\ a \in Table(n) /\ a.num_items = Len(s) /\ a.hashv = t.hashv
        /\ a.buckets = t.buckets /\ a.hh_next = t.hh_next /\ a.hh_prev = t.hh_prev
        /\ a.tail = e /\ IsList(a.next, a.prev, a.head, Put(s, e))
    <3>1. e \in Elem /\ e \notin Members(s)
      OBVIOUS
    <3> QED
      BY ONLY <2>1, <3>1, NextAppended DEF a
  <2>3. n \in Positive /\ Hashed(t, n, Members(s))
    BY <2>1 DEF Sound
  <2>4. /\ v \in Table(n) /\ v.num_items = a.num_items + 1 /\ v.hashv = [a.hashv EXCEPT ![e] = hv]
        /\ v.head = a.head /\ v.tail = a.tail /\ v.next = a.next /\ v.prev = a.prev
        /\ v.buckets = a.buckets /\ v.hh_next = a.hh_next /\ v.hh_prev = a.hh_prev
    <3>1. a \in Table(n) /\ e \in Elem /\ hv \in Nat
      BY <2>2
    <3> QED
      BY ONLY <3>1, CountedIs DEF v
  <2>5. t.hashv \in Hashvs
    BY <2>3 DEF Hashed, Table
  <2>6. PICK ch : Chains(n, t.buckets, t.hh_next, t.hh_prev, t.hashv, ch, Members(s))
    BY <2>3 DEF Hashed
  <2>7. \A x \in Members(s) : v.hashv[x] = t.hashv[x] /\ v.hh_next[x] = t.hh_next[x] /\ v.hh_prev[x] = t.hh_prev[x]
    <3>1. \A x \in Members(s) : x \in Elem /\ x # e
      BY <2>6 DEF Chains
    <3>2. \A x \in Elem : x # e => [t.hashv EXCEPT ![e] = hv][x] = t.hashv[x]
      BY <2>5 DEF Hashvs
    <3> QED
      BY <3>1, <3>2, <2>2, <2>4
  <2>8. Hashed(v, n, Members(s))
    <3>1. Chains(n, t.buckets, v.hh_next, v.hh_prev, v.hashv, ch, Members(s))
      BY ONLY <2>6, <2>7, ChainsKept
    <3> QED
      BY <3>1, <2>2, <2>4 DEF Hashed
  <2>9. IsList(v.next, v.prev, v.head, Put(s, e)) /\ v.tail = e /\ v.num_items = Len(s) + 1 /\ v.hashv = [t.hashv EXCEPT ![e] = hv]
    BY <2>2, <2>4
  <2> QED
    BY <2>2, <2>3, <2>5, <2>8, <2>9, <1>3 DEF u
<1> QED
  BY <1>4, <1>5

LEMMA MembersCut ==
  ASSUME NEW s \in Seq(Elem), Injective(s), NEW p \in 1 .. Len(s)
  PROVE  Members(Cut(s, p)) = Members(s) \ {s[p]}
<1> DEFINE n == Len(s)
           r == Cut(s, p)
<1>1. n \in Nat /\ p \in Nat /\ p <= n
  OBVIOUS
<1>2. Len(r) = n - 1 /\ \A i \in 1 .. n - 1 : r[i] = IF i < p THEN s[i] ELSE s[i + 1]
  BY CutSeq
<1> HIDE DEF r
<1>3. ASSUME NEW i \in 1 .. n - 1 PROVE r[i] \in Members(s) \ {s[p]}
  <2> DEFINE j == IF i < p THEN i ELSE i + 1
  <2>1. j \in 1 .. n /\ j # p
    BY <1>1
  <2>2. r[i] = s[j]
    BY <1>2
  <2> HIDE DEF j
  <2>3. s[j] # s[p]
    BY <2>1 DEF Injective
  <2> QED
    BY <2>1, <2>2, <2>3 DEF Members
<1>4. ASSUME NEW i \in 1 .. n, s[i] # s[p] PROVE s[i] \in Members(r)
  <2> DEFINE j == IF i < p THEN i ELSE i - 1
  <2>1. i # p
    BY <1>4
  <2>2. j \in 1 .. n - 1 /\ (IF j < p THEN j ELSE j + 1) = i
    BY <2>1, <1>1
  <2> HIDE DEF j
  <2>3. j \in 1 .. Len(r) /\ r[j] = s[i]
    BY <2>2, <1>2
  <2> QED
    BY <2>3 DEF Members
<1>5. Members(r) \subseteq Members(s) \ {s[p]}
  <2> SUFFICES ASSUME NEW i \in 1 .. Len(r) PROVE r[i] \in Members(s) \ {s[p]}
    BY DEF Members
  <2> QED
    BY <1>2, <1>3
<1>6. Members(s) \ {s[p]} \subseteq Members(r)
  <2> SUFFICES ASSUME NEW i \in 1 .. n, s[i] # s[p] PROVE s[i] \in Members(r)
    BY DEF Members
  <2> QED
    BY <1>4
<1> QED
  BY <1>5, <1>6 DEF r

LEMMA BucketCut ==
  ASSUME NEW bk \in Bucket, NEW e, NEW after
  PROVE  /\ WithoutItem(bk, e, after).hh_head = IF bk.hh_head = e THEN after ELSE bk.hh_head
         /\ WithoutItem(bk, e, after).count = bk.count - 1
         /\ WithoutItem(bk, e, after).hh_head \in Ptr /\ WithoutItem(bk, e, after).count \in Nat
              => WithoutItem(bk, e, after) \in Bucket
BY DEF WithoutItem, Bucket

\* The list without e
LEMMA Unlinked ==
  ASSUME NEW t, NEW n, NEW s, Sound(t, n, s), NEW p \in 1 .. Len(s), NEW e, e = s[p], Len(s) # 1
  PROVE  LET v == Unlink(t, e)
         IN  /\ ~(t.prev[e] = Nil /\ t.next[e] = Nil)
             /\ v \in Table(n) /\ v.num_items = Len(s) - 1 /\ v.hashv = t.hashv
             /\ v.buckets = t.buckets /\ v.hh_next = t.hh_next /\ v.hh_prev = t.hh_prev
             /\ v.tail = Cut(s, p)[Len(s) - 1] /\ IsList(v.next, v.prev, v.head, Cut(s, p))
<1> DEFINE v == Unlink(t, e)
           nx2 == CutNext(t.next, t.prev, e)
           pv2 == CutPrev(t.next, t.prev, e)
           h2 == CutHead(t.next, t.head, e)
           tl == TailWithout(t, e)
           m == Len(s)
<1>1. t \in Table(n) /\ IsList(t.next, t.prev, t.head, s) /\ t.tail = s[m] /\ t.num_items = m
  BY DEF Sound, Hashed
<1>2. t.next \in Links /\ t.prev \in Links /\ t.tail \in Ptr
  BY <1>1 DEF Table
<1>3. s \in Seq(Elem) /\ Injective(s)
  BY <1>1 DEF IsList
<1>4. m \in Nat /\ m - 1 \in 1 .. m - 1 /\ m \in 1 .. m /\ \A i \in 1 .. m : s[i] \in Elem
  <2>1. m \in Nat /\ \A i \in 1 .. m : s[i] \in Elem
    BY <1>3
  <2>2. p \in 1 .. m /\ m # 1
    OBVIOUS
  <2> HIDE DEF m
  <2>3. m - 1 \in 1 .. m - 1 /\ m \in 1 .. m
    BY <2>1, <2>2
  <2> QED
    BY <2>1, <2>3
<1>5. /\ nx2 \in Links /\ pv2 \in Links /\ h2 \in Ptr
      /\ t.head = e <=> t.prev[e] = Nil
      /\ t.next[e] = Nil <=> p = m
      /\ IsList(nx2, pv2, h2, Cut(s, p))
  <2> DEFINE nx == t.next
             pv == t.prev
             h == t.head
  <2>1. nx \in Links /\ pv \in Links /\ IsList(nx, pv, h, s) /\ p \in 1 .. Len(s) /\ e = s[p]
    BY <1>1, <1>2
  <2> HIDE DEF nx, pv, h
  <2>2. /\ CutNext(nx, pv, e) \in Links /\ CutPrev(nx, pv, e) \in Links /\ CutHead(nx, h, e) \in Ptr
        /\ h = e <=> pv[e] = Nil
        /\ nx[e] = Nil <=> p = Len(s)
        /\ IsList(CutNext(nx, pv, e), CutPrev(nx, pv, e), CutHead(nx, h, e), Cut(s, p))
    BY ONLY <2>1, ListCut
  <2> QED
    BY <2>2 DEF nx, pv, h
<1>6. t.prev[e] = IF p = 1 THEN Nil ELSE s[p - 1]
  BY <1>1 DEF IsList
<1>7. ~(t.prev[e] = Nil /\ t.next[e] = Nil)
  <2> SUFFICES ASSUME p = m PROVE t.prev[e] # Nil
    BY <1>5
  <2>1. p # 1 /\ p - 1 \in 1 .. m
    BY <1>4
  <2> QED
    BY <2>1, <1>4, <1>6, NilApart
<1>8. \A i \in 1 .. m - 1 : Cut(s, p)[i] = IF i < p THEN s[i] ELSE s[i + 1]
  BY <1>3, CutSeq
<1>9. tl = Cut(s, p)[m - 1] /\ tl \in Ptr
  <2>1. tl = IF s[m] = e THEN t.prev[e] ELSE s[m]
    BY <1>1 DEF TailWithout
  <2>2. s[m] = e <=> p = m
    BY <1>3, <1>4 DEF Injective
  <2>3. CASE p = m
    <3>1. m - 1 < p /\ p # 1 /\ p - 1 \in 1 .. m
      BY <2>3, <1>4
    <3> QED
      BY <3>1, <2>1, <2>2, <2>3, <1>4, <1>6, <1>8 DEF Ptr
  <2>4. CASE p # m
    <3>1. ~(m - 1 < p) /\ (m - 1) + 1 = m
      BY <2>4, <1>4
    <3> QED
      BY <3>1, <2>1, <2>2, <2>4, <1>4, <1>8 DEF Ptr
  <2> QED
    BY <2>3, <2>4
<1>10. v = [t EXCEPT !.tail = tl, !.next = nx2, !.head = h2, !.prev = pv2, !.num_items = t.num_items - 1]
  <2>1. (IF t.prev[e] = Nil THEN t.next[e] ELSE t.head) = h2
    BY <1>5 DEF CutHead
  <2> QED
    BY <2>1 DEF Unlink, CutNext, CutPrev
<1>11. t.num_items - 1 \in Nat /\ t.num_items - 1 = m - 1
  BY <1>1, <1>4
<1> HIDE DEF v, nx2, pv2, h2, tl
<1>12. /\ v \in Table(n) /\ v.num_items = t.num_items - 1 /\ v.hashv = t.hashv
       /\ v.buckets = t.buckets /\ v.hh_next = t.hh_next /\ v.hh_prev = t.hh_prev
       /\ v.tail = tl /\ v.next = nx2 /\ v.prev = pv2 /\ v.head = h2
  BY <1>1, <1>5, <1>9, <1>10, <1>11 DEF Table
<1>13. IsList(v.next, v.prev, v.head, Cut(s, p))
  BY <1>5, <1>12
<1> QED
  BY <1>7, <1>9, <1>11, <1>12, <1>13 DEF v

\* The bucket without e
LEMMA DeletedInBkt ==
  ASSUME NEW n \in Positive, NEW v, NEW M, Hashed(v, n, M), NEW e \in M, NEW b, b = Slot(v.hashv, e, n)
  PROVE  /\ Hashed(HASH_DEL_IN_BKT(v, b, e), n, M \ {e})
         /\ SameList(v, HASH_DEL_IN_BKT(v, b, e))
<1> DEFINE bk == v.buckets
           nx == v.hh_next
           pv == v.hh_prev
           hv == v.hashv
           new == WithoutItem(bk[b], e, nx[e])
           bk2 == [bk EXCEPT ![b] = new]
           nx2 == CutNext(nx, pv, e)
           pv2 == CutPrev(nx, pv, e)
           w == HASH_DEL_IN_BKT(v, b, e)
<1>1. v \in Table(n) /\ n \in Nat \ {0}
  BY DEF Hashed, Positive
<1>2. bk \in Buckets(n) /\ nx \in Links /\ pv \in Links /\ hv \in [Elem -> Nat]
  BY <1>1 DEF Table, Hashvs
<1>3. PICK ch : Chains(n, bk, nx, pv, hv, ch, M)
  BY DEF Hashed
<1>4. e \in Elem
  BY <1>3 DEF Chains
<1>5. b \in 0 .. n - 1 /\ b = Slot(hv, e, n)
  BY <1>1, <1>2, <1>4, SlotOK
<1>6. bk[b] \in Bucket
  BY <1>2, <1>5 DEF Buckets
<1>7. w = [v EXCEPT !.buckets[b] = new, !.hh_next = nx2, !.hh_prev = pv2]
  BY DEF HASH_DEL_IN_BKT, CutNext, CutPrev
<1> HIDE DEF bk, nx, pv, hv, w
<1>8. new.hh_head = CutHead(nx, bk[b].hh_head, e) /\ new.count = bk[b].count - 1
  <2> DEFINE old == bk[b]
             after == nx[e]
  <2>1. old \in Bucket
    BY <1>6
  <2> HIDE DEF old, after
  <2>2. /\ WithoutItem(old, e, after).hh_head = IF old.hh_head = e THEN after ELSE old.hh_head
        /\ WithoutItem(old, e, after).count = old.count - 1
    BY ONLY <2>1, BucketCut
  <2> QED
    BY <2>2 DEF old, after, CutHead
<1>9. bk2[b] = new /\ \A c \in 0 .. n - 1 : c # b => bk2[c] = bk[c]
  <2> HIDE DEF new
  <2> QED
    BY <1>2, <1>5 DEF Buckets
<1> HIDE DEF nx2, pv2
<1>10. /\ nx2 \in Links /\ pv2 \in Links /\ bk2[b].hh_head \in Ptr /\ bk2[b].count \in Nat
       /\ \E ch2 : Chains(n, bk2, nx2, pv2, hv, ch2, M \ {e})
  <2> HIDE DEF bk2, new
  <2>1. bk2[b].hh_head = CutHead(nx, bk[b].hh_head, e) /\ bk2[b].count = bk[b].count - 1
    BY <1>8, <1>9
  <2>2. nx2 = CutNext(nx, pv, e) /\ pv2 = CutPrev(nx, pv, e) /\ e \in M
    BY DEF nx2, pv2
  <2>3. \A c \in 0 .. n - 1 : c # b => bk2[c] = bk[c]
    BY <1>9
  <2>4. n \in Nat \ {0} /\ b = Slot(hv, e, n)
    BY <1>1, <1>5
  <2>5. ChainsOf(n, b, bk2, nx2, pv2, hv, M \ {e})
    BY ONLY <2>1, <2>2, <2>3, <2>4, <1>2, <1>3, CutChain
  <2> QED
    BY <2>5 DEF ChainsOf
<1>11. new \in Bucket
  <2> DEFINE old == bk[b]
             after == nx[e]
  <2>1. new.hh_head \in Ptr /\ new.count \in Nat
    BY <1>9, <1>10
  <2>2. old \in Bucket /\ new = WithoutItem(old, e, after)
    BY <1>6
  <2> HIDE DEF old, after, new
  <2>3. WithoutItem(old, e, after).hh_head \in Ptr /\ WithoutItem(old, e, after).count \in Nat
    BY <2>1, <2>2
  <2>4. WithoutItem(old, e, after) \in Bucket
    BY ONLY <2>2, <2>3, BucketCut
  <2> QED
    BY <2>2, <2>4
<1> HIDE DEF new
<1>12. bk2 \in Buckets(n)
  BY <1>2, <1>11 DEF Buckets
<1>13. /\ w \in Table(n) /\ SameList(v, w)
       /\ w.buckets = bk2 /\ w.hh_next = nx2 /\ w.hh_prev = pv2
  BY <1>1, <1>7, <1>10, <1>12 DEF Table, SameList, bk
<1>14. w.hashv = hv
  BY <1>13 DEF SameList, hv
<1>15. Hashed(w, n, M \ {e})
  BY <1>10, <1>13, <1>14 DEF Hashed
<1> QED
  BY <1>13, <1>15 DEF w

\* The handle of an element that is in neither list
LEMMA Forgotten ==
  ASSUME NEW n \in Positive, NEW w, NEW M, Hashed(w, n, M), NEW e \in Elem, e \notin M,
         NEW s, IsList(w.next, w.prev, w.head, s), Members(s) = M
  PROVE  LET x == Forget(w, e)
         IN  /\ Hashed(x, n, M) /\ IsList(x.next, x.prev, x.head, s)
             /\ x.tail = w.tail /\ x.num_items = w.num_items
             /\ \A y \in M : x.hashv[y] = w.hashv[y]
<1> DEFINE x == Forget(w, e)
<1>1. w \in Table(n)
  BY DEF Hashed
<1>2. w.prev \in Links /\ w.next \in Links /\ w.hh_prev \in Links /\ w.hh_next \in Links /\ w.hashv \in Hashvs
  BY <1>1 DEF Table
<1> DEFINE A(link) == [link EXCEPT ![e] = Nil]
           hv == [w.hashv EXCEPT ![e] = 0]
<1>3. \A link \in Links : A(link) \in Links /\ \A y \in Elem : y # e => A(link)[y] = link[y]
  BY DEF Links, Ptr
<1>4. hv \in Hashvs /\ \A y \in Elem : y # e => hv[y] = w.hashv[y]
  BY <1>2 DEF Hashvs
<1>5. x = [w EXCEPT !.prev = A(w.prev), !.next = A(w.next), !.hh_prev = A(w.hh_prev), !.hh_next = A(w.hh_next), !.hashv = hv]
  BY <1>1 DEF Forget, Table
<1> HIDE DEF x, A, hv
<1>6. /\ x \in Table(n) /\ x.prev = A(w.prev) /\ x.next = A(w.next) /\ x.hh_prev = A(w.hh_prev)
      /\ x.hh_next = A(w.hh_next) /\ x.hashv = hv /\ x.head = w.head /\ x.tail = w.tail
      /\ x.num_items = w.num_items /\ x.buckets = w.buckets
  BY <1>1, <1>2, <1>3, <1>4, <1>5 DEF Table
<1>7. PICK ch : Chains(n, w.buckets, w.hh_next, w.hh_prev, w.hashv, ch, M)
  BY DEF Hashed
<1>8. \A y \in M : y \in Elem /\ y # e
  BY <1>7 DEF Chains
<1>9. \A y \in M : x.hh_next[y] = w.hh_next[y] /\ x.hh_prev[y] = w.hh_prev[y] /\ x.hashv[y] = w.hashv[y]
  BY <1>2, <1>3, <1>4, <1>6, <1>8
<1>10. Chains(n, w.buckets, x.hh_next, x.hh_prev, x.hashv, ch, M)
  BY ONLY <1>7, <1>9, ChainsKept
<1>11. Hashed(x, n, M)
  BY <1>6, <1>10 DEF Hashed
<1>12. \A i \in 1 .. Len(s) : x.next[s[i]] = w.next[s[i]] /\ x.prev[s[i]] = w.prev[s[i]]
  <2>1. \A i \in 1 .. Len(s) : s[i] \in M
    BY DEF Members
  <2> QED
    BY <2>1, <1>2, <1>3, <1>6, <1>8
<1>13. IsList(x.next, x.prev, x.head, s)
  <2>1. IsList(w.next, w.prev, w.head, s)
    OBVIOUS
  <2>2. IsList(x.next, x.prev, w.head, s)
    BY ONLY <2>1, <1>12, ListKept
  <2> QED
    BY <2>2, <1>6
<1> QED
  BY <1>6, <1>9, <1>11, <1>13 DEF x

\* HASH_DELETE takes the element out of both lists, and frees the table with the last one.
LEMMA Deleted ==
  ASSUME NEW t, NEW s, IsTable(t, s), NEW p \in 1 .. Len(s), NEW e, e = s[p]
  PROVE  /\ IsTable(HASH_DELETE(t, e), Cut(s, p))
         /\ \A y \in Members(s) \ {e} : HASH_DELETE(t, e).hashv[y] = t.hashv[y]
<1> DEFINE r == Cut(s, p)
           M == Members(s)
           b == HASH_TO_BKT(t.hashv[e], t.num_buckets)
           v == Unlink(t, e)
           w == HASH_DEL_IN_BKT(v, b, e)
           x == Forget(w, e)
<1>1. s \in Seq(Elem) /\ Len(s) \in Nat /\ Len(s) # 0
  BY DEF IsTable
<1>2. PICK n : Sound(t, n, s)
  BY <1>1 DEF IsTable
<1>3. n \in Positive /\ Hashed(t, n, M) /\ IsList(t.next, t.prev, t.head, s)
  BY <1>2 DEF Sound
<1>4. Injective(s)
  BY <1>3 DEF IsList
<1>5. r \in Seq(Elem) /\ Len(r) = Len(s) - 1
  BY <1>1, CutSeq
<1>6. e \in Elem /\ e \in M
  BY <1>1 DEF Members
<1>7. Members(r) = M \ {e}
  BY <1>1, <1>4, MembersCut
<1> HIDE DEF r
<1>8. CASE Len(s) = 1
  <2>1. p = 1 /\ t.prev[e] = Nil /\ t.next[e] = Nil
    BY <1>3, <1>8 DEF IsList
  <2>2. HASH_DELETE(t, e) = Empty /\ Len(r) = 0
    BY <2>1, <1>5, <1>8 DEF HASH_DELETE
  <2>3. M \ {e} = {}
    <3>1. \A i \in 1 .. Len(r) : FALSE
      BY <2>2
    <3> QED
      BY <3>1, <1>7 DEF Members
  <2>4. IsTable(Empty, r)
    BY <2>2, <1>5 DEF IsTable
  <2> QED
    BY <2>2, <2>3, <2>4 DEF r
<1>9. CASE Len(s) # 1
  <2>1. /\ ~(t.prev[e] = Nil /\ t.next[e] = Nil)
        /\ v \in Table(n) /\ v.num_items = Len(s) - 1 /\ v.hashv = t.hashv
        /\ v.buckets = t.buckets /\ v.hh_next = t.hh_next /\ v.hh_prev = t.hh_prev
        /\ v.tail = r[Len(s) - 1] /\ IsList(v.next, v.prev, v.head, r)
    <3>1. p \in 1 .. Len(s) /\ e = s[p]
      OBVIOUS
    <3> QED
      BY ONLY <3>1, <1>2, <1>9, Unlinked DEF r
  <2>2. HASH_DELETE(t, e) = x
    BY <2>1 DEF HASH_DELETE
  <2> HIDE DEF v, x
  <2>3. Hashed(v, n, M)
    BY <2>1, <1>3 DEF Hashed
  <2>4. b = Slot(v.hashv, e, n)
    <3>1. t.num_buckets = n
      BY <1>3 DEF Hashed, Table
    <3> QED
      BY <3>1, <2>1 DEF Slot
  <2> HIDE DEF b
  <2>5. Hashed(w, n, M \ {e}) /\ SameList(v, w)
    BY ONLY <2>3, <2>4, <1>3, <1>6, DeletedInBkt DEF w
  <2> HIDE DEF w
  <2>6. w.next = v.next /\ w.prev = v.prev /\ w.head = v.head /\ w.tail = v.tail /\ w.num_items = v.num_items /\ w.hashv = v.hashv
    BY <2>5 DEF SameList
  <2>7. /\ Hashed(x, n, M \ {e}) /\ IsList(x.next, x.prev, x.head, r)
        /\ x.tail = w.tail /\ x.num_items = w.num_items
        /\ \A y \in M \ {e} : x.hashv[y] = w.hashv[y]
    <3> DEFINE N == M \ {e}
    <3>1. IsList(w.next, w.prev, w.head, r)
      BY <2>1, <2>6
    <3>2. e \in Elem /\ e \notin N /\ Hashed(w, n, N) /\ Members(r) = N /\ n \in Positive
      BY <2>5, <1>3, <1>6, <1>7
    <3>3. x = Forget(w, e)
      BY DEF x
    <3> HIDE DEF N
    <3>4. Hashed(x, n, N) /\ IsList(x.next, x.prev, x.head, r)
      BY ONLY <3>1, <3>2, <3>3, Forgotten
    <3>5. /\ x.tail = w.tail /\ x.num_items = w.num_items
          /\ \A y \in N : x.hashv[y] = w.hashv[y]
      BY ONLY <3>1, <3>2, <3>3, Forgotten
    <3> QED
      BY <3>4, <3>5 DEF N
  <2>8. Len(r) # 0 /\ x.tail = r[Len(r)] /\ x.num_items = Len(r)
    BY <2>1, <2>6, <2>7, <1>1, <1>5, <1>9
  <2>9. Sound(x, n, r)
    BY <2>7, <2>8, <1>3, <1>7 DEF Sound
  <2>10. IsTable(x, r)
    BY <2>8, <2>9, <1>5 DEF IsTable
  <2> QED
    BY <2>1, <2>2, <2>6, <2>7, <2>10 DEF r
<1> QED
  BY <1>8, <1>9

-----------------------------------------------------------------------------
(* What a caller sees.                                                     *)

Apart(M) == \A x, y \in M : KeyOf(x) = KeyOf(y) => x = y

\* HASH_FIND finds the element that has the key, if there is one.
LEMMA FindIs ==
  ASSUME NEW t, NEW s, IsTable(t, s), Apart(Members(s)), NEW k, NEW hf, hf[k] \in Nat,
         \A x \in Members(s) : t.hashv[x] = hf[KeyOf(x)]
  PROVE  /\ \A e \in Members(s) : KeyOf(e) = k => HASH_FIND(t, k, hf[k]) = e
         /\ (\A e \in Members(s) : KeyOf(e) # k) => HASH_FIND(t, k, hf[k]) = Nil
<1>1. s \in Seq(Elem)
  BY DEF IsTable
<1>2. CASE Len(s) = 0
  <2>1. HASH_FIND(t, k, hf[k]) = Nil
    BY <1>2, HeadIs DEF HASH_FIND
  <2>2. Members(s) = {}
    BY <1>2 DEF Members
  <2> QED
    BY <2>1, <2>2
<1>3. CASE Len(s) # 0
  <2>1. t.head # Nil
    BY <1>3, HeadIs
  <2>2. PICK n : Sound(t, n, s)
    BY <1>3 DEF IsTable
  <2>3. n \in Positive /\ Hashed(t, n, Members(s))
    BY <2>2 DEF Sound
  <2>4. t.num_buckets = n /\ n \in Nat \ {0}
    BY <2>3 DEF Hashed, Table, Positive
  <2>5. PICK ch : Chains(n, t.buckets, t.hh_next, t.hh_prev, t.hashv, ch, Members(s))
    BY <2>3 DEF Hashed
  <2> DEFINE b == HASH_TO_BKT(hf[k], n)
             c == Walk(t.hh_next, t.buckets[b].hh_head)
             hits == {i \in DOMAIN c : KeyOf(c[i]) = k}
             least == CHOOSE i \in hits : \A j \in hits : i <= j
  <2>6. b \in 0 .. n - 1
    <3>1. hf[k] % n \in 0 .. n - 1
      BY <2>4
    <3> QED
      BY <3>1 DEF HASH_TO_BKT
  <2>7. HASH_FIND(t, k, hf[k]) = IF hits = {} THEN Nil ELSE c[least]
    BY <2>1, <2>4 DEF HASH_FIND
  <2> HIDE DEF b
  <2>8. /\ IsList(t.hh_next, t.hh_prev, t.buckets[b].hh_head, ch[b]) /\ ch[b] \in Seq(Elem)
        /\ \A i \in 1 .. Len(ch[b]) : ch[b][i] \in Members(s)
    BY <2>5, <2>6 DEF Chains
  <2>9. c = ch[b]
    BY ONLY <2>8, WalkIs
  <2> HIDE DEF c
  <2>10. DOMAIN c = 1 .. Len(c) /\ Len(c) \in Nat /\ \A i \in 1 .. Len(c) : c[i] \in Members(s)
    BY <2>8, <2>9
  <2>11. ASSUME \A e \in Members(s) : KeyOf(e) # k PROVE hits = {}
    BY <2>10, <2>11
  <2>12. ASSUME NEW e \in Members(s), KeyOf(e) = k PROVE hits # {} /\ c[least] = e
    <3>1. Slot(t.hashv, e, n) = b
      BY <2>12 DEF Slot, b
    <3>2. PICK i \in 1 .. Len(c) : c[i] = e
      BY <2>5, <2>9, <3>1 DEF Chains
    <3>3. hits \in SUBSET Nat /\ i \in hits
      BY <2>10, <2>12, <3>2
    <3>4. least \in hits
      <4> HIDE DEF hits
      <4>1. \E m \in hits : \A j \in hits : m <= j
        BY <3>3, LeastNumber
      <4> QED
        BY <4>1
    <3> HIDE DEF least
    <3>5. c[least] \in Members(s) /\ KeyOf(c[least]) = k
      BY <3>4, <2>10
    <3> DEFINE f == c[least]
    <3> HIDE DEF f
    <3>6. f \in Members(s) /\ KeyOf(f) = KeyOf(e)
      BY <3>5, <2>12 DEF f
    <3>7. f = e
      BY <3>6 DEF Apart
    <3> QED
      BY <3>3, <3>7 DEF f
  <2> HIDE DEF hits, least
  <2> QED
    BY <2>7, <2>11, <2>12
<1> QED
  BY <1>2, <1>3

LEMMA OrderIs ==
  ASSUME NEW t, NEW s, IsTable(t, s)
  PROVE  AppOrder(t) = s
<1>1. IsList(t.next, t.prev, t.head, s)
  <2>1. CASE Len(s) = 0
    <3>1. s \in Seq(Elem) /\ t.head = Nil
      BY <2>1, HeadIs DEF IsTable
    <3> QED
      BY <2>1, <3>1 DEF IsList, Injective
  <2>2. CASE Len(s) # 0
    BY <2>2 DEF IsTable, Sound
  <2> QED
    BY <2>1, <2>2
<1> QED
  BY ONLY <1>1, WalkIs DEF AppOrder

LEMMA BackIs ==
  ASSUME NEW nx, NEW pv, NEW h, NEW s, IsList(nx, pv, h, s)
  PROVE  BackLinked(s, pv)
<1>1. DOMAIN s = 1 .. Len(s)
  BY DEF IsList
<1> QED
  BY <1>1 DEF IsList, BackLinked

\* The table passes HASH_FSCK.
LEMMA FsckPasses ==
  ASSUME NEW t, NEW s, IsTable(t, s)
  PROVE  HASH_FSCK(t)
<1> SUFFICES ASSUME t.head # Nil PROVE HASH_FSCK(t)
  BY DEF HASH_FSCK
<1>1. s \in Seq(Elem) /\ Len(s) # 0
  BY HeadIs DEF IsTable
<1>2. PICK n : Sound(t, n, s)
  BY <1>1 DEF IsTable
<1>3. n \in Positive /\ Hashed(t, n, Members(s)) /\ t.num_items = Len(s) /\ IsList(t.next, t.prev, t.head, s)
  BY <1>2 DEF Sound
<1>4. t.num_buckets = n /\ n \in Nat \ {0} /\ t.hashv \in [Elem -> Nat]
  BY <1>3 DEF Hashed, Table, Positive, Hashvs
<1>5. PICK ch : Chains(n, t.buckets, t.hh_next, t.hh_prev, t.hashv, ch, Members(s))
  BY <1>3 DEF Hashed
<1>6. ASSUME NEW b \in 0 .. t.num_buckets - 1
      PROVE  LET c == Walk(t.hh_next, t.buckets[b].hh_head)
             IN  BackLinked(c, t.hh_prev) /\ t.buckets[b].count = Len(c)
  <2>1. IsList(t.hh_next, t.hh_prev, t.buckets[b].hh_head, ch[b]) /\ t.buckets[b].count = Len(ch[b])
    BY <1>4, <1>5 DEF Chains
  <2>2. Walk(t.hh_next, t.buckets[b].hh_head) = ch[b] /\ BackLinked(ch[b], t.hh_prev)
    BY ONLY <2>1, WalkIs, BackIs
  <2> QED
    BY <2>1, <2>2
<1>7. Len(Chained(t)) = t.num_items
  <2>1. Chained(t) \in Seq(Elem) /\ Injective(Chained(t)) /\ Members(Chained(t)) = Members(s)
    BY ONLY <1>4, <1>5, ChainedIs
  <2>2. Injective(s)
    BY <1>3 DEF IsList
  <2>3. Cardinality(Members(Chained(t))) = Len(Chained(t)) /\ Cardinality(Members(s)) = Len(s)
    BY <2>1, <2>2, <1>1, ListCounted
  <2> QED
    BY <2>1, <2>3, <1>3
<1>8. AppOrder(t) = s
  BY OrderIs
<1>9. BackLinked(s, t.prev)
  BY ONLY <1>3, BackIs
<1> QED
  BY <1>3, <1>6, <1>7, <1>8, <1>9 DEF HASH_FSCK

LEMMA CountIs ==
  ASSUME NEW t, NEW s, IsTable(t, s), Len(s) # 0
  PROVE  HASH_COUNT(t) = Len(s) /\ Oldest(t) = s[1] /\ Injective(s)
<1>1. t.head # Nil /\ t.head = s[1]
  BY HeadIs
<1>2. PICK n : Sound(t, n, s)
  BY DEF IsTable
<1>3. t.num_items = Len(s) /\ IsList(t.next, t.prev, t.head, s)
  BY <1>2 DEF Sound
<1> QED
  BY <1>1, <1>3 DEF HASH_COUNT, Oldest, IsList

LEMMA CutTail ==
  ASSUME NEW s \in Seq(Elem), Len(s) # 0
  PROVE  Cut(s, 1) = Tail(s) /\ 1 \in 1 .. Len(s)
<1>1. Len(s) \in Nat /\ 1 \in 1 .. Len(s)
  OBVIOUS
<1>2. /\ Cut(s, 1) \in Seq(Elem) /\ Len(Cut(s, 1)) = Len(s) - 1
      /\ \A i \in 1 .. Len(s) - 1 : Cut(s, 1)[i] = IF i < 1 THEN s[i] ELSE s[i + 1]
  BY <1>1, CutSeq
<1>3. Tail(s) \in Seq(Elem) /\ Len(Tail(s)) = Len(s) - 1 /\ \A i \in 1 .. Len(s) - 1 : Tail(s)[i] = s[i + 1]
  BY <1>1
<1>4. \A i \in 1 .. Len(s) - 1 : Cut(s, 1)[i] = Tail(s)[i]
  BY <1>1, <1>2, <1>3
<1>5. Cut(s, 1) = Tail(s)
  BY <1>2, <1>3, <1>4, SeqEqual
<1> QED
  BY <1>1, <1>5

-----------------------------------------------------------------------------
(* The cache.                                                              *)

\* The table is the one of the entries used, and every entry has its own key.
LruInv == /\ HashInit
          /\ IsTable(cache, recent) /\ Apart(Members(recent)) /\ allocated = Members(recent)
          /\ \A x \in Members(recent) : cache.hashv[x] = hash[KeyOf(x)]

LEMMA HashNat ==
  ASSUME HashInit, NEW e \in Elem
  PROVE  hash[KeyOf(e)] \in Nat
<1>1. Hashes \subseteq Nat
  BY SizesAssumption
<1>2. hash[KeyOf(e)] \in Hashes
  BY DEF HashInit
<1> QED
  BY <1>1, <1>2

LEMMA FindInCache ==
  ASSUME LruInv, NEW e \in Elem
  PROVE  /\ e \in Members(recent) => Find(KeyOf(e)) = e
         /\ Find(KeyOf(e)) = e => e \in Members(recent)
         /\ Find(KeyOf(e)) = Nil => \A f \in Members(recent) : KeyOf(f) # KeyOf(e)
<1>1. IsTable(cache, recent) /\ Apart(Members(recent)) /\ \A x \in Members(recent) : cache.hashv[x] = hash[KeyOf(x)]
  BY DEF LruInv
<1>2. hash[KeyOf(e)] \in Nat
  BY HashNat DEF LruInv
<1>3. /\ \A f \in Members(recent) : KeyOf(f) = KeyOf(e) => HASH_FIND(cache, KeyOf(e), hash[KeyOf(e)]) = f
      /\ (\A f \in Members(recent) : KeyOf(f) # KeyOf(e)) => HASH_FIND(cache, KeyOf(e), hash[KeyOf(e)]) = Nil
  BY ONLY <1>1, <1>2, FindIs
<1>4. Members(recent) \subseteq Elem
  BY <1>1 DEF IsTable, Members
<1> QED
  BY <1>3, <1>4, NilApart DEF Find

LEMMA LruInvHolds == LruInv => HoldsMostRecent
<1> SUFFICES ASSUME LruInv PROVE HoldsMostRecent
  OBVIOUS
<1>1. IsTable(cache, recent) /\ allocated = Members(recent)
  BY DEF LruInv
<1>2. InOrderOfUse
  BY <1>1, OrderIs DEF InOrderOfUse
<1>3. NoEntryLost
  BY <1>1, FindInCache DEF NoEntryLost
<1>4. HASH_FSCK(cache)
  BY <1>1, FsckPasses
<1> QED
  BY <1>2, <1>3, <1>4 DEF HoldsMostRecent

LEMMA LruInitial == LruInit => LruInv
<1> SUFFICES ASSUME LruInit PROVE LruInv
  OBVIOUS
<1>1. cache = Empty /\ recent = <<>> /\ allocated = {} /\ HashInit
  BY DEF LruInit, NoCache
<1>2. Members(recent) = {} /\ IsTable(cache, recent)
  BY <1>1 DEF Members, IsTable
<1> QED
  BY <1>1, <1>2 DEF LruInv, Apart

LEMMA FoundKept ==
  ASSUME LruInv, NEW e \in Elem, lru_find_in_cache(e)
  PROVE  LruInv'
<1> DEFINE d == HASH_DELETE(cache, e)
           u == HASH_ADD_KEYPTR(d, e, hash[KeyOf(e)])
           M == Members(recent)
           p == CHOOSE q \in DOMAIN recent : recent[q] = e
           r == Cut(recent, p)
<1>1. cache' = u /\ recent' = Append(LessRecent(e), e) /\ hash' = hash /\ allocated' = allocated
  BY DEF lru_find_in_cache, MoveToEnd
<1>2. IsTable(cache, recent) /\ Apart(M) /\ allocated = M /\ HashInit /\ \A x \in M : cache.hashv[x] = hash[KeyOf(x)]
  BY DEF LruInv
<1>3. e \in M
  BY FindInCache DEF lru_find_in_cache
<1>4. recent \in Seq(Elem) /\ DOMAIN recent = 1 .. Len(recent) /\ Len(recent) # 0 /\ M \subseteq Elem
  BY <1>2, <1>3 DEF IsTable, Members
<1>5. p \in 1 .. Len(recent) /\ recent[p] = e
  <2>1. \E q \in DOMAIN recent : recent[q] = e
    BY <1>3, <1>4 DEF Members
  <2> QED
    BY <2>1, <1>4
<1>6. LessRecent(e) = r
  <2>1. LessRecent(e) = SubSeq(recent, 1, p - 1) \o SubSeq(recent, p + 1, Len(recent))
    BY <1>4, <1>5 DEF LessRecent
  <2> HIDE DEF p
  <2> QED
    BY <2>1, <1>4, <1>5, CutSeq
<1> HIDE DEF p
<1>7. Injective(recent)
  BY <1>2, <1>4, CountIs
<1>8. Members(r) = M \ {e} /\ r \in Seq(Elem)
  BY <1>4, <1>5, <1>7, MembersCut, CutSeq
<1>9. IsTable(d, r) /\ \A y \in M \ {e} : d.hashv[y] = cache.hashv[y]
  BY ONLY <1>2, <1>5, Deleted
<1> HIDE DEF d, r
<1>10. hash[KeyOf(e)] \in Nat
  BY <1>2, HashNat
<1>11. IsTable(u, Put(r, e)) /\ u.hashv[e] = hash[KeyOf(e)] /\ \A x \in Elem : x # e => u.hashv[x] = d.hashv[x]
  <2>1. e \in Elem /\ e \notin Members(r)
    BY <1>8
  <2> QED
    BY ONLY <2>1, <1>9, <1>10, Added
<1> HIDE DEF u
<1>12. Put(r, e) = recent' /\ Members(Put(r, e)) = M
  <2>1. r \in Seq(Elem) /\ e \in Elem
    BY <1>8
  <2>2. Put(r, e) = Append(r, e)
    BY ONLY <2>1, PutSeq
  <2>3. Members(Put(r, e)) = Members(r) \cup {e}
    BY ONLY <2>1, MembersPut
  <2> QED
    BY <2>2, <2>3, <1>1, <1>3, <1>6, <1>8
<1>13. \A x \in M : u.hashv[x] = hash[KeyOf(x)]
  BY <1>2, <1>4, <1>9, <1>11
<1> QED
  BY <1>1, <1>2, <1>11, <1>12, <1>13 DEF LruInv, HashInit

LEMMA AddKept ==
  ASSUME LruInv, NEW e \in Elem, lru_add_to_cache(e)
  PROVE  LruInv'
<1> DEFINE added == HASH_ADD_KEYPTR(cache, e, hash[KeyOf(e)])
           all == Put(recent, e)
           M == Members(recent)
<1>1. IsTable(cache, recent) /\ Apart(M) /\ allocated = M /\ HashInit /\ \A x \in M : cache.hashv[x] = hash[KeyOf(x)]
  BY DEF LruInv
<1>2. recent \in Seq(Elem) /\ M \subseteq Elem
  BY <1>1 DEF IsTable, Members
<1>3. e \notin M /\ \A f \in M : KeyOf(f) # KeyOf(e)
  BY <1>1, FindInCache DEF lru_add_to_cache
<1>4. hash[KeyOf(e)] \in Nat
  BY <1>1, HashNat
<1>5. /\ IsTable(added, all) /\ added.hashv[e] = hash[KeyOf(e)]
      /\ \A x \in Elem : x # e => added.hashv[x] = cache.hashv[x]
  <2>1. e \in Elem /\ e \notin M
    BY <1>3
  <2> QED
    BY ONLY <2>1, <1>1, <1>4, Added
<1>6. all = Append(recent, e) /\ all \in Seq(Elem) /\ Len(all) = Len(recent) + 1 /\ Members(all) = M \cup {e}
  BY <1>2, PutSeq, MembersPut
<1>7. Len(recent) \in Nat /\ Len(all) # 0
  BY <1>2, <1>6
<1>8. /\ IF MustPrune(added)
         THEN cache' = HASH_DELETE(added, Oldest(added)) /\ allocated' = (allocated \cup {e}) \ {Oldest(added)}
         ELSE cache' = added /\ allocated' = allocated \cup {e}
      /\ recent' = IF Len(all) >= MAX_CACHE_SIZE THEN Tail(all) ELSE all
      /\ hash' = hash
  BY <1>6 DEF lru_add_to_cache, Freed
<1> HIDE DEF added, all
<1>9. Apart(M \cup {e})
  BY <1>1, <1>3 DEF Apart
<1>10. \A x \in M \cup {e} : added.hashv[x] = hash[KeyOf(x)]
  BY <1>1, <1>2, <1>3, <1>5
<1>11. HASH_COUNT(added) = Len(all) /\ Oldest(added) = all[1] /\ Injective(all)
  BY <1>5, <1>7, CountIs
<1>12. CASE MustPrune(added)
  <2> DEFINE o == all[1]
             d == HASH_DELETE(added, o)
  <2>1. cache' = d /\ allocated' = (M \cup {e}) \ {o} /\ recent' = Tail(all) /\ hash' = hash
    BY <1>1, <1>8, <1>11, <1>12 DEF MustPrune
  <2>2. Cut(all, 1) = Tail(all) /\ 1 \in 1 .. Len(all)
    BY <1>6, <1>7, CutTail
  <2>3. IsTable(d, Cut(all, 1)) /\ \A y \in Members(all) \ {o} : d.hashv[y] = added.hashv[y]
    BY ONLY <2>2, <1>5, Deleted
  <2>4. Members(Cut(all, 1)) = Members(all) \ {o}
    BY <2>2, <1>6, <1>11, MembersCut
  <2> HIDE DEF d, o
  <2>5. IsTable(d, recent') /\ Members(recent') = (M \cup {e}) \ {o}
    BY <2>1, <2>2, <2>3, <2>4, <1>6
  <2>6. Apart((M \cup {e}) \ {o})
    BY <1>9 DEF Apart
  <2>7. \A x \in (M \cup {e}) \ {o} : d.hashv[x] = hash[KeyOf(x)]
    BY <2>3, <1>6, <1>10
  <2> QED
    BY <2>1, <2>5, <2>6, <2>7, <1>1 DEF LruInv, HashInit
<1>13. CASE ~MustPrune(added)
  <2>1. cache' = added /\ allocated' = M \cup {e} /\ recent' = all /\ hash' = hash
    BY <1>1, <1>8, <1>11, <1>13 DEF MustPrune
  <2> QED
    BY <2>1, <1>1, <1>5, <1>6, <1>9, <1>10 DEF LruInv, HashInit
<1> QED
  BY <1>12, <1>13

(* lru.c:23-56: whatever the elements, their keys, the hash function and the *)
(* size of the cache, the cache holds the entries used last, in the order of *)
(* use; an entry in memory is found and one that is pruned is not; and the   *)
(* lists of the table stay sound, across expansions and the table that goes  *)
(* with its last element.                                                    *)
THEOREM CacheHoldsMostRecent == LruSpec => []HoldsMostRecent
<1>1. LruInv /\ [LruNext]_lruVars => LruInv'
  <2> SUFFICES ASSUME LruInv, [LruNext]_lruVars PROVE LruInv'
    OBVIOUS
  <2>1. CASE UNCHANGED lruVars
    BY <2>1 DEF lruVars, LruInv, HashInit
  <2>2. ASSUME NEW e \in Elem, lru_find_in_cache(e) PROVE LruInv'
    BY <2>2, FoundKept
  <2>3. ASSUME NEW e \in Elem, lru_find_miss(e) PROVE LruInv'
    BY <2>1, <2>3 DEF lru_find_miss
  <2>4. ASSUME NEW e \in Elem, lru_add_to_cache(e) PROVE LruInv'
    BY <2>4, AddKept
  <2> QED
    BY <2>1, <2>2, <2>3, <2>4 DEF LruNext
<1> QED
  BY <1>1, LruInitial, LruInvHolds, PTL DEF LruSpec
=============================================================================
