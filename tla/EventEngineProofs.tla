--------------------------- MODULE EventEngineProofs ---------------------------
(***************************************************************************)
(* Proofs about EventEngine, for any number of events: the array of heap.c   *)
(* is a priority queue with the order of arrival, so the engine implements  *)
(* EventSchedule, and the simulation ends with nothing left.                *)
(*                                                                         *)
(* Induction is on counterexamples: a set of naturals that is not empty has  *)
(* a least element.                                                        *)
(***************************************************************************)
EXTENDS EventEngine, SequenceTheorems, WellFoundedInduction, TLAPS

LEMMA LeastNumber ==
  ASSUME NEW T \in SUBSET Nat, T # {}
  PROVE  \E m \in T : \A k \in T : m <= k
<1>1. PICK m \in T : \A k \in T : <<k, m>> \notin OpToRel(<, Nat)
  BY WFMin, NatLessThanWellFounded, Zenon
<1>2. \A k \in T : ~(k < m)
  <2> TAKE k \in T
  <2>1. <<k, m>> \in Nat \X Nat
    OBVIOUS
  <2> QED BY <1>1, <2>1 DEF OpToRel
<1> QED BY <1>2

-----------------------------------------------------------------------------
(* Arrays.                                                                 *)

Recursive(f, n, next, value, base) ==
  f = [i \in 1..n |-> IF next[i] # i THEN [f[next[i]] EXCEPT ![i] = value[i]] ELSE base[i]]

\* A function on 1..n whose value at i is given, or is that at next[i] with the place i
\* changed, exists if the calls go down.
LEMMA RecursionDefined ==
  ASSUME NEW n \in Nat, NEW next \in [1..n -> 1..n], NEW value, NEW base,
         NEW rank \in [1..n -> 0..n],
         \A i \in 1..n : next[i] # i => rank[next[i]] < rank[i]
  PROVE  \E f : Recursive(f, n, next, value, base)
<1> DEFINE D(k) == {i \in 1..n : rank[i] < k}
           Body(f, i) == IF next[i] # i THEN [f[next[i]] EXCEPT ![i] = value[i]] ELSE base[i]
           Has(k) == \E f : f = [i \in D(k) |-> Body(f, i)]
<1>1. Has(0)
  <2>1. D(0) = {}
    OBVIOUS
  <2> DEFINE f == [i \in {} |-> 0]
  <2>2. f = [i \in D(0) |-> Body(f, i)]
    BY <2>1, Zenon
  <2> QED BY <2>2, Zenon
<1>2. ASSUME NEW k \in Nat, Has(k) PROVE Has(k + 1)
  <2>1. PICK f : f = [i \in D(k) |-> Body(f, i)]
    BY <1>2, Zenon
  <2> DEFINE g == [i \in D(k + 1) |-> Body(f, i)]
  <2>2. \A i \in D(k) : i \in D(k + 1)
    OBVIOUS
  <2>3. \A i \in D(k) : f[i] = g[i]
    <3> TAKE i \in D(k)
    <3>1. f[i] = Body(f, i)
      <4> HIDE DEF Body, D
      <4> QED BY <2>1, Zenon
    <3>2. g[i] = Body(f, i)
      <4> HIDE DEF Body
      <4> QED BY <2>2, Zenon
    <3> QED BY <3>1, <3>2, Zenon
  <2>4. \A i \in D(k + 1) : next[i] # i => next[i] \in D(k)
    OBVIOUS
  <2> HIDE DEF D
  <2>5. \A i \in D(k + 1) : Body(f, i) = Body(g, i)
    <3> TAKE i \in D(k + 1)
    <3> HIDE DEF g
    <3> QED BY <2>3, <2>4, Zenon
  <2>6. g = [i \in D(k + 1) |-> Body(g, i)]
    <3> DEFINE b == [i \in D(k + 1) |-> Body(g, i)]
    <3> SUFFICES g = b
      OBVIOUS
    <3> HIDE DEF Body
    <3> QED BY <2>5, Zenon
  <2> HIDE DEF g
  <2> QED BY <2>6, Zenon
<1>3. \A k \in Nat : Has(k)
  <2> DEFINE T == {k \in Nat : ~Has(k)}
  <2> HIDE DEF Has
  <2>1. SUFFICES ASSUME T # {} PROVE FALSE
    OBVIOUS
  <2>2. PICK m \in T : \A k \in T : m <= k
    <3> T \in SUBSET Nat
      OBVIOUS
    <3> HIDE DEF T
    <3> QED BY <2>1, LeastNumber
  <2>3. m \in Nat /\ m # 0
    BY <1>1
  <2>4. m - 1 \in Nat /\ Has(m - 1)
    BY <2>2, <2>3
  <2>5. Has((m - 1) + 1)
    BY <1>2, <2>4
  <2> QED BY <2>3, <2>5
<1>4. D(n + 1) = 1..n
  OBVIOUS
<1>5. Has(n + 1)
  <2> HIDE DEF Has
  <2> QED BY <1>3
<1>6. PICK f : f = [i \in D(n + 1) |-> Body(f, i)]
  BY <1>5, Zenon
<1>7. f = [i \in 1..n |-> Body(f, i)]
  <2> HIDE DEF D, Body
  <2> QED BY <1>4, <1>6
<1> QED BY <1>7, Zenon DEF Recursive

-----------------------------------------------------------------------------
(* heap_insert.                                                            *)

LEMMA Parents ==
  ASSUME NEW i \in Nat \ {0}
  PROVE  /\ i > 1 => Parent(i) \in Nat /\ Parent(i) >= 1 /\ Parent(i) < i
         /\ Left(i) \in Nat /\ Right(i) \in Nat /\ Left(i) > i /\ Right(i) > i
         /\ Parent(Left(i)) = i /\ Parent(Right(i)) = i
         /\ \A j \in Nat : j > 1 /\ Parent(j) = i => j = Left(i) \/ j = Right(i)
  BY DEF Parent, Left, Right

\* The recursive function of heap_insert exists.
SiftsUp(up, h, e) ==
  up = [i \in 1..(Len(h) + 1) |->
          IF i > 1 /\ LessThan(e, h[Parent(i)]) THEN [up[Parent(i)] EXCEPT ![i] = h[Parent(i)]]
          ELSE [Append(h, e) EXCEPT ![i] = e]]

LEMMA InsertedIsSifted ==
  ASSUME NEW h \in Seq(Elem), NEW e
  PROVE  \E up : SiftsUp(up, h, e) /\ Inserted(h, e) = up[Len(h) + 1]
<1> DEFINE N == Len(h) + 1
           Moves(i) == i > 1 /\ LessThan(e, h[Parent(i)])
           Body(f, i) == IF Moves(i) THEN [f[Parent(i)] EXCEPT ![i] = h[Parent(i)]]
                         ELSE [Append(h, e) EXCEPT ![i] = e]
           next  == [i \in 1..N |-> IF Moves(i) THEN Parent(i) ELSE i]
           value == [i \in 1..N |-> h[Parent(i)]]
           base  == [i \in 1..N |-> [Append(h, e) EXCEPT ![i] = e]]
           rank  == [i \in 1..N |-> i]
<1>1. N \in Nat
  OBVIOUS
<1>2. next \in [1..N -> 1..N] /\ \A i \in 1..N : next[i] # i <=> Moves(i)
  <2> HIDE DEF N
  <2>1. \A i \in 1..N : i > 1 => Parent(i) \in 1..N /\ Parent(i) < i
    BY <1>1 DEF Parent
  <2> QED BY <1>1, <2>1
<1>3. rank \in [1..N -> 0..N]
  OBVIOUS
<1>4. \A i \in 1..N : next[i] # i => rank[next[i]] < rank[i]
  <2> HIDE DEF N
  <2> QED BY <1>1, <1>2, Parents
<1>5. PICK f : Recursive(f, N, next, value, base)
  <2> HIDE DEF N, next, value, base, rank
  <2> QED BY <1>1, <1>2, <1>3, <1>4, RecursionDefined, Zenon
<1>6. f = [i \in 1..N |-> Body(f, i)]
  <2>1. \A i \in 1..N : (IF next[i] # i THEN [f[next[i]] EXCEPT ![i] = value[i]] ELSE base[i]) = Body(f, i)
    <3> TAKE i \in 1..N
    <3>1. next[i] = IF Moves(i) THEN Parent(i) ELSE i
      OBVIOUS
    <3>2. value[i] = h[Parent(i)] /\ base[i] = [Append(h, e) EXCEPT ![i] = e]
      OBVIOUS
    <3> HIDE DEF next, value, base, Moves
    <3> QED BY <1>2, <3>1, <3>2
  <2> HIDE DEF next, value, base, Body, N
  <2> QED BY <1>5, <2>1 DEF Recursive
<1> DEFINE up[i \in 1..N] == Body(up, i)
<1>7. up = [i \in 1..N |-> Body(up, i)]
  <2> HIDE DEF Body, N
  <2> QED BY <1>6, Zenon
<1>8. Inserted(h, e) = up[N]
  BY Zenon DEF Inserted
<1> HIDE DEF up
<1> QED BY <1>7, <1>8, Zenon DEF SiftsUp

-----------------------------------------------------------------------------
(* heap_extract.                                                           *)

\* The order by time, then by arrival.
LEMMA Order ==
  ASSUME NEW a \in Elem, NEW b \in Elem, NEW c \in Elem
  PROVE  /\ ~LessThan(a, a)
         /\ LessThan(a, b) => ~LessThan(b, a)
         /\ ~LessThan(b, a) /\ ~LessThan(c, b) => ~LessThan(c, a)
         /\ a.seq # b.seq => LessThan(a, b) \/ LessThan(b, a)
  BY DEF LessThan, Elem

\* The element that goes down is compared with its children.
LEMMA LeastFacts ==
  ASSUME NEW h, NEW n \in Nat, NEW e \in Elem, NEW i \in 1..n,
         \A k \in 1..n : h[k] \in Elem
  PROVE  LET k == Least(h, n, e, i) IN
         /\ k \in 1..n /\ k \in {i, Left(i), Right(i)}
         /\ k = i => \A l \in {Left(i), Right(i)} \cap 1..n : ~LessThan(h[l], e)
         /\ k # i => /\ k > i /\ Parent(k) = i /\ ~LessThan(e, h[k])
                     /\ \A l \in {Left(i), Right(i)} \cap 1..n : ~LessThan(h[l], h[k])
<1> DEFINE at(k)  == IF k = i THEN e ELSE h[k]
           three  == {i, Left(i), Right(i)} \cap 1..n
           Is(k)  == k \in three /\ \A l \in three : ~LessThan(at(l), at(k))
<1>1. /\ i \in three /\ Left(i) # i /\ Right(i) # i /\ Left(i) > i /\ Right(i) > i
      /\ Parent(Left(i)) = i /\ Parent(Right(i)) = i
  BY DEF Left, Right, Parent
<1>2. \A k \in three : at(k) \in Elem
  OBVIOUS
<1>3. \A k, l, m \in three :
        /\ ~LessThan(at(k), at(k))
        /\ LessThan(at(k), at(l)) => ~LessThan(at(l), at(k))
        /\ ~LessThan(at(l), at(k)) /\ ~LessThan(at(m), at(l)) => ~LessThan(at(m), at(k))
  <2> TAKE k, l, m \in three
  <2> HIDE DEF at, three
  <2> QED BY <1>2, Order
<1>4. \E k \in three : Is(k)
  <2> DEFINE T(a, b) == LessThan(at(a), at(b))
  <2> HIDE DEF at, T
  <2>1. \A k \in three : k = i \/ k = Left(i) \/ k = Right(i)
    OBVIOUS
  <2> HIDE DEF three
  <2>2. \A k, l, m \in three : ~T(k, k) /\ (T(k, l) => ~T(l, k)) /\ (~T(l, k) /\ ~T(m, l) => ~T(m, k))
    BY <1>3 DEF T
  <2>3. \E k \in three : \A l \in three : ~T(l, k)
    BY <1>1, <2>1, <2>2
  <2> QED BY <2>3 DEF T
<1>5. Least(h, n, e, i) = CHOOSE k \in three : \A l \in three : ~LessThan(at(l), at(k))
  BY Zenon DEF Least
<1>6. Is(Least(h, n, e, i))
  <2> HIDE DEF at, three
  <2> QED BY <1>4, <1>5
<1> DEFINE k == Least(h, n, e, i)
<1>7. k \in 1..n /\ k \in {i, Left(i), Right(i)}
  BY <1>6
<1>8. \A l \in three : ~LessThan(at(l), at(k))
  BY <1>6
<1> HIDE DEF k
<1>9. \A l \in {Left(i), Right(i)} \cap 1..n : l \in three /\ at(l) = h[l]
  BY <1>1
<1>10. at(i) = e /\ (k # i => at(k) = h[k])
  OBVIOUS
<1> HIDE DEF at, three
<1> QED BY <1>1, <1>7, <1>8, <1>9, <1>10 DEF k

\* The recursive function of heap_extract exists.
SiftsDown(down, h, n) ==
  LET next(i) == Least(h, n, h[n + 1], i) IN
  down = [i \in 1..n |->
            IF next(i) # i THEN [down[next(i)] EXCEPT ![i] = h[next(i)]]
            ELSE [SubSeq(h, 1, n) EXCEPT ![i] = h[n + 1]]]

LEMMA ExtractedIsSifted ==
  ASSUME NEW h \in Seq(Elem), NEW n \in Nat \ {0}, Len(h) = n + 1
  PROVE  \E down : SiftsDown(down, h, n) /\ Extracted(h) = down[1]
<1> DEFINE least(i) == Least(h, n, h[n + 1], i)
           Body(f, i) == IF least(i) # i THEN [f[least(i)] EXCEPT ![i] = h[least(i)]]
                         ELSE [SubSeq(h, 1, n) EXCEPT ![i] = h[n + 1]]
           next  == [i \in 1..n |-> least(i)]
           value == [i \in 1..n |-> h[least(i)]]
           base  == [i \in 1..n |-> [SubSeq(h, 1, n) EXCEPT ![i] = h[n + 1]]]
           rank  == [i \in 1..n |-> n - i]
<1>1. \A i \in 1..n : least(i) \in 1..n /\ (least(i) # i => least(i) > i)
  <2>1. h[n + 1] \in Elem /\ \A k \in 1..n : h[k] \in Elem
    OBVIOUS
  <2> TAKE i \in 1..n
  <2>2. Least(h, n, h[n + 1], i) \in 1..n /\ Least(h, n, h[n + 1], i) \in {i, Left(i), Right(i)}
    BY <2>1, LeastFacts
  <2> QED BY <2>2 DEF Left, Right
<1>2. next \in [1..n -> 1..n] /\ rank \in [1..n -> 0..n]
  <2> HIDE DEF least
  <2> QED BY <1>1
<1>3. \A i \in 1..n : next[i] # i => rank[next[i]] < rank[i]
  <2> HIDE DEF least
  <2> QED BY <1>1
<1>5. PICK f : Recursive(f, n, next, value, base)
  <2> HIDE DEF next, value, base, rank
  <2> QED BY <1>2, <1>3, RecursionDefined, Zenon
<1>6. f = [i \in 1..n |-> Body(f, i)]
  <2>1. \A i \in 1..n : (IF next[i] # i THEN [f[next[i]] EXCEPT ![i] = value[i]] ELSE base[i]) = Body(f, i)
    <3> TAKE i \in 1..n
    <3>1. next[i] = least(i) /\ value[i] = h[least(i)] /\ base[i] = [SubSeq(h, 1, n) EXCEPT ![i] = h[n + 1]]
      BY Zenon
    <3> HIDE DEF next, value, base, least
    <3> QED BY <3>1
  <2> HIDE DEF next, value, base, Body
  <2> QED BY <1>5, <2>1 DEF Recursive
<1> DEFINE down[i \in 1..n] == Body(down, i)
<1>7. down = [i \in 1..n |-> Body(down, i)]
  <2> HIDE DEF Body
  <2> QED BY <1>6, Zenon
<1>8. Extracted(h) = down[1]
  <2>1. Len(h) - 1 = n /\ n # 0
    OBVIOUS
  <2> QED BY <2>1, Zenon DEF Extracted
<1> HIDE DEF down
<1> QED BY <1>7, <1>8, Zenon DEF SiftsDown

-----------------------------------------------------------------------------
(* The array is a heap: no element is less than its parent.  Elements differ *)
(* in their order of arrival.                                              *)

HeapOrdered(g, n) == \A j \in 2..n : ~LessThan(g[j], g[Parent(j)])
Distinct(g, n)    == \A j, k \in 1..n : j # k => g[j].seq # g[k].seq

IsHeap(h) == h \in Seq(Elem) /\ HeapOrdered(h, Len(h)) /\ Distinct(h, Len(h))

\* The places 1..n of g have what those of h have, with e in the stead of h[i].
Stead(g, h, n, i, e) ==
  /\ \A j \in 1..n : g[j] \in Elem /\ (g[j] = e \/ \E k \in 1..n : k # i /\ g[j] = h[k])
  /\ \E j \in 1..n : g[j] = e
  /\ \A k \in 1..n : k # i => \E j \in 1..n : g[j] = h[k]
  /\ Distinct(g, n)

\* The element at place i is replaced: by e, or by that of another place p which e has taken.
LEMMA SteadPut ==
  ASSUME NEW h, NEW n \in Nat, NEW i \in 1..n, NEW e \in Elem,
         \A k \in 1..n : h[k] \in Elem /\ h[k].seq # e.seq, Distinct(h, n),
         NEW g, g[i] = e, \A k \in 1..n : k # i => g[k] = h[k]
  PROVE  Stead(g, h, n, i, e)
<1>1. \A j \in 1..n : g[j] \in Elem /\ (g[j] = e \/ \E k \in 1..n : k # i /\ g[j] = h[k])
  OBVIOUS
<1>2. \A k \in 1..n : k # i => \E j \in 1..n : g[j] = h[k]
  OBVIOUS
<1>3. Distinct(g, n)
  BY DEF Distinct
<1> QED BY <1>1, <1>2, <1>3 DEF Stead

LEMMA SteadMove ==
  ASSUME NEW h, NEW n \in Nat, NEW i \in 1..n, NEW p \in 1..n, i # p, NEW e \in Elem,
         \A k \in 1..n : h[k] \in Elem /\ h[k].seq # e.seq, Distinct(h, n),
         NEW f, Stead(f, h, n, p, e), f[i] = h[i],
         NEW g, g[i] = h[p], \A k \in 1..n : k # i => g[k] = f[k]
  PROVE  Stead(g, h, n, i, e)
<1>1. \A j \in 1..n : j # i => f[j] # h[i]
  BY DEF Stead, Distinct
<1>2. \A j \in 1..n : f[j].seq # h[p].seq
  BY DEF Stead, Distinct
<1>3. \A j \in 1..n : g[j] \in Elem /\ (g[j] = e \/ \E k \in 1..n : k # i /\ g[j] = h[k])
  <2> TAKE j \in 1..n
  <2>1. CASE j = i
    BY <2>1
  <2>2. CASE j # i
    <3>1. g[j] = f[j] /\ f[j] # h[i] /\ f[j] \in Elem
      BY <1>1, <2>2 DEF Stead
    <3>2. f[j] = e \/ \E k \in 1..n : k # p /\ f[j] = h[k]
      BY DEF Stead
    <3> QED BY <3>1, <3>2
  <2> QED BY <2>1, <2>2
<1>4. \E j \in 1..n : g[j] = e
  <2>1. PICK j \in 1..n : f[j] = e
    BY DEF Stead
  <2>2. j # i
    BY <2>1
  <2> QED BY <2>1, <2>2
<1>5. \A k \in 1..n : k # i => \E j \in 1..n : g[j] = h[k]
  <2> SUFFICES ASSUME NEW k \in 1..n, k # i, k # p PROVE \E j \in 1..n : g[j] = h[k]
    OBVIOUS
  <2>1. PICK j \in 1..n : f[j] = h[k]
    BY DEF Stead
  <2>2. j # i
    BY <2>1 DEF Distinct
  <2> QED BY <2>1, <2>2
<1>6. Distinct(g, n)
  BY <1>2 DEF Distinct, Stead
<1> QED BY <1>3, <1>4, <1>5, <1>6 DEF Stead

\* e may enter the heap in the places 1..n of h.
New(h, n, e) ==
  /\ \A k \in 1..n : h[k] \in Elem /\ h[k].seq # e.seq
  /\ HeapOrdered(h, n) /\ Distinct(h, n)

\* On its way up from a place i whose element, greater than e, has gone: g is where this ends.
Risen(g, h, n, i, e) ==
  /\ HeapOrdered(g, n)
  /\ \A j \in 1..n : j > i => g[j] = h[j]
  /\ ~LessThan(h[i], g[i])
  /\ Stead(g, h, n, i, e)

LEMMA ParentPlace ==
  ASSUME NEW n \in Nat, NEW j \in 2..n
  PROVE  Parent(j) \in 1..n /\ Parent(j) < j
  BY DEF Parent

LEMMA RisenHere ==
  ASSUME NEW h, NEW n \in Nat, NEW i \in 1..n, NEW e \in Elem, New(h, n, e), LessThan(e, h[i]),
         i > 1 => ~LessThan(e, h[Parent(i)]),
         NEW g, g[i] = e, \A k \in 1..n : k # i => g[k] = h[k]
  PROVE  Risen(g, h, n, i, e)
<1>1. \A j \in 2..n : ~LessThan(g[j], g[Parent(j)])
  <2> TAKE j \in 2..n
  <2>1. Parent(j) \in 1..n /\ Parent(j) < j /\ h[j] \in Elem /\ ~LessThan(h[j], h[Parent(j)])
    BY ParentPlace DEF New, HeapOrdered
  <2>2. CASE Parent(j) = i
    <3>1. h[i] \in Elem /\ ~LessThan(h[i], e)
      BY Order DEF New
    <3> QED BY <2>1, <2>2, <3>1, Order
  <2> QED BY <2>1, <2>2
<1>2. ~LessThan(h[i], g[i])
  BY Order DEF New
<1>3. Stead(g, h, n, i, e)
  BY SteadPut DEF New
<1> QED BY <1>1, <1>2, <1>3 DEF Risen, HeapOrdered

LEMMA RisenFurther ==
  ASSUME NEW h, NEW n \in Nat, NEW i \in 2..n, NEW e \in Elem, New(h, n, e), LessThan(e, h[Parent(i)]),
         NEW f, Risen(f, h, n, Parent(i), e),
         NEW g, g[i] = h[Parent(i)], \A k \in 1..n : k # i => g[k] = f[k]
  PROVE  Risen(g, h, n, i, e)
<1> DEFINE p == Parent(i)
<1>1. p \in 1..n /\ p < i /\ h[p] \in Elem /\ h[i] \in Elem /\ ~LessThan(h[i], h[p]) /\ f[i] = h[i]
  BY ParentPlace DEF New, HeapOrdered, Risen
<1>2. \A j \in 2..n : ~LessThan(g[j], g[Parent(j)])
  <2> TAKE j \in 2..n
  <2>1. /\ Parent(j) \in 1..n /\ Parent(j) < j /\ h[j] \in Elem /\ ~LessThan(h[j], h[Parent(j)])
        /\ ~LessThan(f[j], f[Parent(j)])
    BY ParentPlace DEF New, HeapOrdered, Risen
  <2>2. CASE j = i
    BY <2>1, <2>2 DEF Risen
  <2>3. CASE Parent(j) = i
    <3>1. j > i /\ j > p /\ f[j] = h[j]
      BY <1>1, <2>1, <2>3 DEF Risen
    <3> QED BY <1>1, <2>1, <2>3, <3>1, Order
  <2> QED BY <2>1, <2>2, <2>3
<1>3. \A j \in 1..n : j > i => g[j] = h[j]
  BY <1>1 DEF Risen
<1>4. Stead(g, h, n, i, e)
  <2> i \in 1..n /\ i # p
    BY <1>1
  <2> QED BY <1>1, SteadMove DEF New, Risen
<1> QED BY <1>1, <1>2, <1>3, <1>4 DEF Risen, HeapOrdered

\* heap_insert keeps the heap and adds its element.
LEMMA InsertKeepsHeap ==
  ASSUME NEW h, IsHeap(h), NEW e \in Elem, \A k \in DOMAIN h : h[k].seq # e.seq
  PROVE  IsHeap(Inserted(h, e)) /\ ToSet(Inserted(h, e)) = ToSet(h) \union {e}
<1> DEFINE n == Len(h)
           A == Append(h, e)
           Moves(k) == k > 1 /\ LessThan(e, h[Parent(k)])
<1>1. /\ h \in Seq(Elem) /\ n \in Nat /\ A \in [1..(n + 1) -> Elem] /\ A[n + 1] = e
      /\ \A k \in 1..n : A[k] = h[k]
  <2>1. h \in Seq(Elem)
    BY DEF IsHeap
  <2>2. A \in Seq(Elem) /\ Len(A) = n + 1 /\ A[n + 1] = e
    BY <2>1
  <2>3. \A k \in 1..n : A[k] = h[k]
    BY <2>1
  <2>4. n \in Nat
    BY <2>1
  <2> HIDE DEF n, A
  <2> QED BY <2>1, <2>2, <2>3, <2>4
<1>2. New(h, n, e) /\ DOMAIN h = 1..n
  BY <1>1 DEF IsHeap, New
<1>3. PICK up : SiftsUp(up, h, e) /\ Inserted(h, e) = up[Len(h) + 1]
  BY <1>1, InsertedIsSifted
<1>4. \A k \in 1..(n + 1) : up[k] = IF Moves(k) THEN [up[Parent(k)] EXCEPT ![k] = h[Parent(k)]] ELSE [A EXCEPT ![k] = e]
  <2> HIDE DEF A, Moves
  <2> SUFFICES ASSUME NEW k \in 1..(n + 1)
               PROVE  up[k] = IF Moves(k) THEN [up[Parent(k)] EXCEPT ![k] = h[Parent(k)]] ELSE [A EXCEPT ![k] = e]
    OBVIOUS
  <2>1. up = [i \in 1..(n + 1) |-> IF Moves(i) THEN [up[Parent(i)] EXCEPT ![i] = h[Parent(i)]] ELSE [A EXCEPT ![i] = e]]
    BY <1>3, Zenon DEF A, Moves, SiftsUp
  <2> HIDE DEF n
  <2> QED BY <2>1, Zenon
<1>5. Inserted(h, e) = up[n + 1]
  BY <1>3
<1> HIDE DEF n, A
<1> DEFINE Good(k) == up[k] \in [1..(n + 1) -> Elem] /\ Risen(up[k], h, n, k, e)
<1>6. ASSUME NEW k \in 1..n, LessThan(e, h[k]), \A l \in 1..n : l < k /\ LessThan(e, h[l]) => Good(l)
      PROVE  Good(k)
  <2>1. k \in 1..(n + 1)
    BY <1>1
  <2>2. CASE ~Moves(k)
    <3>1. up[k] = [A EXCEPT ![k] = e]
      BY <1>4, <2>1, <2>2
    <3>2. up[k] \in [1..(n + 1) -> Elem] /\ up[k][k] = e /\ \A j \in 1..n : j # k => up[k][j] = h[j]
      BY <1>1, <2>1, <3>1
    <3> QED BY <1>1, <1>2, <1>6, <2>2, <3>2, RisenHere
  <2>3. CASE Moves(k)
    <3>1. k \in 2..n /\ Parent(k) \in 1..n /\ Parent(k) < k
      BY <1>1, <2>3, ParentPlace
    <3>2. Good(Parent(k))
      BY <1>6, <2>3, <3>1
    <3>3. up[k] = [up[Parent(k)] EXCEPT ![k] = h[Parent(k)]]
      BY <1>4, <2>1, <2>3
    <3>4. h[Parent(k)] \in Elem
      BY <1>2, <3>1 DEF New
    <3>5. /\ up[k] \in [1..(n + 1) -> Elem] /\ up[k][k] = h[Parent(k)]
          /\ \A j \in 1..n : j # k => up[k][j] = up[Parent(k)][j]
      BY <1>1, <2>1, <3>2, <3>3, <3>4
    <3> QED BY <1>1, <1>2, <2>3, <3>1, <3>2, <3>5, RisenFurther
  <2> QED BY <2>2, <2>3
<1>7. \A k \in 1..n : LessThan(e, h[k]) => Good(k)
  <2> DEFINE T == {k \in 1..n : LessThan(e, h[k]) /\ ~Good(k)}
  <2> HIDE DEF Good
  <2>1. SUFFICES ASSUME T # {} PROVE FALSE
    OBVIOUS
  <2>2. PICK k \in T : \A l \in T : k <= l
    <3> T \in SUBSET Nat
      BY <1>1
    <3> HIDE DEF T
    <3> QED BY <2>1, LeastNumber
  <2>3. \A l \in 1..n : l < k /\ LessThan(e, h[l]) => Good(l)
    BY <1>1, <2>2
  <2> QED BY <1>6, <2>2, <2>3
<1> DEFINE g == up[n + 1]
<1>8. /\ g \in [1..(n + 1) -> Elem] /\ HeapOrdered(g, n + 1) /\ Distinct(g, n + 1)
      /\ {g[j] : j \in 1..(n + 1)} = {h[j] : j \in 1..n} \union {e}
  <2>1. n + 1 \in 1..(n + 1)
    BY <1>1
  <2>2. CASE ~Moves(n + 1)
    <3>1. g = [A EXCEPT ![n + 1] = e]
      BY <1>4, <2>1, <2>2
    <3>2. g \in [1..(n + 1) -> Elem] /\ g[n + 1] = e /\ \A j \in 1..n : g[j] = h[j]
      BY <1>1, <3>1
    <3> HIDE DEF g
    <3>3. \A j \in 2..(n + 1) : ~LessThan(g[j], g[Parent(j)])
      <4> TAKE j \in 2..(n + 1)
      <4>1. Parent(j) \in 1..n
        BY <1>1 DEF Parent
      <4>2. CASE j = n + 1
        BY <2>2, <3>2, <4>1, <4>2
      <4>3. CASE j \in 2..n
        BY <1>1, <1>2, <3>2, <4>1, <4>3 DEF New, HeapOrdered
      <4> QED BY <1>1, <4>2, <4>3
    <3>4. Distinct(g, n + 1)
      BY <1>1, <1>2, <3>2 DEF New, Distinct
    <3>5. {g[j] : j \in 1..(n + 1)} = {h[j] : j \in 1..n} \union {e}
      BY <1>1, <3>2
    <3> QED BY <3>2, <3>3, <3>4, <3>5 DEF HeapOrdered
  <2>3. CASE Moves(n + 1)
    <3> DEFINE p == Parent(n + 1)
               f == up[p]
    <3>1. p \in 1..n /\ LessThan(e, h[p])
      BY <1>1, <2>3 DEF Parent
    <3>2. Good(p)
      BY <1>7, <3>1
    <3>3. g = [f EXCEPT ![n + 1] = h[p]]
      BY <1>4, <2>1, <2>3
    <3>4. h[p] \in Elem
      BY <1>2, <3>1 DEF New
    <3>5. g \in [1..(n + 1) -> Elem] /\ g[n + 1] = h[p] /\ \A j \in 1..n : g[j] = f[j]
      BY <1>1, <3>2, <3>3, <3>4
    <3>6. HeapOrdered(f, n) /\ ~LessThan(h[p], f[p]) /\ Stead(f, h, n, p, e)
      BY <3>2 DEF Risen
    <3> HIDE DEF g, f
    <3>7. \A j \in 2..(n + 1) : ~LessThan(g[j], g[Parent(j)])
      <4> TAKE j \in 2..(n + 1)
      <4>1. CASE j = n + 1
        BY <3>1, <3>5, <3>6, <4>1
      <4>2. CASE j \in 2..n
        BY <1>1, <3>5, <3>6, <4>2, ParentPlace DEF HeapOrdered
      <4> QED BY <1>1, <4>1, <4>2
    <3> HIDE DEF p
    <3>8. \A j \in 1..n : f[j].seq # h[p].seq
      BY <1>2, <3>1, <3>6 DEF Stead, New, Distinct
    <3>9. Distinct(g, n + 1)
      <4>1. \A j \in 1..(n + 1) : j \in 1..n \/ j = n + 1
        BY <1>1
      <4>2. \A j, k \in 1..n : j # k => f[j].seq # f[k].seq
        BY <3>6 DEF Stead, Distinct
      <4> QED BY <3>5, <3>8, <4>1, <4>2 DEF Distinct
    <3>10. {g[j] : j \in 1..(n + 1)} = {h[j] : j \in 1..n} \union {e}
      <4>1. /\ \A j \in 1..n : f[j] = e \/ \E k \in 1..n : k # p /\ f[j] = h[k]
            /\ \A k \in 1..n : k # p => \E j \in 1..n : f[j] = h[k]
            /\ \E j \in 1..n : f[j] = e
        BY <3>6 DEF Stead
      <4>2. \A j \in 1..(n + 1) : g[j] = e \/ \E k \in 1..n : g[j] = h[k]
        <5> TAKE j \in 1..(n + 1)
        <5>1. CASE j = n + 1
          BY <3>1, <3>5, <5>1
        <5>2. CASE j \in 1..n
          BY <3>5, <4>1, <5>2
        <5> QED BY <1>1, <5>1, <5>2
      <4>3. 1..n \subseteq 1..(n + 1) /\ n + 1 \in 1..(n + 1)
        BY <1>1
      <4>4. \A k \in 1..n : \E j \in 1..(n + 1) : g[j] = h[k]
        <5> TAKE k \in 1..n
        <5>1. CASE k = p
          BY <3>5, <4>3, <5>1
        <5>2. CASE k # p
          BY <3>5, <4>1, <4>3, <5>2
        <5> QED BY <5>1, <5>2
      <4>5. \E j \in 1..(n + 1) : g[j] = e
        BY <3>5, <4>1, <4>3
      <4> QED BY <4>2, <4>4, <4>5
    <3>11. HeapOrdered(g, n + 1)
      BY <3>7, Zenon DEF HeapOrdered
    <3> QED BY <3>5, <3>9, <3>10, <3>11, Zenon
  <2> QED BY <2>2, <2>3, Zenon
<1> HIDE DEF g
<1>9. g \in Seq(Elem) /\ Len(g) = n + 1 /\ DOMAIN g = 1..(n + 1)
  BY <1>1, <1>8
<1>10. Inserted(h, e) = g
  BY <1>5 DEF g
<1> QED BY <1>2, <1>8, <1>9, <1>10 DEF IsHeap, ToSet

-----------------------------------------------------------------------------
\* The first element is the least.
LEMMA RootIsLeast ==
  ASSUME NEW h, NEW n \in Nat, \A k \in 1..n : h[k] \in Elem, HeapOrdered(h, n)
  PROVE  \A k \in 1..n : ~LessThan(h[k], h[1])
<1> DEFINE T == {k \in 1..n : LessThan(h[k], h[1])}
<1>1. SUFFICES ASSUME T # {} PROVE FALSE
  OBVIOUS
<1>2. PICK k \in T : \A l \in T : k <= l
  <2> T \in SUBSET Nat
    OBVIOUS
  <2> HIDE DEF T
  <2> QED BY <1>1, LeastNumber
<1>3. k \in 2..n
  <2>1. k # 1
    BY <1>2, Order
  <2> QED BY <1>2, <2>1
<1>4. Parent(k) \in 1..n /\ Parent(k) < k
  BY <1>3, ParentPlace
<1>5. ~LessThan(h[Parent(k)], h[1]) /\ ~LessThan(h[k], h[Parent(k)]) /\ 1 \in 1..n
  BY <1>2, <1>3, <1>4 DEF HeapOrdered
<1> QED BY <1>2, <1>4, <1>5, Order

\* On its way down from a place i whose element, not greater than e, has gone.
Sunk(g, h, n, i, e) ==
  /\ HeapOrdered(g, n)
  /\ \A j \in 1..n : j < i => g[j] = h[j]
  /\ \A j \in 1..n : ~LessThan(g[j], h[j])
  /\ Stead(g, h, n, i, e)

LEMMA SunkHere ==
  ASSUME NEW h, NEW n \in Nat, NEW i \in 1..n, NEW e \in Elem, New(h, n, e), ~LessThan(e, h[i]),
         \A l \in {Left(i), Right(i)} \cap 1..n : ~LessThan(h[l], e),
         NEW g, g[i] = e, \A k \in 1..n : k # i => g[k] = h[k]
  PROVE  Sunk(g, h, n, i, e)
<1>1. \A j \in 2..n : ~LessThan(g[j], g[Parent(j)])
  <2> TAKE j \in 2..n
  <2>1. Parent(j) \in 1..n /\ Parent(j) < j /\ h[j] \in Elem /\ ~LessThan(h[j], h[Parent(j)]) /\ h[Parent(j)] \in Elem
    BY ParentPlace DEF New, HeapOrdered
  <2>2. CASE Parent(j) = i
    <3>1. j \in {Left(i), Right(i)} \cap 1..n
      BY <2>2, Parents
    <3> QED BY <2>1, <2>2, <3>1
  <2>3. CASE j = i
    BY <2>1, <2>3, Order DEF New
  <2> QED BY <2>1, <2>2, <2>3
<1>2. \A j \in 1..n : ~LessThan(g[j], h[j])
  BY Order DEF New
<1>3. Stead(g, h, n, i, e)
  BY SteadPut DEF New
<1> QED BY <1>1, <1>2, <1>3 DEF Sunk, HeapOrdered

LEMMA SunkFurther ==
  ASSUME NEW h, NEW n \in Nat, NEW i \in 1..n, NEW e \in Elem, New(h, n, e),
         NEW c \in 2..n, Parent(c) = i, \A l \in {Left(i), Right(i)} \cap 1..n : ~LessThan(h[l], h[c]),
         NEW f, Sunk(f, h, n, c, e),
         NEW g, g[i] = h[c], \A k \in 1..n : k # i => g[k] = f[k]
  PROVE  Sunk(g, h, n, i, e)
<1>1. i < c /\ h[c] \in Elem /\ h[i] \in Elem /\ ~LessThan(h[c], h[i]) /\ f[i] = h[i]
  BY ParentPlace DEF New, HeapOrdered, Sunk
<1>2. \A j \in 2..n : ~LessThan(g[j], g[Parent(j)])
  <2> TAKE j \in 2..n
  <2>1. /\ Parent(j) \in 1..n /\ Parent(j) < j /\ h[j] \in Elem /\ ~LessThan(h[j], h[Parent(j)])
        /\ h[Parent(j)] \in Elem /\ f[j] \in Elem /\ ~LessThan(f[j], f[Parent(j)]) /\ ~LessThan(f[j], h[j])
    BY ParentPlace DEF New, HeapOrdered, Sunk, Stead
  <2>2. CASE j = i
    <3>1. Parent(j) < c /\ f[Parent(j)] = h[Parent(j)] /\ g[Parent(j)] = f[Parent(j)]
      BY <1>1, <2>1, <2>2 DEF Sunk
    <3> QED BY <1>1, <2>1, <2>2, <3>1, Order
  <2>3. CASE Parent(j) = i
    <3>1. j \in {Left(i), Right(i)} \cap 1..n
      BY <2>3, Parents
    <3>2. ~LessThan(h[j], h[c]) /\ j # i
      BY <2>1, <2>3, <3>1
    <3> QED BY <1>1, <2>1, <2>3, <3>2, Order
  <2> QED BY <2>1, <2>2, <2>3
<1>3. \A j \in 1..n : ~LessThan(g[j], h[j])
  BY <1>1 DEF Sunk
<1>4. Stead(g, h, n, i, e)
  <2> c \in 1..n /\ i # c
    BY <1>1
  <2> QED BY <1>1, SteadMove DEF New, Sunk
<1>5. \A j \in 1..n : j < i => g[j] = h[j]
  BY <1>1 DEF Sunk
<1> QED BY <1>2, <1>3, <1>4, <1>5 DEF Sunk, HeapOrdered

\* heap_extract takes the first element away, which is the least, and keeps the heap.
LEMMA ExtractKeepsHeap ==
  ASSUME NEW h, IsHeap(h), h # <<>>
  PROVE  /\ IsHeap(Extracted(h))
         /\ h[1] \in ToSet(h) /\ ToSet(Extracted(h)) = ToSet(h) \ {h[1]}
         /\ \A x \in ToSet(h) \ {h[1]} : LessThan(h[1], x)
<1> DEFINE n == Len(h) - 1
           e == h[n + 1]
           S == SubSeq(h, 1, n)
           next(i) == Least(h, n, e, i)
<1>1. h \in Seq(Elem) /\ n \in Nat /\ Len(h) = n + 1 /\ DOMAIN h = 1..(n + 1)
  <2>1. h \in Seq(Elem)
    BY DEF IsHeap
  <2> QED BY <2>1
<1>2. e \in Elem /\ \A k \in 1..(n + 1) : h[k] \in Elem
  BY <1>1
<1>3. HeapOrdered(h, n + 1) /\ Distinct(h, n + 1)
  BY <1>1 DEF IsHeap
<1> HIDE DEF n
<1>4. New(h, n, e)
  BY <1>1, <1>2, <1>3 DEF New, HeapOrdered, Distinct
<1>5. \A k \in 1..(n + 1) : ~LessThan(h[k], h[1])
  BY <1>1, <1>2, <1>3, RootIsLeast
<1>6. h[1] \in ToSet(h) /\ \A x \in ToSet(h) \ {h[1]} : LessThan(h[1], x)
  <2>1. 1 \in 1..(n + 1)
    BY <1>1
  <2>2. \A k \in 1..(n + 1) : k # 1 => LessThan(h[1], h[k])
    BY <1>2, <1>3, <1>5, <2>1, Order DEF Distinct
  <2> QED BY <1>1, <2>1, <2>2 DEF ToSet
<1>7. CASE n = 0
  <2>1. Extracted(h) = <<>>
    BY <1>7, Zenon DEF Extracted, n
  <2>2. ToSet(h) = {h[1]} /\ ToSet(<<>>) = {}
    BY <1>1, <1>7 DEF ToSet
  <2>3. IsHeap(<<>>)
    BY DEF IsHeap, HeapOrdered, Distinct
  <2> QED BY <1>6, <2>1, <2>2, <2>3
<1>8. CASE n > 0
  <2>1. S \in [1..n -> Elem] /\ \A k \in 1..n : S[k] = h[k]
    <3>1. S \in Seq(Elem) /\ Len(S) = n
      BY <1>1, SubSeqProperties
    <3>2. \A k \in 1..n : S[k] = h[k]
      BY <1>1, SubSeqProperties
    <3> HIDE DEF S
    <3> QED BY <3>1, <3>2
  <2>2. PICK down : SiftsDown(down, h, n) /\ Extracted(h) = down[1]
    BY <1>1, <1>8, ExtractedIsSifted
  <2> HIDE DEF e, S
  <2>3. \A i \in 1..n : down[i] = IF next(i) # i THEN [down[next(i)] EXCEPT ![i] = h[next(i)]] ELSE [S EXCEPT ![i] = e]
    <3>1. down = [i \in 1..n |-> IF next(i) # i THEN [down[next(i)] EXCEPT ![i] = h[next(i)]] ELSE [S EXCEPT ![i] = e]]
      BY <2>2, Zenon DEF SiftsDown, S, e
    <3> HIDE DEF next
    <3> QED BY <3>1, Zenon
  <2> DEFINE Good(k) == down[k] \in [1..n -> Elem] /\ Sunk(down[k], h, n, k, e)
  <2>4. ASSUME NEW k \in 1..n, ~LessThan(e, h[k]), \A l \in 1..n : l > k /\ ~LessThan(e, h[l]) => Good(l)
        PROVE  Good(k)
    <3>1. /\ next(k) \in 1..n /\ next(k) \in {k, Left(k), Right(k)}
          /\ next(k) = k => \A l \in {Left(k), Right(k)} \cap 1..n : ~LessThan(h[l], e)
          /\ next(k) # k => /\ next(k) > k /\ Parent(next(k)) = k /\ ~LessThan(e, h[next(k)])
                            /\ \A l \in {Left(k), Right(k)} \cap 1..n : ~LessThan(h[l], h[next(k)])
      <4>1. \A l \in 1..n : h[l] \in Elem
        BY <1>1, <1>2
      <4> QED BY <1>1, <1>2, <4>1, LeastFacts
    <3> HIDE DEF next
    <3>2. CASE next(k) = k
      <4>1. down[k] = [S EXCEPT ![k] = e]
        BY <2>3, <3>2
      <4>2. down[k] \in [1..n -> Elem] /\ down[k][k] = e /\ \A j \in 1..n : j # k => down[k][j] = h[j]
        BY <1>2, <2>1, <4>1
      <4> QED BY <1>1, <1>2, <1>4, <2>4, <3>1, <3>2, <4>2, SunkHere
    <3>3. CASE next(k) # k
      <4>1. Good(next(k)) /\ next(k) \in 2..n
        BY <1>1, <2>4, <3>1, <3>3
      <4>2. down[k] = [down[next(k)] EXCEPT ![k] = h[next(k)]]
        BY <2>3, <3>3
      <4>3. /\ down[k] \in [1..n -> Elem] /\ down[k][k] = h[next(k)]
            /\ \A j \in 1..n : j # k => down[k][j] = down[next(k)][j]
        BY <1>2, <1>1, <4>1, <4>2
      <4> QED BY <1>1, <1>2, <1>4, <3>1, <3>3, <4>1, <4>3, SunkFurther
    <3> QED BY <3>2, <3>3
  <2>5. Good(1)
    <3> DEFINE T == {j \in 0..n : n - j \in 1..n /\ ~LessThan(e, h[n - j]) /\ ~Good(n - j)}
    <3> HIDE DEF Good
    <3>1. SUFFICES ASSUME T # {} PROVE FALSE
      <4>1. n - 1 \in 0..n /\ n - (n - 1) = 1 /\ 1 \in 1..n /\ ~LessThan(e, h[1])
        BY <1>1, <1>5, <1>8 DEF e
      <4> QED BY <4>1
    <3>2. PICK j \in T : \A l \in T : j <= l
      <4> T \in SUBSET Nat
        BY <1>1
      <4> HIDE DEF T
      <4> QED BY <3>1, LeastNumber
    <3>3. \A l \in 1..n : l > n - j /\ ~LessThan(e, h[l]) => Good(l)
      <4> TAKE l \in 1..n
      <4>1. n - l \in 0..n /\ n - (n - l) = l
        BY <1>1
      <4>2. l > n - j => ~(j <= n - l)
        BY <1>1, <3>2
      <4> QED BY <3>2, <4>1, <4>2
    <3> QED BY <2>4, <3>2, <3>3
  <2> DEFINE g == down[1]
  <2>6. g \in [1..n -> Elem] /\ HeapOrdered(g, n) /\ Stead(g, h, n, 1, e)
    BY <2>5 DEF Sunk
  <2> HIDE DEF g
  <2>7. g \in Seq(Elem) /\ Len(g) = n /\ DOMAIN g = 1..n
    BY <1>1, <2>6
  <2>8. ToSet(g) = ToSet(h) \ {h[1]}
    <3>1. \A k \in 1..(n + 1) : k = n + 1 \/ k \in 1..n
      BY <1>1
    <3>2. \A k \in 1..(n + 1) : k # 1 => h[k] # h[1]
      <4> 1 \in 1..(n + 1)
        BY <1>1
      <4> QED BY <1>3 DEF Distinct
    <3>3. \A j \in 1..n : \E k \in 1..(n + 1) : k # 1 /\ g[j] = h[k]
      <4> TAKE j \in 1..n
      <4>1. n + 1 \in 1..(n + 1) /\ n + 1 # 1 /\ h[n + 1] = e
        BY <1>1, <1>8 DEF e
      <4> QED BY <1>1, <2>6, <4>1 DEF Stead
    <3>4. \A k \in 1..(n + 1) : k # 1 => \E j \in 1..n : g[j] = h[k]
      <4>1. \E j \in 1..n : g[j] = h[n + 1]
        BY <2>6 DEF Stead, e
      <4>2. \A k \in 1..n : k # 1 => \E j \in 1..n : g[j] = h[k]
        BY <2>6 DEF Stead
      <4> QED BY <3>1, <4>1, <4>2
    <3>5. ToSet(g) = {g[j] : j \in 1..n} /\ ToSet(h) = {h[k] : k \in 1..(n + 1)}
      BY <1>1, <2>7 DEF ToSet
    <3> QED BY <3>2, <3>3, <3>4, <3>5
  <2>9. IsHeap(g)
    BY <2>6, <2>7 DEF IsHeap, Stead
  <2>10. Extracted(h) = g
    BY <2>2 DEF g
  <2> QED BY <1>6, <2>8, <2>9, <2>10
<1> QED BY <1>1, <1>7, <1>8

-----------------------------------------------------------------------------
(* The engine.                                                             *)

\* The frequency domains of the engine are what the schedule needs.
LEMMA DomainsHold == Schedule!Domains
<1>1. CycleTimes \in SUBSET Nat /\ CycleTimes # {} /\ MaxAfter \in Nat
  BY EngineAssumption
<1>2. \E m \in CycleTimes : \A k \in CycleTimes : m <= k
  BY <1>1, LeastNumber
<1>3. CycleTime \in CycleTimes /\ \A k \in CycleTimes : CycleTime <= k
  BY <1>2, Zenon DEF CycleTime, Min
<1> QED BY <1>1, <1>3, EngineAssumption DEF Schedule!Domains

\* The time is rounded down to a cycle of the domain, by less than one cycle: an event of
\* a later cycle lies strictly in the future.
LEMMA Rounding ==
  ASSUME NEW t \in Nat, NEW ct \in Nat \ {0}, NEW n \in Nat
  PROVE  /\ Schedule!When(t, ct, n) \in Nat
         /\ Schedule!When(t, ct, n) > t - ct
         /\ n > 0 => Schedule!When(t, ct, n) > t
<1> DEFINE q == t \div ct
<1>1. q \in Nat /\ q * ct <= t /\ t < q * ct + ct
  OBVIOUS
<1>2. q * ct \in Nat
  BY <1>1
<1>3. ct * n \in Nat /\ (n > 0 => ct * n >= ct)
  OBVIOUS
<1> QED
  BY <1>1, <1>2, <1>3 DEF Schedule!When

LEMMA WhenIsTime ==
  ASSUME now \in Nat, NEW ct \in CycleTimes, NEW n \in Nat
  PROVE  When(ct, n) \in Nat /\ When(ct, n) = Schedule!When(now, ct, n)
<1>1. ct \in Nat \ {0}
  BY EngineAssumption
<1>2. Schedule!When(now, ct, n) \in Nat
  BY <1>1, Rounding
<1> QED BY <1>2 DEF When, Schedule!When

-----------------------------------------------------------------------------
(* The inductive invariant: the array is a heap of events that have arrived,  *)
(* no handler runs outside process and drain, and the phases at the end come  *)
(* with what has been emptied.                                             *)

Arrived == \A k \in DOMAIN heap : heap[k].seq < seq

Emptied ==
  /\ phase = "run" => running = None
  /\ phase \in {"last drain", "over"} => ends = 0
  /\ phase = "over" => heap = <<>> /\ running = None

EngineInv == TypeOK /\ IsHeap(heap) /\ Arrived /\ Emptied

LEMMA EngineInit == Init => EngineInv
<1> SUFFICES ASSUME Init PROVE EngineInv
  OBVIOUS
<1>1. IsHeap(heap) /\ Arrived /\ Emptied
  BY DEF Init, IsHeap, HeapOrdered, Distinct, Arrived, Emptied
<1>2. TypeOK
  BY EngineAssumption DEF Init, TypeOK, Phases
<1> QED BY <1>1, <1>2 DEF EngineInv

\* One step of an event into the heap or out of it.
LEMMA EventIn ==
  ASSUME EngineInv, NEW ct \in CycleTimes, NEW n \in 0..MaxAfter, ScheduleEvent(ct, n)
  PROVE  /\ EngineInv'
         /\ Schedule!Schedule
<1> DEFINE e == [when |-> When(ct, n), seq |-> seq, at |-> now, after |-> n]
<1>1. n \in Nat /\ now \in Nat /\ seq \in Nat
  BY EngineAssumption DEF EngineInv, TypeOK
<1>2. When(ct, n) \in Nat /\ When(ct, n) = Schedule!When(now, ct, n)
  <2>1. When(ct, n) = Schedule!When(now, ct, n)
    BY DEF When, Schedule!When
  <2> QED BY <1>1, <2>1, WhenIsTime
<1>3. e \in Elem /\ e.seq = seq
  BY <1>1, <1>2 DEF Elem
<1>4. heap' = Inserted(heap, e) /\ seq' = seq + 1 /\ UNCHANGED <<ends, now, phase, running, drained>> /\ seq < MaxEvents /\ Callable
  BY DEF ScheduleEvent
<1>5. e = [when |-> Schedule!When(now, ct, n), seq |-> seq, at |-> now, after |-> n]
  BY <1>2
<1> HIDE DEF e
<1>6. IsHeap(heap') /\ ToSet(heap') = ToSet(heap) \union {e}
  <2>1. \A k \in DOMAIN heap : heap[k].seq # e.seq
    <3>1. \A k \in DOMAIN heap : heap[k] \in Elem
      BY DEF EngineInv, TypeOK
    <3> QED BY <1>1, <1>3, <3>1 DEF EngineInv, Arrived, Elem
  <2> QED BY <1>3, <1>4, <2>1, InsertKeepsHeap DEF EngineInv
<1>7. Arrived'
  <2> SUFFICES ASSUME NEW k \in DOMAIN heap' PROVE heap'[k].seq < seq'
    BY DEF Arrived
  <2>1. heap'[k] \in ToSet(heap) \union {e}
    BY <1>6 DEF ToSet
  <2>2. \A x \in ToSet(heap) : x.seq < seq /\ x.seq \in Nat
    <3>1. \A j \in DOMAIN heap : heap[j] \in Elem /\ heap[j].seq < seq
      BY DEF EngineInv, TypeOK, Arrived
    <3> QED BY <3>1 DEF ToSet, Elem
  <2> QED BY <1>1, <1>3, <1>4, <2>1, <2>2
<1>8. Emptied'
  BY <1>4 DEF EngineInv, Emptied, Callable
<1>9. TypeOK'
  <2>1. heap' \in Seq(Elem) /\ seq' \in 0..MaxEvents
    BY <1>1, <1>4, <1>6, EngineAssumption DEF IsHeap
  <2> QED BY <1>4, <2>1 DEF EngineInv, TypeOK
<1>10. Schedule!Schedule
  BY <1>4, <1>5, <1>6 DEF Schedule!Schedule
<1> QED BY <1>6, <1>7, <1>8, <1>9, <1>10 DEF EngineInv

LEMMA EventOut ==
  ASSUME EngineInv, heap # <<>>, heap' = Extracted(heap), seq' = seq
  PROVE  /\ IsHeap(heap') /\ Arrived'
         /\ heap[1] \in Elem /\ Schedule!First(heap[1]) /\ ToSet(heap') = ToSet(heap) \ {heap[1]}
<1>1. /\ IsHeap(heap') /\ heap[1] \in ToSet(heap) /\ ToSet(heap') = ToSet(heap) \ {heap[1]}
      /\ \A x \in ToSet(heap) \ {heap[1]} : LessThan(heap[1], x)
  BY ExtractKeepsHeap DEF EngineInv
<1>2. ToSet(heap) \subseteq Elem
  BY DEF EngineInv, TypeOK, ToSet
<1>3. Schedule!First(heap[1])
  BY <1>1 DEF Schedule!First, Schedule!Before, LessThan
<1>4. Arrived'
  <2> SUFFICES ASSUME NEW k \in DOMAIN heap' PROVE heap'[k].seq < seq'
    BY DEF Arrived
  <2>1. heap'[k] \in ToSet(heap)
    BY <1>1 DEF ToSet
  <2>2. \A x \in ToSet(heap) : x.seq < seq
    BY DEF EngineInv, Arrived, ToSet
  <2> QED BY <2>1, <2>2
<1> QED BY <1>1, <1>2, <1>3, <1>4

LEMMA HandleStep ==
  ASSUME EngineInv, Handle
  PROVE  EngineInv' /\ Schedule!Run
<1>1. /\ phase = "process" /\ heap # <<>> /\ heap[1].when <= now
      /\ running' = heap[1] /\ heap' = Extracted(heap) /\ UNCHANGED <<seq, ends, now, phase, drained>>
  BY DEF Handle, Due
<1>2. /\ IsHeap(heap') /\ Arrived' /\ heap[1] \in Elem
      /\ Schedule!First(heap[1]) /\ ToSet(heap') = ToSet(heap) \ {heap[1]}
  BY <1>1, EventOut
<1>3. TypeOK' /\ Emptied'
  BY <1>1, <1>2 DEF EngineInv, TypeOK, Emptied, IsHeap
<1>4. heap[1] \in ToSet(heap) /\ heap[1] # EndHandler
  BY <1>2, HandlerAssumption DEF Schedule!First
<1> QED BY <1>1, <1>2, <1>3, <1>4 DEF EngineInv, Schedule!Run

LEMMA DrainStep ==
  ASSUME EngineInv, Drain
  PROVE  EngineInv' /\ Schedule!Run
<1>1. /\ phase \in {"drain", "last drain"} /\ heap # <<>> /\ drained # MaxFinal
      /\ running' = heap[1] /\ now' = heap[1].when /\ heap' = Extracted(heap)
      /\ drained' = drained + 1 /\ UNCHANGED <<seq, ends, phase>>
  BY DEF Drain, Stalled
<1>2. /\ IsHeap(heap') /\ Arrived' /\ heap[1] \in Elem
      /\ Schedule!First(heap[1]) /\ ToSet(heap') = ToSet(heap) \ {heap[1]}
  BY <1>1, EventOut
<1>3. TypeOK'
  <2>1. drained' \in 0..MaxFinal
    <3>1. MaxFinal \in Nat /\ drained \in 0..MaxFinal
      BY EngineAssumption DEF EngineInv, TypeOK
    <3>2. drained # MaxFinal /\ drained' = drained + 1
      BY <1>1
    <3> QED BY <3>1, <3>2
  <2>2. now' \in Nat
    BY <1>1, <1>2 DEF Elem
  <2> QED BY <1>1, <1>2, <2>1, <2>2 DEF EngineInv, TypeOK, IsHeap
<1>4. Emptied'
  BY <1>1 DEF EngineInv, Emptied
<1>5. heap[1] \in ToSet(heap) /\ heap[1] # EndHandler
  BY <1>2, HandlerAssumption DEF Schedule!First
<1> QED BY <1>1, <1>2, <1>3, <1>4, <1>5 DEF EngineInv, Schedule!Run

\* The first element is not due: none is.
LEMMA NoneDue ==
  ASSUME EngineInv, heap # <<>> => ~Due(heap[1])
  PROVE  \A e \in ToSet(heap) : e.when > now
<1> SUFFICES ASSUME NEW e \in ToSet(heap) PROVE e.when > now
  OBVIOUS
<1>1. heap # <<>> /\ e \in Elem /\ now \in Nat
  BY DEF EngineInv, TypeOK, ToSet
<1>2. heap[1].when > now
  <2>1. heap[1] \in Elem
    BY <1>1 DEF EngineInv, TypeOK
  <2> QED BY <1>1, <2>1 DEF Due, Elem
<1>3. heap[1] \in Elem /\ (e = heap[1] \/ LessThan(heap[1], e))
  BY <1>1, ExtractKeepsHeap DEF EngineInv, TypeOK
<1> QED BY <1>1, <1>2, <1>3 DEF LessThan, Elem

LEMMA EndIterationStep ==
  ASSUME EngineInv, NEW next \in {"run", "drain", "stalled"}, EndIteration(next)
  PROVE  EngineInv' /\ [Schedule!Next]_(Schedule!vars)
<1>1. /\ phase' = next /\ running' = None /\ UNCHANGED <<heap, seq, ends, drained>>
      /\ phase \in {"run", "process"}
  BY DEF EndIteration
<1>2. CycleTime \in Nat
  BY DomainsHold DEF Schedule!Domains
<1>3. TypeOK'
  <2>1. now' \in Nat
    BY <1>2 DEF EndIteration, EngineInv, TypeOK
  <2> QED BY <1>1, <2>1 DEF EngineInv, TypeOK, Phases
<1>4. Arrived' /\ Emptied' /\ IsHeap(heap')
  BY <1>1 DEF EngineInv, Arrived, Emptied
<1>5. CASE phase = "process" /\ now' = now + CycleTime /\ (heap # <<>> => ~Due(heap[1]))
  <2>1. Schedule!Advance
    BY <1>1, <1>5, NoneDue DEF Schedule!Advance
  <2> QED BY <1>3, <1>4, <2>1 DEF EngineInv, Schedule!Next
<1>6. CASE phase = "run" /\ now' = now
  <2>1. running = None
    BY <1>6 DEF EngineInv, Emptied
  <2>2. CASE next = "run"
    BY <1>1, <1>3, <1>4, <1>6, <2>1, <2>2 DEF EngineInv, Schedule!vars
  <2>3. CASE next # "run"
    <3>1. Schedule!Drain
      BY <1>1, <1>6, <2>1, <2>3 DEF Schedule!Drain
    <3> QED BY <1>3, <1>4, <3>1 DEF EngineInv, Schedule!Next
  <2> QED BY <2>2, <2>3
<1> QED BY <1>5, <1>6 DEF EndIteration

\* The end of esim_process_all_events, where the handlers of a drain run no more.
LEMMA EndStep ==
  ASSUME EngineInv, EndDrain \/ EndEvent \/ LastDrain
  PROVE  EngineInv' /\ Schedule!Drain
<1>1. /\ UNCHANGED <<heap, seq, now>> /\ phase \notin {"run", "process"} /\ phase' \notin {"run", "process"}
      /\ running' \in {None, EndHandler}
  BY DEF EndDrain, Drained, EndEvent, LastDrain
<1>2. Schedule!Drain
  <2>1. (IF running = EndHandler THEN None ELSE running)' = None
    BY <1>1
  <2> QED BY <1>1, <2>1 DEF Schedule!Drain
<1>3. TypeOK'
  <2>1. MaxEnds \in Nat /\ MaxFinal \in Nat /\ ends \in 0..MaxEnds
    BY EngineAssumption DEF EngineInv, TypeOK
  <2>2. ends' = ends \/ (ends > 0 /\ ends' = ends - 1)
    BY DEF EndDrain, EndEvent, LastDrain
  <2>3. ends' \in 0..MaxEnds
    BY <2>1, <2>2
  <2>4. drained' = drained \/ drained' = 0
    BY DEF EndDrain, EndEvent, LastDrain
  <2>5. drained' \in 0..MaxFinal
    BY <2>1, <2>4 DEF EngineInv, TypeOK
  <2>6. phase' \in Phases
    BY DEF EngineInv, TypeOK, EndDrain, Drained, EndEvent, LastDrain, Phases
  <2> QED BY <1>1, <2>3, <2>5, <2>6 DEF EngineInv, TypeOK
<1>4. Emptied'
  <2>1. CASE EndDrain
    BY <2>1 DEF EngineInv, Emptied, EndDrain, Drained
  <2>2. CASE EndEvent
    BY <2>2 DEF EngineInv, Emptied, EndEvent
  <2>3. CASE LastDrain
    BY <2>3 DEF EngineInv, Emptied, LastDrain
  <2> QED BY <2>1, <2>2, <2>3
<1>5. Arrived' /\ IsHeap(heap')
  BY <1>1 DEF EngineInv, Arrived
<1> QED BY <1>2, <1>3, <1>4, <1>5 DEF EngineInv

LEMMA QuietStep ==
  ASSUME EngineInv, ScheduleEndEvent \/ (\E forward \in BOOLEAN : ProcessEvents(forward)) \/ UNCHANGED vars
  PROVE  EngineInv' /\ UNCHANGED Schedule!vars
<1>1. /\ UNCHANGED <<heap, seq, now, running, drained>>
      /\ phase' \in {"run", "process"} <=> phase \in {"run", "process"}
      /\ phase' = phase \/ phase' = "process"
  BY DEF ScheduleEndEvent, ProcessEvents, vars
<1>2. UNCHANGED Schedule!vars
  BY <1>1 DEF Schedule!vars
<1>3. TypeOK'
  <2>1. MaxEnds \in Nat /\ ends \in 0..MaxEnds
    BY EngineAssumption DEF EngineInv, TypeOK
  <2>2. ends' \in 0..MaxEnds
    BY <2>1 DEF ScheduleEndEvent, ProcessEvents, vars
  <2> QED BY <1>1, <2>2 DEF EngineInv, TypeOK, Phases
<1>4. Emptied'
  BY <1>1 DEF EngineInv, Emptied, ScheduleEndEvent, ProcessEvents, vars
<1>5. Arrived' /\ IsHeap(heap')
  BY <1>1 DEF EngineInv, Arrived
<1> QED BY <1>2, <1>3, <1>4, <1>5 DEF EngineInv

LEMMA EngineStep ==
  ASSUME EngineInv, [Next]_vars
  PROVE  EngineInv' /\ [Schedule!Next]_(Schedule!vars)
<1>1. CASE \E ct \in CycleTimes, n \in 0..MaxAfter : ScheduleEvent(ct, n)
  BY <1>1, EventIn DEF Schedule!Next
<1>2. CASE Handle \/ Drain
  BY <1>2, HandleStep, DrainStep DEF Schedule!Next
<1>3. CASE \E next \in {"run", "drain", "stalled"} : EndIteration(next)
  BY <1>3, EndIterationStep
<1>4. CASE EndDrain \/ EndEvent \/ LastDrain
  BY <1>4, EndStep DEF Schedule!Next
<1>5. CASE ScheduleEndEvent \/ (\E forward \in BOOLEAN : ProcessEvents(forward)) \/ UNCHANGED vars
  BY <1>5, QuietStep
<1> QED BY <1>1, <1>2, <1>3, <1>4, <1>5 DEF Next, Step

\* The array of heap.c is a heap of the events that have arrived, whatever the handlers do.
THEOREM EngineInvariance == Spec => []EngineInv
<1>1. EngineInv /\ [Next]_vars => EngineInv'
  BY EngineStep
<1> QED BY <1>1, EngineInit, PTL DEF Spec

\* Type correctness, for any number of events.
THEOREM EngineTypeCorrect == Spec => []TypeOK
<1>1. EngineInv => TypeOK
  BY DEF EngineInv
<1> QED BY <1>1, EngineInvariance, PTL

\* When esim_process_all_events returns without its warning nothing is left, not even what
\* the handlers of the end events scheduled.
THEOREM EndsEmpty == Spec => []NothingLeft
<1>1. EngineInv => NothingLeft
  BY DEF EngineInv, Emptied, NothingLeft
<1> QED BY <1>1, EngineInvariance, PTL

\* The binary heap and the loops over it implement the schedule: each event is run once, the
\* earliest first, and those of the same time in the order in which they were scheduled.
THEOREM Refinement == Spec => ImplementsSchedule
<1>1. Init => Schedule!Init
  BY HandlerAssumption DEF Init, Schedule!Init, ToSet
<1>2. EngineInv /\ [Next]_vars => [Schedule!Next]_(Schedule!vars)
  BY EngineStep
<1> QED BY <1>1, <1>2, EngineInvariance, PTL DEF Spec, ImplementsSchedule, Schedule!Spec

-----------------------------------------------------------------------------
(* The schedule.  What is due in the main loop's current cycle was already    *)
(* looked at, so a pending event lies ahead or is new, and one of a later     *)
(* cycle lies after the time at which it was scheduled.                      *)

Pending  == ToSet(heap)
Running  == IF running = EndHandler THEN None ELSE running
Draining == phase \notin {"run", "process"}

Typed ==
  /\ Pending \subseteq Schedule!Event /\ seq \in Nat /\ now \in Nat
  /\ Running \in Schedule!Event \union {None} /\ Draining \in BOOLEAN
Ahead    == \A e \in Pending : e.after > 0 => e.when > e.at
NotLate  == ~Draining => \A e \in Pending : now < e.when + CycleTime \/ e.at = now
Punctual ==
  Running # None =>
    /\ Running.when <= now
    /\ ~Draining => now < Running.when + CycleTime \/ Running.at = now
    /\ Running.after > 0 => now > Running.at

ScheduleInv == Typed /\ Ahead /\ NotLate /\ Punctual

\* The schedule starts in its invariant.
LEMMA ScheduleInit == ASSUME Schedule!Init PROVE ScheduleInv
<1>1. Pending = {} /\ seq = 0 /\ now = 0 /\ Running = None /\ Draining = FALSE
  BY Zenon DEF Schedule!Init, Pending, Running, Draining
<1>2. Typed
  <2>1. Draining \in BOOLEAN /\ Running \in Schedule!Event \union {None}
    BY <1>1, Zenon
  <2> QED BY <1>1, <2>1 DEF Typed
<1> QED BY <1>1, <1>2 DEF ScheduleInv, Ahead, NotLate, Punctual

\* Scheduling an event: its time is rounded to its domain's cycle.
LEMMA ScheduleStep ==
  ASSUME ScheduleInv, Schedule!Schedule
  PROVE  ScheduleInv'
<1>1. PICK ct \in CycleTimes, n \in 0..MaxAfter :
        Pending' = Pending \union {[when |-> Schedule!When(now, ct, n), seq |-> seq, at |-> now, after |-> n]}
  BY DEF Schedule!Schedule, Pending
<1> DEFINE w == Schedule!When(now, ct, n)
           e == [when |-> w, seq |-> seq, at |-> now, after |-> n]
<1>2. now' = now /\ Running' = Running /\ Draining' = Draining /\ seq' = seq + 1
  BY DEF Schedule!Schedule, Running, Draining
<1>3. now \in Nat /\ ct \in Nat \ {0} /\ n \in Nat
  BY DomainsHold DEF ScheduleInv, Typed, Schedule!Domains
<1>4. w \in Nat /\ (n > 0 => w > now)
  BY <1>3, Rounding
<1> HIDE DEF w
<1>5. e \in Schedule!Event /\ e.at = now /\ (e.after > 0 => e.when > e.at)
  BY <1>3, <1>4 DEF Schedule!Event, ScheduleInv, Typed
<1>6. Pending' = Pending \union {e}
  BY <1>1 DEF w
<1> HIDE DEF e
<1>7. Typed'
  BY <1>2, <1>5, <1>6 DEF ScheduleInv, Typed
<1>8. Ahead'
  BY <1>5, <1>6 DEF ScheduleInv, Ahead
<1>9. NotLate'
  BY <1>2, <1>5, <1>6 DEF ScheduleInv, NotLate
<1>10. Punctual'
  BY <1>2 DEF ScheduleInv, Punctual
<1> QED BY <1>7, <1>8, <1>9, <1>10 DEF ScheduleInv

\* Running the first event: its time has come.
LEMMA ScheduleRun ==
  ASSUME ScheduleInv, Schedule!Run
  PROVE  ScheduleInv'
<1>1. PICK e \in Pending :
        /\ Draining \/ e.when <= now
        /\ Pending' = Pending \ {e} /\ Running' = e
        /\ now' = IF Draining THEN e.when ELSE now
  BY DEF Schedule!Run, Pending, Running, Draining
<1>2. seq' = seq /\ Draining' = Draining
  BY DEF Schedule!Run, Draining
<1>3. e \in Schedule!Event /\ now \in Nat /\ now' \in Nat
  BY <1>1 DEF ScheduleInv, Typed, Schedule!Event
<1>4. Typed'
  BY <1>1, <1>2, <1>3 DEF ScheduleInv, Typed
<1>5. Ahead'
  BY <1>1 DEF ScheduleInv, Ahead
<1>6. NotLate'
  BY <1>1, <1>2 DEF ScheduleInv, NotLate
<1>7. Punctual'
  <2>1. e.after > 0 => e.when > e.at
    BY <1>1 DEF ScheduleInv, Ahead
  <2>2. ~Draining => now < e.when + CycleTime \/ e.at = now
    BY <1>1 DEF ScheduleInv, NotLate
  <2>3. e.when <= now' /\ (e.after > 0 => now' > e.at)
    BY <1>1, <1>3, <2>1 DEF Schedule!Event
  <2> QED BY <1>1, <1>2, <2>2, <2>3 DEF Punctual
<1> QED BY <1>4, <1>5, <1>6, <1>7 DEF ScheduleInv

\* The time moves on by a cycle of the main loop, and passes no event by a whole one.
LEMMA ScheduleAdvance ==
  ASSUME ScheduleInv, Schedule!Advance
  PROVE  ScheduleInv'
<1>1. /\ \A e \in Pending : e.when > now
      /\ now' = now + CycleTime /\ Running' = None
      /\ Pending' = Pending /\ seq' = seq /\ Draining' \in BOOLEAN
  BY DEF Schedule!Advance, Pending, Running, Draining
<1>2. CycleTime \in Nat \ {0} /\ now \in Nat /\ Pending \subseteq Schedule!Event
  BY DomainsHold DEF ScheduleInv, Typed, Schedule!Domains
<1>3. Typed' /\ Ahead' /\ Punctual'
  BY <1>1, <1>2 DEF ScheduleInv, Typed, Ahead, Punctual
<1>4. NotLate'
  <2>1. ASSUME NEW e \in Pending PROVE now' < e.when + CycleTime
    BY <1>1, <1>2 DEF Schedule!Event
  <2> QED BY <1>1, <2>1 DEF NotLate
<1> QED BY <1>3, <1>4 DEF ScheduleInv

\* The main loop ends.
LEMMA ScheduleDrain ==
  ASSUME ScheduleInv, Schedule!Drain
  PROVE  ScheduleInv'
<1>1. Draining' = TRUE /\ Running' = None /\ Pending' = Pending /\ seq' = seq /\ now' = now
  BY Zenon DEF Schedule!Drain, Pending, Running, Draining
<1> QED BY <1>1 DEF ScheduleInv, Typed, Ahead, NotLate, Punctual

\* Whatever implements the schedule runs its events in time.
LEMMA ScheduleInvariance == Schedule!Spec => []ScheduleInv
<1>1. ScheduleInv /\ [Schedule!Next]_(Schedule!vars) => ScheduleInv'
  <2> SUFFICES ASSUME ScheduleInv, [Schedule!Next]_(Schedule!vars) PROVE ScheduleInv'
    OBVIOUS
  <2>1. CASE UNCHANGED Schedule!vars
    <3>1. Pending' = Pending /\ seq' = seq /\ now' = now /\ Running' = Running /\ Draining' = Draining
      BY <2>1 DEF Schedule!vars, Pending, Running, Draining
    <3> QED BY <3>1 DEF ScheduleInv, Typed, Ahead, NotLate, Punctual
  <2> QED
    BY <2>1, ScheduleStep, ScheduleRun, ScheduleAdvance, ScheduleDrain DEF Schedule!Next
<1> QED BY <1>1, ScheduleInit, PTL DEF Schedule!Spec

\* While the main loop runs, no scheduled event is a whole cycle behind.
THEOREM NothingOverdue == Spec => []Schedule!NeverLate
<1>1. ScheduleInv => Schedule!NeverLate
  BY DEF ScheduleInv, NotLate, Pending, Draining, Schedule!NeverLate
<1> QED BY <1>1, ScheduleInvariance, Refinement, PTL DEF ImplementsSchedule

\* Events run when their time has come, in the main loop's cycle that reaches it, and never at
\* the time at which they were scheduled for a later cycle.
THEOREM EngineOnTime == Spec => []OnTime
<1>1. ScheduleInv => OnTime
  BY DEF ScheduleInv, Punctual, Running, Draining, OnTime, Schedule!OnTime
<1> QED BY <1>1, ScheduleInvariance, Refinement, PTL DEF ImplementsSchedule

=============================================================================
