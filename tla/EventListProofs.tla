---------------------------- MODULE EventListProofs ----------------------------
(***************************************************************************)
(* Lemmas about lists of pending events: what scheduling, handling and the   *)
(* passing of time do to their order and to their number.  E is any set of   *)
(* events with a number of cycles left.                                    *)
(***************************************************************************)
EXTENDS EventList, FiniteSetTheorems, WellFoundedInduction, TLAPS

IsQueue(es, E) ==
  /\ es \in Seq(E)
  /\ \A i, j \in 1..Len(es) : i < j => es[i].left <= es[j].left

\* r is es without its first n events and with the events New: those of es keep their order, and
\* each new event comes after those of es that are due at its time or before.
Follows(es, r, n, New, from) ==
  /\ from \in [1..Len(r) -> 0..Len(es)]
  /\ \A i \in 1..Len(r) : IF from[i] = 0 THEN r[i] \in New ELSE from[i] > n /\ r[i] = es[from[i]]
  /\ \A k \in 1..Len(es) : k > n => \E i \in 1..Len(r) : from[i] = k
  /\ \A x \in New : \E i \in 1..Len(r) : from[i] = 0 /\ r[i] = x
  /\ \A i, j \in 1..Len(r) : from[i] # 0 /\ from[j] # 0 => (i < j <=> from[i] < from[j])
  /\ \A i, j \in 1..Len(r) : from[i] # 0 /\ from[j] = 0 => (i < j <=> r[i].left <= r[j].left)

Grown(es, r, n, New) == \E from : Follows(es, r, n, New, from)

\* The number of events in K.
Places(es, K) == {i \in 1..Len(es) : es[i] \in K}
Count(es, K)  == Cardinality(Places(es, K))

-----------------------------------------------------------------------------
LEMMA PlacesFinite ==
  ASSUME NEW E, NEW es \in Seq(E), NEW K
  PROVE  IsFiniteSet(Places(es, K)) /\ Count(es, K) \in Nat
<1>1. Len(es) \in Nat /\ Places(es, K) \subseteq 1..Len(es)
  BY DEF Places
<1>2. IsFiniteSet(1..Len(es))
  BY <1>1, FS_Interval
<1>3. IsFiniteSet(Places(es, K))
  BY <1>1, <1>2, FS_Subset
<1> QED BY <1>3, FS_CardinalityType DEF Count

LEMMA CountNone ==
  ASSUME NEW E, NEW es \in Seq(E), NEW K
  PROVE  Count(es, K) = 0 <=> \A i \in 1..Len(es) : es[i] \notin K
<1>1. Count(es, K) = 0 <=> Places(es, K) = {}
  BY PlacesFinite, FS_EmptySet DEF Count
<1> QED BY <1>1 DEF Places

\* If at most one event is in K, two places of such events are the same.
LEMMA CountOne ==
  ASSUME NEW E, NEW es \in Seq(E), NEW K, Count(es, K) <= 1,
         NEW i \in 1..Len(es), NEW j \in 1..Len(es), es[i] \in K, es[j] \in K
  PROVE  i = j
<1>1. IsFiniteSet(Places(es, K)) /\ i \in Places(es, K) /\ j \in Places(es, K) /\ Count(es, K) \in Nat
  BY PlacesFinite DEF Places
<1>2. Count(es, K) # 0
  BY <1>1, FS_EmptySet DEF Count
<1>3. PICK x : Places(es, K) = {x}
  BY <1>1, <1>2, FS_Singleton DEF Count
<1> QED BY <1>1, <1>3

-----------------------------------------------------------------------------
(* esim_schedule_event                                                     *)

LEMMA Concatenated ==
  ASSUME NEW E, NEW a \in Seq(E), NEW b \in Seq(E)
  PROVE  /\ a \o b \in Seq(E) /\ Len(a \o b) = Len(a) + Len(b)
         /\ \A i \in 1..(Len(a) + Len(b)) : (a \o b)[i] = IF i <= Len(a) THEN a[i] ELSE b[i - Len(a)]
OBVIOUS

\* The place at which a new event comes in.
LEMMA ScheduledPlace ==
  ASSUME NEW E, \A x \in E : x.left \in Nat, NEW es, IsQueue(es, E), NEW e \in E
  PROVE  /\ Scheduled(es, e) \in Seq(E) /\ Len(Scheduled(es, e)) = Len(es) + 1
         /\ \E p \in 1..(Len(es) + 1) :
              /\ \A i \in 1..(Len(es) + 1) :
                   Scheduled(es, e)[i] = IF i < p THEN es[i] ELSE IF i = p THEN e ELSE es[i - 1]
              /\ \A i \in 1..Len(es) : i < p <=> es[i].left <= e.left
<1> DEFINE n == Len(es)
           P == {i \in DOMAIN es : es[i].left <= e.left}
           T == {i \in 1..(n + 1) : i = n + 1 \/ ~(es[i].left <= e.left)}
<1>1. n \in Nat /\ DOMAIN es = 1..n /\ \A i \in 1..n : es[i] \in E /\ es[i].left \in Nat
  BY DEF IsQueue
<1>2. e.left \in Nat
  OBVIOUS
<1>3. PICK p \in T : \A q \in T : p <= q
  <2>1. /\ T \in SUBSET Nat
        /\ n + 1 \in T
    BY <1>1
  <2> HIDE DEF T, P
  <2>2. \E m \in T : \A k \in T : <<k, m>> \notin OpToRel(<, Nat)
    BY <2>1, WFMin, NatLessThanWellFounded, Zenon
  <2>3. PICK m \in T : \A k \in T : <<k, m>> \notin OpToRel(<, Nat)
    BY <2>2
  <2>4. \A k \in T : ~(k < m)
    <3> TAKE k \in T
    <3>1. <<k, m>> \in Nat \X Nat
      BY <2>1
    <3> QED BY <2>3, <3>1 DEF OpToRel
  <2>5. \A q \in T : m \in Nat /\ q \in Nat
    BY <2>1, <2>3
  <2>6. \A q \in T : m <= q
    BY <2>4, <2>5
  <2> QED BY <2>3, <2>6
<1>4. p \in 1..(n + 1)
  BY <1>1
<1>5. \A i \in 1..n : i < p <=> es[i].left <= e.left
  <2> SUFFICES ASSUME NEW i \in 1..n PROVE i < p <=> es[i].left <= e.left
    OBVIOUS
  <2>1. CASE i < p
    <3>1. i \notin T
      BY <1>1, <1>3, <1>4, <2>1
    <3> QED BY <1>1, <2>1, <3>1
  <2>2. CASE ~(i < p)
    <3>1. p \in 1..n /\ (p = i \/ p < i)
      BY <1>1, <1>4, <2>2
    <3>2. es[p].left <= es[i].left
      BY <1>1, <3>1 DEF IsQueue
    <3>3. ~(es[p].left <= e.left)
      BY <1>1, <1>3, <3>1
    <3>4. es[p].left \in Nat /\ es[i].left \in Nat
      BY <1>1, <3>1
    <3> QED BY <1>2, <2>2, <3>2, <3>3, <3>4
  <2> QED BY <2>1, <2>2
<1>6. P = 1..(p - 1)
  <2>1. \A i : i \in 1..n /\ i < p <=> i \in 1..(p - 1)
    BY <1>1, <1>4
  <2> QED BY <1>1, <1>5, <2>1
<1> HIDE DEF P, T
<1>7. Cardinality(P) = p - 1
  <2>1. p \in Nat /\ p >= 1 /\ p - 1 \in Int /\ 1 \in Int
    BY <1>1, <1>4
  <2>2. Cardinality(1..(p - 1)) = IF 1 > p - 1 THEN 0 ELSE p - 1 - 1 + 1
    BY <2>1, FS_Interval
  <2> QED BY <1>6, <2>1, <2>2
<1>8. Scheduled(es, e) = SubSeq(es, 1, p - 1) \o <<e>> \o SubSeq(es, p, n)
  <2>1. Cardinality(P) + 1 = p
    BY <1>4, <1>7
  <2> QED BY <2>1 DEF P, Scheduled, InsertAt
<1> DEFINE a == SubSeq(es, 1, p - 1)
           b == SubSeq(es, p, n)
<1>9. /\ a \in Seq(E) /\ Len(a) = p - 1 /\ \A i \in 1..(p - 1) : a[i] = es[i]
      /\ b \in Seq(E) /\ Len(b) = n + 1 - p /\ \A i \in 1..(n + 1 - p) : b[i] = es[i + p - 1]
  BY <1>1, <1>4 DEF IsQueue
<1> DEFINE c == a \o <<e>>
<1>10. c \in Seq(E) /\ Len(c) = p /\ \A i \in 1..p : c[i] = IF i < p THEN a[i] ELSE e
  BY <1>4, <1>9
<1> HIDE DEF a, b, c
<1>11. c \o b \in Seq(E) /\ Len(c \o b) = n + 1
       /\ \A i \in 1..(n + 1) : (c \o b)[i] = IF i <= p THEN c[i] ELSE b[i - p]
  <2>1. Len(c) + Len(b) = n + 1 /\ Len(c) = p
    BY <1>1, <1>4, <1>9, <1>10
  <2>2. /\ c \o b \in Seq(E) /\ Len(c \o b) = Len(c) + Len(b)
        /\ \A i \in 1..(Len(c) + Len(b)) : (c \o b)[i] = IF i <= Len(c) THEN c[i] ELSE b[i - Len(c)]
    <3>1. c \in Seq(E) /\ b \in Seq(E)
      BY <1>9, <1>10
    <3> QED BY <3>1, Concatenated, Zenon
  <2> QED BY <2>1, <2>2
<1>12. \A i \in 1..(n + 1) : (c \o b)[i] = IF i < p THEN es[i] ELSE IF i = p THEN e ELSE es[i - 1]
  <2> SUFFICES ASSUME NEW i \in 1..(n + 1)
               PROVE  (c \o b)[i] = IF i < p THEN es[i] ELSE IF i = p THEN e ELSE es[i - 1]
    OBVIOUS
  <2>1. CASE i <= p
    <3>1. (c \o b)[i] = c[i] /\ i \in 1..p
      BY <1>4, <1>11, <2>1
    <3>2. i < p => i \in 1..(p - 1)
      BY <1>4
    <3> QED BY <1>9, <1>10, <2>1, <3>1, <3>2
  <2>2. CASE i > p
    <3>1. i - p \in 1..(n + 1 - p) /\ i - p + p - 1 = i - 1 /\ ~(i <= p) /\ i # p /\ ~(i < p)
      BY <1>1, <1>4, <2>2
    <3>2. (c \o b)[i] = b[i - p]
      BY <1>11, <3>1
    <3>3. b[i - p] = es[i - p + p - 1]
      BY <1>9, <3>1
    <3> QED BY <3>1, <3>2, <3>3
  <2>3. i <= p \/ i > p
    BY <1>1, <1>4
  <2> QED BY <2>1, <2>2, <2>3
<1>13. Scheduled(es, e) = c \o b
  BY <1>8 DEF a, b, c
<1> QED BY <1>4, <1>5, <1>11, <1>12, <1>13

LEMMA ScheduledGrown ==
  ASSUME NEW E, \A x \in E : x.left \in Nat, NEW es, IsQueue(es, E), NEW e \in E
  PROVE  /\ IsQueue(Scheduled(es, e), E)
         /\ Grown(es, Scheduled(es, e), 0, {e})
<1> DEFINE n == Len(es)
           r == Scheduled(es, e)
<1>1. r \in Seq(E) /\ Len(r) = n + 1 /\ n \in Nat
  BY ScheduledPlace, SMTT(30) DEF IsQueue
<1>2. PICK p \in 1..(n + 1) :
        /\ \A i \in 1..(n + 1) : r[i] = IF i < p THEN es[i] ELSE IF i = p THEN e ELSE es[i - 1]
        /\ \A i \in 1..n : i < p <=> es[i].left <= e.left
  BY ScheduledPlace
<1>3. \A i \in 1..n : es[i] \in E /\ es[i].left \in Nat
  BY DEF IsQueue
<1>4. e.left \in Nat
  OBVIOUS
<1> HIDE DEF r
<1> DEFINE from == [i \in 1..(n + 1) |-> IF i < p THEN i ELSE IF i = p THEN 0 ELSE i - 1]
<1>5. \A i \in 1..(n + 1) : from[i] = IF i < p THEN i ELSE IF i = p THEN 0 ELSE i - 1
  OBVIOUS
<1>6. from \in [1..Len(r) -> 0..n]
  <2>1. \A i \in 1..(n + 1) : (IF i < p THEN i ELSE IF i = p THEN 0 ELSE i - 1) \in 0..n
    BY <1>1, <1>2
  <2> QED BY <1>1, <2>1
<1> HIDE DEF from
<1>7. \A i \in 1..(n + 1) : IF from[i] = 0 THEN i = p /\ r[i] = e ELSE i # p /\ from[i] > 0 /\ r[i] = es[from[i]]
  BY <1>1, <1>2, <1>5
<1>8. \A k \in 1..n : \E i \in 1..(n + 1) : from[i] = k
  <2> TAKE k \in 1..n
  <2>1. CASE k < p
    BY <1>1, <1>5, <2>1
  <2>2. CASE ~(k < p)
    <3>1. k + 1 \in 1..(n + 1) /\ ~(k + 1 < p) /\ k + 1 # p /\ k + 1 - 1 = k
      BY <1>1, <2>2
    <3>2. from[k + 1] = k
      BY <1>5, <3>1
    <3> QED BY <3>1, <3>2
  <2> QED BY <2>1, <2>2
<1>9. \A i, j \in 1..(n + 1) : from[i] # 0 /\ from[j] # 0 => (i < j <=> from[i] < from[j])
  <2> SUFFICES ASSUME NEW i \in 1..(n + 1), NEW j \in 1..(n + 1), from[i] # 0, from[j] # 0
               PROVE  i < j <=> from[i] < from[j]
    OBVIOUS
  <2>1. i # p /\ j # p
    BY <1>5
  <2> QED BY <1>1, <1>5, <2>1
<1>10. \A i \in 1..(n + 1) : from[i] # 0 => (i < p <=> r[i].left <= e.left)
  <2> SUFFICES ASSUME NEW i \in 1..(n + 1), from[i] # 0 PROVE i < p <=> r[i].left <= e.left
    OBVIOUS
  <2>1. i # p /\ r[i] = es[from[i]] /\ from[i] \in 1..n
    BY <1>1, <1>6, <1>7, SMTT(30)
  <2>2. from[i] < p <=> r[i].left <= e.left
    BY <1>2, <2>1
  <2> QED BY <1>1, <1>5, <2>1, <2>2
<1>11. Follows(es, r, 0, {e}, from)
  BY <1>1, <1>6, <1>7, <1>8, <1>9, <1>10 DEF Follows
<1>12. \A i, j \in 1..(n + 1) : i < j => r[i].left <= r[j].left
  <2> SUFFICES ASSUME NEW i \in 1..(n + 1), NEW j \in 1..(n + 1), i < j PROVE r[i].left <= r[j].left
    OBVIOUS
  <2>1. CASE i = p
    <3>1. j # p /\ ~(j < p) /\ from[j] # 0
      BY <1>1, <1>5, <2>1
    <3>2. r[i] = e /\ ~(r[j].left <= e.left) /\ r[j].left \in Nat
      BY <1>1, <1>2, <1>10, <2>1, <3>1
    <3> QED BY <1>4, <3>2
  <2>2. CASE j = p
    <3>1. i < p /\ from[i] # 0
      BY <1>1, <1>5, <2>2
    <3> QED BY <1>2, <1>10, <2>2, <3>1
  <2>3. CASE i # p /\ j # p
    <3>1. from[i] # 0 /\ from[j] # 0 /\ from[i] \in 1..n /\ from[j] \in 1..n
      BY <1>1, <1>5, <1>6, <2>3
    <3>2. from[i] < from[j] /\ r[i] = es[from[i]] /\ r[j] = es[from[j]]
      BY <1>7, <1>9, <3>1
    <3> QED BY <3>1, <3>2 DEF IsQueue
  <2> QED BY <2>1, <2>2, <2>3
<1>13. IsQueue(r, E)
  BY <1>1, <1>12 DEF IsQueue
<1> QED BY <1>11, <1>13 DEF Grown, r

LEMMA ScheduledCount ==
  ASSUME NEW E, \A x \in E : x.left \in Nat, NEW es, IsQueue(es, E), NEW e \in E, NEW K
  PROVE  Count(Scheduled(es, e), K) = IF e \in K THEN Count(es, K) + 1 ELSE Count(es, K)
<1> DEFINE n == Len(es)
           r == Scheduled(es, e)
<1>1. r \in Seq(E) /\ Len(r) = n + 1 /\ n \in Nat
  BY ScheduledPlace, SMTT(30) DEF IsQueue
<1>2. PICK p \in 1..(n + 1) :
        /\ \A i \in 1..(n + 1) : r[i] = IF i < p THEN es[i] ELSE IF i = p THEN e ELSE es[i - 1]
        /\ \A i \in 1..n : i < p <=> es[i].left <= e.left
  BY ScheduledPlace
<1> HIDE DEF r
<1>21. \A i \in 1..n : i < p => r[i] = es[i]
  BY <1>1, <1>2
<1>22. \A i \in 1..n : ~(i < p) => r[i + 1] = es[i]
  <2> SUFFICES ASSUME NEW i \in 1..n, ~(i < p) PROVE r[i + 1] = es[i]
    OBVIOUS
  <2>1. i + 1 \in 1..(n + 1) /\ ~(i + 1 < p) /\ i + 1 # p /\ i + 1 - 1 = i
    BY <1>1
  <2>2. r[i + 1] = es[i + 1 - 1]
    BY <1>2, <2>1
  <2> QED BY <2>1, <2>2
<1> DEFINE A == Places(es, K)
           B == Places(r, K)
           to == [k \in A |-> IF k < p THEN k ELSE k + 1]
<1>3. \A k : k \in A <=> k \in 1..n /\ es[k] \in K
  BY DEF Places
<1>4. \A k : k \in B <=> k \in 1..(n + 1) /\ r[k] \in K
  BY <1>1 DEF Places
<1>5. p \in B <=> e \in K
  BY <1>2, <1>4
<1>6. \A k \in A : to[k] = IF k < p THEN k ELSE k + 1
  OBVIOUS
<1> HIDE DEF A, B, to
<1>7. \A k \in A : to[k] \in B \ {p}
  <2> SUFFICES ASSUME NEW k \in A PROVE to[k] \in B \ {p}
    OBVIOUS
  <2>1. k \in 1..n /\ es[k] \in K
    BY <1>3
  <2>2. CASE k < p
    <3>1. k \in 1..(n + 1) /\ k # p /\ to[k] = k
      BY <1>1, <1>6, <2>1, <2>2
    <3>2. r[k] = es[k]
      BY <1>21, <2>1, <2>2
    <3> QED BY <1>4, <2>1, <3>1, <3>2
  <2>3. CASE ~(k < p)
    <3>1. k + 1 \in 1..(n + 1) /\ ~(k + 1 < p) /\ k + 1 # p /\ k + 1 - 1 = k
      BY <1>1, <2>1, <2>3
    <3>2. r[k + 1] = es[k]
      BY <1>22, <2>1, <2>3
    <3> QED BY <1>4, <1>6, <2>1, <2>3, <3>1, <3>2
  <2> QED BY <2>2, <2>3
<1>8. \A y \in B \ {p} : \E k \in A : to[k] = y
  <2> SUFFICES ASSUME NEW y \in B, y # p PROVE \E k \in A : to[k] = y
    OBVIOUS
  <2>1. y \in 1..(n + 1) /\ r[y] \in K
    BY <1>4
  <2>2. CASE y < p
    <3>1. y \in 1..n /\ r[y] = es[y]
      BY <1>1, <1>2, <2>1, <2>2
    <3> QED BY <1>3, <1>6, <2>1, <2>2, <3>1
  <2>3. CASE ~(y < p)
    <3>1. y - 1 \in 1..n /\ r[y] = es[y - 1] /\ ~(y - 1 < p) /\ y - 1 + 1 = y
      BY <1>1, <1>2, <2>1, <2>3
    <3> QED BY <1>3, <1>6, <2>1, <3>1
  <2> QED BY <2>2, <2>3
<1>9. \A j, k \in A : to[j] = to[k] => j = k
  BY <1>1, <1>3, <1>6
<1>10. to \in Bijection(A, B \ {p})
  <2>1. to \in [A -> B \ {p}]
    BY <1>7 DEF to
  <2>2. to \in Injection(A, B \ {p})
    BY <1>9, <2>1 DEF Injection, IsInjective
  <2>3. to \in Surjection(A, B \ {p})
    BY <1>8, <2>1 DEF Surjection
  <2> QED BY <2>2, <2>3 DEF Bijection
<1>11. IsFiniteSet(A) /\ IsFiniteSet(B)
  BY <1>1, PlacesFinite DEF A, B, IsQueue
<1>12. Cardinality(B \ {p}) = Cardinality(A)
  BY <1>10, <1>11, FS_Bijection DEF ExistsBijection
<1>13. Cardinality(B \ {p}) = IF p \in B THEN Cardinality(B) - 1 ELSE Cardinality(B)
  BY <1>11, FS_RemoveElement
<1>14. Cardinality(A) = Count(es, K) /\ Cardinality(B) = Count(r, K) /\ Count(r, K) \in Nat
  <2>1. Cardinality(B) \in Nat
    BY <1>11, FS_CardinalityType
  <2> QED BY <2>1 DEF A, B, Count
<1> QED BY <1>5, <1>12, <1>13, <1>14 DEF r

-----------------------------------------------------------------------------
(* The first event is handled.                                             *)

LEMMA TailGrown ==
  ASSUME NEW E, \A x \in E : x.left \in Nat, NEW es, IsQueue(es, E), es # <<>>
  PROVE  IsQueue(Tail(es), E) /\ Grown(es, Tail(es), 1, {}) /\ Head(es) = es[1] /\ es[1] \in E /\ Len(es) \in Nat \ {0}
<1> DEFINE n == Len(es)
           r == Tail(es)
           from == [i \in 1..(n - 1) |-> i + 1]
<1>1. /\ n \in Nat \ {0} /\ r \in Seq(E) /\ Len(r) = n - 1 /\ Head(es) = es[1]
      /\ \A i \in 1..(n - 1) : r[i] = es[i + 1]
      /\ es[1] \in E
  BY DEF IsQueue
<1>2. from \in [1..(n - 1) -> 0..n]
  BY <1>1
<1>3. \A i \in 1..(n - 1) : from[i] = i + 1
  OBVIOUS
<1> HIDE DEF from, r
<1>4. \A k \in 1..n : k > 1 => \E i \in 1..(n - 1) : from[i] = k
  <2> SUFFICES ASSUME NEW k \in 1..n, k > 1 PROVE \E i \in 1..(n - 1) : from[i] = k
    OBVIOUS
  <2>1. k - 1 \in 1..(n - 1) /\ k - 1 + 1 = k
    BY <1>1
  <2> QED BY <1>3, <2>1
<1>5. Follows(es, r, 1, {}, from)
  <2>1. from \in [1..Len(r) -> 0..Len(es)] /\ Len(r) = n - 1
    BY <1>1, <1>2
  <2>2. \A i \in 1..Len(r) : from[i] > 1 /\ from[i] # 0 /\ r[i] = es[from[i]]
    BY <1>1, <1>3
  <2>3. \A i, j \in 1..Len(r) : i < j <=> from[i] < from[j]
    BY <1>1, <1>3
  <2> QED BY <1>4, <2>1, <2>2, <2>3 DEF Follows
<1>6. \A i, j \in 1..(n - 1) : i < j => r[i].left <= r[j].left
  <2> SUFFICES ASSUME NEW i \in 1..(n - 1), NEW j \in 1..(n - 1), i < j PROVE r[i].left <= r[j].left
    OBVIOUS
  <2>1. i + 1 \in 1..n /\ j + 1 \in 1..n /\ i + 1 < j + 1
    BY <1>1
  <2> QED BY <1>1, <2>1 DEF IsQueue
<1> QED BY <1>1, <1>5, <1>6 DEF Grown, IsQueue, r

LEMMA TailCount ==
  ASSUME NEW E, NEW es \in Seq(E), es # <<>>, NEW K
  PROVE  Count(es, K) = IF es[1] \in K THEN Count(Tail(es), K) + 1 ELSE Count(Tail(es), K)
<1> DEFINE n == Len(es)
           r == Tail(es)
<1>1. /\ n \in Nat \ {0} /\ r \in Seq(E) /\ Len(r) = n - 1 /\ es \in Seq(E)
      /\ \A i \in 1..(n - 1) : r[i] = es[i + 1]
  OBVIOUS
<1> DEFINE A == Places(es, K)
           B == Places(r, K)
           to == [k \in B |-> k + 1]
<1> HIDE DEF r
<1>2. \A k : k \in A <=> k \in 1..n /\ es[k] \in K
  BY DEF Places
<1>3. \A k : k \in B <=> k \in 1..(n - 1) /\ r[k] \in K
  BY <1>1 DEF Places
<1>4. \A k \in B : to[k] = k + 1
  OBVIOUS
<1> HIDE DEF A, B, to
<1>5. \A k \in B : to[k] \in A \ {1}
  <2> SUFFICES ASSUME NEW k \in B PROVE to[k] \in A \ {1}
    OBVIOUS
  <2>1. k \in 1..(n - 1) /\ r[k] \in K /\ to[k] = k + 1
    BY <1>3, <1>4
  <2>2. r[k] = es[k + 1] /\ k + 1 \in 1..n /\ k + 1 # 1
    BY <1>1, <2>1
  <2> QED BY <1>2, <2>1, <2>2
<1>6. \A y \in A \ {1} : \E k \in B : to[k] = y
  <2> SUFFICES ASSUME NEW y \in A, y # 1 PROVE \E k \in B : to[k] = y
    OBVIOUS
  <2>1. y - 1 \in 1..(n - 1) /\ y - 1 + 1 = y /\ es[y] \in K
    BY <1>1, <1>2
  <2>2. r[y - 1] = es[y]
    BY <1>1, <2>1
  <2> QED BY <1>3, <1>4, <2>1, <2>2
<1>7. \A j, k \in B : to[j] = to[k] => j = k
  BY <1>1, <1>3, <1>4
<1>8. to \in Bijection(B, A \ {1})
  <2>1. to \in [B -> A \ {1}]
    BY <1>5 DEF to
  <2>2. to \in Injection(B, A \ {1})
    BY <1>7, <2>1 DEF Injection, IsInjective
  <2>3. to \in Surjection(B, A \ {1})
    BY <1>6, <2>1 DEF Surjection
  <2> QED BY <2>2, <2>3 DEF Bijection
<1>9. IsFiniteSet(A) /\ IsFiniteSet(B)
  BY <1>1, PlacesFinite DEF A, B
<1>10. Cardinality(A \ {1}) = Cardinality(B)
  BY <1>8, <1>9, FS_Bijection DEF ExistsBijection
<1>11. Cardinality(A \ {1}) = IF 1 \in A THEN Cardinality(A) - 1 ELSE Cardinality(A)
  BY <1>9, FS_RemoveElement
<1>12. Cardinality(A) \in Nat /\ Cardinality(B) \in Nat /\ (1 \in A <=> es[1] \in K)
  BY <1>1, <1>2, <1>9, FS_CardinalityType
<1> QED BY <1>10, <1>11, <1>12 DEF A, B, Count, r

LEMMA AppendCount ==
  ASSUME NEW E, NEW es \in Seq(E), NEW e \in E, NEW K
  PROVE  Count(Append(es, e), K) = IF e \in K THEN Count(es, K) + 1 ELSE Count(es, K)
<1> DEFINE n == Len(es)
           r == Append(es, e)
<1>1. n \in Nat /\ r \in Seq(E) /\ Len(r) = n + 1 /\ r[n + 1] = e /\ \A i \in 1..n : r[i] = es[i]
  OBVIOUS
<1> HIDE DEF r
<1>2. IsFiniteSet(Places(es, K)) /\ Count(es, K) \in Nat
  BY PlacesFinite
<1>3. \A i : i \in Places(r, K) <=> i \in Places(es, K) \/ (i = n + 1 /\ e \in K)
  BY <1>1 DEF Places
<1>4. CASE e \in K
  <2>1. Places(r, K) = Places(es, K) \union {n + 1} /\ n + 1 \notin Places(es, K)
    BY <1>1, <1>3, <1>4 DEF Places
  <2> QED BY <1>2, <1>4, <2>1, FS_AddElement DEF Count, r
<1>5. CASE e \notin K
  <2>1. Places(r, K) = Places(es, K)
    BY <1>3, <1>5
  <2> QED BY <1>5, <2>1 DEF Count, r
<1> QED BY <1>4, <1>5

-----------------------------------------------------------------------------
(* Several new events.                                                      *)

LEMMA GrownTwice ==
  ASSUME NEW E, \A x \in E : x.left \in Nat, NEW a \in Seq(E), NEW b \in Seq(E), NEW c \in Seq(E),
         NEW n \in Nat, NEW New1, NEW New2, Grown(a, b, n, New1), Grown(b, c, 0, New2)
  PROVE  Grown(a, c, n, New1 \union New2)
<1>1. PICK f : Follows(a, b, n, New1, f)
  BY DEF Grown
<1>2. PICK g : Follows(b, c, 0, New2, g)
  BY DEF Grown
<1> DEFINE h == [i \in 1..Len(c) |-> IF g[i] = 0 THEN 0 ELSE f[g[i]]]
<1>3. Len(a) \in Nat /\ Len(b) \in Nat /\ Len(c) \in Nat
  OBVIOUS
<1>4. f \in [1..Len(b) -> 0..Len(a)] /\ g \in [1..Len(c) -> 0..Len(b)]
  BY <1>1, <1>2 DEF Follows
<1>5. \A i \in 1..Len(c) : g[i] # 0 => g[i] \in 1..Len(b)
  <2>1. \A i \in 1..Len(c) : g[i] \in 0..Len(b)
    BY <1>4
  <2> QED BY <1>3, <2>1
<1>6. \A i \in 1..Len(c) : h[i] = IF g[i] = 0 THEN 0 ELSE f[g[i]]
  OBVIOUS
<1>7. h \in [1..Len(c) -> 0..Len(a)]
  BY <1>3, <1>4, <1>5
<1> HIDE DEF h
<1>8. \A i \in 1..Len(c) : IF h[i] = 0 THEN c[i] \in New1 \union New2 ELSE h[i] > n /\ c[i] = a[h[i]]
  <2> SUFFICES ASSUME NEW i \in 1..Len(c)
               PROVE  IF h[i] = 0 THEN c[i] \in New1 \union New2 ELSE h[i] > n /\ c[i] = a[h[i]]
    OBVIOUS
  <2>1. CASE g[i] = 0
    BY <1>2, <1>6, <2>1 DEF Follows
  <2>2. CASE g[i] # 0
    <3>1. c[i] = b[g[i]] /\ h[i] = f[g[i]] /\ g[i] \in 1..Len(b)
      BY <1>2, <1>5, <1>6, <2>2 DEF Follows
    <3> QED BY <1>1, <3>1 DEF Follows
  <2> QED BY <2>1, <2>2
<1>9. \A k \in 1..Len(a) : k > n => \E i \in 1..Len(c) : h[i] = k
  <2> SUFFICES ASSUME NEW k \in 1..Len(a), k > n PROVE \E i \in 1..Len(c) : h[i] = k
    OBVIOUS
  <2>1. PICK j \in 1..Len(b) : f[j] = k
    BY <1>1 DEF Follows
  <2>2. PICK i \in 1..Len(c) : g[i] = j
    <3>1. j > 0
      BY <1>3
    <3> QED BY <1>2, <3>1 DEF Follows
  <2>3. g[i] # 0
    BY <1>3, <2>2
  <2> QED BY <1>6, <2>1, <2>2, <2>3
<1>10. \A i, j \in 1..Len(c) : h[i] # 0 /\ h[j] # 0 => (i < j <=> h[i] < h[j])
  <2> SUFFICES ASSUME NEW i \in 1..Len(c), NEW j \in 1..Len(c), h[i] # 0, h[j] # 0
               PROVE  i < j <=> h[i] < h[j]
    OBVIOUS
  <2>1. g[i] # 0 /\ g[j] # 0 /\ h[i] = f[g[i]] /\ h[j] = f[g[j]]
    BY <1>6
  <2>2. g[i] \in 1..Len(b) /\ g[j] \in 1..Len(b)
    BY <1>5, <2>1
  <2>3. i < j <=> g[i] < g[j]
    BY <1>2, <2>1 DEF Follows
  <2>4. g[i] < g[j] <=> f[g[i]] < f[g[j]]
    BY <1>1, <2>1, <2>2 DEF Follows
  <2> QED BY <2>1, <2>3, <2>4
<1>11. \A i, j \in 1..Len(c) : h[i] # 0 /\ h[j] = 0 => (i < j <=> c[i].left <= c[j].left)
  <2> SUFFICES ASSUME NEW i \in 1..Len(c), NEW j \in 1..Len(c), h[i] # 0, h[j] = 0
               PROVE  i < j <=> c[i].left <= c[j].left
    OBVIOUS
  <2>1. g[i] # 0 /\ h[i] = f[g[i]] /\ g[i] \in 1..Len(b) /\ c[i] = b[g[i]]
    BY <1>2, <1>5, <1>6 DEF Follows
  <2>2. CASE g[j] = 0
    BY <1>2, <2>1, <2>2 DEF Follows
  <2>3. CASE g[j] # 0
    <3>1. h[j] = f[g[j]] /\ g[j] \in 1..Len(b) /\ c[j] = b[g[j]]
      BY <1>2, <1>5, <1>6, <2>3 DEF Follows
    <3>2. i < j <=> g[i] < g[j]
      BY <1>2, <2>1, <2>3 DEF Follows
    <3>3. g[i] < g[j] <=> b[g[i]].left <= b[g[j]].left
      BY <1>1, <2>1, <3>1 DEF Follows
    <3> QED BY <2>1, <3>1, <3>2, <3>3
  <2> QED BY <2>2, <2>3
<1>12. \A x \in New1 \union New2 : \E i \in 1..Len(c) : h[i] = 0 /\ c[i] = x
  <2> SUFFICES ASSUME NEW x \in New1 \union New2 PROVE \E i \in 1..Len(c) : h[i] = 0 /\ c[i] = x
    OBVIOUS
  <2>1. CASE x \in New2
    <3>1. PICK i \in 1..Len(c) : g[i] = 0 /\ c[i] = x
      BY <1>2, <2>1 DEF Follows
    <3> QED BY <1>6, <3>1
  <2>2. CASE x \in New1
    <3>1. PICK j \in 1..Len(b) : f[j] = 0 /\ b[j] = x
      BY <1>1, <2>2 DEF Follows
    <3>2. PICK i \in 1..Len(c) : g[i] = j
      <4>1. j > 0
        BY <1>3
      <4> QED BY <1>2, <4>1 DEF Follows
    <3>3. g[i] # 0
      BY <1>3, <3>2
    <3>4. c[i] = b[g[i]]
      BY <1>2, <3>3 DEF Follows
    <3> QED BY <1>6, <3>1, <3>2, <3>3, <3>4
  <2> QED BY <2>1, <2>2
<1>13. Follows(a, c, n, New1 \union New2, h)
  BY <1>7, <1>8, <1>9, <1>10, <1>11, <1>12 DEF Follows
<1> QED BY <1>13 DEF Grown

\* What the calls of a handler leave, one after the other.
Calls(es, new, n, all) == all = [k \in 0..n |-> IF k = 0 THEN es ELSE Scheduled(all[k - 1], new[k])]

LEMMA CallsDefined ==
  ASSUME NEW es, NEW new, NEW n \in Nat
  PROVE  \E all : Calls(es, new, n, all)
<1> DEFINE T == {m \in Nat : ~\E all : Calls(es, new, m, all)}
<1>1. SUFFICES ASSUME T # {} PROVE FALSE
  OBVIOUS
<1>2. PICK m \in T : \A k \in T : <<k, m>> \notin OpToRel(<, Nat)
  <2>1. T \in SUBSET Nat
    OBVIOUS
  <2> HIDE DEF T
  <2> QED BY <1>1, <2>1, WFMin, NatLessThanWellFounded, Zenon
<1>3. m \in Nat /\ ~\E all : Calls(es, new, m, all)
  OBVIOUS
<1>4. CASE m = 0
  <2> DEFINE all == [k \in {0} |-> es]
             step(k) == IF k = 0 THEN es ELSE Scheduled(all[k - 1], new[k])
  <2>1. 0..m = {0}
    BY <1>4
  <2>2. \A k \in {0} : step(k) = es
    OBVIOUS
  <2>3. all = [k \in 0..m |-> step(k)]
    BY <2>1, <2>2, Zenon
  <2> QED BY <1>3, <2>3, Zenon DEF Calls
<1>5. CASE m # 0
  <2>1. m - 1 \in Nat /\ m - 1 < m
    BY <1>3, <1>5
  <2>2. m - 1 \notin T
    <3>1. <<m - 1, m>> \in Nat \X Nat
      BY <1>3, <2>1
    <3> QED BY <1>2, <2>1, <3>1 DEF OpToRel
  <2>3. PICK f : Calls(es, new, m - 1, f)
    BY <2>1, <2>2
  <2> DEFINE all == [k \in 0..m |-> IF k = 0 THEN es ELSE Scheduled(f[k - 1], new[k])]
  <2>4. \A k \in 0..(m - 1) : f[k] = IF k = 0 THEN es ELSE Scheduled(f[k - 1], new[k])
    BY <2>3, Zenon DEF Calls
  <2>5. \A k \in 0..(m - 1) : k \in 0..m
    BY <1>3
  <2>6. \A k \in 0..(m - 1) : all[k] = IF k = 0 THEN es ELSE Scheduled(f[k - 1], new[k])
    BY <2>5, Zenon
  <2>7. \A k \in 0..(m - 1) : all[k] = f[k]
    <3> HIDE DEF all
    <3> QED BY <2>4, <2>6, Zenon
  <2>8. \A k \in 0..m : k # 0 => k - 1 \in 0..(m - 1)
    BY <1>3
  <2>9. \A k \in 0..m : (IF k = 0 THEN es ELSE Scheduled(f[k - 1], new[k]))
                        = (IF k = 0 THEN es ELSE Scheduled(all[k - 1], new[k]))
    <3> HIDE DEF all
    <3> QED BY <2>7, <2>8, Zenon
  <2>10. all = [k \in 0..m |-> IF k = 0 THEN es ELSE Scheduled(all[k - 1], new[k])]
    <3>1. all = [k \in 0..m |-> IF k = 0 THEN es ELSE Scheduled(f[k - 1], new[k])]
      OBVIOUS
    <3> HIDE DEF all
    <3> QED BY <2>9, <3>1, Zenon
  <2> QED BY <1>3, <2>10, Zenon DEF Calls
<1> QED BY <1>4, <1>5

LEMMA ScheduledAllCalls ==
  ASSUME NEW E, NEW es, NEW new \in Seq(E)
  PROVE  \E all : /\ ScheduledAll(es, new) = all[Len(new)]
                  /\ all[0] = es
                  /\ \A k \in 1..Len(new) : all[k] = Scheduled(all[k - 1], new[k])
<1>1. Len(new) \in Nat
  OBVIOUS
<1> DEFINE n == Len(new)
           all == CHOOSE all : all = [k \in 0..n |-> IF k = 0 THEN es ELSE Scheduled(all[k - 1], new[k])]
<1>2. ScheduledAll(es, new) = all[n]
  BY Zenon DEF ScheduledAll
<1>3. all = [k \in 0..n |-> IF k = 0 THEN es ELSE Scheduled(all[k - 1], new[k])]
  <2>1. \E a : Calls(es, new, n, a)
    BY <1>1, CallsDefined
  <2> QED BY <2>1, Zenon DEF Calls
<1> HIDE DEF all
<1>4. \A k \in 0..n : all[k] = IF k = 0 THEN es ELSE Scheduled(all[k - 1], new[k])
  BY <1>3, Zenon
<1>5. 0 \in 0..n /\ \A k \in 1..n : k \in 0..n /\ k # 0
  BY <1>1
<1>6. all[0] = es /\ \A k \in 1..n : all[k] = Scheduled(all[k - 1], new[k])
  BY <1>4, <1>5, Zenon
<1> QED BY <1>2, <1>6

LEMMA ScheduledOne ==
  ASSUME NEW es, NEW a
  PROVE  ScheduledAll(es, <<a>>) = Scheduled(es, a)
<1> DEFINE new == <<a>>
<1>1. new \in Seq({a}) /\ Len(new) = 1 /\ new[1] = a
  OBVIOUS
<1> HIDE DEF new
<1>2. PICK all : /\ ScheduledAll(es, new) = all[Len(new)]
                 /\ all[0] = es
                 /\ \A k \in 1..Len(new) : all[k] = Scheduled(all[k - 1], new[k])
  BY <1>1, ScheduledAllCalls
<1>3. 1 \in 1..Len(new) /\ 1 - 1 = 0
  BY <1>1
<1>4. all[1] = Scheduled(all[0], new[1])
  BY <1>2, <1>3
<1> QED BY <1>1, <1>2, <1>4 DEF new

LEMMA ScheduledTwo ==
  ASSUME NEW es, NEW a, NEW b
  PROVE  ScheduledAll(es, <<a, b>>) = Scheduled(Scheduled(es, a), b)
<1> DEFINE new == <<a, b>>
<1>1. new \in Seq({a, b}) /\ Len(new) = 2 /\ new[1] = a /\ new[2] = b
  OBVIOUS
<1> HIDE DEF new
<1>2. PICK all : /\ ScheduledAll(es, new) = all[Len(new)]
                 /\ all[0] = es
                 /\ \A k \in 1..Len(new) : all[k] = Scheduled(all[k - 1], new[k])
  BY <1>1, ScheduledAllCalls
<1>3. 1 \in 1..Len(new) /\ 2 \in 1..Len(new) /\ 1 - 1 = 0 /\ 2 - 1 = 1
  BY <1>1
<1>4. all[1] = Scheduled(all[0], new[1]) /\ all[2] = Scheduled(all[1], new[2])
  BY <1>2, <1>3
<1> QED BY <1>1, <1>2, <1>4 DEF new

-----------------------------------------------------------------------------
(* Several new events: what is counted.                                     *)

LEMMA FirstEvents ==
  ASSUME NEW E, NEW new \in Seq(E), NEW k \in 1..Len(new)
  PROVE  /\ SubSeq(new, 1, k) = Append(SubSeq(new, 1, k - 1), new[k])
         /\ SubSeq(new, 1, k - 1) \in Seq(E) /\ new[k] \in E
<1> DEFINE a == SubSeq(new, 1, k)
           b == SubSeq(new, 1, k - 1)
<1>1. k \in Nat /\ 1 <= k /\ k <= Len(new) /\ Len(new) \in Nat
  OBVIOUS
<1>2. a \in Seq(E) /\ Len(a) = k /\ \A i \in 1..k : a[i] = new[i]
  BY <1>1
<1>3. b \in Seq(E) /\ Len(b) = k - 1 /\ \A i \in 1..(k - 1) : b[i] = new[i]
  BY <1>1
<1>4. new[k] \in E
  OBVIOUS
<1> HIDE DEF a, b
<1>5. Append(b, new[k]) \in Seq(E) /\ Len(Append(b, new[k])) = k
  BY <1>1, <1>3, <1>4
<1>6. \A i \in 1..k : Append(b, new[k])[i] = new[i]
  <2> TAKE i \in 1..k
  <2>1. CASE i = k
    BY <1>1, <1>3, <2>1
  <2>2. CASE i # k
    <3>1. i \in 1..(k - 1)
      BY <1>1, <2>2
    <3> QED BY <1>3, <3>1
  <2> QED BY <2>1, <2>2
<1>7. Append(b, new[k]) = a
  BY <1>2, <1>5, <1>6
<1> QED BY <1>3, <1>4, <1>7 DEF a, b

LEMMA ScheduledAllCount ==
  ASSUME NEW E, \A x \in E : x.left \in Nat, NEW es, IsQueue(es, E), NEW new \in Seq(E)
  PROVE  /\ IsQueue(ScheduledAll(es, new), E)
         /\ \A K : Count(ScheduledAll(es, new), K) = Count(es, K) + Count(new, K)
<1> DEFINE n == Len(new)
<1>1. n \in Nat
  OBVIOUS
<1>2. PICK all : /\ ScheduledAll(es, new) = all[n]
                 /\ all[0] = es
                 /\ \A k \in 1..n : all[k] = Scheduled(all[k - 1], new[k])
  BY ScheduledAllCalls
<1> DEFINE Good(k) == /\ IsQueue(all[k], E)
                      /\ \A K : Count(all[k], K) = Count(es, K) + Count(SubSeq(new, 1, k), K)
           S == {k \in 0..n : ~Good(k)}
<1>3. Good(0)
  <2>1. SubSeq(new, 1, 0) = <<>>
    OBVIOUS
  <2>2. \A K : Count(<<>>, K) = 0
    <3> TAKE K
    <3>1. <<>> \in Seq(E) /\ \A i \in 1..Len(<<>>) : <<>>[i] \notin K
      OBVIOUS
    <3> QED BY <3>1, CountNone
  <2>3. \A K : Count(es, K) \in Nat
    BY PlacesFinite DEF IsQueue
  <2>4. \A K : Count(es, K) = Count(es, K) + 0
    BY <2>3
  <2>5. all[0] = es
    BY <1>2
  <2>6. \A K : Count(all[0], K) = Count(es, K) + Count(SubSeq(new, 1, 0), K)
    BY <2>1, <2>2, <2>4, <2>5
  <2> QED BY <2>5, <2>6
<1>4. ASSUME NEW k \in 1..n, Good(k - 1) PROVE Good(k)
  <2>1. IsQueue(all[k - 1], E) /\ new[k] \in E /\ all[k] = Scheduled(all[k - 1], new[k])
    BY <1>2, <1>4
  <2>2. IsQueue(all[k], E)
    BY <2>1, ScheduledGrown
  <2>3. \A K : Count(all[k], K) = IF new[k] \in K THEN Count(all[k - 1], K) + 1 ELSE Count(all[k - 1], K)
    BY <2>1, ScheduledCount
  <2>4. /\ SubSeq(new, 1, k) = Append(SubSeq(new, 1, k - 1), new[k])
        /\ SubSeq(new, 1, k - 1) \in Seq(E) /\ new[k] \in E
    BY FirstEvents
  <2>5. \A K : Count(SubSeq(new, 1, k), K)
               = IF new[k] \in K THEN Count(SubSeq(new, 1, k - 1), K) + 1 ELSE Count(SubSeq(new, 1, k - 1), K)
    <3> DEFINE before == SubSeq(new, 1, k - 1)
               x == new[k]
    <3>1. before \in Seq(E) /\ x \in E /\ SubSeq(new, 1, k) = Append(before, x)
      BY <2>4
    <3> HIDE DEF before, x
    <3>2. \A K : Count(Append(before, x), K) = IF x \in K THEN Count(before, K) + 1 ELSE Count(before, K)
      BY <3>1, AppendCount
    <3> QED BY <3>1, <3>2 DEF before, x
  <2>6. \A K : Count(es, K) \in Nat /\ Count(SubSeq(new, 1, k - 1), K) \in Nat
    BY <2>4, PlacesFinite DEF IsQueue
  <2>7. \A K : Count(all[k - 1], K) = Count(es, K) + Count(SubSeq(new, 1, k - 1), K)
    BY <1>4
  <2> HIDE DEF n
  <2>8. \A K : Count(all[k], K) = Count(es, K) + Count(SubSeq(new, 1, k), K)
    <3> TAKE K
    <3> DEFINE x == Count(es, K)
               y == Count(SubSeq(new, 1, k - 1), K)
               z == Count(SubSeq(new, 1, k), K)
               u == Count(all[k - 1], K)
               v == Count(all[k], K)
    <3>1. x \in Nat /\ y \in Nat /\ u = x + y
      BY <2>6, <2>7
    <3>2. z = (IF new[k] \in K THEN y + 1 ELSE y) /\ v = (IF new[k] \in K THEN u + 1 ELSE u)
      BY <2>3, <2>5
    <3> HIDE DEF x, y, z, u, v
    <3>3. v = x + z
      BY <3>1, <3>2
    <3> QED BY <3>3 DEF x, z, v
  <2> QED BY <2>2, <2>8
<1>5. S = {}
  <2> SUFFICES ASSUME S # {} PROVE FALSE
    OBVIOUS
  <2>1. S \in SUBSET Nat
    BY <1>1
  <2> HIDE DEF S, Good
  <2>2. PICK k \in S : \A j \in S : <<j, k>> \notin OpToRel(<, Nat)
    BY <2>1, WFMin, NatLessThanWellFounded, Zenon
  <2>3. k \in 0..n /\ ~Good(k)
    BY <2>2 DEF S
  <2>4. k \in 1..n
    BY <1>1, <1>3, <2>3
  <2>5. k - 1 \notin S
    <3>1. <<k - 1, k>> \in Nat \X Nat /\ k - 1 < k
      BY <1>1, <2>4
    <3> QED BY <2>2, <3>1 DEF OpToRel
  <2>6. Good(k - 1)
    BY <1>1, <2>4, <2>5 DEF S
  <2> QED BY <1>4, <2>3, <2>4, <2>6
<1>6. Good(n)
  BY <1>1, <1>5
<1>7. SubSeq(new, 1, n) = new
  OBVIOUS
<1> QED BY <1>2, <1>6, <1>7

-----------------------------------------------------------------------------
\* The time moves on: nothing but the times changes.
Timed(E) ==
  \A x \in E : /\ x.left \in Nat
               /\ [x EXCEPT !.left = OneLess(x.left)] \in E
               /\ [x EXCEPT !.left = OneLess(x.left)].left = OneLess(x.left)

Aged(es) ==
  \A i \in 1..Len(es) : /\ Elapsed(es)[i] = [es[i] EXCEPT !.left = OneLess(es[i].left)]
                        /\ es[i].left \in Nat \ {0} /\ Elapsed(es)[i].left = es[i].left - 1

LEMMA ElapsedQueue ==
  ASSUME NEW E, Timed(E), NEW es, IsQueue(es, E), es # <<>>, IsQuiet(es)
  PROVE  IsQueue(Elapsed(es), E) /\ Len(Elapsed(es)) = Len(es) /\ Aged(es)
<1>1. /\ Len(es) \in Nat \ {0} /\ DOMAIN es = 1..Len(es) /\ \A i \in 1..Len(es) : es[i] \in E
      /\ Head(es) = es[1]
  BY DEF IsQueue
<1>0. \A x \in E : [x EXCEPT !.left = OneLess(x.left)].left = OneLess(x.left)
  BY DEF Timed
<1>2. \A i \in 1..Len(es) : es[i].left \in Nat \ {0}
  <2> SUFFICES ASSUME NEW i \in 1..Len(es) PROVE es[i].left \in Nat \ {0}
    OBVIOUS
  <2>1. es[1].left \in Nat \ {0} /\ es[i].left \in Nat
    <3>1. \A x \in E : x.left \in Nat
      BY DEF Timed
    <3> QED BY <1>1, <3>1 DEF IsQuiet
  <2>2. es[1].left <= es[i].left
    BY <1>1, <2>1 DEF IsQueue
  <2> QED BY <2>1, <2>2
<1>3. Elapsed(es) = [i \in 1..Len(es) |-> [es[i] EXCEPT !.left = OneLess(es[i].left)]]
  BY <1>1 DEF Elapsed
<1>4. \A i \in 1..Len(es) : Elapsed(es)[i] = [es[i] EXCEPT !.left = OneLess(es[i].left)]
  BY <1>3, Zenon
<1>5. \A i \in 1..Len(es) : Elapsed(es)[i] \in E
  <2>1. \A x \in E : [x EXCEPT !.left = OneLess(x.left)] \in E
    BY DEF Timed
  <2> QED BY <1>1, <1>4, <2>1, ZenonT(60)
<1>6. Elapsed(es) \in [1..Len(es) -> E]
  <2>1. \A x \in E : [x EXCEPT !.left = OneLess(x.left)] \in E
    BY DEF Timed
  <2> QED BY <1>1, <1>3, <2>1
<1>7. Elapsed(es) \in Seq(E) /\ Len(Elapsed(es)) = Len(es)
  BY <1>1, <1>6
<1>8. \A i \in 1..Len(es) : Elapsed(es)[i].left = es[i].left - 1
  BY <1>1, <1>2, <1>4, <1>0 DEF OneLess
<1>9. \A i, j \in 1..Len(es) : i < j => Elapsed(es)[i].left <= Elapsed(es)[j].left
  <2> SUFFICES ASSUME NEW i \in 1..Len(es), NEW j \in 1..Len(es), i < j
               PROVE  Elapsed(es)[i].left <= Elapsed(es)[j].left
    OBVIOUS
  <2>1. es[i].left <= es[j].left
    BY DEF IsQueue
  <2> QED BY <1>2, <1>8, <2>1
<1> QED BY <1>2, <1>4, <1>7, <1>8, <1>9 DEF IsQueue, Aged

=============================================================================
