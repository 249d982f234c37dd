--------------------------- MODULE AccessListProofs ---------------------------
(***************************************************************************)
(* Safety of AccessList for any number of accesses, blocks and ports.      *)
(***************************************************************************)
EXTENDS AccessList, FiniteSetTheorems, WellFoundedInduction, TLAPS

-----------------------------------------------------------------------------
(* The oldest and the youngest of a set.  The minimum of a set of numbers     *)
(* exists because < is well-founded, the maximum is found counting down.      *)

LEMMA OldestFacts ==
  ASSUME NEW S, S \subseteq Accesses
  PROVE  /\ Oldest(S) = 0 <=> S = {}
         /\ S # {} => Oldest(S) \in S /\ \A y \in S : Oldest(S) <= y
<1>1. S \subseteq Nat /\ 0 \notin S
  BY BoundsAssumption DEF Accesses
<1>2. ASSUME S # {} PROVE Oldest(S) \in S /\ \A y \in S : Oldest(S) <= y
  <2>1. PICK x \in S : \A y \in S : <<y, x>> \notin OpToRel(<, Nat)
    BY <1>1, <1>2, WFMin, NatLessThanWellFounded, Zenon
  <2>2. \A y \in S : ~(y < x)
    <3> TAKE y \in S
    <3>1. <<y, x>> \in Nat \X Nat
      BY <1>1
    <3>2. y < x => <<y, x>> \in OpToRel(<, Nat)
      BY <3>1 DEF OpToRel
    <3> QED BY <2>1, <3>2
  <2>3. \A y \in S : x <= y
    BY <1>1, <2>2
  <2> QED BY <1>2, <2>3 DEF Oldest, Min
<1> QED BY <1>1, <1>2 DEF Oldest

LEMMA YoungestFacts ==
  ASSUME NEW S, S \subseteq Accesses
  PROVE  /\ Youngest(S) = 0 <=> S = {}
         /\ S # {} => Youngest(S) \in S /\ \A y \in S : y <= Youngest(S)
<1>1. S \subseteq 1..MaxAccess /\ MaxAccess \in Nat
  BY BoundsAssumption, Zenon DEF Accesses
<1>2. ASSUME S # {} PROVE Youngest(S) \in S /\ \A y \in S : y <= Youngest(S)
  <2> DEFINE T == {MaxAccess - x : x \in S}
  <2>1. T # {}
    BY <1>2
  <2>2. T \subseteq Nat
    BY <1>1
  <2>3. PICK x \in T : \A y \in T : <<y, x>> \notin OpToRel(<, Nat)
    <3> HIDE DEF T
    <3> QED BY <2>1, <2>2, WFMin, NatLessThanWellFounded, Zenon
  <2>4. \A y \in T : ~(y < x)
    <3> TAKE y \in T
    <3>1. <<y, x>> \in Nat \X Nat
      BY <2>2
    <3>2. y < x => <<y, x>> \in OpToRel(<, Nat)
      BY <3>1 DEF OpToRel
    <3> QED BY <2>3, <3>2
  <2>5. PICK z \in S : x = MaxAccess - z
    BY <2>3
  <2>6. \A y \in S : z >= y
    <3> TAKE y \in S
    <3>1. ~(MaxAccess - y < MaxAccess - z)
      BY <2>4, <2>5
    <3> QED BY <1>1, <3>1
  <2>7. Max(S) \in S /\ \A y \in S : Max(S) >= y
    BY <2>6 DEF Max
  <2> QED BY <1>1, <1>2, <2>7 DEF Youngest
<1> QED BY <1>1, <1>2 DEF Youngest
-----------------------------------------------------------------------------
(* The list of the interconnect.                                             *)

LEMMA AppendFacts ==
  ASSUME NEW S, NEW q \in Seq(S), NEW x \in S
  PROVE  /\ Append(q, x) \in Seq(S) /\ Append(q, x) # <<>>
         /\ ToSet(Append(q, x)) = ToSet(q) \union {x}
         /\ IsInjective(q) /\ x \notin ToSet(q) => IsInjective(Append(q, x))
<1>1. /\ Append(q, x) \in Seq(S) /\ Append(q, x) # <<>>
      /\ Len(q) \in Nat
      /\ DOMAIN q = 1..Len(q) /\ DOMAIN Append(q, x) = 1..(Len(q) + 1)
      /\ \A i \in 1..Len(q) : Append(q, x)[i] = q[i]
      /\ Append(q, x)[Len(q) + 1] = x
  OBVIOUS
<1>2. ToSet(Append(q, x)) = ToSet(q) \union {x}
  <2>1. ASSUME NEW y \in ToSet(Append(q, x)) PROVE y \in ToSet(q) \union {x}
    BY <1>1 DEF ToSet
  <2>2. ASSUME NEW y \in ToSet(q) PROVE y \in ToSet(Append(q, x))
    BY <1>1 DEF ToSet
  <2>3. x \in ToSet(Append(q, x))
    BY <1>1 DEF ToSet
  <2> QED BY <2>1, <2>2, <2>3
<1>3. ASSUME IsInjective(q), x \notin ToSet(q) PROVE IsInjective(Append(q, x))
  BY <1>1, <1>3 DEF ToSet, IsInjective
<1> QED BY <1>1, <1>2, <1>3

LEMMA TailFacts ==
  ASSUME NEW S, NEW q \in Seq(S), q # <<>>
  PROVE  /\ Head(q) \in S /\ Head(q) \in ToSet(q) /\ Tail(q) \in Seq(S)
         /\ IsInjective(q) => /\ IsInjective(Tail(q))
                              /\ ToSet(Tail(q)) = ToSet(q) \ {Head(q)}
<1>1. /\ Tail(q) \in Seq(S) /\ Len(q) \in Nat \ {0}
      /\ DOMAIN q = 1..Len(q) /\ DOMAIN Tail(q) = 1..(Len(q) - 1)
      /\ \A i \in 1..(Len(q) - 1) : Tail(q)[i] = q[i + 1]
      /\ Head(q) = q[1] /\ q[1] \in S
  OBVIOUS
<1>2. Head(q) \in ToSet(q)
  BY <1>1 DEF ToSet
<1>3. ASSUME IsInjective(q)
      PROVE  IsInjective(Tail(q)) /\ ToSet(Tail(q)) = ToSet(q) \ {Head(q)}
  <2>1. IsInjective(Tail(q))
    BY <1>1, <1>3 DEF IsInjective
  <2>2. ASSUME NEW y \in ToSet(Tail(q)) PROVE y \in ToSet(q) \ {Head(q)}
    BY <1>1, <1>3 DEF IsInjective, ToSet
  <2>3. ASSUME NEW y \in ToSet(q) \ {Head(q)} PROVE y \in ToSet(Tail(q))
    <3>1. PICK i \in 1..Len(q) : y = q[i]
      BY <1>1 DEF ToSet
    <3>2. i # 1 /\ i - 1 \in 1..(Len(q) - 1) /\ q[i] = Tail(q)[i - 1]
      BY <1>1, <3>1
    <3> QED BY <1>1, <3>1, <3>2 DEF ToSet
  <2> QED BY <2>1, <2>2, <2>3
<1> QED BY <1>1, <1>2, <1>3

-----------------------------------------------------------------------------
(* The invariant about waiting: accesses enter the list in their order, the  *)
(* waiting list an access is in says whether it waits, and register accesses *)
(* alone use ports.                                                          *)

EnteredInOrder == \A x, y \in Accesses : pc[x] = "NEW" /\ x < y => pc[y] = "NEW"

Listed ==
  \A x \in Accesses :
    /\ waitsFor[x] = 0 <=> pc[x] \notin {"WAIT", "SLAVE"}
    /\ pc[x] \in {"SLAVE", "FINISH"} => kind[x] \notin Registers
    /\ pc[x] = "QUEUED" => kind[x] \in Registers

ListInv == TypeOK /\ PortBound /\ EnteredInOrder /\ Listed /\ WaitsForOlder

\* The accesses that hold a port.
Served == {a \in Accesses : pc[a] = "RUN" /\ kind[a] \in Registers}
Queued == {a \in Accesses : pc[a] = "QUEUED"}

LEMMA PortBoundFacts ==
  PortBound <=> /\ portuse = Cardinality(Served) /\ portuse <= Port
                /\ IsInjective(memoplist) /\ ToSet(memoplist) = Queued
  BY Zenon DEF PortBound, Served, Queued

LEMMA ServedFinite == IsFiniteSet(Served) /\ Cardinality(Served) \in Nat
<1>1. IsFiniteSet(Accesses)
  BY BoundsAssumption, FS_Interval, SMT DEF Accesses
<1>2. Served \in SUBSET Accesses
  BY DEF Served
<1> QED BY <1>1, <1>2, FS_Subset, FS_CardinalityType

LEMMA InitList == Init => ListInv
<1> SUFFICES ASSUME Init PROVE ListInv
  OBVIOUS
<1>1. /\ kind = [a \in Accesses |-> "load"] /\ pc = [a \in Accesses |-> "NEW"]
      /\ blk = [a \in Accesses |-> CHOOSE b \in Blocks : TRUE]
      /\ waitsFor = [a \in Accesses |-> 0] /\ portuse = 0 /\ memoplist = <<>>
  BY DEF Init
<1>2. (CHOOSE b \in Blocks : TRUE) \in Blocks
  BY BoundsAssumption
<1>3. TypeOK
  BY <1>1, <1>2 DEF TypeOK, Kinds
<1>4. PortBound
  <2>1. Served = {} /\ Queued = {}
    BY <1>1 DEF Served, Queued
  <2>2. IsInjective(memoplist) /\ ToSet(memoplist) = {}
    BY <1>1 DEF IsInjective, ToSet
  <2>3. Cardinality(Served) = 0 /\ 0 <= Port
    BY <2>1, FS_EmptySet, BoundsAssumption
  <2> QED BY <1>1, <2>1, <2>2, <2>3, PortBoundFacts
<1> QED BY <1>1, <1>3, <1>4 DEF ListInv, EnteredInOrder, Listed, WaitsForOlder

-----------------------------------------------------------------------------
(* What an access waits for, and what it is coalesced with.                  *)

LEMMA OlderIsBefore ==
  ASSUME NEW a \in Accesses, Older(a) # 0
  PROVE  Older(a) \in Before(a)
<1> DEFINE Writes == {b \in Before(a) : kind[b] = "store"}
           Same   == {b \in Before(a) : blk[b] = blk[a]}
<1>1. Before(a) \subseteq Accesses /\ Writes \subseteq Before(a) /\ Same \subseteq Before(a)
  BY DEF Before, InFlight
<1> HIDE DEF Writes, Same
<1>2. Oldest(Same) # 0 => Oldest(Same) \in Same
  BY <1>1, OldestFacts
<1>3. Youngest(Writes) # 0 => Youngest(Writes) \in Writes
  BY <1>1, YoungestFacts
<1>4. Youngest(Before(a)) # 0 => Youngest(Before(a)) \in Before(a)
  BY <1>1, YoungestFacts
<1>5. Older(a) \in {Youngest(Before(a)), Oldest(Same), Youngest(Writes)}
  BY DEF Older, InFlightAddress, InFlightWrite, Writes, Same
<1> QED BY <1>1, <1>2, <1>3, <1>4, <1>5

\* An access is coalesced with an access s in flight of its kind and block, or with that one's
\* own master, and no younger access in flight could conflict with it.
LEMMA Coalesced ==
  ASSUME NEW k, NEW b, NEW locked, Master(k, b, locked) # 0
  PROVE  \E s \in InFlight :
           /\ Master(k, b, locked) = MasterOf(s) /\ kind[s] = k /\ blk[s] = b
           /\ k \in {"load", "store", "nc_store"}
           /\ \A y \in InFlight : y > s => k = "load" /\ kind[y] = "load" /\ blk[y] # b
<1> DEFINE L == {x \in InFlight : blk[x] = b /\ \A y \in InFlight : y >= x => kind[y] = "load"}
           m == Master(k, b, locked)
<1>1. /\ InFlight \subseteq Accesses /\ L \subseteq Accesses
      /\ \A x \in L : x \in InFlight /\ blk[x] = b
      /\ \A x \in L, y \in InFlight : y >= x => kind[y] = "load"
      /\ \A x \in Accesses : x \in Nat
  BY BoundsAssumption DEF InFlight, Accesses
<1>2. CASE k = "load"
  <2>1. m = CoalesceLoad(b, InFlight)
    BY <1>2 DEF Master
  <2>2. Youngest(L) # 0 /\ m = MasterOf(Youngest(L))
    BY <2>1 DEF CoalesceLoad
  <2> DEFINE s == Youngest(L)
  <2>3. s \in InFlight /\ s \in L /\ s \in Nat /\ kind[s] = "load" /\ blk[s] = b /\ \A y \in L : y <= s
    <3> HIDE DEF L
    <3> QED BY <1>1, <2>2, YoungestFacts
  <2>4. ASSUME NEW y \in InFlight, y > s PROVE kind[y] = "load" /\ blk[y] # b
    <3>1. y \in Nat /\ \A z \in InFlight : z \in Nat /\ (z >= y => z >= s)
      BY <1>1, <2>3, <2>4
    <3>2. \A z \in InFlight : z >= y => kind[z] = "load"
      BY <1>1, <2>3, <3>1
    <3>3. y \notin L
      BY <2>3, <2>4, <3>1
    <3> QED BY <3>1, <3>2, <3>3
  <2> HIDE DEF s, m, L
  <2>5. m = MasterOf(s)
    BY <2>2 DEF s
  <2> QED BY <1>2, <2>3, <2>4, <2>5 DEF m
<1>3. CASE k \in {"store", "nc_store"}
  <2>1. m = CoalesceStore(k, b, InFlight, locked)
    BY <1>3 DEF Master
  <2> DEFINE s == Youngest(InFlight)
  <2>2. s # 0 /\ kind[s] = k /\ blk[s] = b /\ m = MasterOf(s)
    BY <2>1 DEF CoalesceStore
  <2>3. s \in InFlight /\ \A y \in InFlight : y <= s
    BY <1>1, <2>2, YoungestFacts
  <2>4. \A y \in InFlight : ~(y > s)
    BY <1>1, <2>3
  <2> HIDE DEF s, m
  <2> QED BY <1>3, <2>2, <2>3, <2>4 DEF m
<1>4. CASE k \notin {"load", "store", "nc_store"}
  BY <1>4 DEF Master
<1> QED BY <1>2, <1>3, <1>4

\* The access it is coalesced with is in flight, older, and not coalesced itself.
LEMMA MasterIsBefore ==
  ASSUME ListInv, NEW a \in Accesses, pc[a] = "NEW",
         NEW k, NEW b, NEW locked, Master(k, b, locked) # 0
  PROVE  LET m == Master(k, b, locked) IN
         /\ m \in InFlight /\ m < a /\ pc[m] # "SLAVE"
         /\ kind[m] = k /\ blk[m] = b /\ k \notin Registers
<1> DEFINE m == Master(k, b, locked)
<1>1. InFlight \subseteq Accesses
  BY DEF InFlight
<1>2. PICK s \in InFlight : m = MasterOf(s) /\ kind[s] = k /\ blk[s] = b /\ k \in {"load", "store", "nc_store"}
  BY Coalesced
<1> HIDE DEF m
<1>3. \A x \in InFlight : x < a
  <2> TAKE x \in InFlight
  <2>1. pc[x] # "NEW" /\ x \in Nat /\ a \in Nat
    BY <1>1 DEF InFlight, Accesses
  <2>2. ~(a < x) /\ x # a
    BY <1>1, <2>1 DEF ListInv, EnteredInOrder
  <2> QED BY <2>1, <2>2
<1>4. CASE pc[s] = "SLAVE"
  <2>1. m = waitsFor[s]
    BY <1>2, <1>4 DEF MasterOf
  <2>2. m \in Before(s) /\ blk[m] = b /\ kind[m] = k /\ pc[m] # "SLAVE"
    BY <1>1, <1>2, <1>4, <2>1 DEF ListInv, WaitsForOlder
  <2> QED BY <1>2, <1>3, <2>2 DEF m, Before, Registers
<1>5. CASE pc[s] # "SLAVE"
  BY <1>2, <1>3, <1>5 DEF MasterOf, m, Registers
<1> QED BY <1>4, <1>5

-----------------------------------------------------------------------------
(* The steps keep the invariant about waiting.                               *)

\* One access goes on, waits for an older one or queues.
LEMMA Moved ==
  ASSUME ListInv, NEW a \in Accesses, pc[a] = "LOCK",
         NEW v \in {"WAIT", "RUN", "QUEUED"}, pc' = [pc EXCEPT ![a] = v],
         v = "QUEUED" => kind[a] \in Registers,
         UNCHANGED <<kind, blk>>,
         \/ v # "WAIT" /\ waitsFor' = waitsFor
         \/ v = "WAIT" /\ \E w \in Before(a) : waitsFor' = [waitsFor EXCEPT ![a] = w]
  PROVE  /\ EnteredInOrder' /\ Listed' /\ WaitsForOlder'
         /\ pc' \in [Accesses -> {"NEW", "LOCK", "WAIT", "SLAVE", "RUN", "QUEUED", "FINISH", "DONE"}]
         /\ waitsFor' \in [Accesses -> Accesses \union {0}]
<1>1. /\ pc \in [Accesses -> {"NEW", "LOCK", "WAIT", "SLAVE", "RUN", "QUEUED", "FINISH", "DONE"}]
      /\ waitsFor \in [Accesses -> Accesses \union {0}] /\ kind' = kind /\ blk' = blk
      /\ EnteredInOrder /\ Listed /\ WaitsForOlder
  BY DEF ListInv, TypeOK
<1>2. /\ pc'[a] = v /\ v \notin {"NEW", "DONE", "SLAVE", "FINISH"}
      /\ \A x \in Accesses \ {a} : pc'[x] = pc[x] /\ waitsFor'[x] = waitsFor[x]
      /\ \A x \in Accesses : pc'[x] # "NEW" <=> pc[x] # "NEW"
  BY <1>1
<1>3. InFlight' = InFlight /\ \A x \in Accesses : Before(x)' = Before(x)
  BY <1>2 DEF InFlight, Before
<1>4. waitsFor'[a] = 0 <=> v # "WAIT"
  BY <1>1, BoundsAssumption DEF Before, InFlight, Accesses, Listed
<1>5. v = "WAIT" => waitsFor'[a] \in Before(a)
  BY <1>1
<1>6. EnteredInOrder'
  BY <1>1, <1>2 DEF EnteredInOrder
<1>7. Listed'
  <2> SUFFICES ASSUME NEW x \in Accesses
               PROVE  /\ waitsFor'[x] = 0 <=> pc'[x] \notin {"WAIT", "SLAVE"}
                      /\ pc'[x] \in {"SLAVE", "FINISH"} => kind[x] \notin Registers
                      /\ pc'[x] = "QUEUED" => kind[x] \in Registers
    BY <1>1 DEF Listed
  <2>1. CASE x = a
    BY <1>2, <1>4, <2>1
  <2>2. CASE x # a
    BY <1>1, <1>2, <2>2 DEF Listed
  <2> QED BY <2>1, <2>2
<1>8. WaitsForOlder'
  <2> SUFFICES ASSUME NEW x \in Accesses, pc'[x] \in {"WAIT", "SLAVE"}
               PROVE  /\ waitsFor'[x] \in Before(x)
                      /\ pc'[x] = "SLAVE" =>
                           /\ blk[waitsFor'[x]] = blk[x] /\ kind[waitsFor'[x]] = kind[x]
                           /\ pc'[waitsFor'[x]] # "SLAVE"
    BY <1>1, <1>3 DEF WaitsForOlder
  <2>1. CASE x = a
    BY <1>2, <1>5, <2>1
  <2>2. CASE x # a
    BY <1>1, <1>2, <2>2 DEF WaitsForOlder, Before, InFlight
  <2> QED BY <2>1, <2>2
<1> QED BY <1>1, <1>6, <1>7, <1>8 DEF Before, InFlight

\* An access finishes: who waits for it looks again, who was coalesced with it finishes
\* next, and the first of the interconnect's list, h, starts over.
LEMMA Woken ==
  ASSUME ListInv, NEW a \in Accesses, pc[a] \in {"RUN", "FINISH"},
         NEW h, h \in Accesses => pc[h] = "QUEUED",
         pc' = [x \in Accesses |-> IF x = h THEN "LOCK" ELSE Wake(a, x)],
         waitsFor' = Released(a), UNCHANGED <<kind, blk>>
  PROVE  /\ EnteredInOrder' /\ Listed' /\ WaitsForOlder'
         /\ pc' \in [Accesses -> {"NEW", "LOCK", "WAIT", "SLAVE", "RUN", "QUEUED", "FINISH", "DONE"}]
         /\ waitsFor' \in [Accesses -> Accesses \union {0}]
         /\ Served' = Served \ {a} /\ Queued' = Queued \ {h}
<1>1. /\ pc \in [Accesses -> {"NEW", "LOCK", "WAIT", "SLAVE", "RUN", "QUEUED", "FINISH", "DONE"}]
      /\ waitsFor \in [Accesses -> Accesses \union {0}] /\ kind' = kind /\ blk' = blk
      /\ EnteredInOrder /\ Listed /\ WaitsForOlder /\ a # 0 /\ a # h
  BY BoundsAssumption DEF ListInv, TypeOK, Accesses
<1>2. ASSUME NEW x \in Accesses
      PROVE  /\ x = a => pc'[x] = "DONE" /\ waitsFor'[x] = 0
             /\ x = h => pc[x] = "QUEUED" /\ pc'[x] = "LOCK" /\ waitsFor'[x] = 0
             /\ x # a /\ x # h /\ waitsFor[x] # a => pc'[x] = pc[x] /\ waitsFor'[x] = waitsFor[x]
             /\ waitsFor[x] = a => /\ x # a /\ x # h /\ waitsFor'[x] = 0
                                   /\ \/ pc[x] = "SLAVE" /\ pc'[x] = "FINISH"
                                      \/ pc[x] = "WAIT" /\ pc'[x] = "LOCK"
  BY <1>1 DEF Wake, Released, Listed
<1>3. \A x \in Accesses : pc'[x] = "NEW" <=> pc[x] = "NEW"
  BY <1>1, <1>2
<1>4. EnteredInOrder'
  BY <1>1, <1>3 DEF EnteredInOrder
<1>5. Listed'
  BY <1>1, <1>2 DEF Listed
<1>6. WaitsForOlder'
  <2> SUFFICES ASSUME NEW x \in Accesses, pc'[x] \in {"WAIT", "SLAVE"}
               PROVE  /\ waitsFor'[x] \in Before(x)'
                      /\ pc'[x] = "SLAVE" =>
                           /\ blk[waitsFor'[x]] = blk[x] /\ kind[waitsFor'[x]] = kind[x]
                           /\ pc'[waitsFor'[x]] # "SLAVE"
    BY <1>1 DEF WaitsForOlder
  <2>1. pc'[x] = pc[x] /\ waitsFor'[x] = waitsFor[x] /\ waitsFor[x] # a
    BY <1>1, <1>2
  <2>2. waitsFor[x] \in Before(x) /\ waitsFor[x] \in Accesses
    BY <1>1, <2>1 DEF WaitsForOlder, Before, InFlight
  <2>3. pc'[waitsFor[x]] \notin {"NEW", "DONE"}
    BY <1>1, <1>2, <2>1, <2>2 DEF Before, InFlight
  <2>4. pc[waitsFor[x]] # "SLAVE" => pc'[waitsFor[x]] # "SLAVE"
    BY <1>1, <1>2, <2>2
  <2> QED BY <1>1, <2>1, <2>2, <2>3, <2>4 DEF WaitsForOlder, Before, InFlight
<1>7. pc' \in [Accesses -> {"NEW", "LOCK", "WAIT", "SLAVE", "RUN", "QUEUED", "FINISH", "DONE"}]
  <2>1. \A x \in Accesses : pc'[x] \in {"NEW", "LOCK", "WAIT", "SLAVE", "RUN", "QUEUED", "FINISH", "DONE"}
    BY <1>1, <1>2
  <2> QED BY <2>1
<1>8. waitsFor' \in [Accesses -> Accesses \union {0}]
  BY <1>1 DEF Released
<1>9. Served' = Served \ {a}
  <2>1. \A x \in Accesses : pc'[x] = "RUN" <=> pc[x] = "RUN" /\ x # a
    BY <1>1, <1>2
  <2> QED BY <1>1, <2>1 DEF Served
<1>10. Queued' = Queued \ {h}
  <2>1. \A x \in Accesses : pc'[x] = "QUEUED" <=> pc[x] = "QUEUED" /\ x # h
    BY <1>1, <1>2
  <2> QED BY <2>1 DEF Queued
<1> QED BY <1>4, <1>5, <1>6, <1>7, <1>8, <1>9, <1>10

\* The interconnect is not touched.
LEMMA PortsKept ==
  ASSUME PortBound, Served' = Served, Queued' = Queued, UNCHANGED <<portuse, memoplist>>
  PROVE  PortBound'
<1>1. PortBound' <=> /\ portuse' = Cardinality(Served') /\ portuse' <= Port
                     /\ IsInjective(memoplist') /\ ToSet(memoplist') = Queued'
  BY Zenon DEF PortBound, Served, Queued
<1>2. /\ portuse' = Cardinality(Served') /\ portuse' <= Port
      /\ IsInjective(memoplist') /\ ToSet(memoplist') = Queued'
  BY PortBoundFacts
<1> QED BY <1>1, <1>2

LEMMA IssueList ==
  ASSUME ListInv, NEW a \in Accesses, NEW k \in Kinds, NEW b \in Blocks, NEW locked \in BOOLEAN,
         Issue(a, k, b, locked)
  PROVE  ListInv'
<1> DEFINE m == Master(k, b, locked)
<1>1. /\ pc[a] = "NEW" /\ \A x \in Accesses : x < a => pc[x] # "NEW"
      /\ kind' = [kind EXCEPT ![a] = k] /\ blk' = [blk EXCEPT ![a] = b]
      /\ pc' = [pc EXCEPT ![a] = IF m # 0 THEN "SLAVE" ELSE "LOCK"]
      /\ waitsFor' = [waitsFor EXCEPT ![a] = m]
      /\ UNCHANGED <<portuse, memoplist>>
  BY DEF Issue
<1>2. m # 0 => /\ m \in InFlight /\ m < a /\ pc[m] # "SLAVE"
               /\ kind[m] = k /\ blk[m] = b /\ k \notin Registers
  BY <1>1, MasterIsBefore
<1> HIDE DEF m
<1>3. TypeOK /\ PortBound /\ EnteredInOrder /\ Listed /\ WaitsForOlder
  BY DEF ListInv
<1>4. TypeOK'
  BY <1>1, <1>2, <1>3 DEF TypeOK, InFlight
<1>5. \A x \in Accesses \ {a} : /\ kind'[x] = kind[x] /\ blk'[x] = blk[x]
                                /\ pc'[x] = pc[x] /\ waitsFor'[x] = waitsFor[x]
  BY <1>1, <1>3 DEF TypeOK
<1>6. /\ kind'[a] = k /\ blk'[a] = b /\ waitsFor'[a] = m
      /\ pc'[a] = IF m # 0 THEN "SLAVE" ELSE "LOCK"
  BY <1>1, <1>3 DEF TypeOK
<1>7. EnteredInOrder'
  BY <1>1, <1>3, <1>5, <1>6 DEF EnteredInOrder
<1>8. Listed'
  <2> SUFFICES ASSUME NEW x \in Accesses
               PROVE  /\ waitsFor'[x] = 0 <=> pc'[x] \notin {"WAIT", "SLAVE"}
                      /\ pc'[x] \in {"SLAVE", "FINISH"} => kind'[x] \notin Registers
                      /\ pc'[x] = "QUEUED" => kind'[x] \in Registers
    BY DEF Listed
  <2>1. CASE x = a
    BY <1>2, <1>6, <2>1
  <2>2. CASE x # a
    BY <1>3, <1>5, <2>2 DEF Listed
  <2> QED BY <2>1, <2>2
<1>9. WaitsForOlder'
  <2> SUFFICES ASSUME NEW x \in Accesses, pc'[x] \in {"WAIT", "SLAVE"}
               PROVE  /\ waitsFor'[x] \in Before(x)'
                      /\ pc'[x] = "SLAVE" =>
                           /\ blk'[waitsFor'[x]] = blk'[x] /\ kind'[waitsFor'[x]] = kind'[x]
                           /\ pc'[waitsFor'[x]] # "SLAVE"
    BY DEF WaitsForOlder
  <2>1. CASE x = a
    <3>1. m # 0 /\ m \in Accesses /\ m # a /\ m < a /\ pc[m] \notin {"NEW", "DONE"}
      BY <1>2, <1>1, <1>6, <2>1 DEF InFlight
    <3>2. pc'[m] = pc[m] /\ kind'[m] = kind[m] /\ blk'[m] = blk[m]
      BY <1>5, <3>1
    <3> QED BY <1>2, <1>6, <2>1, <3>1, <3>2 DEF Before, InFlight
  <2>2. CASE x # a
    <3>1. pc'[x] = pc[x] /\ waitsFor'[x] = waitsFor[x] /\ waitsFor[x] \in Before(x)
      BY <1>3, <1>5, <2>2 DEF WaitsForOlder
    <3>2. waitsFor[x] # a /\ waitsFor[x] \in Accesses
      BY <1>1, <3>1 DEF Before, InFlight
    <3>3. pc'[waitsFor[x]] = pc[waitsFor[x]]
      BY <1>5, <3>2
    <3> QED BY <1>3, <1>5, <2>2, <3>1, <3>2, <3>3 DEF WaitsForOlder, Before, InFlight
  <2> QED BY <2>1, <2>2
<1>10. PortBound'
  <2>1. \A x \in Accesses : /\ pc'[x] = "RUN" <=> pc[x] = "RUN"
                            /\ pc'[x] = "QUEUED" <=> pc[x] = "QUEUED"
                            /\ pc[x] = "RUN" => kind'[x] = kind[x]
    BY <1>1, <1>5, <1>6
  <2>2. Served' = Served /\ Queued' = Queued
    BY <2>1 DEF Served, Queued
  <2> QED BY <1>1, <1>3, <2>2, PortsKept
<1> QED BY <1>4, <1>7, <1>8, <1>9, <1>10 DEF ListInv

LEMMA StepList ==
  ASSUME ListInv, NEW a \in Accesses, Wait(a) \/ FindAndLock(a) \/ Enqueue(a) \/ Transfer(a)
  PROVE  ListInv'
<1>1. /\ TypeOK /\ PortBound /\ portuse \in Nat /\ memoplist \in Seq(Accesses)
      /\ pc \in [Accesses -> {"NEW", "LOCK", "WAIT", "SLAVE", "RUN", "QUEUED", "FINISH", "DONE"}]
  BY DEF ListInv, TypeOK
<1>2. PortBound' <=> /\ portuse' = Cardinality(Served') /\ portuse' <= Port
                     /\ IsInjective(memoplist') /\ ToSet(memoplist') = Queued'
  BY Zenon DEF PortBound, Served, Queued
<1>3. CASE Wait(a)
  <2>1. Older(a) \in Before(a)
    BY <1>3, OlderIsBefore DEF Wait
  <2>2. /\ EnteredInOrder' /\ Listed' /\ WaitsForOlder'
        /\ pc' \in [Accesses -> {"NEW", "LOCK", "WAIT", "SLAVE", "RUN", "QUEUED", "FINISH", "DONE"}]
        /\ waitsFor' \in [Accesses -> Accesses \union {0}]
    BY <1>3, <2>1, Moved DEF Wait
  <2>3. Served' = Served /\ Queued' = Queued
    BY <1>1, <1>3 DEF Wait, Served, Queued
  <2>4. TypeOK'
    BY <1>1, <1>3, <2>2 DEF Wait, TypeOK
  <2> QED BY <1>1, <1>3, <2>2, <2>3, <2>4, PortsKept DEF Wait, ListInv
<1>4. CASE FindAndLock(a)
  <2>1. /\ EnteredInOrder' /\ Listed' /\ WaitsForOlder'
        /\ pc' \in [Accesses -> {"NEW", "LOCK", "WAIT", "SLAVE", "RUN", "QUEUED", "FINISH", "DONE"}]
        /\ waitsFor' \in [Accesses -> Accesses \union {0}]
    BY <1>4, Moved DEF FindAndLock
  <2>2. Served' = Served /\ Queued' = Queued
    BY <1>1, <1>4 DEF FindAndLock, Served, Queued
  <2>3. TypeOK'
    BY <1>1, <1>4, <2>1 DEF FindAndLock, TypeOK
  <2> QED BY <1>1, <1>4, <2>1, <2>2, <2>3, PortsKept DEF FindAndLock, ListInv
<1>5. CASE Enqueue(a)
  <2>1. /\ EnteredInOrder' /\ Listed' /\ WaitsForOlder'
        /\ pc' \in [Accesses -> {"NEW", "LOCK", "WAIT", "SLAVE", "RUN", "QUEUED", "FINISH", "DONE"}]
        /\ waitsFor' \in [Accesses -> Accesses \union {0}]
    BY <1>5, Moved DEF Enqueue
  <2>2. Served' = Served /\ Queued' = Queued \union {a} /\ a \notin Queued
    BY <1>1, <1>5 DEF Enqueue, Served, Queued
  <2>3. /\ memoplist' \in Seq(Accesses) /\ IsInjective(memoplist')
        /\ ToSet(memoplist') = Queued'
    BY <1>1, <1>5, <2>2, AppendFacts, PortBoundFacts DEF Enqueue
  <2>4. portuse' = portuse /\ PortBound'
    BY <1>1, <1>2, <1>5, <2>2, <2>3, PortBoundFacts DEF Enqueue
  <2>5. TypeOK'
    BY <1>1, <1>5, <2>1, <2>3 DEF Enqueue, TypeOK
  <2> QED BY <2>1, <2>4, <2>5 DEF ListInv
<1>6. CASE Transfer(a)
  <2>1. /\ EnteredInOrder' /\ Listed' /\ WaitsForOlder'
        /\ pc' \in [Accesses -> {"NEW", "LOCK", "WAIT", "SLAVE", "RUN", "QUEUED", "FINISH", "DONE"}]
        /\ waitsFor' \in [Accesses -> Accesses \union {0}]
    BY <1>6, Moved DEF Transfer
  <2>2. Served' = Served \union {a} /\ a \notin Served /\ Queued' = Queued
    BY <1>1, <1>6 DEF Transfer, Served, Queued
  <2>3. Cardinality(Served') = Cardinality(Served) + 1
    BY <2>2, ServedFinite, FS_AddElement
  <2>4. portuse' = portuse + 1 /\ portuse # Port /\ memoplist' = memoplist
    BY <1>6 DEF Transfer, PortFree
  <2>5. portuse' \in Nat /\ portuse' <= Port
    BY <1>1, <2>4, PortBoundFacts, BoundsAssumption
  <2>6. PortBound'
    BY <1>1, <1>2, <2>2, <2>3, <2>4, <2>5, PortBoundFacts
  <2>7. TypeOK'
    BY <1>1, <1>6, <2>1, <2>5 DEF Transfer, TypeOK
  <2> QED BY <2>1, <2>6, <2>7 DEF ListInv
<1> QED BY <1>3, <1>4, <1>5, <1>6

LEMMA FinishList ==
  ASSUME ListInv, NEW a \in Accesses, Finish(a)
  PROVE  ListInv'
<1>1. /\ TypeOK /\ pc[a] \in {"RUN", "FINISH"} /\ kind[a] \notin Registers
      /\ pc' = [x \in Accesses |-> Wake(a, x)] /\ waitsFor' = Released(a)
      /\ UNCHANGED <<kind, blk, portuse, memoplist>>
  BY DEF ListInv, Finish
<1>2. 0 \notin Accesses
  BY BoundsAssumption DEF Accesses
<1>3. pc' = [x \in Accesses |-> IF x = 0 THEN "LOCK" ELSE Wake(a, x)]
  BY <1>1, <1>2
<1>4. /\ EnteredInOrder' /\ Listed' /\ WaitsForOlder'
      /\ pc' \in [Accesses -> {"NEW", "LOCK", "WAIT", "SLAVE", "RUN", "QUEUED", "FINISH", "DONE"}]
      /\ waitsFor' \in [Accesses -> Accesses \union {0}]
      /\ Served' = Served \ {a} /\ Queued' = Queued \ {0}
  BY <1>1, <1>2, <1>3, Woken
<1>5. Served' = Served /\ Queued' = Queued
  BY <1>1, <1>2, <1>4 DEF Served, Queued
<1>6. TypeOK'
  BY <1>1, <1>4 DEF TypeOK
<1> QED BY <1>1, <1>4, <1>5, <1>6, PortsKept DEF ListInv

LEMMA FinishRegisterList ==
  ASSUME ListInv, NEW a \in Accesses, FinishRegister(a)
  PROVE  ListInv'
<1> DEFINE h == IF memoplist # <<>> THEN Head(memoplist) ELSE 0
<1>1. /\ TypeOK /\ PortBound /\ pc[a] = "RUN" /\ kind[a] \in Registers
      /\ waitsFor' = Released(a) /\ portuse' = portuse - 1
      /\ memoplist' = IF memoplist # <<>> THEN Tail(memoplist) ELSE memoplist
      /\ UNCHANGED <<kind, blk>> /\ memoplist \in Seq(Accesses) /\ portuse \in Nat
  BY DEF ListInv, TypeOK, FinishRegister
<1>2. 0 \notin Accesses
  BY BoundsAssumption DEF Accesses
<1>3. pc' = [x \in Accesses |-> IF x = h THEN "LOCK" ELSE Wake(a, x)]
  <2>1. \A x \in Accesses : x = h <=> memoplist # <<>> /\ x = Head(memoplist)
    BY <1>2
  <2> HIDE DEF h
  <2> QED BY <2>1 DEF FinishRegister
<1>4. /\ memoplist' \in Seq(Accesses) /\ IsInjective(memoplist')
      /\ ToSet(memoplist') = Queued \ {h}
      /\ h \in Accesses => pc[h] = "QUEUED"
  <2>1. CASE memoplist = <<>>
    <3>1. Queued = {}
      BY <1>1, <2>1, PortBoundFacts DEF ToSet
    <3> QED BY <1>1, <1>2, <2>1, <3>1, PortBoundFacts
  <2>2. CASE memoplist # <<>>
    <3>1. h = Head(memoplist) /\ memoplist' = Tail(memoplist) /\ ToSet(memoplist) = Queued
      BY <1>1, <2>2, PortBoundFacts
    <3> HIDE DEF h
    <3>2. h \in Queued /\ Tail(memoplist) \in Seq(Accesses) /\ IsInjective(Tail(memoplist))
          /\ ToSet(Tail(memoplist)) = Queued \ {h}
      BY <1>1, <2>2, <3>1, TailFacts, PortBoundFacts
    <3> QED BY <3>1, <3>2 DEF Queued
  <2> QED BY <2>1, <2>2
<1> HIDE DEF h
<1>5. /\ EnteredInOrder' /\ Listed' /\ WaitsForOlder'
      /\ pc' \in [Accesses -> {"NEW", "LOCK", "WAIT", "SLAVE", "RUN", "QUEUED", "FINISH", "DONE"}]
      /\ waitsFor' \in [Accesses -> Accesses \union {0}]
      /\ Served' = Served \ {a} /\ Queued' = Queued \ {h}
  BY <1>1, <1>3, <1>4, Woken
<1>6. a \in Served
  BY <1>1 DEF Served
<1>7. Cardinality(Served') = Cardinality(Served) - 1 /\ Cardinality(Served) - 1 \in Nat
  <2>1. IsFiniteSet(Served \ {a}) /\ Cardinality(Served \ {a}) = Cardinality(Served) - 1
    BY <1>6, ServedFinite, FS_RemoveElement
  <2> QED BY <1>5, <2>1, FS_CardinalityType
<1>8. PortBound'
  <2>1. PortBound' <=> /\ portuse' = Cardinality(Served') /\ portuse' <= Port
                       /\ IsInjective(memoplist') /\ ToSet(memoplist') = Queued'
    BY Zenon DEF PortBound, Served, Queued
  <2>2. portuse' = Cardinality(Served') /\ portuse' <= Port
    BY <1>1, <1>7, PortBoundFacts, BoundsAssumption
  <2> QED BY <1>4, <1>5, <2>1, <2>2
<1>9. portuse' \in Nat
  BY <1>1, <1>7, PortBoundFacts
<1> QED BY <1>1, <1>4, <1>5, <1>8, <1>9 DEF ListInv, TypeOK

LEMMA NextList == ListInv /\ [Next]_vars => ListInv'
<1> SUFFICES ASSUME ListInv, [Next]_vars PROVE ListInv'
  OBVIOUS
<1>1. ASSUME NEW a \in Accesses, NEW k \in Kinds, NEW b \in Blocks, NEW locked \in BOOLEAN,
             Issue(a, k, b, locked)
      PROVE  ListInv'
  BY <1>1, IssueList
<1>2. ASSUME NEW a \in Accesses, Step(a) PROVE ListInv'
  BY <1>2, StepList, FinishList, FinishRegisterList DEF Step
<1>3. CASE UNCHANGED vars
  BY <1>3 DEF vars, ListInv, TypeOK, PortBound, EnteredInOrder, Listed, WaitsForOlder, Before, InFlight
<1> QED BY <1>1, <1>2, <1>3 DEF Next

\* What the results below are parts of.
THEOREM ListInvariance == Spec => []ListInv
  BY InitList, NextList, PTL DEF Spec

\* Type correctness, for any number of accesses, blocks and ports.
THEOREM TypeCorrect == Spec => []TypeOK
<1>1. ListInv => TypeOK
  BY DEF ListInv
<1> QED BY <1>1, ListInvariance, PTL

\* The interconnect serves no more register accesses than it has ports and counts them right,
\* though a finished access passes its port on to one that starts over and may find it
\* taken; who waits for a port is in the list once.
THEOREM PortsCounted == Spec => []PortBound
<1>1. ListInv => PortBound
  BY DEF ListInv
<1> QED BY <1>1, ListInvariance, PTL

\* Accesses wait for older accesses in flight alone, through coalescing too: they cannot wait
\* for one another in a circle.
THEOREM NoCircle == Spec => []WaitsForOlder
<1>1. ListInv => WaitsForOlder
  BY DEF ListInv
<1> QED BY <1>1, ListInvariance, PTL

-----------------------------------------------------------------------------
(* Program order.  A running access has nothing older left that it conflicts *)
(* with; between an access and its master there are only conflicting         *)
(* accesses with the same master; and coalesced accesses that were woken      *)
(* finish in order.                                                          *)

Conflict(a, b) ==
  \/ blk[a] = blk[b]
  \/ kind[b] = "store"
  \/ kind[a] = "store" /\ kind[b] # "reg_load"

Clear(b)    == \A a \in Accesses : a < b /\ Conflict(a, b) => pc[a] = "DONE"
RunsClear   == \A b \in Accesses : pc[b] \in {"RUN", "DONE"} => Clear(b)
SlavesClear ==
  \A a, b \in Accesses :
    a < b /\ pc[b] = "SLAVE" /\ waitsFor[b] < a /\ Conflict(a, b)
      => pc[a] = "DONE" \/ (pc[a] = "SLAVE" /\ waitsFor[a] = waitsFor[b])
WokenClear ==
  \A a, b \in Accesses :
    a < b /\ pc[b] = "FINISH" /\ Conflict(a, b)
      => pc[a] = "DONE" \/ (pc[a] = "FINISH" /\ blk[a] = blk[b])

OrderInv == ListInv /\ RunsClear /\ SlavesClear /\ WokenClear

LEMMA OrderImplies == RunsClear => ProgramOrder
  BY DEF RunsClear, Clear, Conflict, ProgramOrder

LEMMA InitOrder == Init => OrderInv
  BY InitList DEF Init, OrderInv, RunsClear, SlavesClear, WokenClear

\* An access that has nothing to wait for has nothing older left that it conflicts with.
LEMMA NothingOlder ==
  ASSUME ListInv, NEW b \in Accesses, pc[b] = "LOCK", Older(b) = 0
  PROVE  Clear(b)
<1> SUFFICES ASSUME NEW a \in Accesses, a < b, Conflict(a, b), pc[a] # "DONE" PROVE FALSE
  BY DEF Clear
<1>1. pc[a] # "NEW"
  BY DEF ListInv, EnteredInOrder
<1>2. a \in Before(b) /\ Before(b) \subseteq Accesses
  BY <1>1 DEF Before, InFlight
<1> DEFINE Writes == {x \in Before(b) : kind[x] = "store"}
           Same   == {x \in Before(b) : blk[x] = blk[b]}
<1>3. /\ Youngest(Before(b)) # 0
      /\ Youngest(Writes) = 0 => a \notin Writes
      /\ Oldest(Same) = 0 => a \notin Same
  <2>1. Writes \subseteq Accesses /\ Same \subseteq Accesses
    BY <1>2
  <2> HIDE DEF Writes, Same
  <2> QED BY <1>2, <2>1, OldestFacts, YoungestFacts
<1>4. InFlightWrite(b) = Youngest(Writes) /\ InFlightAddress(b) = Oldest(Same)
  BY DEF InFlightWrite, InFlightAddress
<1>5. CASE kind[b] = "store"
  BY <1>3, <1>5 DEF Older
<1>6. CASE kind[b] = "reg_load"
  BY <1>2, <1>3, <1>4, <1>6 DEF Older, Conflict
<1>7. CASE kind[b] \notin {"store", "reg_load"}
  <2>1. InFlightWrite(b) = 0 /\ InFlightAddress(b) = 0
    BY <1>7 DEF Older
  <2> QED BY <1>2, <1>3, <1>4, <1>7, <2>1 DEF Conflict
<1> QED BY <1>5, <1>6, <1>7

\* Between a new access and its master there are only conflicting accesses that have finished
\* or that have the same master.
LEMMA MasterClear ==
  ASSUME OrderInv, NEW c \in Accesses, pc[c] = "NEW", \A x \in Accesses : x < c => pc[x] # "NEW",
         NEW k, NEW b, NEW locked, Master(k, b, locked) # 0,
         NEW a \in Accesses, a < c, Master(k, b, locked) < a,
         blk[a] = b \/ k = "store" \/ (kind[a] = "store" /\ k # "reg_load")
  PROVE  pc[a] = "DONE" \/ (pc[a] = "SLAVE" /\ waitsFor[a] = Master(k, b, locked))
<1> DEFINE m == Master(k, b, locked)
<1>1. PICK s \in InFlight :
        /\ m = MasterOf(s) /\ kind[s] = k /\ blk[s] = b /\ k \in {"load", "store", "nc_store"}
        /\ \A y \in InFlight : y > s => k = "load" /\ kind[y] = "load" /\ blk[y] # b
  BY Coalesced
<1> HIDE DEF m
<1>2. s \in Accesses /\ s \in Nat /\ a \in Nat
  BY BoundsAssumption DEF InFlight, Accesses
<1>3. CASE a > s
  <2>1. a \notin InFlight
    BY <1>1, <1>3
  <2> QED BY <2>1 DEF InFlight
<1>4. CASE a = s
  BY <1>1, <1>2, <1>4 DEF MasterOf, m
<1>5. CASE a < s
  <2>1. pc[s] = "SLAVE" /\ waitsFor[s] = m
    BY <1>1, <1>2, <1>5 DEF MasterOf, m
  <2>2. Conflict(a, s)
    BY <1>1 DEF Conflict
  <2> QED BY <1>2, <1>5, <2>1, <2>2 DEF OrderInv, SlavesClear, m
<1> QED BY <1>2, <1>3, <1>4, <1>5

LEMMA IssueOrder ==
  ASSUME OrderInv, NEW c \in Accesses, NEW k \in Kinds, NEW b \in Blocks, NEW locked \in BOOLEAN,
         Issue(c, k, b, locked)
  PROVE  RunsClear' /\ SlavesClear' /\ WokenClear'
<1> DEFINE m == Master(k, b, locked)
<1>1. /\ pc[c] = "NEW" /\ \A x \in Accesses : x < c => pc[x] # "NEW"
      /\ TypeOK /\ EnteredInOrder /\ \A x \in Accesses : x \in Nat
  BY BoundsAssumption DEF Issue, OrderInv, ListInv, Accesses
<1>2. /\ kind' = [kind EXCEPT ![c] = k] /\ blk' = [blk EXCEPT ![c] = b]
      /\ pc' = [pc EXCEPT ![c] = IF m # 0 THEN "SLAVE" ELSE "LOCK"]
      /\ waitsFor' = [waitsFor EXCEPT ![c] = m]
  BY DEF Issue
<1>3. ASSUME m # 0, NEW a \in Accesses, a < c, m < a,
             blk[a] = b \/ k = "store" \/ (kind[a] = "store" /\ k # "reg_load")
      PROVE  pc[a] = "DONE" \/ (pc[a] = "SLAVE" /\ waitsFor[a] = m)
  BY <1>1, <1>3, MasterClear
<1> HIDE DEF m
<1>4. \A x \in Accesses \ {c} : /\ kind'[x] = kind[x] /\ blk'[x] = blk[x]
                                /\ pc'[x] = pc[x] /\ waitsFor'[x] = waitsFor[x]
  BY <1>1, <1>2 DEF TypeOK
<1>5. /\ kind'[c] = k /\ blk'[c] = b /\ waitsFor'[c] = m
      /\ pc'[c] = IF m # 0 THEN "SLAVE" ELSE "LOCK"
  BY <1>1, <1>2 DEF TypeOK
\* What is younger than the new access has not come yet.
<1>6. ASSUME NEW x \in Accesses, x # c, pc[x] # "NEW" PROVE x < c
  BY <1>1, <1>6 DEF EnteredInOrder
<1>7. ASSUME NEW a \in Accesses, NEW x \in Accesses, a < x, x # c, pc[x] # "NEW"
      PROVE  /\ a # c /\ pc'[a] = pc[a] /\ waitsFor'[a] = waitsFor[a] /\ blk'[a] = blk[a]
             /\ Conflict(a, x)' <=> Conflict(a, x)
  <2>1. a # c
    BY <1>1, <1>6, <1>7
  <2> QED BY <1>4, <1>7, <2>1 DEF Conflict
<1>8. RunsClear'
  <2> SUFFICES ASSUME NEW x \in Accesses, pc'[x] \in {"RUN", "DONE"},
                      NEW a \in Accesses, a < x, Conflict(a, x)'
               PROVE  pc'[a] = "DONE"
    BY DEF RunsClear, Clear
  <2>1. x # c /\ pc[x] \in {"RUN", "DONE"}
    BY <1>4, <1>5
  <2> QED BY <1>7, <2>1 DEF OrderInv, RunsClear, Clear
<1>9. SlavesClear'
  <2> SUFFICES ASSUME NEW x \in Accesses, pc'[x] = "SLAVE",
                      NEW a \in Accesses, a < x, waitsFor'[x] < a, Conflict(a, x)'
               PROVE  pc'[a] = "DONE" \/ (pc'[a] = "SLAVE" /\ waitsFor'[a] = waitsFor'[x])
    BY DEF SlavesClear
  <2>1. CASE x = c
    <3>1. m # 0 /\ a # c /\ a < c /\ m < a
      BY <1>1, <1>5, <2>1
    <3>2. blk[a] = b \/ k = "store" \/ (kind[a] = "store" /\ k # "reg_load")
      BY <1>4, <1>5, <2>1, <3>1 DEF Conflict
    <3> QED BY <1>3, <1>4, <1>5, <2>1, <3>1, <3>2
  <2>2. CASE x # c
    <3>1. pc[x] = "SLAVE" /\ waitsFor'[x] = waitsFor[x]
      BY <1>4, <2>2
    <3> QED BY <1>7, <2>2, <3>1 DEF OrderInv, SlavesClear
  <2> QED BY <2>1, <2>2
<1>10. WokenClear'
  <2> SUFFICES ASSUME NEW x \in Accesses, pc'[x] = "FINISH",
                      NEW a \in Accesses, a < x, Conflict(a, x)'
               PROVE  pc'[a] = "DONE" \/ (pc'[a] = "FINISH" /\ blk'[a] = blk'[x])
    BY DEF WokenClear
  <2>1. x # c /\ pc[x] = "FINISH" /\ blk'[x] = blk[x]
    BY <1>4, <1>5
  <2> QED BY <1>7, <2>1 DEF OrderInv, WokenClear
<1> QED BY <1>8, <1>9, <1>10

\* One access goes on.
LEMMA MovedOrder ==
  ASSUME OrderInv, NEW c \in Accesses, pc[c] = "LOCK",
         NEW v \in {"WAIT", "RUN", "QUEUED"}, pc' = [pc EXCEPT ![c] = v],
         v = "RUN" => Clear(c), UNCHANGED <<kind, blk>>,
         \A x \in Accesses \ {c} : waitsFor'[x] = waitsFor[x]
  PROVE  RunsClear' /\ SlavesClear' /\ WokenClear'
<1>1. /\ pc'[c] = v /\ \A x \in Accesses \ {c} : pc'[x] = pc[x]
      /\ \A a, b \in Accesses : Conflict(a, b)' <=> Conflict(a, b)
      /\ blk' = blk
  BY DEF OrderInv, ListInv, TypeOK, Conflict
<1>2. RunsClear'
  <2> SUFFICES ASSUME NEW b \in Accesses, pc'[b] \in {"RUN", "DONE"},
                      NEW a \in Accesses, a < b, Conflict(a, b)
               PROVE  pc'[a] = "DONE"
    BY <1>1 DEF RunsClear, Clear
  <2>1. pc[a] = "DONE"
    BY <1>1 DEF OrderInv, RunsClear, Clear
  <2> QED BY <1>1, <2>1
<1>3. SlavesClear'
  BY <1>1 DEF OrderInv, SlavesClear
<1>4. WokenClear'
  BY <1>1 DEF OrderInv, WokenClear
<1> QED BY <1>2, <1>3, <1>4

LEMMA StepOrder ==
  ASSUME OrderInv, NEW c \in Accesses, Wait(c) \/ FindAndLock(c) \/ Enqueue(c) \/ Transfer(c)
  PROVE  RunsClear' /\ SlavesClear' /\ WokenClear'
<1>1. ListInv /\ TypeOK
  BY DEF OrderInv, ListInv
<1>2. CASE Wait(c)
  BY <1>1, <1>2, MovedOrder DEF Wait, TypeOK
<1>3. CASE FindAndLock(c)
  BY <1>1, <1>3, MovedOrder, NothingOlder DEF FindAndLock
<1>4. CASE Enqueue(c)
  BY <1>1, <1>4, MovedOrder DEF Enqueue
<1>5. CASE Transfer(c)
  BY <1>1, <1>5, MovedOrder, NothingOlder DEF Transfer
<1> QED BY <1>2, <1>3, <1>4, <1>5

\* An access finishes, when all is done that it conflicts with.
LEMMA WokenOrder ==
  ASSUME OrderInv, NEW c \in Accesses, pc[c] \in {"RUN", "FINISH"}, Clear(c),
         NEW h, h \in Accesses => pc[h] = "QUEUED",
         pc' = [x \in Accesses |-> IF x = h THEN "LOCK" ELSE Wake(c, x)],
         waitsFor' = Released(c), UNCHANGED <<kind, blk>>
  PROVE  RunsClear' /\ SlavesClear' /\ WokenClear'
<1>1. /\ TypeOK /\ Listed /\ WaitsForOlder /\ c # 0 /\ c # h
      /\ \A x \in Accesses : x \in Nat /\ x # 0
  BY BoundsAssumption DEF OrderInv, ListInv, Accesses
<1>2. /\ \A a, b \in Accesses : Conflict(a, b)' <=> Conflict(a, b)
      /\ blk' = blk
  BY DEF Conflict
<1>3. ASSUME NEW x \in Accesses
      PROVE  /\ x = c => pc'[x] = "DONE" /\ waitsFor'[x] = 0
             /\ x = h => pc[x] = "QUEUED" /\ pc'[x] = "LOCK" /\ waitsFor'[x] = 0
             /\ x # c /\ x # h /\ waitsFor[x] # c => pc'[x] = pc[x] /\ waitsFor'[x] = waitsFor[x]
             /\ waitsFor[x] = c => /\ x # c /\ x # h /\ waitsFor'[x] = 0
                                   /\ \/ pc[x] = "SLAVE" /\ pc'[x] = "FINISH"
                                      \/ pc[x] = "WAIT" /\ pc'[x] = "LOCK"
  BY <1>1 DEF Wake, Released, Listed, TypeOK
<1>4. \A x \in Accesses : pc[x] = "DONE" => pc'[x] = "DONE"
  BY <1>1, <1>3
<1>5. RunsClear'
  <2> SUFFICES ASSUME NEW b \in Accesses, pc'[b] \in {"RUN", "DONE"},
                      NEW a \in Accesses, a < b, Conflict(a, b)
               PROVE  pc'[a] = "DONE"
    BY <1>2 DEF RunsClear, Clear
  <2>1. b = c \/ pc[b] \in {"RUN", "DONE"}
    BY <1>1, <1>3
  <2> QED BY <1>4, <2>1 DEF OrderInv, RunsClear, Clear
<1>6. SlavesClear'
  <2> SUFFICES ASSUME NEW b \in Accesses, pc'[b] = "SLAVE",
                      NEW a \in Accesses, a < b, waitsFor'[b] < a, Conflict(a, b)
               PROVE  pc'[a] = "DONE" \/ (pc'[a] = "SLAVE" /\ waitsFor'[a] = waitsFor'[b])
    BY <1>2 DEF SlavesClear
  <2>1. pc[b] = "SLAVE" /\ waitsFor'[b] = waitsFor[b] /\ waitsFor[b] # c
    BY <1>1, <1>3
  <2>2. pc[a] = "DONE" \/ (pc[a] = "SLAVE" /\ waitsFor[a] = waitsFor[b])
    BY <2>1 DEF OrderInv, SlavesClear
  <2> QED BY <1>3, <1>4, <2>1, <2>2
<1>7. WokenClear'
  <2> SUFFICES ASSUME NEW b \in Accesses, pc'[b] = "FINISH",
                      NEW a \in Accesses, a < b, Conflict(a, b)
               PROVE  pc'[a] = "DONE" \/ (pc'[a] = "FINISH" /\ blk[a] = blk[b])
    BY <1>2 DEF WokenClear
  <2>1. CASE pc[b] = "FINISH"
    <3>1. pc[a] = "DONE" \/ (pc[a] = "FINISH" /\ blk[a] = blk[b])
      BY <2>1 DEF OrderInv, WokenClear
    <3>2. pc[a] = "FINISH" => pc'[a] \in {"DONE", "FINISH"}
      BY <1>1, <1>3 DEF Listed
    <3> QED BY <1>4, <3>1, <3>2
  <2>2. CASE pc[b] # "FINISH"
    <3>1. pc[b] = "SLAVE" /\ waitsFor[b] = c
      BY <1>1, <1>3, <2>2
    <3>2. blk[c] = blk[b] /\ kind[c] = kind[b]
      BY <1>1, <3>1 DEF WaitsForOlder
    <3>3. CASE a < c
      <4>1. Conflict(a, c)
        BY <3>2 DEF Conflict
      <4> QED BY <1>4, <3>3, <4>1 DEF Clear
    <3>4. CASE a = c
      BY <1>3, <3>4
    <3>5. CASE a > c
      <4>1. pc[a] = "DONE" \/ (pc[a] = "SLAVE" /\ waitsFor[a] = c)
        BY <1>1, <3>1, <3>5 DEF OrderInv, SlavesClear
      <4>2. pc[a] = "SLAVE" /\ waitsFor[a] = c => pc'[a] = "FINISH" /\ blk[a] = blk[c]
        BY <1>1, <1>3 DEF WaitsForOlder
      <4> QED BY <1>4, <3>2, <4>1, <4>2
    <3> QED BY <1>1, <3>3, <3>4, <3>5
  <2> QED BY <2>1, <2>2
<1> QED BY <1>5, <1>6, <1>7

LEMMA FinishOrder ==
  ASSUME OrderInv, NEW c \in Accesses, Finish(c)
  PROVE  RunsClear' /\ SlavesClear' /\ WokenClear'
<1>1. 0 \notin Accesses
  BY BoundsAssumption DEF Accesses
<1>2. pc' = [x \in Accesses |-> IF x = 0 THEN "LOCK" ELSE Wake(c, x)]
  BY <1>1 DEF Finish
<1>3. Clear(c)
  <2>1. CASE pc[c] = "RUN"
    BY <2>1 DEF OrderInv, RunsClear
  <2>2. CASE pc[c] = "FINISH"
    <3> SUFFICES ASSUME NEW a \in Accesses, a < c, Conflict(a, c), pc[a] # "DONE" PROVE FALSE
      BY DEF Clear
    <3>1. pc[a] = "FINISH" /\ blk[a] = blk[c]
      BY <2>2 DEF OrderInv, WokenClear
    <3>2. a \in Before(c)
      BY <3>1 DEF Before, InFlight
    <3> QED BY <3>1, <3>2 DEF Finish
  <2> QED BY <2>1, <2>2 DEF Finish
<1> QED BY <1>1, <1>2, <1>3, WokenOrder DEF Finish

LEMMA FinishRegisterOrder ==
  ASSUME OrderInv, NEW c \in Accesses, FinishRegister(c)
  PROVE  RunsClear' /\ SlavesClear' /\ WokenClear'
<1> DEFINE h == IF memoplist # <<>> THEN Head(memoplist) ELSE 0
<1>1. 0 \notin Accesses
  BY BoundsAssumption DEF Accesses
<1>2. pc' = [x \in Accesses |-> IF x = h THEN "LOCK" ELSE Wake(c, x)]
  <2>1. \A x \in Accesses : x = h <=> memoplist # <<>> /\ x = Head(memoplist)
    BY <1>1
  <2> HIDE DEF h
  <2> QED BY <2>1 DEF FinishRegister
<1>3. h \in Accesses => pc[h] = "QUEUED"
  <2>1. memoplist # <<>> => Head(memoplist) \in ToSet(memoplist)
    BY TailFacts DEF OrderInv, ListInv, TypeOK
  <2> QED BY <1>1, <2>1, PortBoundFacts DEF OrderInv, ListInv, Queued
<1>4. Clear(c)
  BY DEF OrderInv, RunsClear, FinishRegister
<1> HIDE DEF h
<1> QED BY <1>2, <1>3, <1>4, WokenOrder DEF FinishRegister

LEMMA NextOrder == OrderInv /\ [Next]_vars => OrderInv'
<1> SUFFICES ASSUME OrderInv, [Next]_vars PROVE OrderInv'
  OBVIOUS
<1>1. ListInv'
  BY NextList DEF OrderInv
<1>2. ASSUME NEW a \in Accesses, NEW k \in Kinds, NEW b \in Blocks, NEW locked \in BOOLEAN,
             Issue(a, k, b, locked)
      PROVE  OrderInv'
  BY <1>1, <1>2, IssueOrder DEF OrderInv
<1>3. ASSUME NEW a \in Accesses, Step(a) PROVE OrderInv'
  BY <1>1, <1>3, StepOrder, FinishOrder, FinishRegisterOrder DEF Step, OrderInv
<1>4. CASE UNCHANGED vars
  BY <1>1, <1>4 DEF vars, OrderInv, RunsClear, SlavesClear, WokenClear, Clear, Conflict
<1> QED BY <1>2, <1>3, <1>4 DEF Next

\* Program order is kept wherever the code promises it, for any number of accesses, blocks and
\* ports: accesses finish out of order through ports, waits and coalescing, but never two that
\* conflict.
THEOREM OrderKept == Spec => []ProgramOrder
<1>1. OrderInv => ProgramOrder
  BY OrderImplies DEF OrderInv
<1> QED BY <1>1, InitOrder, NextOrder, PTL DEF Spec
=============================================================================
