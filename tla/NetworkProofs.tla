----------------------------- MODULE NetworkProofs -----------------------------
(***************************************************************************)
(* Safety of the interconnection network, for all descriptions of networks   *)
(* and any number of messages.                                             *)
(***************************************************************************)
EXTENDS Network, EventListProofs

-----------------------------------------------------------------------------
LEMMA Elements ==
  ASSUME NEW S, NEW s \in Seq(S), NEW i \in DOMAIN s
  PROVE  s[i] \in S /\ DOMAIN s = 1..Len(s) /\ Len(s) \in Nat /\ i \in 1..Len(s)
OBVIOUS

-----------------------------------------------------------------------------
(* Sequences of sequences, one after the other.                             *)

FlattensTo(seqs, n, f) == f = [i \in 1..n |-> IF i = 1 THEN seqs[i] ELSE f[i - 1] \o seqs[i]]

LEMMA FlattenDefined ==
  ASSUME NEW seqs, NEW n \in Nat
  PROVE  \E f : FlattensTo(seqs, n, f)
<1> DEFINE S == {k \in Nat : ~\E f : FlattensTo(seqs, k, f)}
<1>1. SUFFICES ASSUME S # {} PROVE FALSE
  OBVIOUS
<1>2. PICK m \in S : \A k \in S : <<k, m>> \notin OpToRel(<, Nat)
  <2>1. S \in SUBSET Nat
    OBVIOUS
  <2> HIDE DEF S
  <2> QED BY <1>1, <2>1, WFMin, NatLessThanWellFounded, Zenon
<1>3. m \in Nat /\ ~\E f : FlattensTo(seqs, m, f)
  OBVIOUS
<1>4. CASE m = 0
  <2> DEFINE f == [i \in {} |-> 0]
  <2>1. 1..m = {}
    BY <1>4
  <2>2. f = [i \in 1..m |-> IF i = 1 THEN seqs[i] ELSE f[i - 1] \o seqs[i]]
    BY <2>1, Zenon
  <2> QED BY <1>3, <2>2, Zenon DEF FlattensTo
<1>5. CASE m # 0
  <2>1. m - 1 \in Nat /\ m - 1 < m
    BY <1>3, <1>5
  <2>2. m - 1 \notin S
    <3>1. <<m - 1, m>> \in Nat \X Nat
      BY <1>3, <2>1
    <3> QED BY <1>2, <2>1, <3>1 DEF OpToRel
  <2>3. PICK g : FlattensTo(seqs, m - 1, g)
    BY <2>1, <2>2
  <2> DEFINE f == [i \in 1..m |-> IF i = 1 THEN seqs[i] ELSE g[i - 1] \o seqs[i]]
  <2>4. \A i \in 1..(m - 1) : g[i] = IF i = 1 THEN seqs[i] ELSE g[i - 1] \o seqs[i]
    BY <2>3, Zenon DEF FlattensTo
  <2>5. \A i \in 1..(m - 1) : i \in 1..m
    BY <1>3
  <2>6. \A i \in 1..(m - 1) : f[i] = IF i = 1 THEN seqs[i] ELSE g[i - 1] \o seqs[i]
    BY <2>5, Zenon
  <2>7. \A i \in 1..(m - 1) : f[i] = g[i]
    <3> HIDE DEF f
    <3> QED BY <2>4, <2>6, Zenon
  <2>8. \A i \in 1..m : i # 1 => i - 1 \in 1..(m - 1)
    BY <1>3
  <2>9. \A i \in 1..m : (IF i = 1 THEN seqs[i] ELSE g[i - 1] \o seqs[i])
                        = (IF i = 1 THEN seqs[i] ELSE f[i - 1] \o seqs[i])
    <3> HIDE DEF f
    <3> QED BY <2>7, <2>8, Zenon
  <2>10. f = [i \in 1..m |-> IF i = 1 THEN seqs[i] ELSE f[i - 1] \o seqs[i]]
    <3>1. f = [i \in 1..m |-> IF i = 1 THEN seqs[i] ELSE g[i - 1] \o seqs[i]]
      OBVIOUS
    <3> HIDE DEF f
    <3> QED BY <2>9, <3>1, Zenon
  <2> QED BY <1>3, <2>10, Zenon DEF FlattensTo
<1> QED BY <1>4, <1>5

LEMMA Flattened ==
  ASSUME NEW E, NEW seqs \in Seq(Seq(E))
  PROVE  FlattenSeq(seqs) \in Seq(E)
<1> DEFINE n == Len(seqs)
           f == CHOOSE f : f = [i \in 1..n |-> IF i = 1 THEN seqs[i] ELSE f[i - 1] \o seqs[i]]
<1>1. n \in Nat
  OBVIOUS
<1>2. CASE n = 0
  <2>1. FlattenSeq(seqs) = seqs
    BY <1>2 DEF FlattenSeq
  <2>2. seqs = <<>>
    BY <1>2
  <2> QED BY <2>1, <2>2
<1>3. CASE n # 0
  <2>1. FlattenSeq(seqs) = f[n]
    BY <1>3, Zenon DEF FlattenSeq
  <2>2. f = [i \in 1..n |-> IF i = 1 THEN seqs[i] ELSE f[i - 1] \o seqs[i]]
    <3>1. \E g : FlattensTo(seqs, n, g)
      BY <1>1, FlattenDefined
    <3> QED BY <3>1, Zenon DEF FlattensTo
  <2> HIDE DEF f
  <2>3. \A i \in 1..n : f[i] = IF i = 1 THEN seqs[i] ELSE f[i - 1] \o seqs[i]
    BY <2>2, Zenon
  <2>4. \A i \in 1..n : seqs[i] \in Seq(E)
    OBVIOUS
  <2> DEFINE S == {i \in 1..n : f[i] \notin Seq(E)}
  <2>5. S = {}
    <3> SUFFICES ASSUME S # {} PROVE FALSE
      OBVIOUS
    <3>1. S \in SUBSET Nat
      BY <1>1
    <3>2. PICK m \in S : \A k \in S : <<k, m>> \notin OpToRel(<, Nat)
      <4> HIDE DEF S
      <4> QED BY <3>1, WFMin, NatLessThanWellFounded, Zenon
    <3>3. m \in 1..n /\ f[m] \notin Seq(E)
      OBVIOUS
    <3>4. CASE m = 1
      BY <2>3, <2>4, <3>3, <3>4
    <3>5. CASE m # 1
      <4>1. m - 1 \in 1..n /\ m - 1 < m
        BY <1>1, <3>3, <3>5
      <4>2. m - 1 \notin S
        <5>1. <<m - 1, m>> \in Nat \X Nat
          BY <1>1, <3>3, <4>1
        <5> HIDE DEF S
        <5> QED BY <3>2, <4>1, <5>1 DEF OpToRel
      <4>3. f[m - 1] \in Seq(E)
        BY <4>1, <4>2
      <4>4. f[m] = f[m - 1] \o seqs[m]
        BY <2>3, <3>3, <3>5
      <4>5. f[m - 1] \o seqs[m] \in Seq(E)
        BY <2>4, <3>3, <4>3
      <4> QED BY <3>3, <4>4, <4>5
    <3> QED BY <3>4, <3>5
  <2>6. n \in 1..n
    BY <1>1, <1>3
  <2> QED BY <2>1, <2>5, <2>6
<1> QED BY <1>2, <1>3

-----------------------------------------------------------------------------
(* The buffers of a description.                                            *)

OutOf(t, n) == {b \in Outputs(t) : Owner(t, b) = n}
InOf(t, n)  == {b \in Inputs(t) : Owner(t, b) = n}

LEMMA Described ==
  ASSUME NEW t, WellFormed(t), NEW i \in DOMAIN t.links
  PROVE  /\ t.links[i].src \in Nodes(t) /\ t.links[i].dst \in Nodes(t)
         /\ t.links[i].vcs \in Nat \ {0} /\ t.links[i].bandwidth \in Nat \ {0}
         /\ t.links[i].src # t.links[i].dst
         /\ IsBus(t, t.links[i].src) \/ IsBus(t, t.links[i].dst) => t.links[i].vcs = 1
         /\ ~(IsBus(t, t.links[i].src) /\ IsBus(t, t.links[i].dst))
         /\ DOMAIN t.links = 1..Len(t.links) /\ Len(t.links) \in Nat
<1>1. t.links \in Seq([src : Nodes(t), dst : Nodes(t), vcs : Nat \ {0}, bandwidth : Nat \ {0}])
  BY DEF WellFormed
<1>2. t.links[i] \in [src : Nodes(t), dst : Nodes(t), vcs : Nat \ {0}, bandwidth : Nat \ {0}]
  <2> DEFINE S == [src : Nodes(t), dst : Nodes(t), vcs : Nat \ {0}, bandwidth : Nat \ {0}]
  <2>1. t.links \in Seq(S)
    BY <1>1
  <2> HIDE DEF S
  <2>2. t.links[i] \in S
    BY <2>1, Elements
  <2> QED BY <2>2 DEF S
<1>3. DOMAIN t.links = 1..Len(t.links) /\ Len(t.links) \in Nat
  BY <1>1
<1> QED BY <1>2, <1>3 DEF WellFormed

LEMMA Sides ==
  ASSUME NEW t, WellFormed(t), NEW i \in DOMAIN t.links, NEW dir
  PROVE  /\ ToSet(Side(t, dir, i)) = {<<dir, i, v>> : v \in 1..t.links[i].vcs}
         /\ \A S : (\A v \in 1..t.links[i].vcs : <<dir, i, v>> \in S) => Side(t, dir, i) \in Seq(S)
         /\ Len(Side(t, dir, i)) = t.links[i].vcs
<1> DEFINE n == t.links[i].vcs
           s == Side(t, dir, i)
<1>1. n \in Nat
  BY Described
<1> HIDE DEF n
<1>2. s = [v \in 1..n |-> <<dir, i, v>>]
  BY DEF Side, n
<1>3. DOMAIN s = 1..n /\ \A v \in 1..n : s[v] = <<dir, i, v>>
  BY <1>2
<1>4. ToSet(s) = {<<dir, i, v>> : v \in 1..n}
  BY <1>3 DEF ToSet
<1>5. ASSUME NEW S, \A v \in 1..n : <<dir, i, v>> \in S PROVE s \in Seq(S)
  <2>1. s \in [1..n -> S]
    BY <1>2, <1>5
  <2> QED BY <1>1, <2>1
<1>6. Len(s) = n
  <2>1. s \in Seq({<<dir, i, v>> : v \in 1..n})
    BY <1>5
  <2> HIDE DEF s
  <2>2. Len(s) \in Nat /\ 1..Len(s) = 1..n
    BY <1>3, <2>1
  <2>3. ~(Len(s) < n) /\ ~(n < Len(s))
    <3>1. ASSUME Len(s) < n PROVE FALSE
      <4>1. n \in 1..n /\ n \notin 1..Len(s)
        BY <1>1, <2>2, <3>1
      <4> QED BY <2>2, <4>1
    <3>2. ASSUME n < Len(s) PROVE FALSE
      <4>1. Len(s) \in 1..Len(s) /\ Len(s) \notin 1..n
        BY <1>1, <2>2, <3>2
      <4> QED BY <2>2, <4>1
    <3> QED BY <3>1, <3>2
  <2> QED BY <1>1, <2>2, <2>3
<1> QED BY <1>4, <1>5, <1>6 DEF n

LEMMA OutputIs ==
  ASSUME NEW t, WellFormed(t), NEW b
  PROVE  b \in Outputs(t) <=> \E i \in DOMAIN t.links : \E v \in 1..t.links[i].vcs :
                                b = <<"out", i, v>> /\ ~IsBus(t, t.links[i].src)
<1>1. \A i \in DOMAIN t.links : ToSet(Side(t, "out", i)) = {<<"out", i, v>> : v \in 1..t.links[i].vcs}
  BY Sides
<1> QED BY <1>1 DEF Outputs

LEMMA InputIs ==
  ASSUME NEW t, WellFormed(t), NEW b
  PROVE  b \in Inputs(t) <=> \E i \in DOMAIN t.links : \E v \in 1..t.links[i].vcs :
                               b = <<"in", i, v>> /\ ~IsBus(t, t.links[i].dst)
<1>1. \A i \in DOMAIN t.links : ToSet(Side(t, "in", i)) = {<<"in", i, v>> : v \in 1..t.links[i].vcs}
  BY Sides
<1> QED BY <1>1 DEF Inputs

LEMMA Apart ==
  ASSUME NEW t, WellFormed(t), NEW b
  PROVE  /\ b \in Outputs(t) => b \notin Inputs(t) /\ b[1] = "out" /\ b[2] \in DOMAIN t.links
                                /\ Owner(t, b) = t.links[b[2]].src /\ ~IsBus(t, Owner(t, b))
                                /\ b[3] \in 1..t.links[b[2]].vcs
         /\ b \in Inputs(t) => b \notin Outputs(t) /\ b[1] = "in" /\ b[2] \in DOMAIN t.links
                               /\ Owner(t, b) = t.links[b[2]].dst /\ ~IsBus(t, Owner(t, b))
                               /\ b[3] \in 1..t.links[b[2]].vcs
<1>1. ASSUME b \in Outputs(t)
      PROVE  b \notin Inputs(t) /\ b[1] = "out" /\ b[2] \in DOMAIN t.links
             /\ Owner(t, b) = t.links[b[2]].src /\ ~IsBus(t, Owner(t, b)) /\ b[3] \in 1..t.links[b[2]].vcs
  BY <1>1, OutputIs, InputIs DEF Owner
<1>2. ASSUME b \in Inputs(t)
      PROVE  b \notin Outputs(t) /\ b[1] = "in" /\ b[2] \in DOMAIN t.links
             /\ Owner(t, b) = t.links[b[2]].dst /\ ~IsBus(t, Owner(t, b)) /\ b[3] \in 1..t.links[b[2]].vcs
  BY <1>2, OutputIs, InputIs DEF Owner
<1> QED BY <1>1, <1>2

LEMMA BuffersOf ==
  ASSUME NEW t, WellFormed(t), NEW n
  PROVE  OutputBuffers(t, n) \in Seq(OutOf(t, n)) /\ InputBuffers(t, n) \in Seq(InOf(t, n))
<1>1. DOMAIN t.links = 1..Len(t.links) /\ Len(t.links) \in Nat
  BY DEF WellFormed
<1>2. ASSUME NEW E, NEW s, s = [i \in DOMAIN t.links |-> s[i]], \A i \in DOMAIN t.links : s[i] \in Seq(E)
      PROVE  FlattenSeq(s) \in Seq(E)
  <2>1. s \in [1..Len(t.links) -> Seq(E)]
    BY <1>1, <1>2
  <2>2. s \in Seq(Seq(E))
    BY <1>1, <2>1
  <2> QED BY <2>2, Flattened
<1>3. OutputBuffers(t, n) \in Seq(OutOf(t, n))
  <2> DEFINE s == [i \in DOMAIN t.links |-> IF t.links[i].src = n /\ ~IsBus(t, n) THEN Side(t, "out", i) ELSE <<>>]
  <2>1. ASSUME NEW i \in DOMAIN t.links PROVE s[i] \in Seq(OutOf(t, n))
    <3>1. CASE t.links[i].src = n /\ ~IsBus(t, n)
      <4>1. \A v \in 1..t.links[i].vcs : <<"out", i, v>> \in OutOf(t, n)
        BY <3>1, OutputIs DEF OutOf, Owner
      <4>2. Side(t, "out", i) \in Seq(OutOf(t, n))
        BY <4>1, Sides
      <4> QED BY <3>1, <4>2
    <3>2. CASE ~(t.links[i].src = n /\ ~IsBus(t, n))
      BY <3>2
    <3> QED BY <3>1, <3>2
  <2>2. s = [i \in DOMAIN t.links |-> s[i]]
    OBVIOUS
  <2> QED BY <1>2, <2>1, <2>2 DEF OutputBuffers
<1>4. InputBuffers(t, n) \in Seq(InOf(t, n))
  <2> DEFINE s == [i \in DOMAIN t.links |-> IF t.links[i].dst = n /\ ~IsBus(t, n) THEN Side(t, "in", i) ELSE <<>>]
  <2>1. ASSUME NEW i \in DOMAIN t.links PROVE s[i] \in Seq(InOf(t, n))
    <3>1. CASE t.links[i].dst = n /\ ~IsBus(t, n)
      <4>1. \A v \in 1..t.links[i].vcs : <<"in", i, v>> \in InOf(t, n)
        BY <3>1, InputIs DEF InOf, Owner
      <4>2. Side(t, "in", i) \in Seq(InOf(t, n))
        BY <4>1, Sides
      <4> QED BY <3>1, <4>2
    <3>2. CASE ~(t.links[i].dst = n /\ ~IsBus(t, n))
      BY <3>2
    <3> QED BY <3>1, <3>2
  <2>2. s = [i \in DOMAIN t.links |-> s[i]]
    OBVIOUS
  <2> QED BY <1>2, <2>1, <2>2 DEF InputBuffers
<1> QED BY <1>3, <1>4

LEMMA BusBuffers ==
  ASSUME NEW t, WellFormed(t), NEW u, IsBus(t, u)
  PROVE  /\ BusSources(t, u) \in Seq({b \in Outputs(t) : t.links[b[2]].dst = u})
         /\ BusTargets(t, u) \in Seq({b \in Inputs(t) : t.links[b[2]].src = u})
<1>1. DOMAIN t.links = 1..Len(t.links) /\ Len(t.links) \in Nat
  BY DEF WellFormed
<1>2. ASSUME NEW E, NEW s, s = [i \in DOMAIN t.links |-> s[i]], \A i \in DOMAIN t.links : s[i] \in Seq(E)
      PROVE  FlattenSeq(s) \in Seq(E)
  <2>1. s \in [1..Len(t.links) -> Seq(E)]
    BY <1>1, <1>2
  <2>2. s \in Seq(Seq(E))
    BY <1>1, <2>1
  <2> QED BY <2>2, Flattened
<1>3. BusSources(t, u) \in Seq({b \in Outputs(t) : t.links[b[2]].dst = u})
  <2> DEFINE s == [i \in DOMAIN t.links |-> IF t.links[i].dst = u THEN <<<<"out", i, 1>>>> ELSE <<>>]
             E == {b \in Outputs(t) : t.links[b[2]].dst = u}
  <2>1. ASSUME NEW i \in DOMAIN t.links PROVE s[i] \in Seq(E)
    <3>1. CASE t.links[i].dst = u
      <4>1. ~IsBus(t, t.links[i].src) /\ 1 \in 1..t.links[i].vcs
        BY <3>1, Described
      <4>2. <<"out", i, 1>> \in E
        BY <3>1, <4>1, OutputIs
      <4> HIDE DEF E
      <4> QED BY <3>1, <4>2
    <3>2. CASE t.links[i].dst # u
      BY <3>2
    <3> QED BY <3>1, <3>2
  <2>2. s = [i \in DOMAIN t.links |-> s[i]]
    OBVIOUS
  <2> QED BY <1>2, <2>1, <2>2 DEF BusSources
<1>4. BusTargets(t, u) \in Seq({b \in Inputs(t) : t.links[b[2]].src = u})
  <2> DEFINE s == [i \in DOMAIN t.links |-> IF t.links[i].src = u THEN <<<<"in", i, 1>>>> ELSE <<>>]
             E == {b \in Inputs(t) : t.links[b[2]].src = u}
  <2>1. ASSUME NEW i \in DOMAIN t.links PROVE s[i] \in Seq(E)
    <3>1. CASE t.links[i].src = u
      <4>1. ~IsBus(t, t.links[i].dst) /\ 1 \in 1..t.links[i].vcs
        BY <3>1, Described
      <4>2. <<"in", i, 1>> \in E
        BY <3>1, <4>1, InputIs
      <4> HIDE DEF E
      <4> QED BY <3>1, <4>2
    <3>2. CASE t.links[i].src # u
      BY <3>2
    <3> QED BY <3>1, <3>2
  <2>2. s = [i \in DOMAIN t.links |-> s[i]]
    OBVIOUS
  <2> QED BY <1>2, <2>1, <2>2 DEF BusTargets
<1> QED BY <1>3, <1>4

LEMMA TargetsOf ==
  ASSUME NEW t, WellFormed(t), NEW b \in Outputs(t)
  PROVE  /\ Targets(t, b) \subseteq Inputs(t)
         /\ IsBus(t, t.links[b[2]].dst) => \A c \in Targets(t, b) : t.links[c[2]].src = t.links[b[2]].dst
         /\ ~IsBus(t, t.links[b[2]].dst) => \A c \in Targets(t, b) : c[2] = b[2]
         /\ ~IsBus(t, t.links[b[2]].dst) => <<"in", b[2], b[3]>> \in Targets(t, b)
<1> DEFINE n == t.links[b[2]].dst
<1>1. CASE IsBus(t, n)
  <2>1. BusTargets(t, n) \in Seq({c \in Inputs(t) : t.links[c[2]].src = n})
    BY <1>1, BusBuffers
  <2>2. ToSet(BusTargets(t, n)) \subseteq {c \in Inputs(t) : t.links[c[2]].src = n}
    BY <2>1 DEF ToSet
  <2> QED BY <1>1, <2>2 DEF Targets
<1>2. CASE ~IsBus(t, n)
  <2>1. PICK i \in DOMAIN t.links : \E v \in 1..t.links[i].vcs : b = <<"out", i, v>>
    BY OutputIs
  <2>2. PICK v \in 1..t.links[i].vcs : b = <<"out", i, v>>
    BY <2>1
  <2>3. <<"in", i, v>> \in Inputs(t)
    BY <1>2, <2>2, InputIs
  <2>4. Targets(t, b) = {<<"in", i, v>>}
    BY <1>2, <2>2 DEF Targets
  <2> QED BY <1>2, <2>2, <2>3, <2>4
<1> QED BY <1>1, <1>2

-----------------------------------------------------------------------------
(* The routing table.                                                       *)

Entries(t) == [cost : Nat, next : Nodes(t) \union {None}, out : Outputs(t) \union {None}]
Tables(t)  == [Nodes(t) -> [Nodes(t) -> Entries(t)]]

\* The output buffer of an entry is one of its node.
OwnOuts(t, tab) == \A n, d \in Nodes(t) : tab[n][d].out # None => tab[n][d].out \in OutOf(t, n)

Reaches(t, n, d) == \E b \in ToSet(OutputBuffers(t, n)) : d \in Hops(t, b)

\* The costs during the Floyd-Warshall algorithm: next of an entry is the node itself that
\* is reached, or one in between, to which and from which the way is not longer.
Distances(t, tab) ==
  \A n, d \in Nodes(t) :
    /\ tab[n][d].cost <= Infinity(t)
    /\ tab[n][d].cost = 0 <=> n = d
    /\ n = d => tab[n][d].next = None
    /\ n # d /\ tab[n][d].cost < Infinity(t) => tab[n][d].next # None
    /\ tab[n][d].out # None => tab[n][d].next # None
    /\ tab[n][d].next # None /\ tab[n][d].cost <= 1 => tab[n][d].next = d /\ (~IsBus(t, n) => Reaches(t, n, d))
    /\ tab[n][d].next # None /\ tab[n][d].cost > 1 =>
         /\ tab[n][d].next # d
         /\ tab[n][tab[n][d].next].next # None
         /\ tab[n][tab[n][d].next].cost + tab[tab[n][d].next][d].cost <= tab[n][d].cost
    /\ Reaches(t, n, d) => tab[n][d].cost <= 1

\* No way over k is shorter.
Through(t, tab, k) == \A n, d \in Nodes(t) : tab[n][d].cost <= tab[n][k].cost + tab[k][d].cost

Listed(t) == {p \in Nodes(t) \X Nodes(t) : p[1] \in DOMAIN t.routes /\ p[2] \in DOMAIN t.routes[p[1]]}

Shortest(t, tab) ==
  \A n, d \in {n \in Nodes(t) : ~IsBus(t, n)} :
    LET e == tab[n][d] IN
    /\ e.out # None =>
         /\ e.out \in ToSet(OutputBuffers(t, n)) /\ e.next \in Hops(t, e.out)
         /\ e.cost = tab[e.next][d].cost + 1
    /\ e.out = None => n = d \/ e.cost = Infinity(t)
    /\ \A b \in ToSet(OutputBuffers(t, n)) : \A h \in Hops(t, b) : e.cost <= tab[h][d].cost + 1

RoutingInv ==
  /\ topology \in DOMAIN Topologies
  /\ phase \in {"table", "routed", "ready"}
  /\ table \in Tables(T) /\ OwnOuts(T, table)
  /\ phase = "table" /\ T.routes = <<>> =>
       /\ Distances(T, table) /\ todo \in Seq(Nodes(T))
       /\ \A k \in Nodes(T) \ ToSet(todo) : Through(T, table, k)
  /\ phase = "table" /\ T.routes # <<>> => todo \in Seq(Listed(T))
  /\ phase # "table" /\ T.routes = <<>> => Shortest(T, table)

LEMMA Here ==
  ASSUME topology \in DOMAIN Topologies
  PROVE  /\ WellFormed(T) /\ None \notin Nodes(T) /\ None \notin Outputs(T) /\ None \notin Inputs(T)
         /\ T.nodes \in Seq(Nodes(T)) /\ Infinity(T) \in Nat /\ DOMAIN T.nodes = 1..Infinity(T)
<1>1. WellFormed(T) /\ None \notin Nodes(T) \union ({"out", "in"} \X Nat \X Nat)
  BY RoutingAssumption DEF T
<1>2. T.nodes \in Seq(Nodes(T))
  BY <1>1 DEF WellFormed
<1>3. ASSUME None \in Outputs(T) PROVE FALSE
  <2>1. PICK i \in DOMAIN T.links : \E v \in 1..T.links[i].vcs : None = <<"out", i, v>>
    BY <1>1, <1>3, OutputIs
  <2>2. i \in Nat /\ T.links[i].vcs \in Nat
    BY <1>1, Described
  <2> QED BY <1>1, <2>1, <2>2
<1>4. ASSUME None \in Inputs(T) PROVE FALSE
  <2>1. PICK i \in DOMAIN T.links : \E v \in 1..T.links[i].vcs : None = <<"in", i, v>>
    BY <1>1, <1>4, InputIs
  <2>2. i \in Nat /\ T.links[i].vcs \in Nat
    BY <1>1, Described
  <2> QED BY <1>1, <2>1, <2>2
<1>5. Infinity(T) \in Nat /\ DOMAIN T.nodes = 1..Infinity(T)
  BY <1>2 DEF Infinity
<1> QED BY <1>1, <1>2, <1>3, <1>4, <1>5

\* The search for the first or the last place of a sequence.
LEMMA FirstPlace ==
  ASSUME NEW n \in Nat, NEW I \in SUBSET (1..n), I # {}
  PROVE  Min(I) \in I /\ \A x \in I : Min(I) <= x
<1>1. \E x \in I : \A y \in I : x <= y
  <2>1. PICK x \in I : \A y \in I : <<y, x>> \notin OpToRel(<, Nat)
    <3>1. I \in SUBSET Nat
      OBVIOUS
    <3> QED BY <3>1, WFMin, NatLessThanWellFounded, Zenon
  <2>2. ASSUME NEW y \in I PROVE x <= y
    <3>1. <<y, x>> \in Nat \X Nat /\ x \in Nat /\ y \in Nat
      OBVIOUS
    <3>2. ~(y < x)
      BY <2>1, <3>1 DEF OpToRel
    <3> QED BY <3>1, <3>2
  <2> QED BY <2>2
<1> QED BY <1>1 DEF Min

LEMMA LastPlace ==
  ASSUME NEW n \in Nat, NEW I \in SUBSET (1..n), I # {}
  PROVE  Max(I) \in I
<1> DEFINE J == {n - x : x \in I}
<1>1. \A x \in I : x \in 1..n
  OBVIOUS
<1>2. J \in SUBSET Nat /\ J # {}
  <2>1. \A x \in I : n - x \in Nat
    BY <1>1
  <2> QED BY <2>1
<1>3. PICK j \in J : \A y \in J : <<y, j>> \notin OpToRel(<, Nat)
  <2> HIDE DEF J
  <2> QED BY <1>2, WFMin, NatLessThanWellFounded, Zenon
<1>4. PICK x \in I : j = n - x
  OBVIOUS
<1>5. ASSUME NEW y \in I PROVE x >= y
  <2>1. n - y \in J /\ n - y \in Nat /\ j \in Nat /\ x \in Nat /\ y \in Nat
    BY <1>4
  <2>2. <<n - y, j>> \in Nat \X Nat
    BY <2>1
  <2>3. ~(n - y < j)
    BY <1>3, <2>1, <2>2 DEF OpToRel
  <2> QED BY <1>4, <2>1, <2>3
<1>6. \E z \in I : \A y \in I : z >= y
  BY <1>5
<1> QED BY <1>6 DEF Max

LEMMA OneHop ==
  ASSUME NEW t, WellFormed(t), None \notin Nodes(t), None \notin Outputs(t), NEW n \in Nodes(t), NEW d \in Nodes(t)
  PROVE  LET e == Initiated(t)[n][d] IN
         \/ n = d /\ e = [cost |-> 0, next |-> None, out |-> None]
         \/ /\ n # d /\ e.next = d /\ e.cost = 1 /\ e = [cost |-> 1, next |-> d, out |-> e.out]
            /\ \/ IsBus(t, n) /\ e.out = None
               \/ Reaches(t, n, d) /\ e.out \in OutOf(t, n)
         \/ n # d /\ e = [cost |-> Infinity(t), next |-> None, out |-> None] /\ ~Reaches(t, n, d)
<1> DEFINE outs == OutputBuffers(t, n)
           I == {i \in 1..Len(outs) : d \in Hops(t, outs[i])}
           k == SelectLastInSeq(outs, LAMBDA b : d \in Hops(t, b))
           fromBus == IsBus(t, n) /\ BusSources(t, n) # <<>> /\ d \in {Owner(t, i) : i \in ToSet(BusTargets(t, n))}
           e == Initiated(t)[n][d]
<1>1. e = IF n = d THEN [cost |-> 0, next |-> None, out |-> None]
          ELSE IF fromBus THEN [cost |-> 1, next |-> d, out |-> None]
          ELSE IF k > 0 THEN [cost |-> 1, next |-> d, out |-> outs[k]]
          ELSE [cost |-> Infinity(t), next |-> None, out |-> None]
  BY Zenon DEF Initiated
<1>2. k = IF I # {} THEN Max(I) ELSE 0
  BY DEF SelectLastInSeq
<1>3. outs \in Seq(OutOf(t, n)) /\ Len(outs) \in Nat /\ DOMAIN outs = 1..Len(outs)
  <2>1. outs \in Seq(OutOf(t, n))
    BY BuffersOf
  <2> HIDE DEF outs
  <2> QED BY <2>1
<1> HIDE DEF outs, k, fromBus, e
<1>4. I # {} => k \in I /\ k > 0
  <2>1. I \in SUBSET (1..Len(outs))
    OBVIOUS
  <2> HIDE DEF I
  <2> SUFFICES ASSUME I # {} PROVE k \in I /\ k > 0
    OBVIOUS
  <2>2. Max(I) \in I
    BY <1>3, <2>1, LastPlace
  <2>3. k \in I
    BY <1>2, <2>2
  <2>4. k \in 1..Len(outs)
    BY <2>1, <2>3
  <2> QED BY <1>3, <2>3, <2>4
<1>5. I = {} => k = 0
  BY <1>2
<1>6. Reaches(t, n, d) <=> I # {}
  <2>1. ToSet(outs) = {outs[i] : i \in 1..Len(outs)}
    BY <1>3, Zenon DEF ToSet
  <2>2. Reaches(t, n, d) <=> \E b \in ToSet(outs) : d \in Hops(t, b)
    BY Zenon DEF Reaches, outs
  <2> QED BY <2>1, <2>2
<1>7. CASE n = d
  <2>1. e = [cost |-> 0, next |-> None, out |-> None]
    BY <1>1, <1>7
  <2> QED BY <1>7, <2>1 DEF e
<1>8. CASE n # d /\ fromBus
  <2>1. e = [cost |-> 1, next |-> d, out |-> None]
    BY <1>1, <1>8
  <2>2. IsBus(t, n)
    BY <1>8 DEF fromBus
  <2> QED BY <1>8, <2>1, <2>2 DEF e
<1>9. CASE n # d /\ ~fromBus /\ I # {}
  <2>1. e = [cost |-> 1, next |-> d, out |-> outs[k]]
    BY <1>1, <1>4, <1>9
  <2>2. outs[k] \in OutOf(t, n)
    BY <1>3, <1>4, <1>9
  <2> QED BY <1>6, <1>9, <2>1, <2>2 DEF e
<1>10. CASE n # d /\ ~fromBus /\ I = {}
  <2>1. e = [cost |-> Infinity(t), next |-> None, out |-> None]
    BY <1>1, <1>5, <1>10
  <2> QED BY <1>6, <1>10, <2>1 DEF e
<1> QED BY <1>7, <1>8, <1>9, <1>10

LEMMA InitiatedTable ==
  ASSUME topology \in DOMAIN Topologies
  PROVE  /\ Initiated(T) \in Tables(T) /\ OwnOuts(T, Initiated(T)) /\ Distances(T, Initiated(T))
<1> DEFINE t == T
           tab == Initiated(t)
<1>1. /\ WellFormed(t) /\ None \notin Nodes(t) /\ None \notin Outputs(t)
      /\ t.nodes \in Seq(Nodes(t)) /\ Infinity(t) \in Nat /\ DOMAIN t.nodes = 1..Infinity(t)
  BY Here
<1> HIDE DEF t
<1>2. tab = [n \in Nodes(t) |-> [d \in Nodes(t) |-> tab[n][d]]]
  BY DEF Initiated
<1> HIDE DEF tab
<1>3. ASSUME NEW n \in Nodes(t), NEW d \in Nodes(t)
      PROVE  \/ n = d /\ tab[n][d] = [cost |-> 0, next |-> None, out |-> None]
             \/ /\ n # d /\ tab[n][d].next = d /\ tab[n][d].cost = 1
                /\ tab[n][d] = [cost |-> 1, next |-> d, out |-> tab[n][d].out]
                /\ \/ IsBus(t, n) /\ tab[n][d].out = None
                   \/ Reaches(t, n, d) /\ tab[n][d].out \in OutOf(t, n)
             \/ n # d /\ tab[n][d] = [cost |-> Infinity(t), next |-> None, out |-> None] /\ ~Reaches(t, n, d)
  BY <1>1, OneHop DEF tab
<1>4. \A n : OutOf(t, n) \subseteq Outputs(t)
  BY DEF OutOf
<1>5. Nodes(t) # {} => Infinity(t) >= 1
  BY <1>1 DEF Nodes, ToSet
<1>6. tab \in Tables(t)
  <2>1. ASSUME NEW n \in Nodes(t), NEW d \in Nodes(t) PROVE tab[n][d] \in Entries(t)
    <3>1. CASE n = d /\ tab[n][d] = [cost |-> 0, next |-> None, out |-> None]
      BY <3>1 DEF Entries
    <3>2. CASE /\ tab[n][d] = [cost |-> 1, next |-> d, out |-> tab[n][d].out]
               /\ tab[n][d].out = None \/ tab[n][d].out \in OutOf(t, n)
      <4>1. tab[n][d].out \in Outputs(t) \union {None}
        BY <1>4, <3>2
      <4> QED BY <3>2, <4>1 DEF Entries
    <3>3. CASE tab[n][d] = [cost |-> Infinity(t), next |-> None, out |-> None]
      BY <1>1, <3>3 DEF Entries
    <3> QED BY <1>3, <3>1, <3>2, <3>3
  <2> QED BY <1>2, <2>1 DEF Tables
<1>7. OwnOuts(t, tab)
  <2>1. ASSUME NEW n \in Nodes(t), NEW d \in Nodes(t), tab[n][d].out # None PROVE tab[n][d].out \in OutOf(t, n)
    <3>1. tab[n][d] # [cost |-> 0, next |-> None, out |-> None]
      BY <2>1
    <3>2. tab[n][d] # [cost |-> Infinity(t), next |-> None, out |-> None]
      BY <2>1
    <3> QED BY <1>3, <2>1, <3>1, <3>2
  <2> QED BY <2>1 DEF OwnOuts
<1>8. ASSUME NEW n \in Nodes(t), NEW d \in Nodes(t), Reaches(t, n, d), IsBus(t, n) PROVE FALSE
  <2>1. OutputBuffers(t, n) \in Seq(OutOf(t, n))
    BY <1>1, BuffersOf
  <2>2. PICK b \in ToSet(OutputBuffers(t, n)) : TRUE
    BY <1>8 DEF Reaches
  <2>3. b \in OutOf(t, n)
    BY <2>1, <2>2, Elements DEF ToSet
  <2> QED BY <1>1, <1>8, <2>3, Apart DEF OutOf
<1>9. Distances(t, tab)
  <2>1. ASSUME NEW n \in Nodes(t), NEW d \in Nodes(t)
        PROVE  /\ tab[n][d].cost <= Infinity(t)
               /\ tab[n][d].cost = 0 <=> n = d
               /\ n = d => tab[n][d].next = None
               /\ n # d /\ tab[n][d].cost < Infinity(t) => tab[n][d].next # None
               /\ tab[n][d].out # None => tab[n][d].next # None
               /\ tab[n][d].next # None /\ tab[n][d].cost <= 1 =>
                    tab[n][d].next = d /\ (~IsBus(t, n) => Reaches(t, n, d))
               /\ tab[n][d].next # None => tab[n][d].cost <= 1
               /\ Reaches(t, n, d) => tab[n][d].cost <= 1
    <3>1. Infinity(t) >= 1
      BY <1>5
    <3>2. CASE n = d /\ tab[n][d] = [cost |-> 0, next |-> None, out |-> None]
      BY <1>1, <3>1, <3>2
    <3>3. CASE /\ n # d /\ tab[n][d].next = d /\ tab[n][d].cost = 1
               /\ tab[n][d] = [cost |-> 1, next |-> d, out |-> tab[n][d].out]
               /\ \/ IsBus(t, n) /\ tab[n][d].out = None
                  \/ Reaches(t, n, d) /\ tab[n][d].out \in OutOf(t, n)
      BY <1>1, <3>1, <3>3
    <3>4. CASE n # d /\ tab[n][d] = [cost |-> Infinity(t), next |-> None, out |-> None] /\ ~Reaches(t, n, d)
      BY <1>1, <3>1, <3>4
    <3> QED BY <1>3, <3>2, <3>3, <3>4
  <2>2. \A n, d \in Nodes(t) : tab[n][d].cost \in Nat
    BY <1>6 DEF Tables, Entries
  <2>3. \A n, d \in Nodes(t) : tab[n][d].next # None => ~(tab[n][d].cost > 1)
    BY <2>1, <2>2
  <2> QED BY <2>1, <2>3 DEF Distances
<1> QED BY <1>6, <1>7, <1>9 DEF tab, t

\* What a round for the ways over k does to an entry.
LEMMA RoundEntries ==
  ASSUME topology \in DOMAIN Topologies, table \in Tables(T), Distances(T, table), NEW k \in Nodes(T), Round(k),
         NEW n \in Nodes(T), NEW d \in Nodes(T)
  PROVE  \/ /\ table'[n][d] = table[n][d]
            /\ table[n][d].cost <= table[n][k].cost + table[k][d].cost
         \/ /\ table'[n][d] = [cost |-> table[n][k].cost + table[k][d].cost, next |-> k, out |-> table[n][d].out]
            /\ table[n][k].cost + table[k][d].cost < table[n][d].cost
            /\ k # n /\ k # d /\ n # d
<1> DEFINE cost == table[n][k].cost + table[k][d].cost
<1>1. table'[n][d] = IF Shorter(cost, table[n][d].cost) THEN [table[n][d] EXCEPT !.cost = cost, !.next = k] ELSE table[n][d]
  BY Zenon DEF Round
<1>2. \A x, y \in Nodes(T) : table[x][y] \in [cost : Nat, next : Nodes(T) \union {None}, out : Outputs(T) \union {None}]
  BY DEF Tables, Entries
<1>3. table[n][n].cost = 0 /\ table[d][d].cost = 0
  BY DEF Distances
<1>4. table[n][d].cost \in Nat /\ cost \in Nat /\ table[n][k].cost \in Nat /\ table[k][d].cost \in Nat
  BY <1>2
<1>5. CASE cost < table[n][d].cost
  <2>1. table'[n][d] = [table[n][d] EXCEPT !.cost = cost, !.next = k]
    BY <1>1, <1>5, Zenon DEF Shorter
  <2>2. table'[n][d] = [cost |-> cost, next |-> k, out |-> table[n][d].out]
    BY <1>2, <2>1
  <2>3. k # n /\ k # d
    BY <1>3, <1>4, <1>5
  <2>4. n # d
    BY <1>3, <1>4, <1>5
  <2> QED BY <1>5, <2>2, <2>3, <2>4
<1>6. CASE ~(cost < table[n][d].cost)
  <2>1. table'[n][d] = table[n][d]
    BY <1>1, <1>6, Zenon DEF Shorter
  <2> QED BY <1>4, <1>6, <2>1
<1> QED BY <1>5, <1>6

LEMMA RoundKeeps ==
  ASSUME topology \in DOMAIN Topologies, table \in Tables(T), OwnOuts(T, table), Distances(T, table),
         NEW k \in Nodes(T), Round(k)
  PROVE  /\ table' \in Tables(T) /\ OwnOuts(T, table') /\ Distances(T, table')
         /\ Through(T, table', k)
         /\ \A j \in Nodes(T) : Through(T, table, j) => Through(T, table', j)
<1> DEFINE tab == table
           new == table'
           N == Nodes(T)
           inf == Infinity(T)
           c(x, y) == table[x][y].cost
           e(x, y) == table'[x][y].cost
<1>1. new = [n \in N |-> [d \in N |-> new[n][d]]]
  BY Zenon DEF Round
<1>2. \A x, y \in N : tab[x][y] \in [cost : Nat, next : N \union {None}, out : Outputs(T) \union {None}]
  BY DEF Tables, Entries
<1>3. ASSUME NEW n \in N, NEW d \in N
      PROVE  \/ /\ new[n][d] = tab[n][d]
                /\ c(n, d) <= c(n, k) + c(k, d)
             \/ /\ new[n][d] = [cost |-> c(n, k) + c(k, d), next |-> k, out |-> tab[n][d].out]
                /\ c(n, k) + c(k, d) < c(n, d)
                /\ k # n /\ k # d /\ n # d
  BY RoundEntries
<1>4. None \notin N /\ inf \in Nat
  BY Here
<1>5. ASSUME NEW n \in N, NEW d \in N
      PROVE  /\ c(n, d) <= inf
             /\ c(n, d) = 0 <=> n = d
             /\ n = d => tab[n][d].next = None
             /\ n # d /\ c(n, d) < inf => tab[n][d].next # None
             /\ tab[n][d].out # None => tab[n][d].next # None
             /\ tab[n][d].next # None /\ c(n, d) <= 1 => tab[n][d].next = d /\ (~IsBus(T, n) => Reaches(T, n, d))
             /\ tab[n][d].next # None /\ c(n, d) > 1 =>
                  /\ tab[n][d].next # d
                  /\ tab[n][tab[n][d].next].next # None
                  /\ c(n, tab[n][d].next) + c(tab[n][d].next, d) <= c(n, d)
             /\ Reaches(T, n, d) => c(n, d) <= 1
  BY DEF Distances
<1> HIDE DEF tab, new, N, inf
<1>6. \A x, y \in N : c(x, y) \in Nat
  BY <1>2 DEF tab
<1>7. \A x, y \in N : e(x, y) \in Nat /\ e(x, y) <= c(x, y) /\ (x = k \/ y = k => e(x, y) = c(x, y))
  <2> TAKE x, y \in N
  <2>1. CASE new[x][y] = tab[x][y]
    BY <1>6, <2>1 DEF new, tab
  <2>2. CASE /\ new[x][y] = [cost |-> c(x, k) + c(k, y), next |-> k, out |-> tab[x][y].out]
             /\ c(x, k) + c(k, y) < c(x, y)
             /\ k # x /\ k # y /\ x # y
    <3>1. e(x, y) = c(x, k) + c(k, y)
      BY <2>2 DEF new
    <3>2. c(x, k) \in Nat /\ c(k, y) \in Nat /\ c(x, y) \in Nat
      BY <1>6 DEF N
    <3> QED BY <2>2, <3>1, <3>2
  <2> QED BY <1>3, <2>1, <2>2
<1>8. new \in Tables(T)
  <2>1. ASSUME NEW n \in N, NEW d \in N PROVE new[n][d] \in [cost : Nat, next : N \union {None}, out : Outputs(T) \union {None}]
    <3>1. tab[n][d] \in [cost : Nat, next : N \union {None}, out : Outputs(T) \union {None}]
      BY <1>2
    <3>2. c(n, k) + c(k, d) \in Nat
      BY <1>6 DEF N
    <3>3. tab[n][d].out \in Outputs(T) \union {None}
      BY <3>1
    <3>4. CASE new[n][d] = tab[n][d]
      BY <3>1, <3>4
    <3>5. CASE new[n][d] = [cost |-> c(n, k) + c(k, d), next |-> k, out |-> tab[n][d].out]
      <4> HIDE DEF c
      <4> QED BY <3>2, <3>3, <3>5 DEF N
    <3> QED BY <1>3, <3>4, <3>5
  <2> QED BY <1>1, <2>1 DEF Tables, Entries, N
<1>9. ASSUME NEW n \in N, NEW d \in N PROVE new[n][d].out = tab[n][d].out
  <2>1. CASE new[n][d] = tab[n][d]
    BY <2>1
  <2>2. CASE new[n][d] = [cost |-> c(n, k) + c(k, d), next |-> k, out |-> tab[n][d].out]
    BY <2>2
  <2> QED BY <1>3, <2>1, <2>2
<1>10. OwnOuts(T, new)
  BY <1>9 DEF OwnOuts, tab, N
<1>11. ASSUME NEW n \in N, NEW d \in N, tab[n][d].next # None PROVE new[n][d].next # None
  <2>1. CASE new[n][d] = tab[n][d]
    BY <1>11, <2>1
  <2>2. CASE new[n][d] = [cost |-> c(n, k) + c(k, d), next |-> k, out |-> tab[n][d].out]
    BY <1>4, <2>2 DEF N
  <2> QED BY <1>3, <2>1, <2>2
<1>12. ASSUME NEW n \in N, NEW d \in N
      PROVE  /\ e(n, d) <= inf
             /\ e(n, d) = 0 <=> n = d
             /\ n = d => new[n][d].next = None
             /\ n # d /\ e(n, d) < inf => new[n][d].next # None
             /\ new[n][d].out # None => new[n][d].next # None
             /\ new[n][d].next # None /\ e(n, d) <= 1 => new[n][d].next = d /\ (~IsBus(T, n) => Reaches(T, n, d))
             /\ new[n][d].next # None /\ e(n, d) > 1 =>
                  /\ new[n][d].next # d
                  /\ new[n][new[n][d].next].next # None
                  /\ e(n, new[n][d].next) + e(new[n][d].next, d) <= e(n, d)
             /\ Reaches(T, n, d) => e(n, d) <= 1
  <2>1. c(n, d) \in Nat /\ e(n, d) \in Nat /\ e(n, d) <= c(n, d) /\ c(n, d) <= inf
    BY <1>5, <1>6, <1>7
  <2>2. CASE new[n][d] = tab[n][d]
    <3>1. e(n, d) = c(n, d)
      BY <2>2 DEF new, tab
    <3>2. ASSUME new[n][d].next # None, e(n, d) > 1
          PROVE  /\ new[n][d].next # d
                 /\ new[n][new[n][d].next].next # None
                 /\ e(n, new[n][d].next) + e(new[n][d].next, d) <= e(n, d)
      <4> DEFINE x == tab[n][d].next
      <4>1. x \in N /\ x = new[n][d].next
        BY <1>2, <2>2, <3>2
      <4>2. x # d /\ tab[n][x].next # None /\ c(n, x) + c(x, d) <= c(n, d)
        BY <1>5, <2>2, <3>1, <3>2
      <4> HIDE DEF x
      <4>3. new[n][x].next # None
        BY <1>11, <4>1, <4>2
      <4>4. /\ e(n, x) \in Nat /\ e(n, x) <= c(n, x) /\ c(n, x) \in Nat
            /\ e(x, d) \in Nat /\ e(x, d) <= c(x, d) /\ c(x, d) \in Nat
        BY <1>6, <1>7, <4>1
      <4>5. e(n, x) + e(x, d) <= e(n, d)
        <5> HIDE DEF c, e
        <5> QED BY <2>1, <3>1, <4>2, <4>4
      <4> QED BY <4>1, <4>2, <4>3, <4>5
    <3> HIDE DEF c, e
    <3> QED BY <1>5, <2>1, <2>2, <3>1, <3>2
  <2>3. CASE /\ new[n][d] = [cost |-> c(n, k) + c(k, d), next |-> k, out |-> tab[n][d].out]
             /\ c(n, k) + c(k, d) < c(n, d)
             /\ k # n /\ k # d /\ n # d
    <3>1. new[n][d].next = k /\ e(n, d) = c(n, k) + c(k, d) /\ k \in N
      BY <2>3 DEF new, N
    <3>2. c(n, k) \in Nat /\ c(k, d) \in Nat /\ c(n, k) # 0 /\ c(k, d) # 0
      BY <1>5, <1>6, <2>3, <3>1
    <3>3. e(n, d) > 1 /\ e(n, d) # 0 /\ c(n, k) < inf
      <4> HIDE DEF c, e
      <4> QED BY <1>4, <2>1, <2>3, <3>1, <3>2
    <3>4. tab[n][k].next # None
      BY <1>5, <2>3, <3>1, <3>3
    <3>5. new[n][k].next # None
      BY <1>11, <3>1, <3>4
    <3>6. e(n, k) = c(n, k) /\ e(k, d) = c(k, d)
      BY <1>7, <3>1
    <3>7. e(n, k) + e(k, d) <= e(n, d)
      <4> HIDE DEF c, e
      <4> QED BY <3>1, <3>2, <3>6
    <3>8. Reaches(T, n, d) => FALSE
      <4> HIDE DEF c, e
      <4> QED BY <1>5, <2>1, <2>3, <3>1, <3>3
    <3> HIDE DEF c, e
    <3> QED BY <1>4, <2>1, <2>3, <3>1, <3>3, <3>5, <3>7, <3>8
  <2> QED BY <1>3, <2>2, <2>3
<1>13. Distances(T, new)
  BY <1>12 DEF Distances, N, inf, new
<1>14. \A n, d \in N : e(n, d) <= c(n, k) + c(k, d)
  <2> TAKE n, d \in N
  <2>1. c(n, k) \in Nat /\ c(k, d) \in Nat
    BY <1>6 DEF N
  <2>2. CASE new[n][d] = tab[n][d] /\ c(n, d) <= c(n, k) + c(k, d)
    BY <2>2 DEF new, tab
  <2>3. CASE new[n][d] = [cost |-> c(n, k) + c(k, d), next |-> k, out |-> tab[n][d].out]
    <3>1. e(n, d) = c(n, k) + c(k, d)
      BY <2>3 DEF new
    <3> HIDE DEF c, e
    <3> QED BY <2>1, <3>1
  <2> QED BY <1>3, <2>2, <2>3
<1>15. \A n, d \in N : e(n, d) = c(n, d) \/ e(n, d) = c(n, k) + c(k, d)
  <2> TAKE n, d \in N
  <2>1. CASE new[n][d] = tab[n][d]
    BY <2>1 DEF new, tab
  <2>2. CASE new[n][d] = [cost |-> c(n, k) + c(k, d), next |-> k, out |-> tab[n][d].out]
    BY <2>2 DEF new
  <2> QED BY <1>3, <2>1, <2>2
<1>16. k \in N
  BY DEF N
<1>17. Through(T, new, k)
  <2>1. ASSUME NEW n \in N, NEW d \in N PROVE e(n, d) <= e(n, k) + e(k, d)
    <3>1. e(n, k) = c(n, k) /\ e(k, d) = c(k, d)
      BY <1>7, <1>16
    <3> HIDE DEF c, e
    <3> QED BY <1>14, <3>1
  <2> QED BY <2>1 DEF Through, N, new
<1>18. ASSUME NEW j \in N, Through(T, table, j) PROVE Through(T, new, j)
  <2>1. \A n, d \in N : c(n, d) <= c(n, j) + c(j, d)
    BY <1>18 DEF Through, N
  <2>2. ASSUME NEW n \in N, NEW d \in N PROVE e(n, d) <= e(n, j) + e(j, d)
    <3> HIDE DEF c, e
    <3>1. /\ c(n, k) \in Nat /\ c(k, d) \in Nat /\ c(n, j) \in Nat /\ c(j, d) \in Nat /\ c(k, j) \in Nat /\ c(j, k) \in Nat
          /\ c(n, d) \in Nat /\ e(n, d) \in Nat
      BY <1>6, <1>7, <1>16
    <3>2. e(n, d) <= c(n, d) /\ e(n, d) <= c(n, k) + c(k, d) /\ c(n, d) <= c(n, j) + c(j, d)
      BY <1>7, <1>14, <2>1
    <3>3. c(n, k) <= c(n, j) + c(j, k) /\ c(k, d) <= c(k, j) + c(j, d)
      BY <1>16, <2>1
    <3>4. e(n, j) = c(n, j) \/ e(n, j) = c(n, k) + c(k, j)
      BY <1>15
    <3>5. e(j, d) = c(j, d) \/ e(j, d) = c(j, k) + c(k, d)
      BY <1>15
    <3> QED BY <3>1, <3>2, <3>3, <3>4, <3>5
  <2> QED BY <2>2 DEF Through, N, new
<1> QED BY <1>8, <1>10, <1>13, <1>17, <1>18 DEF new, N

\* The entries of n that have a next node, those with a cost of at most c, and the first hop
\* of each.
Led(n)         == {x \in Nodes(T) : table[n][x].next # None}
Within(n, c)   == {x \in Led(n) : table[n][x].cost <= c}
Leads(n, D, f) == f = [x \in D |-> IF table[n][x].cost <= 1 THEN x ELSE f[table[n][x].next]]

LEMMA NextIsNearer ==
  ASSUME topology \in DOMAIN Topologies, table \in Tables(T), Distances(T, table),
         NEW n \in Nodes(T), NEW x \in Led(n)
  PROVE  /\ x \in Nodes(T) /\ table[n][x].cost \in Nat /\ n # x /\ table[n][x].cost # 0
         /\ table[n][x].cost > 1 =>
              LET y == table[n][x].next IN
              /\ y \in Led(n) /\ table[n][y].cost \in Nat /\ table[n][y].cost < table[n][x].cost
              /\ table[y][x].cost \in Nat /\ table[n][y].cost + table[y][x].cost <= table[n][x].cost
<1>1. \A u, v \in Nodes(T) : table[u][v] \in [cost : Nat, next : Nodes(T) \union {None}, out : Outputs(T) \union {None}]
  BY DEF Tables, Entries
<1>2. x \in Nodes(T) /\ table[n][x].next # None
  BY DEF Led
<1>3. table[n][x].cost \in Nat /\ n # x /\ table[n][x].cost # 0
  BY <1>1, <1>2 DEF Distances
<1> DEFINE y == table[n][x].next
<1>4. ASSUME table[n][x].cost > 1
      PROVE  /\ y \in Led(n) /\ table[n][y].cost \in Nat /\ table[n][y].cost < table[n][x].cost
             /\ table[y][x].cost \in Nat /\ table[n][y].cost + table[y][x].cost <= table[n][x].cost
  <2>1. y \in Nodes(T)
    BY <1>1, <1>2
  <2>2. y # x /\ table[n][y].next # None /\ table[n][y].cost + table[y][x].cost <= table[n][x].cost
    BY <1>2, <1>4 DEF Distances
  <2> HIDE DEF y
  <2>3. table[n][y].cost \in Nat /\ table[y][x].cost \in Nat /\ table[y][x].cost # 0
    BY <1>1, <1>2, <2>1, <2>2 DEF Distances
  <2>4. table[n][y].cost < table[n][x].cost
    BY <1>3, <2>2, <2>3
  <2> QED BY <2>1, <2>2, <2>3, <2>4 DEF Led
<1> QED BY <1>2, <1>3, <1>4

LEMMA HopsDefined ==
  ASSUME topology \in DOMAIN Topologies, table \in Tables(T), Distances(T, table), NEW n \in Nodes(T), NEW c \in Nat
  PROVE  \E f : Leads(n, Within(n, c), f)
<1> DEFINE S == {k \in Nat : ~\E f : Leads(n, Within(n, k), f)}
<1>1. SUFFICES ASSUME S # {} PROVE FALSE
  OBVIOUS
<1>2. PICK m \in S : \A k \in S : <<k, m>> \notin OpToRel(<, Nat)
  <2>1. S \in SUBSET Nat
    OBVIOUS
  <2> HIDE DEF S
  <2> QED BY <1>1, <2>1, WFMin, NatLessThanWellFounded, Zenon
<1>3. m \in Nat /\ ~\E f : Leads(n, Within(n, m), f)
  OBVIOUS
<1>4. CASE m = 0
  <2>1. Within(n, m) = {}
    BY <1>4, NextIsNearer DEF Within
  <2> DEFINE f == [x \in {} |-> x]
  <2>2. f = [x \in Within(n, m) |-> IF table[n][x].cost <= 1 THEN x ELSE f[table[n][x].next]]
    BY <2>1, Zenon
  <2> QED BY <1>3, <2>2, Zenon DEF Leads
<1>5. CASE m # 0
  <2>1. m - 1 \in Nat /\ m - 1 < m
    BY <1>3, <1>5
  <2>2. m - 1 \notin S
    <3>1. <<m - 1, m>> \in Nat \X Nat
      BY <1>3, <2>1
    <3> QED BY <1>2, <2>1, <3>1 DEF OpToRel
  <2>3. PICK g : Leads(n, Within(n, m - 1), g)
    BY <2>1, <2>2
  <2> DEFINE f == [x \in Within(n, m) |-> IF table[n][x].cost <= 1 THEN x ELSE g[table[n][x].next]]
  <2>4. \A x \in Within(n, m - 1) : g[x] = IF table[n][x].cost <= 1 THEN x ELSE g[table[n][x].next]
    BY <2>3, Zenon DEF Leads
  <2>5. \A x \in Within(n, m - 1) : x \in Within(n, m)
    BY <1>3, <2>1, NextIsNearer DEF Within
  <2>6. \A x \in Within(n, m - 1) : f[x] = IF table[n][x].cost <= 1 THEN x ELSE g[table[n][x].next]
    BY <2>5, Zenon
  <2>7. \A x \in Within(n, m - 1) : f[x] = g[x]
    <3> HIDE DEF f
    <3> QED BY <2>4, <2>6, Zenon
  <2>8. \A x \in Within(n, m) : ~(table[n][x].cost <= 1) => table[n][x].next \in Within(n, m - 1)
    <3> TAKE x \in Within(n, m)
    <3>1. x \in Led(n) /\ table[n][x].cost <= m
      BY DEF Within
    <3> DEFINE y == table[n][x].next
    <3>2. table[n][x].cost \in Nat
      BY <3>1, NextIsNearer
    <3>3. ASSUME ~(table[n][x].cost <= 1) PROVE y \in Within(n, m - 1)
      <4>1. table[n][x].cost > 1
        BY <3>2, <3>3
      <4>2. y \in Led(n) /\ table[n][y].cost \in Nat /\ table[n][y].cost < table[n][x].cost
        BY <3>1, <4>1, NextIsNearer
      <4> HIDE DEF y
      <4>3. table[n][y].cost <= m - 1
        BY <1>3, <3>1, <3>2, <4>2
      <4> QED BY <4>2, <4>3 DEF Within
    <3> QED BY <3>3
  <2>9. \A x \in Within(n, m) : (IF table[n][x].cost <= 1 THEN x ELSE g[table[n][x].next])
                                = (IF table[n][x].cost <= 1 THEN x ELSE f[table[n][x].next])
    <3> HIDE DEF f
    <3> QED BY <2>7, <2>8, Zenon
  <2>10. f = [x \in Within(n, m) |-> IF table[n][x].cost <= 1 THEN x ELSE f[table[n][x].next]]
    <3>1. f = [x \in Within(n, m) |-> IF table[n][x].cost <= 1 THEN x ELSE g[table[n][x].next]]
      OBVIOUS
    <3> HIDE DEF f
    <3> QED BY <2>9, <3>1, Zenon
  <2> QED BY <1>3, <2>10, Zenon DEF Leads
<1> QED BY <1>4, <1>5

\* The first hop towards x is a neighbour, and from there x is nearer by one.
LEMMA FirstHopIs ==
  ASSUME topology \in DOMAIN Topologies, table \in Tables(T), Distances(T, table),
         NEW n \in Nodes(T), NEW x \in Led(n), ~IsBus(T, n), \A k \in Nodes(T) : Through(T, table, k)
  PROVE  LET h == FirstHop(n, x) IN
         h \in Nodes(T) /\ Reaches(T, n, h) /\ table[h][x].cost + 1 <= table[n][x].cost
<1> DEFINE inf == Infinity(T)
           hop == CHOOSE hop : hop = [y \in {y \in Nodes(T) : table[n][y].next # None} |->
                                        IF table[n][y].cost <= 1 THEN y ELSE hop[table[n][y].next]]
<1>1. FirstHop(n, x) = hop[x]
  BY Zenon DEF FirstHop
<1>2. Within(n, inf) = {y \in Nodes(T) : table[n][y].next # None}
  BY DEF Within, Led, Distances
<1>3. \E f : Leads(n, Within(n, inf), f)
  BY Here, HopsDefined
<1>4. hop = [y \in {y \in Nodes(T) : table[n][y].next # None} |-> IF table[n][y].cost <= 1 THEN y ELSE hop[table[n][y].next]]
  BY <1>2, <1>3, Zenon DEF Leads
<1> HIDE DEF hop
<1>5. \A y \in Led(n) : hop[y] = IF table[n][y].cost <= 1 THEN y ELSE hop[table[n][y].next]
  BY <1>4, Zenon DEF Led
<1> DEFINE Good(y) == hop[y] \in Nodes(T) /\ Reaches(T, n, hop[y]) /\ table[hop[y]][y].cost + 1 <= table[n][y].cost
           S == {c \in Nat : \E y \in Led(n) : table[n][y].cost = c /\ ~Good(y)}
<1>6. \A u, v \in Nodes(T) : table[u][v].cost \in Nat
  BY DEF Tables, Entries
<1>7. S = {}
  <2> SUFFICES ASSUME S # {} PROVE FALSE
    OBVIOUS
  <2>1. PICK c \in S : \A k \in S : <<k, c>> \notin OpToRel(<, Nat)
    <3>1. S \in SUBSET Nat
      OBVIOUS
    <3> HIDE DEF S
    <3> QED BY <3>1, WFMin, NatLessThanWellFounded, Zenon
  <2>2. PICK y \in Led(n) : table[n][y].cost = c /\ ~Good(y)
    OBVIOUS
  <2>3. y \in Nodes(T) /\ table[n][y].cost \in Nat /\ n # y /\ table[n][y].cost # 0 /\ c \in Nat /\ table[n][y].next # None
    BY <2>2, NextIsNearer DEF Led
  <2>4. CASE table[n][y].cost <= 1
    <3>1. hop[y] = y
      BY <1>5, <2>4
    <3>2. Reaches(T, n, y) /\ table[y][y].cost = 0
      BY <2>3, <2>4 DEF Distances
    <3>3. table[y][y].cost + 1 <= table[n][y].cost
      BY <2>3, <3>2
    <3> QED BY <2>2, <2>3, <3>1, <3>2, <3>3
  <2>5. CASE ~(table[n][y].cost <= 1)
    <3> DEFINE z == table[n][y].next
               h == hop[z]
    <3>1. hop[y] = h
      BY <1>5, <2>5
    <3>2. table[n][y].cost > 1
      BY <2>3, <2>5
    <3>3. /\ z \in Led(n) /\ z \in Nodes(T) /\ table[n][z].cost \in Nat /\ table[n][z].cost < table[n][y].cost
          /\ table[z][y].cost \in Nat /\ table[n][z].cost + table[z][y].cost <= table[n][y].cost
      BY <3>2, NextIsNearer DEF Led
    <3> HIDE DEF z
    <3>4. table[n][z].cost \notin S
      <4> DEFINE k == table[n][z].cost
      <4>1. <<k, c>> \in Nat \X Nat /\ k < c
        BY <2>2, <2>3, <3>3
      <4> HIDE DEF k, S
      <4>2. k \notin S
        BY <2>1, <4>1 DEF OpToRel
      <4> QED BY <4>2 DEF k
    <3>5. Good(z)
      BY <3>3, <3>4
    <3>6. h \in Nodes(T) /\ Reaches(T, n, h) /\ table[h][z].cost + 1 <= table[n][z].cost
      BY <3>5
    <3> HIDE DEF h
    <3>7. table[h][y].cost <= table[h][z].cost + table[z][y].cost
      <4>1. Through(T, table, z)
        BY <3>3
      <4> QED BY <2>3, <3>6, <4>1 DEF Through
    <3>8. table[h][y].cost \in Nat /\ table[h][z].cost \in Nat
      BY <1>6, <2>3, <3>3, <3>6
    <3>9. table[h][y].cost + 1 <= table[n][y].cost
      BY <2>3, <3>3, <3>6, <3>7, <3>8
    <3> QED BY <2>2, <3>1, <3>6, <3>9
  <2> QED BY <2>4, <2>5
<1>8. Good(x)
  <2>1. table[n][x].cost \in Nat
    BY NextIsNearer
  <2> QED BY <1>7, <2>1
<1> QED BY <1>1, <1>8

LEMMA Neighbours ==
  ASSUME topology \in DOMAIN Topologies, NEW n, NEW b \in ToSet(OutputBuffers(T, n)), NEW h \in Hops(T, b)
  PROVE  b \in OutOf(T, n) /\ h \in Nodes(T) /\ Reaches(T, n, h)
<1>1. WellFormed(T)
  BY Here
<1>2. b \in OutOf(T, n)
  <2>1. OutputBuffers(T, n) \in Seq(OutOf(T, n))
    BY <1>1, BuffersOf
  <2>2. PICK i \in DOMAIN OutputBuffers(T, n) : b = OutputBuffers(T, n)[i]
    BY DEF ToSet
  <2> QED BY <2>1, <2>2, Elements
<1>3. PICK i \in Targets(T, b) : h = Owner(T, i)
  BY DEF Hops
<1>4. i \in Inputs(T)
  BY <1>1, <1>2, TargetsOf DEF OutOf
<1>5. h = T.links[i[2]].dst /\ i[2] \in DOMAIN T.links
  BY <1>1, <1>3, <1>4, Apart
<1>6. h \in Nodes(T)
  BY <1>1, <1>5, Described
<1> QED BY <1>2, <1>6 DEF Reaches

LEMMA FirstHopsEntries ==
  ASSUME topology \in DOMAIN Topologies, table \in Tables(T), OwnOuts(T, table), Distances(T, table),
         \A k \in Nodes(T) : Through(T, table, k), FirstHops, NEW n \in Nodes(T), NEW d \in Nodes(T)
  PROVE  LET e == table[n][d]
             r == table'[n][d]
         IN
         IF e.next = None \/ IsBus(T, n) THEN r = e
         ELSE /\ r = [cost |-> e.cost, next |-> r.next, out |-> r.out]
              /\ r.out \in ToSet(OutputBuffers(T, n)) /\ r.next \in Hops(T, r.out)
              /\ e.cost = table[r.next][d].cost + 1
<1> DEFINE e == table[n][d]
           h == FirstHop(n, e.next)
           outs == OutputBuffers(T, n)
           I == {i \in 1..Len(outs) : h \in Hops(T, outs[i])}
           k == SelectInSeq(outs, LAMBDA b : h \in Hops(T, b))
           r == table'[n][d]
<1>1. r = IF e.next = None \/ IsBus(T, n) THEN e ELSE [e EXCEPT !.next = h, !.out = outs[k]]
  BY Zenon DEF FirstHops
<1>2. SUFFICES ASSUME e.next # None, ~IsBus(T, n)
               PROVE  /\ r = [cost |-> e.cost, next |-> r.next, out |-> r.out]
                      /\ r.out \in ToSet(outs) /\ r.next \in Hops(T, r.out)
                      /\ e.cost = table[r.next][d].cost + 1
  BY <1>1, Zenon
<1>3. d \in Led(n)
  BY <1>2 DEF Led
<1>4. \A u, v \in Nodes(T) : table[u][v] \in [cost : Nat, next : Nodes(T) \union {None}, out : Outputs(T) \union {None}]
  BY DEF Tables, Entries
<1>5. h \in Nodes(T) /\ Reaches(T, n, h) /\ table[h][d].cost + 1 <= e.cost
  <2>1. CASE e.cost <= 1
    <3>1. e.next = d
      BY <1>2, <2>1 DEF Distances
    <3> QED BY <1>2, <1>3, <3>1, FirstHopIs
  <2>2. CASE ~(e.cost <= 1)
    <3> DEFINE y == e.next
    <3>1. e.cost > 1 /\ e.cost \in Nat
      BY <1>4, <2>2
    <3>2. y \in Led(n) /\ table[n][y].cost \in Nat /\ table[y][d].cost \in Nat /\ table[n][y].cost + table[y][d].cost <= e.cost
      BY <1>3, <3>1, NextIsNearer
    <3>3. h \in Nodes(T) /\ Reaches(T, n, h) /\ table[h][y].cost + 1 <= table[n][y].cost
      BY <1>2, <3>2, FirstHopIs
    <3>4. y \in Nodes(T)
      BY <3>2 DEF Led
    <3> HIDE DEF h, y
    <3>5. table[h][d].cost <= table[h][y].cost + table[y][d].cost
      BY <3>3, <3>4 DEF Through
    <3>6. table[h][d].cost \in Nat /\ table[h][y].cost \in Nat
      BY <1>4, <3>3, <3>4
    <3>7. table[h][d].cost + 1 <= e.cost
      BY <3>1, <3>2, <3>3, <3>5, <3>6
    <3> QED BY <3>3, <3>7
  <2> QED BY <2>1, <2>2
<1> HIDE DEF h
<1>6. e.cost = table[h][d].cost + 1
  <2>1. e.cost <= table[n][h].cost + table[h][d].cost
    BY <1>5 DEF Through
  <2>2. table[n][h].cost <= 1
    BY <1>5 DEF Distances
  <2>3. table[n][h].cost \in Nat /\ table[h][d].cost \in Nat /\ e.cost \in Nat
    BY <1>4, <1>5
  <2> QED BY <1>5, <2>1, <2>2, <2>3
<1>7. outs \in Seq(OutOf(T, n)) /\ Len(outs) \in Nat /\ DOMAIN outs = 1..Len(outs)
  <2>1. outs \in Seq(OutOf(T, n))
    BY Here, BuffersOf
  <2> HIDE DEF outs
  <2> QED BY <2>1
<1>8. k \in I
  <2>1. k = IF I # {} THEN Min(I) ELSE 0
    BY DEF SelectInSeq
  <2>2. PICK b \in ToSet(outs) : h \in Hops(T, b)
    BY <1>5 DEF Reaches
  <2>3. I # {}
    BY <1>7, <2>2 DEF ToSet
  <2>4. I \in SUBSET (1..Len(outs))
    OBVIOUS
  <2> HIDE DEF I, outs, k
  <2>5. Min(I) \in I
    BY <1>7, <2>3, <2>4, FirstPlace
  <2> QED BY <2>1, <2>3, <2>5
<1>9. h \in Hops(T, outs[k]) /\ outs[k] \in ToSet(outs)
  BY <1>7, <1>8 DEF ToSet
<1> HIDE DEF k, outs
<1>10. r = [e EXCEPT !.next = h, !.out = outs[k]]
  BY <1>1, <1>2
<1>11. r = [cost |-> e.cost, next |-> h, out |-> outs[k]]
  BY <1>4, <1>10, Zenon
<1> HIDE DEF r, e
<1>12. r.next = h /\ r.out = outs[k] /\ r = [cost |-> e.cost, next |-> r.next, out |-> r.out]
  BY <1>11
<1> QED BY <1>6, <1>9, <1>12

LEMMA FirstHopsLead ==
  ASSUME topology \in DOMAIN Topologies, table \in Tables(T), OwnOuts(T, table), Distances(T, table),
         \A k \in Nodes(T) : Through(T, table, k), FirstHops, T' = T
  PROVE  /\ table' \in Tables(T) /\ OwnOuts(T, table') /\ Shortest(T, table')
<1> DEFINE N == Nodes(T)
           Same(n, d) == table'[n][d] = table[n][d]
           Changed(n, d) ==
             /\ table'[n][d] = [cost |-> table[n][d].cost, next |-> table'[n][d].next, out |-> table'[n][d].out]
             /\ table'[n][d].out \in ToSet(OutputBuffers(T, n)) /\ table'[n][d].next \in Hops(T, table'[n][d].out)
             /\ table[n][d].cost = table[table'[n][d].next][d].cost + 1
<1>1. ASSUME NEW n \in N, NEW d \in N
      PROVE  IF table[n][d].next = None \/ IsBus(T, n) THEN Same(n, d) ELSE Changed(n, d)
  BY FirstHopsEntries
<1>2. \A u, v \in N : table[u][v] \in [cost : Nat, next : Nodes(T) \union {None}, out : Outputs(T) \union {None}]
  BY DEF Tables, Entries
<1>3. table' = [n \in N |-> [d \in N |-> table'[n][d]]]
  BY Zenon DEF FirstHops
<1>4. ASSUME NEW n \in N, NEW d \in N, Changed(n, d)
      PROVE  /\ table'[n][d] \in [cost : Nat, next : Nodes(T) \union {None}, out : Outputs(T) \union {None}]
             /\ table'[n][d].out \in OutOf(T, n) /\ table'[n][d].cost = table[n][d].cost
  <2> DEFINE r == table'[n][d]
             c == table[n][d].cost
  <2>1. r.out \in OutOf(T, n) /\ r.next \in Nodes(T)
    BY <1>4, Neighbours
  <2>2. r.out \in Outputs(T) /\ c \in Nat /\ r = [cost |-> c, next |-> r.next, out |-> r.out]
    BY <1>2, <1>4, <2>1 DEF OutOf
  <2> HIDE DEF r, c
  <2>3. r \in [cost : Nat, next : Nodes(T) \union {None}, out : Outputs(T) \union {None}] /\ r.cost = c
    BY <2>1, <2>2
  <2> QED BY <2>1, <2>3 DEF r, c
<1> HIDE DEF Same, Changed
<1>5. ASSUME NEW n \in N, NEW d \in N
      PROVE  /\ table'[n][d] \in [cost : Nat, next : Nodes(T) \union {None}, out : Outputs(T) \union {None}]
             /\ table'[n][d].out # None => table'[n][d].out \in OutOf(T, n)
             /\ table'[n][d].cost = table[n][d].cost
  <2>1. CASE Same(n, d)
    BY <1>2, <2>1 DEF Same, OwnOuts
  <2>2. CASE Changed(n, d)
    BY <1>4, <2>2
  <2> QED BY <1>1, <2>1, <2>2
<1>6. table' \in Tables(T) /\ OwnOuts(T, table')
  BY <1>3, <1>5 DEF Tables, Entries, OwnOuts
<1>7. ASSUME NEW n \in N, NEW d \in N, ~IsBus(T, n)
      PROVE  LET e == table'[n][d] IN
             /\ e.out # None =>
                  /\ e.out \in ToSet(OutputBuffers(T, n)) /\ e.next \in Hops(T, e.out)
                  /\ e.cost = table'[e.next][d].cost + 1
             /\ e.out = None => n = d \/ e.cost = Infinity(T)
             /\ \A b \in ToSet(OutputBuffers(T, n)) : \A h \in Hops(T, b) : e.cost <= table'[h][d].cost + 1
  <2> DEFINE e == table'[n][d]
  <2>1. ASSUME e.out # None
        PROVE  e.out \in ToSet(OutputBuffers(T, n)) /\ e.next \in Hops(T, e.out) /\ e.cost = table'[e.next][d].cost + 1
    <3>1. CASE table[n][d].next = None
      <4>1. Same(n, d)
        BY <1>1, <3>1
      <4>2. table[n][d].out = None
        BY <3>1 DEF Distances
      <4> QED BY <2>1, <4>1, <4>2 DEF Same
    <3>2. CASE table[n][d].next # None
      <4>1. Changed(n, d)
        BY <1>1, <1>7, <3>2
      <4>2. e.out \in ToSet(OutputBuffers(T, n)) /\ e.next \in Hops(T, e.out)
        BY <4>1 DEF Changed
      <4>3. e.next \in N
        BY <4>2, Neighbours
      <4>4. e.cost = table[n][d].cost /\ table'[e.next][d].cost = table[e.next][d].cost
        BY <1>5, <4>3
      <4> QED BY <4>1, <4>2, <4>4 DEF Changed
    <3> QED BY <3>1, <3>2
  <2>2. ASSUME e.out = None PROVE n = d \/ e.cost = Infinity(T)
    <3>1. CASE table[n][d].next = None
      <4>1. e.cost = table[n][d].cost /\ e.cost \in Nat
        BY <1>2, <1>5
      <4>2. n = d \/ ~(table[n][d].cost < Infinity(T))
        BY <3>1 DEF Distances
      <4>3. table[n][d].cost <= Infinity(T) /\ Infinity(T) \in Nat
        BY Here DEF Distances
      <4> QED BY <4>1, <4>2, <4>3
    <3>2. CASE table[n][d].next # None
      <4>1. Changed(n, d)
        BY <1>1, <1>7, <3>2
      <4>2. e.out \in OutOf(T, n)
        BY <1>4, <4>1
      <4>3. None \notin Outputs(T)
        BY Here
      <4> QED BY <2>2, <4>2, <4>3 DEF OutOf
    <3> QED BY <3>1, <3>2
  <2>3. ASSUME NEW b \in ToSet(OutputBuffers(T, n)), NEW h \in Hops(T, b) PROVE e.cost <= table'[h][d].cost + 1
    <3>1. h \in N /\ Reaches(T, n, h)
      BY <2>3, Neighbours
    <3>2. table[n][h].cost <= 1 /\ table[n][d].cost <= table[n][h].cost + table[h][d].cost
      BY <3>1 DEF Distances, Through
    <3>3. table[n][h].cost \in Nat /\ table[h][d].cost \in Nat /\ table[n][d].cost \in Nat
      BY <1>2, <3>1
    <3>4. e.cost = table[n][d].cost /\ table'[h][d].cost = table[h][d].cost
      BY <1>5, <3>1
    <3> QED BY <3>2, <3>3, <3>4
  <2> QED BY <2>1, <2>2, <2>3
<1>8. Shortest(T, table')
  BY <1>7, Zenon DEF Shortest
<1> QED BY <1>6, <1>8

\* The routes of a Routes section.
LEMMA RoutesListed ==
  ASSUME topology \in DOMAIN Topologies, T.routes # <<>>
  PROVE  ListedRoutes(T) \in Seq(Listed(T))
<1> DEFINE one(i, j) == IF T.nodes[i] \in DOMAIN T.routes /\ T.nodes[j] \in DOMAIN T.routes[T.nodes[i]]
                        THEN <<<<T.nodes[i], T.nodes[j]>>>> ELSE <<>>
           row(i) == [j \in DOMAIN T.nodes |-> one(i, j)]
           rows   == [i \in DOMAIN T.nodes |-> FlattenSeq(row(i))]
           n == Infinity(T)
<1>1. n \in Nat /\ DOMAIN T.nodes = 1..n /\ \A i \in 1..n : T.nodes[i] \in Nodes(T)
  BY Here
<1> HIDE DEF n
<1>2. ASSUME NEW i \in 1..n PROVE FlattenSeq(row(i)) \in Seq(Listed(T))
  <2>1. ASSUME NEW j \in 1..n PROVE one(i, j) \in Seq(Listed(T))
    <3> DEFINE p == <<T.nodes[i], T.nodes[j]>>
    <3>1. CASE T.nodes[i] \in DOMAIN T.routes /\ T.nodes[j] \in DOMAIN T.routes[T.nodes[i]]
      <4>1. p \in Listed(T)
        BY <1>1, <3>1 DEF Listed
      <4>2. one(i, j) = <<p>>
        BY <3>1
      <4> HIDE DEF p, one
      <4> QED BY <4>1, <4>2
    <3>2. CASE ~(T.nodes[i] \in DOMAIN T.routes /\ T.nodes[j] \in DOMAIN T.routes[T.nodes[i]])
      BY <3>2
    <3> QED BY <3>1, <3>2
  <2> HIDE DEF one
  <2>2. row(i) \in [1..n -> Seq(Listed(T))]
    BY <1>1, <2>1
  <2>3. row(i) \in Seq(Seq(Listed(T)))
    BY <1>1, <2>2
  <2> HIDE DEF row
  <2> QED BY <2>3, Flattened
<1>3. ListedRoutes(T) = FlattenSeq(rows)
  BY DEF ListedRoutes
<1> HIDE DEF row
<1>4. rows \in [1..n -> Seq(Listed(T))]
  BY <1>1, <1>2
<1>5. rows \in Seq(Seq(Listed(T)))
  BY <1>1, <1>4
<1> HIDE DEF rows
<1> QED BY <1>3, <1>5, Flattened

LEMMA EntrySet ==
  ASSUME NEW N, NEW E, NEW tab \in [N -> [N -> E]], NEW n \in N, NEW d \in N, NEW e \in E
  PROVE  /\ [tab EXCEPT ![n][d] = e] \in [N -> [N -> E]]
         /\ \A x, y \in N : [tab EXCEPT ![n][d] = e][x][y] = IF x = n /\ y = d THEN e ELSE tab[x][y]
OBVIOUS

LEMMA ListRoutesKeeps ==
  ASSUME topology \in DOMAIN Topologies, table \in Tables(T), OwnOuts(T, table), todo \in Seq(Listed(T)), todo # <<>>, ListRoutes
  PROVE  table' \in Tables(T) /\ OwnOuts(T, table') /\ todo' \in Seq(Listed(T))
<1> DEFINE n == Head(todo)[1]
           d == Head(todo)[2]
           r == T.routes[n][d]
           outs == OutputBuffers(T, n)
           I == {i \in 1..Len(outs) : r.next \in Hops(T, outs[i])}
           k == SelectInSeq(outs, LAMBDA o : r.next \in Hops(T, o))
           b == outs[k]
           o == <<"out", b[2], b[3] + r.vc>>
<1>1. /\ k > 0 /\ b[3] + r.vc <= T.links[b[2]].vcs
      /\ table' = [table EXCEPT ![n][d] = [@ EXCEPT !.next = r.next, !.out = o]]
      /\ todo' = Tail(todo)
  BY Zenon DEF ListRoutes
<1>2. Head(todo) \in Listed(T) /\ Tail(todo) \in Seq(Listed(T))
  OBVIOUS
<1>3. n \in Nodes(T) /\ d \in Nodes(T) /\ n \in DOMAIN T.routes /\ d \in DOMAIN T.routes[n]
  BY <1>2 DEF Listed
<1>4. WellFormed(T)
  BY Here
<1>5. r.next \in Nodes(T) /\ r.vc \in Nat
  BY <1>3, <1>4 DEF WellFormed
<1>6. outs \in Seq(OutOf(T, n)) /\ Len(outs) \in Nat /\ DOMAIN outs = 1..Len(outs)
  <2>1. outs \in Seq(OutOf(T, n))
    BY <1>4, BuffersOf
  <2> HIDE DEF outs
  <2> QED BY <2>1
<1>7. k \in I
  <2>1. k = IF I # {} THEN Min(I) ELSE 0
    BY DEF SelectInSeq
  <2>2. I \in SUBSET (1..Len(outs))
    OBVIOUS
  <2> HIDE DEF I, outs, k
  <2>3. I # {}
    <3>1. k > 0
      BY <1>1
    <3> QED BY <2>1, <3>1
  <2>4. Min(I) \in I
    BY <1>6, <2>2, <2>3, FirstPlace
  <2> QED BY <2>1, <2>3, <2>4
<1>8. b \in OutOf(T, n)
  <2>1. k \in DOMAIN outs
    BY <1>6, <1>7, Zenon
  <2> HIDE DEF k, outs
  <2> QED BY <1>6, <2>1, Elements
<1> HIDE DEF b, k
<1>9. o \in OutOf(T, n)
  <2>1. /\ b \in Outputs(T) /\ b[2] \in DOMAIN T.links /\ T.links[b[2]].src = n /\ ~IsBus(T, n)
        /\ b[3] \in 1..T.links[b[2]].vcs
    BY <1>4, <1>8, Apart DEF OutOf
  <2>2. T.links[b[2]].vcs \in Nat
    BY <1>4, <2>1, Described
  <2> DEFINE v == b[3] + r.vc
             i == b[2]
  <2>7. v \in 1..T.links[i].vcs
    <3> DEFINE x == b[3]
               y == r.vc
               z == T.links[i].vcs
    <3>1. x \in 1..z /\ y \in Nat /\ z \in Nat /\ x + y <= z
      BY <1>1, <1>5, <2>1, <2>2
    <3> HIDE DEF x, y, z
    <3>2. x + y \in 1..z
      BY <3>1
    <3> QED BY <3>2 DEF x, y, z
  <2>3. v \in 1..T.links[i].vcs /\ i \in DOMAIN T.links /\ ~IsBus(T, T.links[i].src) /\ T.links[i].src = n
    BY <2>1, <2>7
  <2>4. o = <<"out", i, v>>
    OBVIOUS
  <2> HIDE DEF v, i, o
  <2>5. o \in Outputs(T)
    BY <1>4, <2>3, <2>4, OutputIs
  <2>6. Owner(T, o) = n
    BY <2>3, <2>4 DEF Owner
  <2> QED BY <2>5, <2>6 DEF OutOf
<1> HIDE DEF o
<1>10. table' \in Tables(T) /\ OwnOuts(T, table')
  <2> DEFINE X == Nodes(T) \union {None}
             Y == Outputs(T) \union {None}
  <2>1. o \in Y /\ r.next \in X
    BY <1>5, <1>9 DEF OutOf
  <2>2. table \in [Nodes(T) -> [Nodes(T) -> [cost : Nat, next : X, out : Y]]]
    BY DEF Tables, Entries
  <2>3. table' = [table EXCEPT ![n][d] = [@ EXCEPT !.next = r.next, !.out = o]]
    BY <1>1
  <2> DEFINE E == [cost : Nat, next : X, out : Y]
             e == [table[n][d] EXCEPT !.next = r.next, !.out = o]
  <2>4. table' = [table EXCEPT ![n][d] = e]
    BY <2>3
  <2> HIDE DEF n, d, r, X, Y
  <2>5. e \in E /\ e.out = o
    <3> DEFINE x == r.next
               y == table[n][d]
    <3>1. y \in E /\ x \in X
      BY <1>3, <2>1, <2>2
    <3> HIDE DEF x, y
    <3>2. [y EXCEPT !.next = x, !.out = o] \in E /\ [y EXCEPT !.next = x, !.out = o].out = o
      BY <2>1, <3>1
    <3> QED BY <3>2 DEF x, y
  <2> HIDE DEF e, E
  <2>6. /\ table' \in [Nodes(T) -> [Nodes(T) -> E]]
        /\ \A x, y \in Nodes(T) : table'[x][y] = IF x = n /\ y = d THEN e ELSE table[x][y]
    <3>1. table \in [Nodes(T) -> [Nodes(T) -> E]]
      BY <2>2 DEF E
    <3> QED BY <1>3, <2>4, <2>5, <3>1, EntrySet, Zenon
  <2>7. ASSUME NEW x \in Nodes(T), NEW y \in Nodes(T), table'[x][y].out # None PROVE table'[x][y].out \in OutOf(T, x)
    <3>1. CASE x = n /\ y = d
      BY <1>9, <2>5, <2>6, <3>1
    <3>2. CASE ~(x = n /\ y = d)
      BY <2>6, <2>7, <3>2 DEF OwnOuts
    <3> QED BY <3>1, <3>2
  <2> QED BY <2>6, <2>7 DEF Tables, Entries, E, X, Y, OwnOuts
<1> QED BY <1>1, <1>2, <1>10, Zenon

-----------------------------------------------------------------------------
LEMMA RoutingInit ==
  ASSUME InitRouting
  PROVE  RoutingInv
<1>1. /\ topology \in DOMAIN Topologies /\ phase = "table"
      /\ table = Initiated(T)
      /\ IF T.routes = <<>> THEN todo = T.nodes ELSE todo \in {ListedRoutes(T), <<>>}
  BY DEF InitRouting
<1>2. table \in Tables(T) /\ OwnOuts(T, table) /\ Distances(T, table)
  BY <1>1, InitiatedTable
<1>3. ASSUME T.routes = <<>>
      PROVE  todo \in Seq(Nodes(T)) /\ \A k \in Nodes(T) \ ToSet(todo) : Through(T, table, k)
  BY <1>1, <1>3, Here DEF Nodes
<1>4. ASSUME T.routes # <<>> PROVE todo \in Seq(Listed(T))
  <2>1. ListedRoutes(T) \in Seq(Listed(T))
    BY <1>1, <1>4, RoutesListed
  <2>2. todo = ListedRoutes(T) \/ todo = <<>>
    BY <1>1, <1>4
  <2>3. CASE todo = <<>>
    BY <2>3
  <2>4. CASE todo = ListedRoutes(T)
    BY <2>1, <2>4
  <2> QED BY <2>2, <2>3, <2>4
<1> QED BY <1>1, <1>2, <1>3, <1>4 DEF RoutingInv

LEMMA RoutingStep ==
  ASSUME RoutingInv, Configure
  PROVE  RoutingInv'
<1>1. topology' = topology /\ T' = T /\ topology \in DOMAIN Topologies
  BY Zenon DEF Configure, FloydWarshall, ListRoutes, Start, T, RoutingInv
<1>2. CASE phase = "table" /\ T.routes = <<>> /\ todo # <<>>
  <2>1. Round(Head(todo)) /\ todo' = Tail(todo) /\ phase' = phase
    BY <1>2 DEF Configure, FloydWarshall, ListRoutes, Start
  <2>2. /\ Distances(T, table) /\ todo \in Seq(Nodes(T)) /\ table \in Tables(T) /\ OwnOuts(T, table)
        /\ \A k \in Nodes(T) \ ToSet(todo) : Through(T, table, k)
    BY <1>2 DEF RoutingInv
  <2> DEFINE k == Head(todo)
             rest == Tail(todo)
  <2>3. k \in Nodes(T) /\ rest \in Seq(Nodes(T)) /\ ToSet(todo) \subseteq ToSet(rest) \union {k}
    <3>1. /\ k \in Nodes(T) /\ rest \in Seq(Nodes(T)) /\ Len(todo) \in Nat /\ k = todo[1]
          /\ DOMAIN todo = 1..Len(todo) /\ DOMAIN rest = 1..(Len(todo) - 1)
          /\ \A i \in 1..(Len(todo) - 1) : rest[i] = todo[i + 1]
      BY <1>2, <2>2
    <3>2. ASSUME NEW i \in 1..Len(todo), i # 1 PROVE todo[i] \in ToSet(rest)
      <4>1. i - 1 \in 1..(Len(todo) - 1) /\ (i - 1) + 1 = i
        BY <3>1, <3>2
      <4>2. rest[i - 1] = todo[i]
        BY <3>1, <4>1
      <4> QED BY <3>1, <4>1, <4>2 DEF ToSet
    <3> HIDE DEF k, rest
    <3> QED BY <3>1, <3>2 DEF ToSet
  <2>4. /\ table' \in Tables(T) /\ OwnOuts(T, table') /\ Distances(T, table')
        /\ Through(T, table', k)
        /\ \A j \in Nodes(T) : Through(T, table, j) => Through(T, table', j)
    <3> HIDE DEF k
    <3> QED BY <1>1, <2>1, <2>2, <2>3, RoundKeeps DEF k
  <2> HIDE DEF k, rest
  <2>5. todo' = rest
    BY <2>1 DEF rest
  <2>6. \A j \in Nodes(T) \ ToSet(rest) : Through(T, table', j)
    BY <2>2, <2>3, <2>4
  <2>7. phase' = "table"
    BY <1>2, <2>1
  <2> QED BY <1>1, <1>2, <2>3, <2>4, <2>5, <2>6, <2>7 DEF RoutingInv
<1>3. CASE phase = "table" /\ T.routes = <<>> /\ todo = <<>>
  <2>1. FirstHops /\ phase' = "routed"
    BY <1>3 DEF Configure, FloydWarshall, ListRoutes, Start
  <2>2. ToSet(todo) = {}
    BY <1>3 DEF ToSet
  <2>3. /\ table \in Tables(T) /\ OwnOuts(T, table) /\ Distances(T, table)
        /\ \A k \in Nodes(T) : Through(T, table, k)
    BY <1>3, <2>2 DEF RoutingInv
  <2>4. table' \in Tables(T) /\ OwnOuts(T, table') /\ Shortest(T, table')
    BY <1>1, <2>1, <2>3, FirstHopsLead
  <2> QED BY <1>1, <2>1, <2>4 DEF RoutingInv
<1>4. CASE phase = "table" /\ T.routes # <<>> /\ todo # <<>>
  <2>1. ListRoutes /\ phase' = phase
    BY <1>4, Zenon DEF Configure, FloydWarshall, ListRoutes, Start
  <2>2. table \in Tables(T) /\ OwnOuts(T, table) /\ todo \in Seq(Listed(T))
    BY <1>4 DEF RoutingInv
  <2>3. table' \in Tables(T) /\ OwnOuts(T, table') /\ todo' \in Seq(Listed(T))
    BY <1>1, <1>4, <2>1, <2>2, ListRoutesKeeps
  <2> QED BY <1>1, <1>4, <2>1, <2>3 DEF RoutingInv
<1>5. CASE phase = "table" /\ T.routes # <<>> /\ todo = <<>>
  <2>1. phase' = "routed" /\ table' = table
    BY <1>5 DEF Configure, FloydWarshall, ListRoutes, Start
  <2> QED BY <1>1, <1>5, <2>1 DEF RoutingInv
<1>6. CASE phase # "table"
  <2>1. phase = "routed" /\ phase' = "ready" /\ table' = table
    BY <1>6, Zenon DEF Configure, FloydWarshall, ListRoutes, Start
  <2> QED BY <1>1, <1>6, <2>1 DEF RoutingInv
<1> QED BY <1>2, <1>3, <1>4, <1>5, <1>6

LEMMA RoutingStays ==
  ASSUME RoutingInv, UNCHANGED routing
  PROVE  RoutingInv'
<1>1. topology' = topology /\ table' = table /\ todo' = todo /\ phase' = phase
  BY DEF routing
<1>2. T' = T
  BY <1>1 DEF T
<1> QED BY <1>1, <1>2 DEF RoutingInv

-----------------------------------------------------------------------------
(* What is built from a description.                                        *)

Outs  == DOMAIN net.wire

\* The wire that leads to the input buffer c.
From(t, c) == LET n == t.links[c[2]].src IN IF IsBus(t, n) THEN <<"bus", n>> ELSE <<"link", c[2]>>

Chans == Links \union UNION {ToSet(net.lanes[u]) : u \in net.buses}

NetOK ==
  /\ Outs = Outputs(T) /\ Outs \subseteq Buffers /\ Buffers \ Outs = Inputs(T) /\ None \notin Buffers
  /\ \A b \in Buffers : net.node[b] = Owner(T, b)
  /\ net.size \in Nat /\ \A z \in Sizes : z <= net.size
  /\ net.traffic \subseteq Nodes(T) \X Nodes(T)
  /\ \A b \in Outs : net.targets[b] = Targets(T, b) /\ net.targets[b] \subseteq Buffers \ Outs
  /\ \A b \in Outs : \/ net.wire[b][1] = "link" /\ net.wire[b] \in Links /\ net.targets[b] # {}
                     \/ net.wire[b][1] = "bus" /\ net.wire[b][2] \in net.buses
  /\ \A l \in Links : net.speed[l] \in Nat \ {0}
  /\ \A u \in net.buses : net.lanes[u] \in Seq(Chans)
  /\ \A u \in net.buses : \A c \in ToSet(net.lanes[u]) : c # None /\ net.speed[c] \in Nat \ {0}
  /\ \A n \in DOMAIN net.switch : net.switch[n] \in Nat \ {0}
  /\ \A l \in Links : net.vcs[l] \in Seq(Outs)
  /\ \A u \in net.buses : net.sources[u] \in Seq(Outs)
  /\ \A n \in Nodes(T) : net.inputs[n] \in Seq(Buffers)
  /\ \A b \in Outs : \A c \in net.targets[b] : net.wire[b] = From(T, c)
  /\ \A l \in Links : l[1] = "link" /\ \A b \in ToSet(net.vcs[l]) : net.wire[b] = l
  /\ \A u \in net.buses : \A b \in ToSet(net.sources[u]) : net.wire[b] = <<"bus", u>>
  /\ \A u \in net.buses : ToSet(net.lanes[u]) = {<<"lane", u, k>> : k \in 1..Len(net.lanes[u])}

LEMMA FunctionSeq ==
  ASSUME NEW n \in Nat, NEW S, NEW s \in [1..n -> S]
  PROVE  s \in Seq(S) /\ Len(s) = n
<1>1. s \in Seq(S) /\ DOMAIN s = 1..n
  OBVIOUS
<1>2. Len(s) \in Nat /\ 1..Len(s) = 1..n
  BY <1>1
<1>3. ASSUME Len(s) < n PROVE FALSE
  <2>1. n \in 1..n /\ n \notin 1..Len(s)
    BY <1>2, <1>3
  <2> QED BY <1>2, <2>1
<1>4. ASSUME n < Len(s) PROVE FALSE
  <2>1. Len(s) \in 1..Len(s) /\ Len(s) \notin 1..n
    BY <1>2, <1>4
  <2> QED BY <1>2, <2>1
<1> QED BY <1>1, <1>2, <1>3, <1>4

LEMMA LanesAre ==
  ASSUME NEW t, NEW u, t.lanes[u] \in Nat
  PROVE  /\ Lanes(t, u) \in Seq({<<"lane", u, k>> : k \in 1..t.lanes[u]})
         /\ Lanes(t, u) \in Seq(ToSet(Lanes(t, u)))
         /\ ToSet(Lanes(t, u)) = {<<"lane", u, k>> : k \in 1..t.lanes[u]}
         /\ Len(Lanes(t, u)) = t.lanes[u]
<1> DEFINE n == t.lanes[u]
           s == Lanes(t, u)
<1>1. n \in Nat
  OBVIOUS
<1> HIDE DEF n
<1>2. s = [k \in 1..n |-> <<"lane", u, k>>]
  BY DEF Lanes, n
<1>3. s \in [1..n -> {<<"lane", u, k>> : k \in 1..n}] /\ DOMAIN s = 1..n /\ \A k \in 1..n : s[k] = <<"lane", u, k>>
  BY <1>2
<1> HIDE DEF s
<1>4. ToSet(s) = {<<"lane", u, k>> : k \in 1..n}
  BY <1>3 DEF ToSet
<1>5. s \in Seq({<<"lane", u, k>> : k \in 1..n}) /\ Len(s) = n
  BY <1>1, <1>3, FunctionSeq
<1> QED BY <1>4, <1>5 DEF n, s

LEMMA WireFrom ==
  ASSUME NEW t, WellFormed(t), NEW b \in Outputs(t), NEW c \in Targets(t, b)
  PROVE  Wire(t, b) = From(t, c)
<1> DEFINE n == t.links[b[2]].dst
           s == t.links[c[2]].src
<1>1. b[2] \in DOMAIN t.links /\ ~IsBus(t, t.links[b[2]].src)
  BY Apart
<1>2. CASE IsBus(t, n)
  <2>1. s = n
    BY <1>2, TargetsOf
  <2> QED BY <1>2, <2>1 DEF Wire, From
<1>3. CASE ~IsBus(t, n)
  <2>1. \A x \in Targets(t, b) : x[2] = b[2]
    BY <1>3, TargetsOf
  <2>2. c[2] = b[2]
    BY <2>1
  <2> QED BY <1>1, <1>3, <2>2 DEF Wire, From
<1> QED BY <1>2, <1>3

LEMMA NetIsOK ==
  ASSUME topology \in DOMAIN Topologies, net = Built(T)
  PROVE  NetOK
<1> DEFINE t == T
           outs == Outputs(t)
           links  == {<<"link", i>> : i \in RealLinks(t)}
           buses  == {n \in Nodes(t) : IsBus(t, n)}
           lanes  == UNION {ToSet(Lanes(t, u)) : u \in buses}
<1>1. /\ WellFormed(t) /\ None \notin Outputs(t) /\ None \notin Inputs(t)
  BY Here
<1>2. /\ t.size \in Nat /\ (\A z \in Sizes : z <= t.size)
      /\ t.traffic \subseteq Nodes(t) \X Nodes(t)
      /\ t.lanes \in [{n \in Nodes(t) : IsBus(t, n)} -> Nat \ {0}]
      /\ t.bandwidth \in [{n \in Nodes(t) : t.kind[n] # "end"} -> Nat \ {0}]
      /\ None \notin {"lane"} \X Nodes(t) \X Nat
  BY NetworkAssumption DEF T
<1> HIDE DEF t
<1>3. /\ net.node = [b \in outs \union Inputs(t) |-> Owner(t, b)]
      /\ net.size = t.size /\ net.traffic = t.traffic
      /\ net.wire = [b \in outs |-> Wire(t, b)]
      /\ net.targets = [b \in outs |-> Targets(t, b)]
      /\ net.vcs = [l \in links |-> Side(t, "out", l[2])]
      /\ net.buses = buses
      /\ net.lanes = [u \in buses |-> Lanes(t, u)]
      /\ net.speed = [x \in links \union lanes |-> IF x \in links THEN t.links[x[2]].bandwidth ELSE t.bandwidth[x[2]]]
      /\ net.switch = t.bandwidth
      /\ net.sources = [u \in buses |-> BusSources(t, u)]
      /\ net.inputs = [n \in Nodes(t) |-> InputBuffers(t, n)]
  BY Zenon DEF Built, t
<1> HIDE DEF outs, links, buses, lanes
<1>4. Outs = outs /\ Buffers = outs \union Inputs(t) /\ Links = links
  BY <1>3 DEF Outs, Buffers, Links
<1>5. Outs \subseteq Buffers /\ Buffers \ Outs = Inputs(t) /\ None \notin Buffers
  BY <1>1, <1>4, Apart DEF outs
<1>6. \A b \in Buffers : net.node[b] = Owner(t, b)
  BY <1>3, <1>4
<1>7. \A b \in Outs : net.targets[b] = Targets(t, b) /\ net.targets[b] \subseteq Buffers \ Outs
  <2> TAKE b \in Outs
  <2>1. net.targets[b] = Targets(t, b)
    BY <1>3, <1>4
  <2>2. Targets(t, b) \subseteq Inputs(t)
    BY <1>1, <1>4, TargetsOf DEF outs
  <2> QED BY <1>5, <2>1, <2>2
<1>8. \A b \in Outs : \/ net.wire[b][1] = "link" /\ net.wire[b] \in Links /\ net.targets[b] # {}
                      \/ net.wire[b][1] = "bus" /\ net.wire[b][2] \in net.buses
  <2> TAKE b \in Outs
  <2> DEFINE n == t.links[b[2]].dst
  <2>1. b \in Outputs(t) /\ b[2] \in DOMAIN t.links /\ ~IsBus(t, t.links[b[2]].src) /\ net.wire[b] = Wire(t, b)
    BY <1>1, <1>3, <1>4, Apart DEF outs
  <2>2. n \in Nodes(t)
    BY <1>1, <2>1, Described
  <2>3. CASE IsBus(t, n)
    <3>1. net.wire[b] = <<"bus", n>>
      BY <2>1, <2>3 DEF Wire
    <3>2. n \in net.buses
      BY <1>3, <2>2, <2>3 DEF buses
    <3> HIDE DEF n
    <3> QED BY <3>1, <3>2
  <2>4. CASE ~IsBus(t, n)
    <3>1. net.wire[b] = <<"link", b[2]>>
      BY <2>1, <2>4 DEF Wire
    <3>2. b[2] \in RealLinks(t)
      BY <2>1, <2>4 DEF RealLinks
    <3>3. net.targets[b] # {}
      <4>1. <<"in", b[2], b[3]>> \in Targets(t, b)
        BY <1>1, <2>1, <2>4, TargetsOf
      <4> QED BY <1>7, <4>1
    <3> QED BY <1>4, <3>1, <3>2, <3>3 DEF links
  <2> QED BY <2>3, <2>4
<1>9. \A l \in Links : net.speed[l] \in Nat \ {0}
  <2> TAKE l \in Links
  <2>1. PICK i \in RealLinks(t) : l = <<"link", i>>
    BY <1>4 DEF links
  <2>2. l \in links \union lanes /\ l \in links
    BY <1>4
  <2>3. net.speed[l] = t.links[l[2]].bandwidth
    BY <1>3, <2>2
  <2>4. t.links[i].bandwidth \in Nat \ {0}
    BY <1>1, Described DEF RealLinks
  <2> QED BY <2>1, <2>3, <2>4
<1>10. ASSUME NEW u \in net.buses
       PROVE  /\ net.lanes[u] \in Seq(Chans)
              /\ \A c \in ToSet(net.lanes[u]) : c # None /\ net.speed[c] \in Nat \ {0}
  <2>1. u \in buses /\ net.lanes[u] = Lanes(t, u) /\ t.lanes[u] \in Nat /\ u \in Nodes(t) /\ IsBus(t, u)
    BY <1>2, <1>3 DEF buses
  <2>2. /\ net.lanes[u] \in Seq(ToSet(net.lanes[u]))
        /\ ToSet(net.lanes[u]) = {<<"lane", u, k>> : k \in 1..t.lanes[u]}
    BY <2>1, LanesAre
  <2>3. ToSet(net.lanes[u]) \subseteq Chans
    BY DEF Chans
  <2>4. net.lanes[u] \in Seq(Chans)
    <3> DEFINE S == ToSet(net.lanes[u])
               s == net.lanes[u]
    <3>1. s \in Seq(S) /\ S \subseteq Chans
      BY <2>2, <2>3
    <3> HIDE DEF S, s
    <3>2. s \in Seq(Chans)
      BY <3>1
    <3> QED BY <3>2 DEF s
  <2>5. ASSUME NEW c \in ToSet(net.lanes[u]) PROVE c # None /\ net.speed[c] \in Nat \ {0}
    <3>1. PICK k \in 1..t.lanes[u] : c = <<"lane", u, k>>
      BY <2>2
    <3>2. c # None
      BY <1>2, <2>1, <3>1
    <3>3. c \in lanes
      BY <2>1, <2>5 DEF lanes
    <3>4. c \notin links
      BY <3>1 DEF links
    <3>5. net.speed[c] = t.bandwidth[c[2]]
      BY <1>3, <3>3, <3>4
    <3>6. t.kind[u] # "end"
      BY <2>1 DEF IsBus
    <3> QED BY <1>2, <2>1, <3>1, <3>2, <3>5, <3>6
  <2> QED BY <2>4, <2>5
<1>11. \A n \in DOMAIN net.switch : net.switch[n] \in Nat \ {0}
  BY <1>2, <1>3
<1>12. net.size \in Nat /\ (\A z \in Sizes : z <= net.size) /\ net.traffic \subseteq Nodes(t) \X Nodes(t)
  BY <1>2, <1>3
<1>13. ASSUME NEW l \in Links PROVE net.vcs[l] \in Seq(Outs)
  <2>1. PICK i \in RealLinks(t) : l = <<"link", i>>
    BY <1>4 DEF links
  <2>2. net.vcs[l] = Side(t, "out", i) /\ i \in DOMAIN t.links /\ ~IsBus(t, t.links[i].src)
    BY <1>3, <1>4, <2>1 DEF RealLinks
  <2>3. \A v \in 1..t.links[i].vcs : <<"out", i, v>> \in Outputs(t)
    BY <1>1, <2>2, OutputIs
  <2>4. Side(t, "out", i) \in Seq(Outputs(t))
    BY <1>1, <2>2, <2>3, Sides
  <2> QED BY <1>4, <2>2, <2>4 DEF outs
<1>14. ASSUME NEW u \in net.buses PROVE net.sources[u] \in Seq(Outs)
  <2>1. net.sources[u] = BusSources(t, u) /\ IsBus(t, u)
    BY <1>3 DEF buses
  <2>2. BusSources(t, u) \in Seq({b \in Outputs(t) : t.links[b[2]].dst = u})
    BY <1>1, <2>1, BusBuffers
  <2>3. BusSources(t, u) \in Seq(Outputs(t))
    <3> DEFINE S == {b \in Outputs(t) : t.links[b[2]].dst = u}
    <3>1. BusSources(t, u) \in Seq(S) /\ S \subseteq Outputs(t)
      BY <2>2
    <3> HIDE DEF S
    <3> QED BY <3>1
  <2> QED BY <1>4, <2>1, <2>3 DEF outs
<1>15. ASSUME NEW n \in Nodes(t) PROVE net.inputs[n] \in Seq(Buffers)
  <2>1. InputBuffers(t, n) \in Seq(InOf(t, n)) /\ net.inputs[n] = InputBuffers(t, n)
    BY <1>1, <1>3, BuffersOf
  <2>2. InOf(t, n) \subseteq Buffers
    BY <1>4 DEF InOf
  <2> QED BY <2>1, <2>2
<1>16. ASSUME NEW b \in Outs, NEW c \in net.targets[b] PROVE net.wire[b] = From(t, c)
  <2>1. b \in Outputs(t) /\ net.wire[b] = Wire(t, b) /\ net.targets[b] = Targets(t, b)
    BY <1>3, <1>4 DEF outs
  <2> QED BY <1>1, <2>1, WireFrom
<1>17. ASSUME NEW l \in Links PROVE l[1] = "link" /\ \A b \in ToSet(net.vcs[l]) : net.wire[b] = l
  <2>1. PICK i \in RealLinks(t) : l = <<"link", i>>
    BY <1>4 DEF links
  <2>2. net.vcs[l] = Side(t, "out", i) /\ i \in DOMAIN t.links /\ ~IsBus(t, t.links[i].src) /\ ~IsBus(t, t.links[i].dst)
    BY <1>3, <1>4, <2>1 DEF RealLinks
  <2>3. ASSUME NEW b \in ToSet(net.vcs[l]) PROVE net.wire[b] = l
    <3>1. PICK v \in 1..t.links[i].vcs : b = <<"out", i, v>>
      BY <1>1, <2>2, Sides
    <3>2. b \in outs
      BY <1>1, <2>2, <3>1, OutputIs DEF outs
    <3>3. net.wire[b] = Wire(t, b)
      BY <1>3, <3>2
    <3> QED BY <2>1, <2>2, <3>1, <3>3 DEF Wire
  <2> QED BY <2>1, <2>3
<1>18. ASSUME NEW u \in net.buses, NEW b \in ToSet(net.sources[u]) PROVE net.wire[b] = <<"bus", u>>
  <2>1. net.sources[u] = BusSources(t, u) /\ IsBus(t, u)
    BY <1>3 DEF buses
  <2>2. BusSources(t, u) \in Seq({x \in Outputs(t) : t.links[x[2]].dst = u})
    BY <1>1, <2>1, BusBuffers
  <2>3. b \in Outputs(t) /\ t.links[b[2]].dst = u
    BY <2>1, <2>2 DEF ToSet
  <2>4. net.wire[b] = Wire(t, b)
    BY <1>3, <2>3 DEF outs
  <2> QED BY <2>1, <2>3, <2>4 DEF Wire
<1>19. ASSUME NEW u \in net.buses PROVE ToSet(net.lanes[u]) = {<<"lane", u, k>> : k \in 1..Len(net.lanes[u])}
  <2>1. net.lanes[u] = Lanes(t, u) /\ t.lanes[u] \in Nat
    BY <1>2, <1>3 DEF buses
  <2>2. PICK s : s = Lanes(t, u)
    OBVIOUS
  <2>3. PICK n : n = Len(s)
    OBVIOUS
  <2>4. ToSet(s) = {<<"lane", u, k>> : k \in 1..n}
    <3>1. n = t.lanes[u]
      BY <2>1, <2>2, <2>3, LanesAre
    <3> QED BY <2>1, <2>2, <3>1, LanesAre
  <2> QED BY <2>1, <2>2, <2>3, <2>4
<1>20. \A b \in Outs : \A c \in net.targets[b] : net.wire[b] = From(t, c)
  BY <1>16
<1>21. \A u \in net.buses : \A b \in ToSet(net.sources[u]) : net.wire[b] = <<"bus", u>>
  BY <1>18
<1> HIDE DEF t
<1> QED BY <1>4, <1>5, <1>6, <1>7, <1>8, <1>9, <1>10, <1>11, <1>12, <1>13, <1>14, <1>15, <1>17, <1>19, <1>20, <1>21 DEF NetOK, t, outs

-----------------------------------------------------------------------------
(* The events of each message.                                              *)

Elems(s) == {s[i] : i \in 1..Len(s)}
Of(m)    == {e \in Waits : e.msg = m}

\* How often m is pending, and in the wakeup list of b.
InEvents(m)    == Count(events, Of(m))
InWakeup(m, b) == Count(buf[b].wakeup, Of(m))

Single(m) == \/ InEvents(m) = 1 /\ \A b \in Buffers : InWakeup(m, b) = 0
             \/ InEvents(m) = 0 /\ \E b \in Buffers : InWakeup(m, b) = 1 /\ \A c \in Buffers \ {b} : InWakeup(m, c) = 0
Absent(m) == InEvents(m) = 0 /\ \A b \in Buffers : InWakeup(m, b) = 0

\* The events es of the others, while that of m is handled.
Taken(m, es) ==
  /\ m \in Messages /\ IsQueue(es, Waits)
  /\ \A x \in Messages : Count(es, Of(x)) = IF x = m THEN 0 ELSE InEvents(x)
  /\ \A b \in Buffers : InWakeup(m, b) = 0
  /\ Elems(es) \subseteq Elems(events)

\* The others keep their event.
Carried(m) == \A x \in Messages \ {m} : (Single(x) => Single(x)') /\ (Absent(x) => Absent(x)')

LEMMA WaitsTimed == \A e \in Waits : e.left \in Nat /\ e.msg \in Messages
BY DEF Waits

LEMMA ElemsCount ==
  ASSUME NEW E, NEW s \in Seq(E), NEW x
  PROVE  x \in Elems(s) <=> Count(s, {x}) # 0
BY CountNone DEF Elems

LEMMA ElemsOf ==
  ASSUME NEW s \in Seq(Waits), NEW e \in Elems(s)
  PROVE  e \in Waits /\ Count(s, Of(e.msg)) # 0
<1>1. PICK i \in 1..Len(s) : e = s[i]
  BY DEF Elems
<1>2. e \in Waits
  BY <1>1
<1>3. e \in Of(e.msg)
  BY <1>2 DEF Of
<1> QED BY <1>1, <1>2, <1>3, CountNone

LEMMA ScheduledElems ==
  ASSUME NEW es, IsQueue(es, Waits), NEW e \in Waits
  PROVE  /\ IsQueue(Scheduled(es, e), Waits)
         /\ Elems(Scheduled(es, e)) = Elems(es) \union {e}
         /\ \A K : Count(Scheduled(es, e), K) = IF e \in K THEN Count(es, K) + 1 ELSE Count(es, K)
<1> DEFINE r == Scheduled(es, e)
<1>1. IsQueue(r, Waits) /\ \A K : Count(r, K) = IF e \in K THEN Count(es, K) + 1 ELSE Count(es, K)
  BY WaitsTimed, ScheduledGrown, ScheduledCount
<1>2. es \in Seq(Waits) /\ r \in Seq(Waits)
  BY <1>1 DEF IsQueue
<1> HIDE DEF r
<1>3. \A K : Count(es, K) \in Nat
  BY <1>2, PlacesFinite
<1>4. \A x : x \in Elems(r) <=> x \in Elems(es) \/ x = e
  <2> TAKE x
  <2>1. x \in Elems(r) <=> Count(r, {x}) # 0
    BY <1>2, ElemsCount
  <2>2. x \in Elems(es) <=> Count(es, {x}) # 0
    BY <1>2, ElemsCount
  <2>3. Count(es, {x}) \in Nat /\ Count(r, {x}) = IF e \in {x} THEN Count(es, {x}) + 1 ELSE Count(es, {x})
    BY <1>1, <1>3
  <2> QED BY <2>1, <2>2, <2>3
<1> QED BY <1>1, <1>4 DEF r

LEMMA ScheduledAllElems ==
  ASSUME NEW es, IsQueue(es, Waits), NEW new \in Seq(Waits)
  PROVE  /\ IsQueue(ScheduledAll(es, new), Waits)
         /\ Elems(ScheduledAll(es, new)) = Elems(es) \union Elems(new)
         /\ \A K : Count(ScheduledAll(es, new), K) = Count(es, K) + Count(new, K)
<1> DEFINE r == ScheduledAll(es, new)
<1>1. IsQueue(r, Waits) /\ \A K : Count(r, K) = Count(es, K) + Count(new, K)
  BY WaitsTimed, ScheduledAllCount
<1>2. es \in Seq(Waits) /\ r \in Seq(Waits)
  BY <1>1 DEF IsQueue
<1> HIDE DEF r
<1>3. \A K : Count(es, K) \in Nat /\ Count(new, K) \in Nat
  BY <1>2, PlacesFinite
<1>4. \A x : x \in Elems(r) <=> x \in Elems(es) \/ x \in Elems(new)
  <2> TAKE x
  <2>1. x \in Elems(r) <=> Count(r, {x}) # 0
    BY <1>2, ElemsCount
  <2>2. x \in Elems(es) <=> Count(es, {x}) # 0
    BY <1>2, ElemsCount
  <2>3. x \in Elems(new) <=> Count(new, {x}) # 0
    BY ElemsCount
  <2>4. Count(es, {x}) \in Nat /\ Count(new, {x}) \in Nat /\ Count(r, {x}) = Count(es, {x}) + Count(new, {x})
    BY <1>1, <1>3
  <2> QED BY <2>1, <2>2, <2>3, <2>4
<1> QED BY <1>1, <1>4 DEF r

LEMMA AppendElems ==
  ASSUME NEW s \in Seq(Waits), NEW e \in Waits
  PROVE  /\ Append(s, e) \in Seq(Waits) /\ Elems(Append(s, e)) = Elems(s) \union {e}
         /\ \A K : Count(Append(s, e), K) = IF e \in K THEN Count(s, K) + 1 ELSE Count(s, K)
<1> DEFINE r == Append(s, e)
<1>1. r \in Seq(Waits) /\ \A K : Count(r, K) = IF e \in K THEN Count(s, K) + 1 ELSE Count(s, K)
  BY AppendCount
<1> HIDE DEF r
<1>2. \A x : x \in Elems(r) <=> x \in Elems(s) \/ x = e
  <2> TAKE x
  <2>1. x \in Elems(r) <=> Count(r, {x}) # 0
    BY <1>1, ElemsCount
  <2>2. x \in Elems(s) <=> Count(s, {x}) # 0
    BY ElemsCount
  <2>3. Count(s, {x}) \in Nat /\ Count(r, {x}) = IF e \in {x} THEN Count(s, {x}) + 1 ELSE Count(s, {x})
    BY <1>1, PlacesFinite
  <2> QED BY <2>1, <2>2, <2>3
<1> QED BY <1>1, <1>2 DEF r

LEMMA CountsOf ==
  ASSUME buf \in [Buffers -> Ports], events \in Seq(Waits)
  PROVE  \A x : InEvents(x) \in Nat /\ \A b \in Buffers : buf[b].wakeup \in Seq(Waits) /\ InWakeup(x, b) \in Nat
<1>1. \A b \in Buffers : buf[b].wakeup \in Seq(Waits)
  BY DEF Ports
<1> QED BY <1>1, PlacesFinite DEF InEvents, InWakeup

LEMMA NoneOf == \A x : Count(<<>>, Of(x)) = 0
<1>1. <<>> \in Seq(Waits) /\ 1..Len(<<>>) = {}
  OBVIOUS
<1> QED BY <1>1, CountNone

\* The handler schedules the next event of m.
LEMMA FlowSchedule ==
  ASSUME net' = net, NEW m, NEW es, NEW e \in Of(m), Taken(m, es), events' = Scheduled(es, e),
         \A b \in Buffers : buf'[b].wakeup = buf[b].wakeup
  PROVE  /\ Carried(m) /\ Single(m)' /\ IsQueue(events', Waits)
         /\ Elems(events') = Elems(es) \union {e}
<1>1. Buffers' = Buffers
  BY DEF Buffers
<1>2. e \in Waits /\ e.msg = m
  BY DEF Of
<1>3. /\ IsQueue(events', Waits) /\ Elems(events') = Elems(es) \union {e}
      /\ \A K : Count(events', K) = IF e \in K THEN Count(es, K) + 1 ELSE Count(es, K)
  BY <1>2, ScheduledElems DEF Taken
<1>4. \A x, b : b \in Buffers => InWakeup(x, b)' = InWakeup(x, b)
  BY DEF InWakeup
<1>5. ASSUME NEW x \in Messages \ {m} PROVE InEvents(x)' = InEvents(x)
  <2>1. e \notin Of(x)
    BY <1>2 DEF Of
  <2>2. Count(events', Of(x)) = Count(es, Of(x))
    BY <1>3, <2>1
  <2>3. Count(es, Of(x)) = InEvents(x)
    BY DEF Taken
  <2> QED BY <2>2, <2>3 DEF InEvents
<1>6. InEvents(m)' = 1 /\ \A b \in Buffers : InWakeup(m, b) = 0
  <2>1. Count(es, Of(m)) = 0 /\ \A b \in Buffers : InWakeup(m, b) = 0
    BY DEF Taken
  <2>2. Count(events', Of(m)) = Count(es, Of(m)) + 1
    BY <1>3
  <2> QED BY <2>1, <2>2 DEF InEvents
<1>7. Single(m)'
  BY <1>1, <1>4, <1>6 DEF Single
<1>8. Carried(m)
  <2> SUFFICES ASSUME NEW x \in Messages \ {m} PROVE (Single(x) => Single(x)') /\ (Absent(x) => Absent(x)')
    BY DEF Carried
  <2>1. InEvents(x)' = InEvents(x) /\ \A b \in Buffers : InWakeup(x, b)' = InWakeup(x, b)
    BY <1>4, <1>5
  <2> QED BY <1>1, <2>1 DEF Single, Absent
<1> QED BY <1>3, <1>7, <1>8

\* It waits for b.
LEMMA FlowPark ==
  ASSUME net' = net, NEW m, NEW es, NEW e \in Of(m), Taken(m, es), NEW b \in Buffers, buf \in [Buffers -> Ports],
         events' = es, buf'[b].wakeup = Append(buf[b].wakeup, e),
         \A c \in Buffers \ {b} : buf'[c].wakeup = buf[c].wakeup
  PROVE  /\ Carried(m) /\ Single(m)' /\ IsQueue(events', Waits)
         /\ Elems(events') = Elems(es) /\ Elems(buf'[b].wakeup) = Elems(buf[b].wakeup) \union {e}
<1>1. Buffers' = Buffers
  BY DEF Buffers
<1>2. e \in Waits /\ e.msg = m
  BY DEF Of
<1>3. buf[b].wakeup \in Seq(Waits)
  BY DEF Ports
<1>4. /\ Elems(buf'[b].wakeup) = Elems(buf[b].wakeup) \union {e}
      /\ \A K : Count(buf'[b].wakeup, K) = IF e \in K THEN Count(buf[b].wakeup, K) + 1 ELSE Count(buf[b].wakeup, K)
  BY <1>2, <1>3, AppendElems
<1>5. \A x : \A c \in Buffers \ {b} : InWakeup(x, c)' = InWakeup(x, c)
  BY DEF InWakeup
<1>6. ASSUME NEW x \in Messages \ {m} PROVE InEvents(x)' = InEvents(x) /\ InWakeup(x, b)' = InWakeup(x, b)
  <2>1. e \notin Of(x)
    BY <1>2 DEF Of
  <2>2. Count(buf'[b].wakeup, Of(x)) = Count(buf[b].wakeup, Of(x))
    BY <1>4, <2>1
  <2>3. Count(es, Of(x)) = InEvents(x)
    BY DEF Taken
  <2> QED BY <2>2, <2>3 DEF InEvents, InWakeup
<1>7. InEvents(m)' = 0 /\ InWakeup(m, b)' = 1 /\ \A c \in Buffers \ {b} : InWakeup(m, c)' = 0
  <2>1. Count(es, Of(m)) = 0 /\ \A c \in Buffers : InWakeup(m, c) = 0
    BY DEF Taken
  <2>2. Count(buf'[b].wakeup, Of(m)) = Count(buf[b].wakeup, Of(m)) + 1
    BY <1>4
  <2> QED BY <1>5, <2>1, <2>2 DEF InEvents, InWakeup
<1>8. Single(m)'
  BY <1>1, <1>7 DEF Single
<1>9. Carried(m)
  <2> SUFFICES ASSUME NEW x \in Messages \ {m} PROVE (Single(x) => Single(x)') /\ (Absent(x) => Absent(x)')
    BY DEF Carried
  <2>1. InEvents(x)' = InEvents(x) /\ \A c \in Buffers : InWakeup(x, c)' = InWakeup(x, c)
    BY <1>5, <1>6
  <2> QED BY <1>1, <2>1 DEF Single, Absent
<1> QED BY <1>4, <1>8, <1>9 DEF Taken

\* Those that wait for b are woken, and then the next event of m, if it has one, is scheduled.
LEMMA FlowWake ==
  ASSUME net' = net, NEW m, NEW es, NEW new \in Seq(Waits), Taken(m, es), NEW b \in Buffers,
         buf \in [Buffers -> Ports], events \in Seq(Waits),
         \A x \in Messages \ {m} : Count(new, Of(x)) = InWakeup(x, b),
         events' = ScheduledAll(es, new), buf'[b].wakeup = <<>>,
         \A c \in Buffers \ {b} : buf'[c].wakeup = buf[c].wakeup
  PROVE  /\ Carried(m) /\ IsQueue(events', Waits)
         /\ Count(new, Of(m)) = 1 => Single(m)'
         /\ Count(new, Of(m)) = 0 => Absent(m)'
         /\ Elems(events') = Elems(es) \union Elems(new)
<1>1. Buffers' = Buffers
  BY DEF Buffers
<1>2. /\ IsQueue(events', Waits) /\ Elems(events') = Elems(es) \union Elems(new)
      /\ \A K : Count(events', K) = Count(es, K) + Count(new, K)
  BY ScheduledAllElems DEF Taken
<1>3. \A x : InEvents(x) \in Nat /\ \A c \in Buffers : InWakeup(x, c) \in Nat
  BY CountsOf
<1>4. \A x : InWakeup(x, b)' = 0 /\ \A c \in Buffers \ {b} : InWakeup(x, c)' = InWakeup(x, c)
  BY NoneOf DEF InWakeup
<1>5. ASSUME NEW x \in Messages \ {m} PROVE InEvents(x)' = InEvents(x) + InWakeup(x, b)
  <2>1. Count(events', Of(x)) = Count(es, Of(x)) + Count(new, Of(x))
    BY <1>2
  <2>2. Count(es, Of(x)) = InEvents(x) /\ Count(new, Of(x)) = InWakeup(x, b)
    BY DEF Taken
  <2> QED BY <2>1, <2>2 DEF InEvents
<1>6. InEvents(m)' = Count(new, Of(m)) /\ \A c \in Buffers : InWakeup(m, c)' = 0
  <2>1. Count(es, Of(m)) = 0 /\ \A c \in Buffers : InWakeup(m, c) = 0
    BY DEF Taken
  <2>2. Count(events', Of(m)) = Count(es, Of(m)) + Count(new, Of(m))
    BY <1>2
  <2>3. Count(new, Of(m)) \in Nat
    BY PlacesFinite
  <2> QED BY <1>4, <2>1, <2>2, <2>3 DEF InEvents
<1>7. (Count(new, Of(m)) = 1 => Single(m)') /\ (Count(new, Of(m)) = 0 => Absent(m)')
  BY <1>1, <1>6 DEF Single, Absent
<1>8. Carried(m)
  <2> SUFFICES ASSUME NEW x \in Messages \ {m} PROVE (Single(x) => Single(x)') /\ (Absent(x) => Absent(x)')
    BY DEF Carried
  <2> DEFINE p == InEvents(x)
             q == InEvents(x)'
             w(c) == InWakeup(x, c)
             v(c) == InWakeup(x, c)'
  <2>1. /\ p \in Nat /\ w(b) \in Nat /\ q = p + w(b) /\ v(b) = 0
        /\ \A c \in Buffers \ {b} : v(c) = w(c)
    BY <1>3, <1>4, <1>5
  <2>2. Single(x) <=> \/ p = 1 /\ \A c \in Buffers : w(c) = 0
                      \/ p = 0 /\ \E c \in Buffers : w(c) = 1 /\ \A d \in Buffers \ {c} : w(d) = 0
    BY DEF Single
  <2>3. Single(x)' <=> \/ q = 1 /\ \A c \in Buffers : v(c) = 0
                       \/ q = 0 /\ \E c \in Buffers : v(c) = 1 /\ \A d \in Buffers \ {c} : v(d) = 0
    BY <1>1 DEF Single
  <2>4. Absent(x) <=> p = 0 /\ \A c \in Buffers : w(c) = 0
    BY DEF Absent
  <2>5. Absent(x)' <=> q = 0 /\ \A c \in Buffers : v(c) = 0
    BY <1>1 DEF Absent
  <2> HIDE DEF p, q, w, v
  <2>6. Absent(x) => Absent(x)'
    BY <2>1, <2>4, <2>5
  <2>7. CASE p = 1 /\ \A c \in Buffers : w(c) = 0
    BY <2>1, <2>3, <2>6, <2>7
  <2>8. ASSUME p = 0, NEW c \in Buffers, w(c) = 1, \A d \in Buffers \ {c} : w(d) = 0 PROVE Single(x)'
    <3>1. CASE c = b
      <4>1. q = 1 /\ \A d \in Buffers : v(d) = 0
        BY <2>1, <2>8, <3>1
      <4> QED BY <2>3, <4>1
    <3>2. CASE c # b
      <4>1. q = 0 /\ v(c) = 1 /\ \A d \in Buffers \ {c} : v(d) = 0
        BY <2>1, <2>8, <3>2
      <4> QED BY <2>3, <4>1
    <3> QED BY <3>1, <3>2
  <2> QED BY <2>2, <2>6, <2>7, <2>8
<1> QED BY <1>2, <1>7, <1>8

-----------------------------------------------------------------------------
(* The messages in a buffer.                                                *)

Distinct(s) == \A i, j \in 1..Len(s) : s[i] = s[j] => i = j

\* f sums up the sizes z of the elements of s, and c is the result.
Sums(s, z, c, f) ==
  /\ f \in [0..Len(s) -> Nat] /\ f[0] = 0 /\ f[Len(s)] = c
  /\ \A i \in 1..Len(s) : f[i] = f[i - 1] + z[s[i]]
  /\ \A i, j \in 0..Len(s) : i <= j => f[i] <= f[j]
IsSum(s, z, c) == \E f : Sums(s, z, c, f)

LEMMA SumOfNone == ASSUME NEW z PROVE IsSum(<<>>, z, 0)
<1> DEFINE f == [i \in {0} |-> 0]
<1>1. Len(<<>>) = 0 /\ 0..0 = {0} /\ 1..0 = {}
  OBVIOUS
<1>2. f \in [0..0 -> Nat] /\ f[0] = 0 /\ \A i, j \in 0..0 : i <= j => f[i] <= f[j]
  OBVIOUS
<1>3. Sums(<<>>, z, 0, f)
  BY <1>1, <1>2 DEF Sums
<1> QED BY <1>3 DEF IsSum

LEMMA SumTail ==
  ASSUME NEW M, NEW s \in Seq(M), s # <<>>, NEW z \in [M -> Nat], NEW c, IsSum(s, z, c)
  PROVE  c - z[Head(s)] \in Nat /\ IsSum(Tail(s), z, c - z[Head(s)])
<1> DEFINE n == Len(s)
           r == Tail(s)
<1>1. PICK f : Sums(s, z, c, f)
  BY DEF IsSum
<1>2. /\ n \in Nat \ {0} /\ Len(r) = n - 1 /\ \A i \in 1..(n - 1) : r[i] = s[i + 1]
      /\ Head(s) = s[1] /\ s[1] \in M
  OBVIOUS
<1>3. /\ f \in [0..n -> Nat] /\ f[0] = 0 /\ f[n] = c
      /\ \A i \in 1..n : f[i] = f[i - 1] + z[s[i]]
      /\ \A i, j \in 0..n : i <= j => f[i] <= f[j]
  BY <1>1 DEF Sums
<1> DEFINE x == z[s[1]]
<1> HIDE DEF n, r, x
<1>4. x \in Nat /\ f[1] = x
  <2>1. 1 \in 1..n /\ 1 - 1 = 0
    BY <1>2
  <2>2. f[1] = f[0] + x
    BY <1>3, <2>1 DEF x
  <2> QED BY <1>2, <1>3, <2>2 DEF x
<1>5. \A i \in 0..(n - 1) : i + 1 \in 0..n /\ f[i + 1] \in Nat /\ x <= f[i + 1]
  <2> TAKE i \in 0..(n - 1)
  <2>1. i + 1 \in 0..n /\ 1 \in 0..n /\ 1 <= i + 1
    BY <1>2
  <2> QED BY <1>3, <1>4, <2>1
<1> DEFINE g == [i \in 0..(n - 1) |-> f[i + 1] - x]
<1>6. g \in [0..(n - 1) -> Nat]
  <2>1. \A i \in 0..(n - 1) : f[i + 1] - x \in Nat
    BY <1>4, <1>5
  <2> QED BY <2>1
<1>7. \A i \in 0..(n - 1) : g[i] = f[i + 1] - x
  OBVIOUS
<1> HIDE DEF g
<1>8. g[0] = 0
  <2>1. 0 \in 0..(n - 1) /\ 0 + 1 = 1
    BY <1>2
  <2> QED BY <1>4, <1>7, <2>1
<1>9. g[n - 1] = c - x /\ c - x \in Nat
  <2>1. n - 1 \in 0..(n - 1) /\ (n - 1) + 1 = n
    BY <1>2
  <2>2. g[n - 1] = c - x
    BY <1>3, <1>7, <2>1
  <2> QED BY <1>6, <2>1, <2>2
<1>10. ASSUME NEW i \in 1..(n - 1) PROVE g[i] = g[i - 1] + z[r[i]]
  <2>1. i \in 0..(n - 1) /\ i - 1 \in 0..(n - 1) /\ (i - 1) + 1 = i /\ i + 1 \in 1..n /\ (i + 1) - 1 = i
    BY <1>2
  <2>2. g[i] = f[i + 1] - x /\ g[i - 1] = f[i] - x
    BY <1>7, <2>1
  <2>3. f[i + 1] = f[i] + z[s[i + 1]] /\ r[i] = s[i + 1]
    BY <1>2, <1>3, <2>1
  <2>4. f[i + 1] \in Nat /\ f[i] \in Nat
    <3>1. i + 1 \in 0..n /\ i \in 0..n
      BY <1>2
    <3> QED BY <1>3, <3>1
  <2>5. z[s[i + 1]] \in Nat
    <3>1. s[i + 1] \in M
      BY <2>1 DEF n
    <3> QED BY <3>1
  <2> QED BY <1>4, <2>2, <2>3, <2>4, <2>5
<1>11. ASSUME NEW i \in 0..(n - 1), NEW j \in 0..(n - 1), i <= j PROVE g[i] <= g[j]
  <2>1. i + 1 \in 0..n /\ j + 1 \in 0..n /\ i + 1 <= j + 1
    BY <1>2, <1>11
  <2>2. f[i + 1] <= f[j + 1]
    BY <1>3, <2>1
  <2> QED BY <1>4, <1>5, <1>7, <2>2
<1>12. Sums(r, z, c - x, g)
  BY <1>2, <1>6, <1>8, <1>9, <1>10, <1>11 DEF Sums
<1> QED BY <1>2, <1>9, <1>12 DEF IsSum, r, x

LEMMA SumAppend ==
  ASSUME NEW M, NEW s \in Seq(M), NEW z \in [M -> Nat], NEW c, IsSum(s, z, c), NEW m \in M
  PROVE  IsSum(Append(s, m), z, c + z[m])
<1> DEFINE n == Len(s)
           r == Append(s, m)
           x == z[m]
<1>1. PICK f : Sums(s, z, c, f)
  BY DEF IsSum
<1>2. n \in Nat /\ Len(r) = n + 1 /\ r[n + 1] = m /\ \A i \in 1..n : r[i] = s[i]
  OBVIOUS
<1>3. /\ f \in [0..n -> Nat] /\ f[0] = 0 /\ f[n] = c
      /\ \A i \in 1..n : f[i] = f[i - 1] + z[s[i]]
      /\ \A i, j \in 0..n : i <= j => f[i] <= f[j]
  BY <1>1 DEF Sums
<1>4. x \in Nat
  OBVIOUS
<1> HIDE DEF n, r, x
<1> DEFINE g == [i \in 0..(n + 1) |-> IF i = n + 1 THEN c + x ELSE f[i]]
<1>5. c \in Nat /\ \A i \in 0..n : f[i] \in Nat /\ f[i] <= c
  <2>1. n \in 0..n
    BY <1>2
  <2> QED BY <1>2, <1>3, <2>1
<1>6. g \in [0..(n + 1) -> Nat]
  <2>1. \A i \in 0..(n + 1) : i = n + 1 \/ i \in 0..n
    BY <1>2
  <2>2. c + x \in Nat
    BY <1>4, <1>5
  <2>3. \A i \in 0..(n + 1) : (IF i = n + 1 THEN c + x ELSE f[i]) \in Nat
    BY <1>5, <2>1, <2>2
  <2> QED BY <2>3
<1>7. g[n + 1] = c + x /\ \A i \in 0..n : g[i] = f[i]
  BY <1>2
<1> HIDE DEF g
<1>8. g[0] = 0
  BY <1>2, <1>3, <1>7
<1>9. ASSUME NEW i \in 1..(n + 1) PROVE g[i] = g[i - 1] + z[r[i]]
  <2>1. CASE i = n + 1
    <3>1. i - 1 = n /\ n \in 0..n
      BY <1>2, <2>1
    <3>2. g[i] = c + x /\ g[i - 1] = c /\ z[r[i]] = x
      BY <1>2, <1>3, <1>7, <2>1, <3>1 DEF x
    <3> QED BY <3>2
  <2>2. CASE i # n + 1
    <3>1. i \in 1..n /\ i \in 0..n /\ i - 1 \in 0..n
      BY <1>2, <2>2
    <3>2. g[i] = f[i] /\ g[i - 1] = f[i - 1] /\ r[i] = s[i]
      BY <1>2, <1>7, <3>1
    <3> QED BY <1>3, <3>1, <3>2
  <2> QED BY <2>1, <2>2
<1>10. ASSUME NEW i \in 0..(n + 1), NEW j \in 0..(n + 1), i <= j PROVE g[i] <= g[j]
  <2>1. CASE j = n + 1
    <3>1. CASE i = n + 1
      <4>1. g[i] \in Nat
        BY <1>6
      <4> QED BY <2>1, <3>1, <4>1
    <3>2. CASE i # n + 1
      <4>1. i \in 0..n
        BY <1>2, <3>2
      <4> QED BY <1>4, <1>5, <1>7, <2>1, <4>1
    <3> QED BY <3>1, <3>2
  <2>2. CASE j # n + 1
    <3>1. i \in 0..n /\ j \in 0..n
      BY <1>2, <1>10, <2>2
    <3> QED BY <1>3, <1>7, <1>10, <3>1
  <2> QED BY <2>1, <2>2
<1>11. Sums(r, z, c + x, g)
  BY <1>2, <1>6, <1>7, <1>8, <1>9, <1>10 DEF Sums
<1> QED BY <1>11 DEF IsSum, r, x

LEMMA SumSame ==
  ASSUME NEW s, NEW z, NEW y, NEW c, IsSum(s, z, c), \A i \in 1..Len(s) : y[s[i]] = z[s[i]]
  PROVE  IsSum(s, y, c)
BY DEF IsSum, Sums

LEMMA SumElem ==
  ASSUME NEW M, NEW s \in Seq(M), NEW z \in [M -> Nat], NEW c, IsSum(s, z, c), NEW m \in Elems(s)
  PROVE  c \in Nat /\ z[m] \in Nat /\ z[m] <= c
<1> DEFINE n == Len(s)
<1>1. PICK f : Sums(s, z, c, f)
  BY DEF IsSum
<1>2. PICK i \in 1..n : m = s[i]
  BY DEF Elems
<1>3. n \in Nat /\ m \in M
  BY <1>2
<1>4. /\ f \in [0..n -> Nat] /\ f[n] = c
      /\ f[i] = f[i - 1] + z[m]
      /\ \A k, j \in 0..n : k <= j => f[k] <= f[j]
  BY <1>1, <1>2 DEF Sums
<1> HIDE DEF n
<1>5. i \in 0..n /\ i - 1 \in 0..n /\ n \in 0..n /\ i <= n
  BY <1>2, <1>3
<1>6. f[i] <= c
  BY <1>4, <1>5
<1>7. f[i] \in Nat /\ f[i - 1] \in Nat /\ c \in Nat
  BY <1>4, <1>5
<1>8. z[m] \in Nat
  BY <1>3
<1> QED BY <1>4, <1>6, <1>7, <1>8

LEMMA TailDistinct ==
  ASSUME NEW M, NEW s \in Seq(M), s # <<>>, Distinct(s)
  PROVE  /\ Tail(s) \in Seq(M) /\ Distinct(Tail(s)) /\ Head(s) \in Elems(s)
         /\ Elems(Tail(s)) = Elems(s) \ {Head(s)}
<1> DEFINE n == Len(s)
           r == Tail(s)
<1>1. /\ n \in Nat \ {0} /\ r \in Seq(M) /\ Len(r) = n - 1 /\ \A i \in 1..(n - 1) : r[i] = s[i + 1]
      /\ Head(s) = s[1]
  OBVIOUS
<1>2. \A i, j \in 1..n : s[i] = s[j] => i = j
  BY DEF Distinct
<1> HIDE DEF n, r
<1>3. ASSUME NEW i \in 1..(n - 1), NEW j \in 1..(n - 1), r[i] = r[j] PROVE i = j
  <2>1. i + 1 \in 1..n /\ j + 1 \in 1..n
    BY <1>1
  <2>2. i + 1 = j + 1
    BY <1>1, <1>2, <1>3, <2>1
  <2> QED BY <2>2
<1>4. ASSUME NEW x, x \in Elems(r) PROVE x \in Elems(s) /\ x # Head(s)
  <2>1. PICK i \in 1..(n - 1) : x = s[i + 1]
    BY <1>1, <1>4 DEF Elems
  <2>2. i + 1 \in 1..n /\ 1 \in 1..n /\ i + 1 # 1
    BY <1>1
  <2> QED BY <1>1, <1>2, <2>1, <2>2 DEF Elems, n
<1>5. ASSUME NEW x, x \in Elems(s), x # Head(s) PROVE x \in Elems(r)
  <2>1. PICK i \in 1..n : x = s[i]
    BY <1>5 DEF Elems, n
  <2>2. i - 1 \in 1..(n - 1) /\ (i - 1) + 1 = i
    BY <1>1, <1>5, <2>1
  <2>3. r[i - 1] = x
    BY <1>1, <2>1, <2>2
  <2> QED BY <1>1, <2>2, <2>3 DEF Elems
<1>6. Head(s) \in Elems(s)
  BY <1>1 DEF Elems, n
<1>7. Distinct(r)
  BY <1>1, <1>3 DEF Distinct
<1> QED BY <1>1, <1>4, <1>5, <1>6, <1>7 DEF r

LEMMA AppendDistinct ==
  ASSUME NEW M, NEW s \in Seq(M), Distinct(s), NEW m \in M, m \notin Elems(s)
  PROVE  /\ Append(s, m) \in Seq(M) /\ Distinct(Append(s, m))
         /\ Elems(Append(s, m)) = Elems(s) \union {m}
<1> DEFINE n == Len(s)
           r == Append(s, m)
<1>1. n \in Nat /\ r \in Seq(M) /\ Len(r) = n + 1 /\ r[n + 1] = m /\ \A i \in 1..n : r[i] = s[i]
  OBVIOUS
<1>2. (\A i, j \in 1..n : s[i] = s[j] => i = j) /\ \A i \in 1..n : s[i] # m
  BY DEF Distinct, Elems
<1> HIDE DEF n, r
<1>3. \A i \in 1..(n + 1) : i \in 1..n \/ i = n + 1
  BY <1>1
<1>4. ASSUME NEW i \in 1..(n + 1), NEW j \in 1..(n + 1), r[i] = r[j] PROVE i = j
  BY <1>1, <1>2, <1>3, <1>4
<1>5. \A i \in 1..n : i \in 1..(n + 1)
  BY <1>1
<1>6. n + 1 \in 1..(n + 1)
  BY <1>1
<1>7. Elems(s) = {s[i] : i \in 1..n} /\ Elems(r) = {r[i] : i \in 1..(n + 1)}
  BY <1>1 DEF Elems, n
<1>8. Elems(r) = Elems(s) \union {m}
  <2>1. ASSUME NEW x, x \in Elems(r) PROVE x \in Elems(s) \union {m}
    BY <1>1, <1>3, <1>7, <2>1
  <2>2. ASSUME NEW x, x \in Elems(s) \union {m} PROVE x \in Elems(r)
    BY <1>1, <1>5, <1>6, <1>7, <2>2
  <2> QED BY <2>1, <2>2
<1>9. Distinct(r)
  BY <1>1, <1>4 DEF Distinct
<1> QED BY <1>1, <1>8, <1>9 DEF r

-----------------------------------------------------------------------------
(* The inductive invariant.                                                 *)

Base ==
  /\ RoutingInv /\ net = Built(T)
  /\ requested \in 0..MaxMessages /\ sent \in Seq(Messages) /\ IsQueue(events, Waits)
  /\ msg \in [Messages -> Moving] /\ buf \in [Buffers -> Ports]
  /\ ~ready => events = <<>> /\ requested = 0

Carrying == chan \in [Chans -> Carriers] /\ last \in [net.buses -> Nat]

\* A message that was requested has ends, a size and a route, and one in a buffer was sent.
Routed(m) ==
  /\ msg[m].src \in Nodes(T) /\ msg[m].dst \in Nodes(T) /\ msg[m].size \in Sizes
  /\ table[msg[m].src][msg[m].dst].out \in OutOf(T, msg[m].src)
Fields ==
  /\ \A m \in Messages :
       /\ m > requested => msg[m].at = None /\ m \notin Elems(sent)
       /\ m <= requested => Routed(m)
       /\ msg[m].at # None => m \in Elems(sent)
  /\ Distinct(sent)

\* The list of a buffer has the messages that are there, each once, and its count their sizes.
Loads      == [m \in Messages |-> msg[m].size]
Held(b)    == Distinct(buf[b].list) /\ Elems(buf[b].list) = {m \in Messages : msg[m].at = b}
Counted(b) == IsSum(buf[b].list, Loads, buf[b].count) /\ buf[b].count <= net.size
Filled     == \A b \in Buffers : Held(b) /\ Counted(b)

Live(m) == m <= requested /\ (msg[m].at # None \/ m \notin Elems(sent))
Once    == \A m \in Messages : IF Live(m) THEN Single(m) ELSE Absent(m)

\* The state of the message when the event comes, and why one waits.
Sound(e) ==
  LET m == e.msg IN
  /\ m <= requested
  /\ IF e.ev = "try" THEN m \notin Elems(sent) ELSE msg[m].at # None /\ msg[m].busy <= e.left
  /\ e.ev = "output" => msg[m].at \in Outs
  /\ e.ev \in {"input", "receive", "return"} => msg[m].at \in Buffers \ Outs
  /\ e.ev \in {"receive", "return"} => IsHead(m) /\ AtDestination(m)
Stuck(m, b) == IF msg[m].at = b THEN ~IsHead(m) ELSE ~Fits(msg[m].size, b)
Waiting(e, b) == Sound(e) /\ e.left = 0 /\ e.ev \in {"try", "output", "input"} /\ Stuck(e.msg, b)
AllSound ==
  /\ \A e \in Elems(events) : Sound(e)
  /\ \A b \in Buffers : \A e \in Elems(buf[b].wakeup) : Waiting(e, b)

NetInv == Base /\ Fields /\ Filled /\ Once /\ AllSound

-----------------------------------------------------------------------------
(* What the steps have in common: each handles the message m, while the       *)
(* events of the others are es, and sets only its fields.                     *)

Common(m, es) ==
  /\ Taken(m, es) /\ UNCHANGED <<topology, table, phase, net>>
  /\ RoutingInv' /\ ready
  /\ buf' \in [Buffers -> Ports] /\ msg' \in [Messages -> Moving]
  /\ \A x \in Messages \ {m} : msg'[x] = msg[x]
  /\ \/ /\ requested' = requested /\ m <= requested
        /\ msg'[m].src = msg[m].src /\ msg'[m].dst = msg[m].dst /\ msg'[m].size = msg[m].size
     \/ requested' = requested + 1 /\ m = requested + 1 /\ Routed(m)'

\* Only m may be sent now.
Sends(m) == sent' = sent \/ (sent' = Append(sent, m) /\ m \notin Elems(sent))

\* No other message at the head of a buffer is replaced.
Heads(m) ==
  \A b \in Buffers : buf[b].list # <<>> /\ Head(buf[b].list) # m =>
    buf'[b].list # <<>> /\ Head(buf'[b].list) = Head(buf[b].list)
Grows(b) ==
  /\ buf[b].list # <<>> => buf'[b].list # <<>> /\ Head(buf'[b].list) = Head(buf[b].list)
  /\ buf'[b].count >= buf[b].count

LEMMA CommonFacts ==
  ASSUME Base, NEW m, NEW es, Common(m, es)
  PROVE  /\ m \in Messages /\ T' = T /\ Buffers' = Buffers /\ Outs' = Outs /\ ready' = ready /\ NetOK
         /\ requested \in Nat /\ requested' \in Nat /\ m <= requested' /\ requested <= requested'
         /\ requested' \in 0..MaxMessages
         /\ \A x \in Messages : x # m => (x <= requested' <=> x <= requested)
         /\ \A x \in Messages : x \in Nat /\ msg[x] \in Moving /\ msg'[x] \in Moving
         /\ \A b \in Buffers : buf[b] \in Ports /\ buf'[b] \in Ports
<1>1. m \in Messages /\ MaxMessages \in Nat /\ requested \in 0..MaxMessages /\ Messages = 1..MaxMessages
  BY NetworkAssumption DEF Common, Taken, Base, Messages
<1>2. T' = T /\ Buffers' = Buffers /\ Outs' = Outs /\ ready' = ready
  BY DEF Common, T, Buffers, Outs, ready
<1>3. \/ requested' = requested /\ m <= requested
      \/ requested' = requested + 1 /\ m = requested + 1
  BY DEF Common
<1>4. NetOK
  BY NetIsOK DEF Base, RoutingInv
<1>5. /\ requested \in Nat /\ requested' \in Nat /\ m <= requested' /\ requested <= requested'
      /\ requested' \in 0..MaxMessages
      /\ \A x \in Messages : x # m => (x <= requested' <=> x <= requested)
  BY <1>1, <1>3
<1>6. \A x \in Messages : x \in Nat /\ msg[x] \in Moving /\ msg'[x] \in Moving
  BY <1>1 DEF Base, Common
<1>7. \A b \in Buffers : buf[b] \in Ports /\ buf'[b] \in Ports
  BY DEF Base, Common
<1> QED BY <1>1, <1>2, <1>4, <1>5, <1>6, <1>7

LEMMA SentStep ==
  ASSUME Base, Fields, NEW m \in Messages, Sends(m)
  PROVE  /\ sent' \in Seq(Messages) /\ Distinct(sent')
         /\ \A x \in Messages : x # m => (x \in Elems(sent') <=> x \in Elems(sent))
         /\ Elems(sent') = IF sent' = sent THEN Elems(sent) ELSE Elems(sent) \union {m}
<1>1. sent \in Seq(Messages) /\ Distinct(sent)
  BY DEF Base, Fields
<1>2. CASE sent' = sent
  BY <1>1, <1>2
<1>3. CASE sent' # sent
  <2>1. sent' = Append(sent, m) /\ m \notin Elems(sent)
    BY <1>3 DEF Sends
  <2>2. Append(sent, m) \in Seq(Messages) /\ Distinct(Append(sent, m)) /\ Elems(Append(sent, m)) = Elems(sent) \union {m}
    BY <1>1, <2>1, AppendDistinct
  <2> QED BY <1>3, <2>1, <2>2
<1> QED BY <1>2, <1>3

LEMMA FieldsStep ==
  ASSUME Base, Fields, NEW m, NEW es, Common(m, es), Sends(m), msg'[m].at # None => m \in Elems(sent')
  PROVE  Fields'
<1>1. /\ m \in Messages /\ T' = T /\ requested \in Nat /\ requested' \in Nat /\ m <= requested' /\ m \in Nat
      /\ \A x \in Messages : x # m => (x <= requested' <=> x <= requested)
      /\ \A x \in Messages : x \in Nat
  BY CommonFacts
<1>2. /\ Distinct(sent')
      /\ \A x \in Messages : x # m => (x \in Elems(sent') <=> x \in Elems(sent))
  BY <1>1, SentStep
<1>3. table' = table /\ \A x \in Messages \ {m} : msg'[x] = msg[x]
  BY DEF Common
<1>4. Routed(m)'
  <2>1. CASE /\ requested' = requested /\ m <= requested
             /\ msg'[m].src = msg[m].src /\ msg'[m].dst = msg[m].dst /\ msg'[m].size = msg[m].size
    <3>1. Routed(m)
      BY <1>1, <2>1 DEF Fields
    <3> QED BY <1>1, <1>3, <2>1, <3>1 DEF Routed
  <2>2. CASE requested' = requested + 1 /\ m = requested + 1 /\ Routed(m)'
    BY <2>2
  <2> QED BY <2>1, <2>2 DEF Common
<1>5. ASSUME NEW x \in Messages
      PROVE  /\ x > requested' => msg'[x].at = None /\ x \notin Elems(sent')
             /\ x <= requested' => Routed(x)'
             /\ msg'[x].at # None => x \in Elems(sent')
  <2>1. CASE x = m
    BY <1>1, <1>4, <2>1
  <2>2. CASE x # m
    <3>1. msg'[x] = msg[x] /\ (x \in Elems(sent') <=> x \in Elems(sent)) /\ (x <= requested' <=> x <= requested)
      BY <1>1, <1>2, <1>3, <2>2
    <3>2. x > requested' => x > requested
      BY <1>1, <3>1
    <3>3. Routed(x) => Routed(x)'
      BY <1>1, <1>3, <3>1 DEF Routed
    <3> QED BY <3>1, <3>2, <3>3 DEF Fields
  <2> QED BY <2>1, <2>2
<1> QED BY <1>2, <1>5 DEF Fields

LEMMA OnceStep ==
  ASSUME Base, Fields, Once, NEW m, NEW es, Common(m, es), Sends(m), Carried(m),
         IF Live(m)' THEN Single(m)' ELSE Absent(m)'
  PROVE  Once'
<1>1. /\ m \in Messages
      /\ \A x \in Messages : x # m => (x <= requested' <=> x <= requested)
  BY CommonFacts
<1>2. \A x \in Messages : x # m => (x \in Elems(sent') <=> x \in Elems(sent))
  BY <1>1, SentStep
<1>3. \A x \in Messages \ {m} : msg'[x] = msg[x]
  BY DEF Common
<1>4. ASSUME NEW x \in Messages PROVE IF Live(x)' THEN Single(x)' ELSE Absent(x)'
  <2>1. CASE x = m
    BY <2>1
  <2>2. CASE x # m
    <3>1. Live(x)' <=> Live(x)
      BY <1>1, <1>2, <1>3, <2>2 DEF Live
    <3>2. (Single(x) => Single(x)') /\ (Absent(x) => Absent(x)')
      BY <2>2 DEF Carried
    <3> QED BY <3>1, <3>2 DEF Once
  <2> QED BY <2>1, <2>2
<1> QED BY <1>4 DEF Once

LEMMA OthersSound ==
  ASSUME Base, Fields, NEW m, NEW es, Common(m, es), Sends(m), Heads(m), NEW e \in Waits, e.msg # m, Sound(e)
  PROVE  Sound(e)'
<1> DEFINE x == e.msg
<1>1. /\ m \in Messages /\ Buffers' = Buffers /\ Outs' = Outs /\ x \in Messages
      /\ (x <= requested' <=> x <= requested)
  BY CommonFacts, WaitsTimed
<1>2. x \in Elems(sent') <=> x \in Elems(sent)
  BY <1>1, SentStep
<1>3. msg'[x] = msg[x] /\ net' = net
  BY <1>1 DEF Common
<1>4. ASSUME e.ev \in {"receive", "return"} PROVE IsHead(x)' /\ AtDestination(x)'
  <2>1. IsHead(x) /\ AtDestination(x) /\ msg[x].at \in Buffers
    BY <1>4 DEF Sound
  <2>2. buf[msg[x].at].list # <<>> /\ Head(buf[msg[x].at].list) = x
    BY <2>1 DEF IsHead
  <2>3. buf'[msg[x].at].list # <<>> /\ Head(buf'[msg[x].at].list) = x
    BY <2>1, <2>2 DEF Heads
  <2> QED BY <1>3, <2>1, <2>3 DEF IsHead, AtDestination
<1>5. /\ x <= requested
      /\ IF e.ev = "try" THEN x \notin Elems(sent) ELSE msg[x].at # None /\ msg[x].busy <= e.left
      /\ e.ev = "output" => msg[x].at \in Outs
      /\ e.ev \in {"input", "receive", "return"} => msg[x].at \in Buffers \ Outs
  BY DEF Sound
<1> QED BY <1>1, <1>2, <1>3, <1>4, <1>5 DEF Sound

LEMMA OthersStuck ==
  ASSUME Base, Filled, NEW m, NEW es, Common(m, es), NEW b \in Buffers, Grows(b), NEW x \in Messages \ {m}, Stuck(x, b)
  PROVE  Stuck(x, b)'
<1>1. msg'[x] = msg[x] /\ net' = net
  BY DEF Common
<1>2. CASE msg[x].at = b
  <2>1. x \in Elems(buf[b].list)
    BY <1>2 DEF Filled, Held
  <2>2. buf[b].list # <<>>
    BY <2>1 DEF Elems
  <2>3. ~(buf[b].list # <<>> /\ Head(buf[b].list) = x)
    BY <1>2 DEF Stuck, IsHead
  <2>4. ~(buf'[b].list # <<>> /\ Head(buf'[b].list) = x)
    BY <2>2, <2>3 DEF Grows
  <2> QED BY <1>1, <1>2, <2>4 DEF Stuck, IsHead
<1>3. CASE msg[x].at # b
  <2>1. ~(buf[b].count + msg[x].size <= net.size)
    BY <1>3 DEF Stuck, Fits
  <2>2. buf[b].count \in Nat /\ buf'[b].count \in Nat /\ buf'[b].count >= buf[b].count
    BY CommonFacts DEF Grows, Ports
  <2>3. net.size \in Nat
    BY CommonFacts DEF NetOK
  <2>4. msg[x].size \in Nat
    <3>1. msg[x] \in Moving
      <4>1. msg \in [Messages -> Moving]
        BY DEF Base
      <4> QED BY <4>1
    <3>2. Sizes \union {0} \subseteq Nat
      BY NetworkAssumption
    <3>3. msg[x].size \in Sizes \union {0}
      BY <3>1 DEF Moving
    <3> QED BY <3>2, <3>3, Zenon
  <2>5. ~(buf'[b].count + msg[x].size <= net.size)
    BY <2>1, <2>2, <2>3, <2>4
  <2> QED BY <1>1, <1>3, <2>5 DEF Stuck, Fits
<1> QED BY <1>2, <1>3

\* The pending events are some of the others, some that were waiting, and new ones; those that
\* wait have waited before, or wait for a reason.
LEMMA SoundStep ==
  ASSUME Base, Fields, Filled, AllSound, NEW m, NEW es, Common(m, es), Sends(m), Heads(m),
         NEW New, \A e \in New : Sound(e)', IsQueue(events', Waits),
         \A e \in Elems(events') : e \in Elems(es) \/ e \in New \/ \E b \in Buffers : e \in Elems(buf[b].wakeup),
         \A b \in Buffers : \A e \in Elems(buf'[b].wakeup) : Waiting(e, b)' \/ (e \in Elems(buf[b].wakeup) /\ Grows(b))
  PROVE  AllSound'
<1>1. Buffers' = Buffers /\ m \in Messages
  BY CommonFacts
<1>2. ASSUME NEW e \in Elems(es) PROVE Sound(e) /\ e \in Waits /\ e.msg # m
  <2>1. e \in Elems(events) /\ es \in Seq(Waits) /\ Count(es, Of(m)) = 0
    BY <1>1, <1>2 DEF Common, Taken, IsQueue
  <2>2. e \in Waits /\ Count(es, Of(e.msg)) # 0
    BY <2>1, ElemsOf
  <2> QED BY <2>1, <2>2 DEF AllSound
<1>3. ASSUME NEW b \in Buffers, NEW e \in Elems(buf[b].wakeup)
      PROVE  Waiting(e, b) /\ e \in Waits /\ e.msg \in Messages \ {m}
  <2>1. buf[b].wakeup \in Seq(Waits) /\ Count(buf[b].wakeup, Of(m)) = 0
    BY DEF Common, Taken, InWakeup, Base, Ports
  <2>2. e \in Waits /\ Count(buf[b].wakeup, Of(e.msg)) # 0
    BY <2>1, ElemsOf
  <2>3. Waiting(e, b)
    BY DEF AllSound
  <2> QED BY <2>1, <2>2, <2>3, WaitsTimed
<1>4. ASSUME NEW e \in Elems(events') PROVE Sound(e)'
  <2>1. CASE e \in Elems(es)
    BY <1>2, <2>1, OthersSound
  <2>2. CASE e \in New
    BY <2>2
  <2>3. ASSUME NEW b \in Buffers, e \in Elems(buf[b].wakeup) PROVE Sound(e)'
    <3>1. Sound(e) /\ e \in Waits /\ e.msg # m
      BY <1>3, <2>3 DEF Waiting
    <3> QED BY <3>1, OthersSound
  <2> QED BY <2>1, <2>2, <2>3
<1>5. ASSUME NEW b \in Buffers, NEW e \in Elems(buf'[b].wakeup) PROVE Waiting(e, b)'
  <2>1. SUFFICES ASSUME e \in Elems(buf[b].wakeup), Grows(b) PROVE Waiting(e, b)'
    OBVIOUS
  <2>2. Waiting(e, b) /\ e \in Waits /\ e.msg \in Messages \ {m}
    BY <1>3, <2>1
  <2>3. Sound(e) /\ e.left = 0 /\ e.ev \in {"try", "output", "input"} /\ Stuck(e.msg, b)
    BY <2>2 DEF Waiting
  <2>4. Sound(e)' /\ Stuck(e.msg, b)'
    BY <2>1, <2>2, <2>3, OthersSound, OthersStuck
  <2> QED BY <2>3, <2>4 DEF Waiting
<1> QED BY <1>1, <1>4, <1>5 DEF AllSound

LEMMA BaseStep ==
  ASSUME Base, Fields, NEW m, NEW es, Common(m, es), Sends(m), IsQueue(events', Waits)
  PROVE  Base'
<1>1. m \in Messages /\ T' = T /\ Buffers' = Buffers /\ requested' \in 0..MaxMessages
  BY CommonFacts
<1>2. sent' \in Seq(Messages)
  BY <1>1, SentStep
<1>3. RoutingInv' /\ ready' /\ net' = net /\ net = Built(T)
  BY DEF Common, Base, ready
<1>4. Pick' = Pick /\ Moving' = Moving /\ Ports' = Ports
  BY <1>1 DEF Pick, Moving, Ports
<1>5. buf' \in [Buffers -> Ports] /\ msg' \in [Messages -> Moving]
  BY DEF Common
<1>6. net' = Built(T)'
  BY <1>1, <1>3
<1> QED BY <1>1, <1>2, <1>3, <1>4, <1>5, <1>6 DEF Base

LEMMA MovingIs ==
  ASSUME NEW r \in Moving
  PROVE  r.size \in Nat /\ r.busy \in Nat /\ r.at \in Pick
<1>1. Sizes \union {0} \subseteq Nat
  BY NetworkAssumption
<1>2. r.size \in Sizes \union {0} /\ r.busy \in Nat /\ r.at \in Pick
  BY DEF Moving
<1> QED BY <1>1, <1>2, Zenon

LEMMA PortIs ==
  ASSUME NEW r \in Ports
  PROVE  /\ r.list \in Seq(Messages) /\ r.count \in Nat /\ r.wakeup \in Seq(Waits) /\ r.read \in Nat
         /\ r.write \in Nat /\ r.decided \in BOOLEAN /\ r.pick \in Pick
BY DEF Ports

\* What a step of m does to the list of b.
Same(b)      == buf'[b].list = buf[b].list /\ buf'[b].count = buf[b].count
Left(b, m)   == buf'[b].list = Tail(buf[b].list) /\ buf'[b].count = buf[b].count - msg[m].size
Joined(b, m) == buf'[b].list = Append(buf[b].list, m) /\ buf'[b].count = buf[b].count + msg'[m].size
Lists(m) ==
  \A b \in Buffers :
    \/ Same(b) /\ (msg'[m].at = b <=> msg[m].at = b)
    \/ Left(b, m) /\ IsHead(m) /\ msg[m].at = b /\ msg'[m].at # b
    \/ Joined(b, m) /\ msg[m].at # b /\ msg'[m].at = b /\ buf'[b].count <= net.size

LEMMA SizesKept ==
  ASSUME Base, Fields, NEW m, NEW es, Common(m, es)
  PROVE  /\ Loads \in [Messages -> Nat] /\ Loads' \in [Messages -> Nat]
         /\ \A x \in Messages : Loads[x] = msg[x].size /\ Loads'[x] = msg'[x].size
         /\ \A x \in Messages : msg[x].at # None => msg'[x].size = msg[x].size
<1>1. \A x \in Messages : msg[x] \in Moving /\ msg'[x] \in Moving /\ x \in Nat
  BY CommonFacts, Zenon
<1>2. \A x \in Messages : msg[x].size \in Nat /\ msg'[x].size \in Nat
  <2> TAKE x \in Messages
  <2>1. msg[x] \in Moving
    BY <1>1
  <2>2. msg'[x] \in Moving
    BY <1>1
  <2>3. msg[x].size \in Nat
    BY <2>1, MovingIs
  <2>4. msg'[x].size \in Nat
    BY <2>2, MovingIs
  <2> QED BY <2>3, <2>4
<1>3. ASSUME NEW x \in Messages, msg[x].at # None PROVE msg'[x].size = msg[x].size
  <2>1. CASE x # m
    BY <2>1 DEF Common
  <2>2. CASE x = m
    <3>1. ~(requested' = requested + 1 /\ m = requested + 1)
      <4>1. m \in Nat /\ requested \in Nat /\ (m > requested => msg[m].at = None)
        BY <1>1, <2>2, CommonFacts DEF Fields
      <4> QED BY <1>3, <2>2, <4>1
    <3> QED BY <2>2, <3>1 DEF Common
  <2> QED BY <2>1, <2>2
<1> QED BY <1>2, <1>3 DEF Loads

LEMMA ListStep ==
  ASSUME Base, Fields, Filled, NEW m, NEW es, Common(m, es), Lists(m), NEW b \in Buffers
  PROVE  /\ Held(b)' /\ Counted(b)'
         /\ buf[b].list # <<>> /\ Head(buf[b].list) # m =>
              buf'[b].list # <<>> /\ Head(buf'[b].list) = Head(buf[b].list)
         /\ (msg[m].at = b /\ msg'[m].at # b) \/ Grows(b)
<1> DEFINE s == buf[b].list
           c == buf[b].count
<1>1. buf[b] \in Ports /\ m \in Messages
  BY CommonFacts
<1>2. s \in Seq(Messages) /\ c \in Nat /\ Distinct(s) /\ IsSum(s, Loads, c) /\ c <= net.size
  BY <1>1, PortIs DEF Filled, Held, Counted
<1>3. \A x : x \in Elems(s) <=> x \in Messages /\ msg[x].at = b
  BY DEF Filled, Held
<1>4. /\ Loads \in [Messages -> Nat] /\ Loads' \in [Messages -> Nat]
      /\ \A x \in Messages : Loads[x] = msg[x].size /\ Loads'[x] = msg'[x].size
      /\ \A x \in Messages : msg[x].at # None => msg'[x].size = msg[x].size
  BY SizesKept
<1>5. b # None /\ net.size \in Nat
  BY CommonFacts DEF NetOK
<1>6. net' = net /\ \A x \in Messages \ {m} : msg'[x] = msg[x]
  BY DEF Common
<1> HIDE DEF s, c
<1>7. \A x \in Elems(s) : Loads'[x] = Loads[x]
  BY <1>3, <1>4, <1>5
<1>8. Len(s) \in Nat /\ \A i \in 1..Len(s) : s[i] \in Elems(s)
  BY <1>2 DEF Elems
<1>9. IsSum(s, Loads', c)
  BY <1>2, <1>7, <1>8, SumSame
<1>10. CASE Same(b) /\ (msg'[m].at = b <=> msg[m].at = b)
  <2>1. buf'[b].list = s /\ buf'[b].count = c
    BY <1>10 DEF Same, s, c
  <2>2. Elems(s) = {x \in Messages : msg'[x].at = b}
    BY <1>3, <1>6, <1>10
  <2>3. Held(b)'
    BY <1>2, <2>1, <2>2 DEF Held
  <2>4. Counted(b)'
    BY <1>2, <1>6, <1>9, <2>1 DEF Counted
  <2>5. c >= c
    BY <1>2
  <2> QED BY <2>1, <2>3, <2>4, <2>5 DEF Grows, s, c
<1>11. CASE Left(b, m) /\ IsHead(m) /\ msg[m].at = b /\ msg'[m].at # b
  <2>1. s # <<>> /\ Head(s) = m
    BY <1>11 DEF IsHead, s
  <2>2. buf'[b].list = Tail(s) /\ buf'[b].count = c - Loads[m]
    BY <1>1, <1>4, <1>11 DEF Left, s, c
  <2>3. Distinct(Tail(s)) /\ Elems(Tail(s)) = Elems(s) \ {m} /\ Tail(s) \in Seq(Messages)
    BY <1>2, <2>1, TailDistinct
  <2>4. c - Loads[m] \in Nat /\ IsSum(Tail(s), Loads, c - Loads[m])
    BY <1>2, <1>4, <2>1, SumTail
  <2>5. \A i \in 1..Len(Tail(s)) : Tail(s)[i] \in Elems(Tail(s))
    BY DEF Elems
  <2>6. IsSum(Tail(s), Loads', c - Loads[m])
    BY <1>7, <2>3, <2>4, <2>5, SumSame
  <2>7. Elems(Tail(s)) = {x \in Messages : msg'[x].at = b}
    BY <1>3, <1>6, <1>11, <2>3
  <2>8. c - Loads[m] <= net.size
    <3>1. Loads[m] \in Nat
      BY <1>1, <1>4
    <3> QED BY <1>2, <1>5, <3>1
  <2>9. Held(b)'
    BY <2>2, <2>3, <2>7 DEF Held
  <2>10. Counted(b)'
    BY <1>6, <2>2, <2>6, <2>8 DEF Counted
  <2> QED BY <1>11, <2>1, <2>9, <2>10 DEF s
<1>12. CASE Joined(b, m) /\ msg[m].at # b /\ msg'[m].at = b /\ buf'[b].count <= net.size
  <2>1. buf'[b].list = Append(s, m) /\ buf'[b].count = c + Loads'[m]
    BY <1>1, <1>4, <1>12 DEF Joined, s, c
  <2>2. m \notin Elems(s)
    BY <1>3, <1>12
  <2>3. Append(s, m) \in Seq(Messages) /\ Distinct(Append(s, m)) /\ Elems(Append(s, m)) = Elems(s) \union {m}
    BY <1>1, <1>2, <2>2, AppendDistinct
  <2>4. IsSum(Append(s, m), Loads', c + Loads'[m])
    BY <1>1, <1>2, <1>4, <1>9, SumAppend
  <2>5. Elems(Append(s, m)) = {x \in Messages : msg'[x].at = b}
    BY <1>1, <1>3, <1>6, <1>12, <2>3
  <2>6. Held(b)'
    BY <2>1, <2>3, <2>5 DEF Held
  <2>7. Counted(b)'
    BY <1>6, <1>12, <2>1, <2>4 DEF Counted
  <2>8. c + Loads'[m] >= c
    <3>1. Loads'[m] \in Nat
      BY <1>1, <1>4
    <3> QED BY <1>2, <3>1
  <2>9. s # <<>> => Append(s, m) # <<>> /\ Head(Append(s, m)) = Head(s)
    BY <1>2, <2>3
  <2>10. Grows(b)
    BY <2>1, <2>8, <2>9 DEF Grows, s, c
  <2> QED BY <2>6, <2>7, <2>10 DEF Grows
<1> QED BY <1>10, <1>11, <1>12 DEF Lists

LEMMA FilledStep ==
  ASSUME Base, Fields, Filled, NEW m, NEW es, Common(m, es), Lists(m)
  PROVE  Filled' /\ Heads(m) /\ \A b \in Buffers : (msg[m].at = b /\ msg'[m].at # b) \/ Grows(b)
<1>1. Buffers' = Buffers
  BY CommonFacts
<1> QED BY <1>1, ListStep, Zenon DEF Filled, Heads

-----------------------------------------------------------------------------
(* The steps by what becomes of the events.                                 *)

\* The handler of the first event takes it.
LEMMA HeadTaken ==
  ASSUME Base, Once, AllSound, IsDue(events)
  PROVE  /\ Taken(Current, Tail(events)) /\ Live(Current)
         /\ Head(events) \in Of(Current) /\ Head(events).left = 0 /\ Sound(Head(events))
<1> DEFINE e == Head(events)
           m == Current
           es == Tail(events)
<1>1. /\ IsQueue(events, Waits) /\ events # <<>> /\ events \in Seq(Waits) /\ e.left = 0
      /\ buf \in [Buffers -> Ports]
  BY DEF Base, IsDue, IsQueue
<1>2. IsQueue(es, Waits) /\ e = events[1] /\ events[1] \in Waits /\ Len(events) \in Nat \ {0}
  BY <1>1, WaitsTimed, TailGrown
<1>3. e \in Waits /\ m = e.msg /\ m \in Messages
  BY <1>2, WaitsTimed DEF Current
<1>4. e \in Elems(events)
  BY <1>2 DEF Elems
<1>5. Sound(e)
  BY <1>4 DEF AllSound
<1>6. Live(m)
  BY <1>3, <1>5 DEF Sound, Live
<1>7. \A K : Count(events, K) = IF e \in K THEN Count(es, K) + 1 ELSE Count(es, K)
  BY <1>1, <1>2, TailCount
<1>8. /\ es \in Seq(Waits) /\ Len(es) = Len(events) - 1
      /\ \A i \in 1..(Len(events) - 1) : es[i] = events[i + 1]
  BY <1>1, <1>2
<1> HIDE DEF e, m, es
<1>9. e \in Of(m)
  BY <1>3 DEF Of
<1>10. \A x : Count(es, Of(x)) \in Nat
  BY <1>8, PlacesFinite
<1>11. Count(events, Of(m)) = Count(es, Of(m)) + 1
  BY <1>7, <1>9
<1>12. Single(m)
  BY <1>3, <1>6 DEF Once
<1>13. Count(es, Of(m)) = 0 /\ \A b \in Buffers : InWakeup(m, b) = 0
  <2>1. InEvents(m) # 0
    BY <1>10, <1>11 DEF InEvents
  <2>2. InEvents(m) = 1 /\ \A b \in Buffers : InWakeup(m, b) = 0
    BY <1>12, <2>1 DEF Single
  <2> QED BY <1>10, <1>11, <2>2 DEF InEvents
<1>14. ASSUME NEW x \in Messages PROVE Count(es, Of(x)) = IF x = m THEN 0 ELSE InEvents(x)
  <2>1. CASE x = m
    BY <1>13, <2>1
  <2>2. CASE x # m
    <3>1. e \notin Of(x)
      BY <1>3, <2>2 DEF Of
    <3> QED BY <1>7, <2>2, <3>1 DEF InEvents
  <2> QED BY <2>1, <2>2
<1>15. Elems(es) \subseteq Elems(events)
  <2> SUFFICES ASSUME NEW y \in Elems(es) PROVE y \in Elems(events)
    OBVIOUS
  <2>1. PICK i \in 1..Len(es) : y = es[i]
    BY DEF Elems
  <2>2. i + 1 \in 1..Len(events) /\ es[i] = events[i + 1]
    BY <1>2, <1>8
  <2> QED BY <2>1, <2>2 DEF Elems
<1>16. Taken(m, es)
  BY <1>2, <1>3, <1>13, <1>14, <1>15 DEF Taken, es
<1> QED BY <1>1, <1>5, <1>6, <1>9, <1>16 DEF e, m, es

\* A new message has none yet.
LEMMA NewTaken ==
  ASSUME Base, Once, requested + 1 \in Messages
  PROVE  Taken(requested + 1, events)
<1> DEFINE m == requested + 1
<1>1. requested \in Nat
  BY NetworkAssumption DEF Base
<1>2. ~Live(m)
  BY <1>1 DEF Live
<1>3. Absent(m)
  BY <1>2 DEF Once
<1>4. IsQueue(events, Waits)
  BY DEF Base
<1> QED BY <1>3, <1>4 DEF Taken, Absent, InEvents

LEMMA HandleStep ==
  ASSUME NetInv, NEW m, NEW es, Common(m, es), Sends(m), Carried(m), Lists(m), IsQueue(events', Waits),
         msg'[m].at # None => m \in Elems(sent'), IF Live(m)' THEN Single(m)' ELSE Absent(m)',
         NEW New, \A e \in New : Sound(e)',
         \A e \in Elems(events') : e \in Elems(es) \/ e \in New \/ \E b \in Buffers : e \in Elems(buf[b].wakeup),
         \A b \in Buffers : \A e \in Elems(buf'[b].wakeup) : Waiting(e, b)' \/ (e \in Elems(buf[b].wakeup) /\ Grows(b))
  PROVE  NetInv'
<1>1. Base /\ Fields /\ Filled /\ Once /\ AllSound
  BY DEF NetInv
<1>2. Filled' /\ Heads(m)
  BY <1>1, FilledStep
<1>3. Base'
  BY <1>1, BaseStep
<1>4. Fields'
  BY <1>1, FieldsStep
<1>5. Once'
  BY <1>1, OnceStep
<1>6. AllSound'
  BY <1>1, <1>2, SoundStep
<1> QED BY <1>2, <1>3, <1>4, <1>5, <1>6 DEF NetInv

LEMMA ScheduleStep ==
  ASSUME NetInv, NEW m, NEW es, Common(m, es), Sends(m), Lists(m),
         msg'[m].at # None => m \in Elems(sent'), Live(m)', NEW e \in Of(m), Sound(e)',
         events' = Scheduled(es, e), \A b \in Buffers : buf'[b].wakeup = buf[b].wakeup,
         \A b \in Buffers : msg[m].at = b => msg'[m].at = b
  PROVE  NetInv'
<1>1. Taken(m, es) /\ net' = net
  BY DEF Common
<1>2. Carried(m) /\ Single(m)' /\ IsQueue(events', Waits) /\ Elems(events') = Elems(es) \union {e}
  BY <1>1, FlowSchedule
<1>3. \A b \in Buffers : Grows(b)
  BY FilledStep DEF NetInv
<1> DEFINE New == {e}
<1>4. \A x \in New : Sound(x)'
  OBVIOUS
<1>5. \A b \in Buffers : \A x \in Elems(buf'[b].wakeup) : Waiting(x, b)' \/ (x \in Elems(buf[b].wakeup) /\ Grows(b))
  BY <1>3, Zenon
<1>6. \A x \in Elems(events') : x \in Elems(es) \/ x \in New \/ \E b \in Buffers : x \in Elems(buf[b].wakeup)
  BY <1>2
<1>7. IF Live(m)' THEN Single(m)' ELSE Absent(m)'
  BY <1>2
<1> HIDE DEF New
<1> QED BY <1>2, <1>4, <1>5, <1>6, <1>7, HandleStep

LEMMA ParkStep ==
  ASSUME NetInv, NEW m, NEW es, Common(m, es), sent' = sent, Lists(m), msg'[m].at = msg[m].at, Live(m)',
         NEW b \in Buffers, NEW e \in Of(m), Waiting(e, b)', events' = es,
         buf'[b].wakeup = Append(buf[b].wakeup, e), \A c \in Buffers \ {b} : buf'[c].wakeup = buf[c].wakeup
  PROVE  NetInv'
<1>1. Taken(m, es) /\ net' = net /\ buf \in [Buffers -> Ports] /\ m \in Messages
  BY DEF Common, NetInv, Base, Taken
<1>2. /\ Carried(m) /\ Single(m)' /\ IsQueue(events', Waits)
      /\ Elems(events') = Elems(es) /\ Elems(buf'[b].wakeup) = Elems(buf[b].wakeup) \union {e}
  <2>1. Carried(m) /\ Single(m)'
    BY <1>1, FlowPark
  <2>2. IsQueue(events', Waits)
    BY <1>1, FlowPark
  <2>3. Elems(buf'[b].wakeup) = Elems(buf[b].wakeup) \union {e}
    <3>1. e \in Waits /\ buf[b].wakeup \in Seq(Waits)
      BY <1>1 DEF Of, Ports
    <3>2. Elems(Append(buf[b].wakeup, e)) = Elems(buf[b].wakeup) \union {e}
      BY <3>1, AppendElems
    <3> QED BY <3>2
  <2> QED BY <2>1, <2>2, <2>3
<1>3. \A c \in Buffers : Grows(c)
  BY FilledStep DEF NetInv
<1>4. Sends(m) /\ (msg'[m].at # None => m \in Elems(sent'))
  BY <1>1 DEF Sends, NetInv, Fields
<1>5. ASSUME NEW c \in Buffers, NEW x \in Elems(buf'[c].wakeup)
      PROVE  Waiting(x, c)' \/ (x \in Elems(buf[c].wakeup) /\ Grows(c))
  <2>1. CASE c = b
    BY <1>2, <1>3, <2>1
  <2>2. CASE c # b
    BY <1>3, <2>2
  <2> QED BY <2>1, <2>2
<1> DEFINE New == {}
<1>6. \A x \in Elems(events') : x \in Elems(es) \/ x \in New \/ \E c \in Buffers : x \in Elems(buf[c].wakeup)
  BY <1>2
<1>7. \A x \in New : Sound(x)'
  OBVIOUS
<1>8. IF Live(m)' THEN Single(m)' ELSE Absent(m)'
  BY <1>2
<1> HIDE DEF New
<1> QED BY <1>2, <1>4, <1>5, <1>6, <1>7, <1>8, HandleStep

\* The message leaves b: new are the events that waited there, and the next of the message.
LEMMA LeaveStep ==
  ASSUME NetInv, NEW m, NEW es, Common(m, es), sent' = sent, Lists(m), msg[m].at # None,
         NEW b \in Buffers, msg[m].at = b,
         NEW new \in Seq(Waits), \A x \in Messages \ {m} : Count(new, Of(x)) = InWakeup(x, b),
         IF Live(m)' THEN Count(new, Of(m)) = 1 ELSE Count(new, Of(m)) = 0,
         \A e \in Elems(new) : e \in Elems(buf[b].wakeup) \/ Sound(e)',
         events' = ScheduledAll(es, new),
         buf'[b].wakeup = <<>>, \A c \in Buffers \ {b} : buf'[c].wakeup = buf[c].wakeup
  PROVE  NetInv'
<1>1. /\ Taken(m, es) /\ net' = net /\ buf \in [Buffers -> Ports] /\ m \in Messages /\ events \in Seq(Waits)
      /\ m \in Elems(sent)
  BY DEF Common, NetInv, Base, Taken, IsQueue, Fields
<1>2. /\ Carried(m) /\ IsQueue(events', Waits)
      /\ Count(new, Of(m)) = 1 => Single(m)'
      /\ Count(new, Of(m)) = 0 => Absent(m)'
      /\ Elems(events') = Elems(es) \union Elems(new)
  BY <1>1, FlowWake
<1>3. \A c \in Buffers : c # b => Grows(c)
  BY FilledStep DEF NetInv
<1>4. Sends(m) /\ m \in Elems(sent')
  BY <1>1 DEF Sends
<1> DEFINE New == {e \in Elems(new) : Sound(e)'}
<1>5. \A e \in New : Sound(e)'
  OBVIOUS
<1>6. ASSUME NEW c \in Buffers, NEW x \in Elems(buf'[c].wakeup)
      PROVE  x \in Elems(buf[c].wakeup) /\ Grows(c)
  <2>1. CASE c = b
    <3>1. Elems(<<>>) = {}
      BY DEF Elems
    <3> QED BY <2>1, <3>1
  <2>2. CASE c # b
    BY <1>3, <2>2
  <2> QED BY <2>1, <2>2
<1>7. \A e \in Elems(events') : e \in Elems(es) \/ e \in New \/ \E c \in Buffers : e \in Elems(buf[c].wakeup)
  BY <1>2
<1>8. IF Live(m)' THEN Single(m)' ELSE Absent(m)'
  BY <1>2
<1> HIDE DEF New
<1> QED BY <1>2, <1>4, <1>5, <1>6, <1>7, <1>8, HandleStep

-----------------------------------------------------------------------------
(* The parts of the handlers.                                               *)

LEMMA HeadFacts ==
  ASSUME NetInv, IsDue(events)
  PROVE  /\ Current \in Messages /\ Current \in Nat /\ msg[Current] \in Moving /\ Current <= requested /\ Routed(Current)
         /\ Head(events) \in Waits /\ Head(events).msg = Current /\ Head(events).left = 0 /\ Sound(Head(events))
         /\ Taken(Current, Tail(events)) /\ Live(Current) /\ ready
         /\ Head(events).ev # "try" =>
              /\ msg[Current].at \in Buffers /\ buf[msg[Current].at] \in Ports /\ msg[Current].busy = 0
              /\ Current \in Elems(sent)
<1> DEFINE m == Current
           h == Head(events)
<1>1. Base /\ Fields /\ Once /\ AllSound
  BY DEF NetInv
<1>2. Taken(m, Tail(events)) /\ Live(m) /\ h \in Of(m) /\ h.left = 0 /\ Sound(h)
  BY <1>1, HeadTaken
<1>3. m \in Messages /\ h \in Waits /\ h.msg = m
  BY <1>2 DEF Taken, Of
<1>4. /\ msg \in [Messages -> Moving] /\ buf \in [Buffers -> Ports] /\ requested \in Nat /\ m \in Nat
      /\ events # <<>> /\ (~ready => events = <<>>)
  BY <1>1, <1>3, NetworkAssumption DEF Base, Messages, IsDue
<1>5. msg[m] \in Moving
  BY <1>3, <1>4
<1> HIDE DEF h, m
<1>6. m <= requested /\ Routed(m)
  BY <1>1, <1>2, <1>3 DEF Sound, Fields
<1>7. ASSUME h.ev # "try" PROVE msg[m].at \in Buffers /\ msg[m].busy = 0 /\ m \in Elems(sent)
  <2>1. msg[m].at # None /\ msg[m].busy <= h.left
    BY <1>2, <1>3, <1>7 DEF Sound
  <2>2. msg[m].busy \in Nat /\ msg[m].at \in Pick
    BY <1>5, MovingIs
  <2>3. msg[m].at \in Buffers
    BY <2>1, <2>2 DEF Pick
  <2>4. msg[m].busy = 0
    BY <1>2, <2>1, <2>2
  <2>5. m \in Elems(sent)
    BY <1>1, <1>3, <2>1 DEF Fields
  <2> QED BY <2>3, <2>4, <2>5
<1> QED BY <1>2, <1>3, <1>4, <1>5, <1>6, <1>7 DEF m, h

\* The handler of the first event sets only where its message is, and since when.
LEMMA Handled ==
  ASSUME NetInv, IsDue(events), UNCHANGED <<routing, net, requested>>,
         buf' \in [Buffers -> Ports], msg' \in [Messages -> Moving], NEW m, m = Current,
         \A x \in Messages \ {m} : msg'[x] = msg[x],
         msg'[m].src = msg[m].src, msg'[m].dst = msg[m].dst, msg'[m].size = msg[m].size
  PROVE  Common(m, Tail(events))
<1>1. Taken(m, Tail(events)) /\ ready /\ m <= requested
  BY HeadFacts
<1>2. RoutingInv'
  BY RoutingStays DEF NetInv, Base
<1>3. UNCHANGED <<topology, table, phase, net>>
  BY DEF routing
<1> QED BY <1>1, <1>2, <1>3 DEF Common

\* A message that stays where it is stays sound.
LEMMA SoundSame ==
  ASSUME NEW h \in Waits, Sound(h), h.left = 0, msg[h.msg] \in Moving, NEW e, e.ev = h.ev, e.msg = h.msg, e.left \in Nat,
         UNCHANGED <<net, requested, msg, sent>>, \A b \in Buffers : buf'[b].list = buf[b].list
  PROVE  Sound(e)'
<1> DEFINE m == h.msg
<1>1. Buffers' = Buffers /\ Outs' = Outs
  BY DEF Buffers, Outs
<1>2. msg[m].busy \in Nat
  BY MovingIs
<1>3. /\ m <= requested
      /\ IF h.ev = "try" THEN m \notin Elems(sent) ELSE msg[m].at # None /\ msg[m].busy <= h.left
      /\ h.ev = "output" => msg[m].at \in Outs
      /\ h.ev \in {"input", "receive", "return"} => msg[m].at \in Buffers \ Outs
      /\ h.ev \in {"receive", "return"} => IsHead(m) /\ AtDestination(m)
  BY DEF Sound
<1>4. h.ev # "try" => msg[m].busy <= e.left
  BY <1>2, <1>3
<1>5. ASSUME h.ev \in {"receive", "return"} PROVE IsHead(m)' /\ AtDestination(m)'
  <2>1. msg[m].at \in Buffers /\ IsHead(m) /\ AtDestination(m)
    BY <1>3, <1>5
  <2> QED BY <2>1 DEF IsHead, AtDestination
<1> QED BY <1>1, <1>3, <1>4, <1>5 DEF Sound

LEMMA StayStep ==
  ASSUME NetInv, IsDue(events), UNCHANGED <<routing, net, requested, msg, sent>>, buf' \in [Buffers -> Ports],
         \A b \in Buffers : buf'[b].list = buf[b].list /\ buf'[b].count = buf[b].count,
         NEW m, m = Current
  PROVE  Common(m, Tail(events)) /\ Sends(m) /\ Lists(m) /\ Live(m)' /\ (msg'[m].at # None => m \in Elems(sent'))
<1>1. m \in Messages /\ Live(m)
  BY HeadFacts
<1>2. msg \in [Messages -> Moving] /\ (msg[m].at # None => m \in Elems(sent))
  BY <1>1 DEF NetInv, Base, Fields
<1>3. Common(m, Tail(events))
  BY <1>2, Handled
<1>4. Lists(m)
  BY DEF Lists, Same
<1>5. Live(m)'
  BY <1>1 DEF Live
<1> QED BY <1>2, <1>3, <1>4, <1>5 DEF Sends

LEMMA RetryStep ==
  ASSUME NetInv, IsDue(events), UNCHANGED <<routing, net, requested, msg, sent>>, buf' \in [Buffers -> Ports],
         \A b \in Buffers : buf'[b].list = buf[b].list /\ buf'[b].count = buf[b].count /\ buf'[b].wakeup = buf[b].wakeup,
         NEW n \in Nat, RetryAfter(n)
  PROVE  NetInv'
<1>1. PICK m : m = Current
  OBVIOUS
<1>2. PICK es : es = Tail(events)
  OBVIOUS
<1>3. PICK h : h = Head(events)
  OBVIOUS
<1>4. PICK e : e = [h EXCEPT !.left = n]
  OBVIOUS
<1>5. h \in Waits /\ Sound(h) /\ h.left = 0 /\ h.msg = m /\ msg[m] \in Moving
  BY <1>1, <1>3, HeadFacts
<1>6. e \in Waits /\ e.ev = h.ev /\ e.msg = h.msg /\ e.left = n
  BY <1>4, <1>5 DEF Waits
<1>7. Sound(e)'
  BY <1>5, <1>6, SoundSame
<1>8. Common(m, es) /\ Sends(m) /\ Lists(m) /\ Live(m)' /\ (msg'[m].at # None => m \in Elems(sent'))
  BY <1>1, <1>2, StayStep
<1>9. e \in Of(m)
  BY <1>5, <1>6 DEF Of
<1>10. events' = Scheduled(es, e)
  BY <1>2, <1>3, <1>4 DEF RetryAfter
<1> QED BY <1>7, <1>8, <1>9, <1>10, ScheduleStep

LEMMA WaitStep ==
  ASSUME NetInv, IsDue(events), Head(events).ev \in {"output", "input"},
         UNCHANGED <<routing, net, requested, msg, sent>>, NEW b \in Buffers, Stuck(Current, b), WaitOn(b)
  PROVE  NetInv'
<1>1. PICK m : m = Current
  OBVIOUS
<1>2. PICK es : es = Tail(events)
  OBVIOUS
<1>3. PICK h : h = Head(events)
  OBVIOUS
<1>4. h \in Waits /\ Sound(h) /\ h.left = 0 /\ h.msg = m /\ m \in Messages /\ msg[m] \in Moving
  BY <1>1, <1>3, HeadFacts
<1>5. buf \in [Buffers -> Ports] /\ buf' = [buf EXCEPT ![b].wakeup = Append(@, h)] /\ events' = es
  BY <1>2, <1>3 DEF WaitOn, NetInv, Base
<1>6. /\ buf'[b].wakeup = Append(buf[b].wakeup, h)
      /\ \A c \in Buffers \ {b} : buf'[c].wakeup = buf[c].wakeup
      /\ \A c \in Buffers : buf'[c].list = buf[c].list /\ buf'[c].count = buf[c].count
  BY <1>5 DEF Ports
<1>7. buf' \in [Buffers -> Ports]
  <2>1. buf[b] \in Ports /\ buf[b].wakeup \in Seq(Waits)
    BY <1>5, PortIs
  <2>2. Append(buf[b].wakeup, h) \in Seq(Waits)
    BY <1>4, <2>1
  <2>3. [buf[b] EXCEPT !.wakeup = Append(buf[b].wakeup, h)] \in Ports
    BY <2>1, <2>2 DEF Ports
  <2> QED BY <1>5, <2>3
<1>8. Common(m, es) /\ Lists(m) /\ Live(m)'
  BY <1>1, <1>2, <1>6, <1>7, StayStep
<1>9. Sound(h)'
  BY <1>4, <1>6, SoundSame
<1>10. Stuck(m, b)'
  <2>1. msg' = msg /\ net' = net /\ Stuck(m, b)
    BY <1>1
  <2> QED BY <1>6, <2>1 DEF Stuck, IsHead, Fits
<1>11. Waiting(h, b)'
  BY <1>3, <1>4, <1>9, <1>10 DEF Waiting
<1>12. h \in Of(m)
  BY <1>4 DEF Of
<1> QED BY <1>5, <1>6, <1>8, <1>11, <1>12, ParkStep

\* The next event of a message that stays.
LEMMA NextStep ==
  ASSUME NetInv, IsDue(events), UNCHANGED <<routing, net, requested, msg, sent, buf>>,
         Head(events).ev \in {"input", "receive"}, IsHead(Current), AtDestination(Current),
         NEW ev \in {"receive", "return"}, events' = Scheduled(Tail(events), Event(ev, Current, 0))
  PROVE  NetInv'
<1>1. PICK m : m = Current
  OBVIOUS
<1>2. PICK es : es = Tail(events)
  OBVIOUS
<1>3. PICK e : e = Event(ev, m, 0)
  OBVIOUS
<1>4. Sound(Head(events)) /\ Head(events).msg = m /\ m \in Messages /\ msg[m].busy = 0
  BY <1>1, HeadFacts
<1>5. e \in Of(m) /\ e.ev = ev /\ e.msg = m /\ e.left = 0
  BY <1>3, <1>4 DEF Event, Waits, Of
<1>6. m <= requested /\ msg[m].at # None /\ msg[m].at \in Buffers \ Outs
  BY <1>4 DEF Sound
<1>7. Sound(e)
  BY <1>1, <1>4, <1>5, <1>6 DEF Sound
<1>8. Sound(e)'
  BY <1>7 DEF Sound, IsHead, AtDestination, Buffers, Outs
<1>9. buf' \in [Buffers -> Ports]
  BY DEF NetInv, Base
<1>10. Common(m, es) /\ Sends(m) /\ Lists(m) /\ Live(m)' /\ (msg'[m].at # None => m \in Elems(sent'))
  BY <1>1, <1>2, <1>9, StayStep
<1>11. events' = Scheduled(es, e)
  BY <1>1, <1>2, <1>3
<1> QED BY <1>5, <1>8, <1>10, <1>11, ScheduleStep

LEMMA WokenAll ==
  ASSUME buf \in [Buffers -> Ports], NEW b \in Buffers
  PROVE  Woken(b) = buf[b].wakeup /\ Kept(b) = <<>>
<1> DEFINE w == buf[b].wakeup
           n == Len(w)
<1>1. w \in Seq(Waits)
  BY PortIs
<1> HIDE DEF w
<1>2. n \in Nat
  BY <1>1
<1>3. SubSeq(w, 1, n) = w
  BY <1>1
<1>4. SubSeq(w, n + 1, n) = <<>>
  <2>1. SubSeq(w, n + 1, n) \in Seq(Waits) /\ Len(SubSeq(w, n + 1, n)) = 0
    BY <1>1, <1>2
  <2> QED BY <2>1
<1> QED BY <1>3, <1>4 DEF Woken, Kept, Wakes, w

\* The message moves to the buffer c.
LEMMA MoveStep ==
  ASSUME NetInv, IsDue(events), Head(events).ev \in {"output", "input"}, IsHead(Current),
         UNCHANGED <<routing, net, requested, sent>>,
         NEW b, b = msg[Current].at, NEW c \in Buffers \ {b}, Fits(msg[Current].size, c),
         NEW bs \in [Buffers -> Ports],
         \A x \in Buffers : bs[x].list = buf[x].list /\ bs[x].count = buf[x].count /\ bs[x].wakeup = buf[x].wakeup,
         NEW lat \in Nat, NEW ev, (ev = "input" /\ c \notin Outs) \/ (ev = "output" /\ c \in Outs),
         Transfer(bs, Current, b, c, lat, ev)
  PROVE  NetInv'
<1>1. PICK m : m = Current
  OBVIOUS
<1>2. PICK es : es = Tail(events)
  OBVIOUS
<1>3. PICK e : e = Event(ev, m, lat)
  OBVIOUS
<1>4. PICK new : new = Append(buf[b].wakeup, e)
  OBVIOUS
<1>5. /\ m \in Messages /\ m <= requested /\ msg[m] \in Moving /\ b \in Buffers /\ buf[b] \in Ports /\ m \in Elems(sent)
      /\ Taken(m, es)
  BY <1>1, <1>2, HeadFacts
<1>6. buf \in [Buffers -> Ports] /\ msg \in [Messages -> Moving] /\ Filled /\ None \notin Buffers
  BY NetIsOK DEF NetInv, Base, NetOK, RoutingInv
<1>7. /\ buf' = [bs EXCEPT ![b].list = Tail(@), ![b].count = @ - msg[m].size,
                           ![b].wakeup = Kept(b), ![b].read = lat,
                           ![c].list = Enqueued(c, m), ![c].count = @ + msg[m].size, ![c].write = lat]
      /\ msg' = [msg EXCEPT ![m].at = c, ![m].busy = lat]
      /\ events' = ScheduledAll(es, Append(Woken(b), e))
  BY <1>1, <1>2, <1>3, Zenon DEF Transfer
<1>8. Kept(b) = <<>> /\ Woken(b) = buf[b].wakeup
  BY <1>5, <1>6, WokenAll
<1>9. e \in Waits /\ e.msg = m /\ e.left = lat /\ e.ev = ev
  BY <1>3, <1>5 DEF Event, Waits
<1>10. /\ buf'[b] = [bs[b] EXCEPT !.list = Tail(@), !.count = @ - msg[m].size, !.wakeup = <<>>, !.read = lat]
       /\ buf'[c] = [bs[c] EXCEPT !.list = Append(buf[c].list, m), !.count = @ + msg[m].size, !.write = lat]
       /\ \A x \in Buffers \ {b, c} : buf'[x] = bs[x]
       /\ DOMAIN buf' = Buffers /\ buf' = [x \in Buffers |-> buf'[x]]
  BY <1>5, <1>7, <1>8, Zenon DEF Enqueued
<1>11. bs[b] \in Ports /\ bs[c] \in Ports /\ buf[c] \in Ports /\ msg[m].size \in Nat
  BY <1>5, <1>6, MovingIs
<1>12. /\ buf'[b].list = Tail(buf[b].list) /\ buf'[b].count = buf[b].count - msg[m].size /\ buf'[b].wakeup = <<>>
       /\ buf'[c].list = Append(buf[c].list, m) /\ buf'[c].count = buf[c].count + msg[m].size
       /\ buf'[c].wakeup = buf[c].wakeup
  <2> DEFINE p == bs[b]
             q == bs[c]
             z == msg[m].size
             s == Append(buf[c].list, m)
  <2>1. p \in Ports /\ q \in Ports
    BY <1>11
  <2>2. /\ p.list = buf[b].list /\ p.count = buf[b].count
        /\ q.count = buf[c].count /\ q.wakeup = buf[c].wakeup
    BY <1>5
  <2>3. buf'[b] = [p EXCEPT !.list = Tail(p.list), !.count = p.count - z, !.wakeup = <<>>, !.read = lat]
    BY <1>10
  <2>4. buf'[c] = [q EXCEPT !.list = s, !.count = q.count + z, !.write = lat]
    BY <1>10
  <2> HIDE DEF p, q, z, s
  <2>5. buf'[b].list = Tail(p.list) /\ buf'[b].count = p.count - z /\ buf'[b].wakeup = <<>>
    BY <2>1, <2>3 DEF Ports
  <2>6. buf'[c].list = s /\ buf'[c].count = q.count + z /\ buf'[c].wakeup = q.wakeup
    BY <2>1, <2>4 DEF Ports
  <2> QED BY <2>2, <2>5, <2>6 DEF s, z
<1>13. /\ msg'[m].at = c /\ msg'[m].busy = lat /\ msg'[m].size = msg[m].size
       /\ msg'[m].src = msg[m].src /\ msg'[m].dst = msg[m].dst
       /\ \A x \in Messages \ {m} : msg'[x] = msg[x]
       /\ msg' \in [Messages -> Moving]
  <2>1. c \in Pick
    BY DEF Pick
  <2>2. [msg[m] EXCEPT !.at = c, !.busy = lat] \in Moving
    BY <1>5, <2>1 DEF Moving
  <2>3. msg' = [msg EXCEPT ![m] = [msg[m] EXCEPT !.at = c, !.busy = lat]]
    BY <1>5, <1>6, <1>7, Zenon
  <2>4. msg' \in [Messages -> Moving] /\ \A x \in Messages \ {m} : msg'[x] = msg[x]
    BY <1>5, <1>6, <2>2, <2>3
  <2>5. msg'[m] = [msg[m] EXCEPT !.at = c, !.busy = lat]
    BY <1>5, <1>6, <2>3
  <2> QED BY <1>5, <2>4, <2>5 DEF Moving
<1>14. Held(b) /\ Counted(b)
  BY <1>5, <1>6 DEF Filled
<1>15. buf[b].list \in Seq(Messages) /\ buf[b].list # <<>> /\ buf[b].count - msg[m].size \in Nat
  <2>1. buf[b].list \in Seq(Messages) /\ buf[b].list # <<>> /\ Head(buf[b].list) = m
    BY <1>1, <1>5, PortIs DEF IsHead
  <2>2. Loads \in [Messages -> Nat] /\ Loads[m] = msg[m].size
    <3>1. \A x \in Messages : msg[x].size \in Nat
      BY <1>6, MovingIs
    <3> QED BY <1>5, <3>1 DEF Loads
  <2>3. IsSum(buf[b].list, Loads, buf[b].count)
    BY <1>14 DEF Counted
  <2>4. buf[b].count - Loads[m] \in Nat
    BY <2>1, <2>2, <2>3, SumTail
  <2> QED BY <2>1, <2>2, <2>4
<1>16. buf' \in [Buffers -> Ports]
  <2>1. buf'[b] \in Ports
    <3>1. Tail(buf[b].list) \in Seq(Messages) /\ <<>> \in Seq(Waits)
      BY <1>15
    <3>2. buf'[b] = [bs[b] EXCEPT !.list = Tail(buf[b].list), !.count = buf[b].count - msg[m].size, !.wakeup = <<>>, !.read = lat]
      BY <1>5, <1>10
    <3> QED BY <1>11, <1>15, <3>1, <3>2 DEF Ports
  <2>2. buf'[c] \in Ports
    <3>1. Append(buf[c].list, m) \in Seq(Messages) /\ buf[c].count + msg[m].size \in Nat
      <4>1. buf[c].list \in Seq(Messages) /\ buf[c].count \in Nat
        BY <1>11, PortIs
      <4> QED BY <1>5, <1>11, <4>1
    <3>2. buf'[c] = [bs[c] EXCEPT !.list = Append(buf[c].list, m), !.count = buf[c].count + msg[m].size, !.write = lat]
      BY <1>10
    <3> QED BY <1>11, <3>1, <3>2 DEF Ports
  <2>3. \A x \in Buffers : buf'[x] \in Ports
    BY <1>10, <2>1, <2>2
  <2> QED BY <1>10, <2>3
<1>17. Common(m, es)
  BY <1>1, <1>2, <1>13, <1>16, Handled
<1>18. Lists(m)
  <2>1. Left(b, m) /\ IsHead(m)
    BY <1>1, <1>12 DEF Left
  <2>2. Joined(c, m) /\ buf'[c].count <= net.size
    BY <1>1, <1>12, <1>13 DEF Joined, Fits
  <2>3. \A x \in Buffers \ {b, c} : Same(x)
    BY <1>10 DEF Same
  <2> QED BY <1>1, <1>13, <2>1, <2>2, <2>3 DEF Lists
<1>19. new \in Seq(Waits) /\ Elems(new) = Elems(buf[b].wakeup) \union {e}
       /\ \A K : Count(new, K) = IF e \in K THEN Count(buf[b].wakeup, K) + 1 ELSE Count(buf[b].wakeup, K)
  <2>1. buf[b].wakeup \in Seq(Waits)
    BY <1>5, PortIs
  <2> QED BY <1>4, <1>9, <2>1, AppendElems
<1>20. \A x \in Messages \ {m} : Count(new, Of(x)) = InWakeup(x, b)
  <2> TAKE x \in Messages \ {m}
  <2>1. e \notin Of(x)
    BY <1>9 DEF Of
  <2> QED BY <1>19, <2>1 DEF InWakeup
<1>21. Count(new, Of(m)) = 1
  <2>1. e \in Of(m) /\ Count(buf[b].wakeup, Of(m)) = 0
    BY <1>5, <1>9 DEF Of, Taken, InWakeup
  <2> QED BY <1>19, <2>1
<1>22. Sound(e)'
  <2>1. Buffers' = Buffers /\ Outs' = Outs /\ requested' = requested
    BY DEF Buffers, Outs
  <2>2. msg'[m].at # None /\ msg'[m].busy <= e.left
    BY <1>6, <1>9, <1>13
  <2>3. e.ev = "output" \/ e.ev = "input"
    BY <1>9
  <2> QED BY <1>5, <1>9, <1>13, <2>1, <2>2, <2>3 DEF Sound
<1>23. Live(m)'
  BY <1>5, <1>6, <1>13 DEF Live
<1>24. /\ sent' = sent /\ msg[m].at = b /\ msg[m].at # None /\ events' = ScheduledAll(es, new)
       /\ buf'[b].wakeup = <<>> /\ \A x \in Buffers \ {b} : buf'[x].wakeup = buf[x].wakeup
  <2>1. msg[m].at = b /\ msg[m].at # None
    BY <1>1, <1>5, <1>6
  <2>2. events' = ScheduledAll(es, new)
    BY <1>4, <1>7, <1>8, Zenon
  <2>3. ASSUME NEW x \in Buffers \ {b} PROVE buf'[x].wakeup = buf[x].wakeup
    <3>1. CASE x = c
      BY <1>12, <3>1
    <3>2. CASE x # c
      <4>1. buf'[x] = bs[x]
        BY <1>10, <3>2
      <4> QED BY <4>1
    <3> QED BY <3>1, <3>2
  <2> QED BY <1>12, <2>1, <2>2, <2>3
<1>25. \A x \in Elems(new) : x \in Elems(buf[b].wakeup) \/ Sound(x)'
  BY <1>19, <1>22
<1> QED BY <1>5, <1>17, <1>18, <1>19, <1>20, <1>21, <1>23, <1>24, <1>25, LeaveStep

\* The receiver takes the message.
LEMMA AbsorbStep ==
  ASSUME NetInv, IsDue(events), Head(events).ev \in {"receive", "return"}, Absorbed(Current, Tail(events))
  PROVE  NetInv'
<1>1. PICK m : m = Current
  OBVIOUS
<1>2. PICK es : es = Tail(events)
  OBVIOUS
<1>3. PICK b : b = msg[m].at
  OBVIOUS
<1>4. PICK new : new = buf[b].wakeup
  OBVIOUS
<1>5. /\ m \in Messages /\ m <= requested /\ msg[m] \in Moving /\ b \in Buffers /\ buf[b] \in Ports /\ m \in Elems(sent)
      /\ Taken(m, es) /\ IsHead(m)
  <2>1. Sound(Head(events)) /\ Head(events).msg = m
    BY <1>1, HeadFacts
  <2>2. IsHead(m)
    BY <2>1 DEF Sound
  <2> QED BY <1>1, <1>2, <1>3, <2>2, HeadFacts
<1>6. buf \in [Buffers -> Ports] /\ msg \in [Messages -> Moving] /\ Filled /\ None \notin Buffers
  BY NetIsOK DEF NetInv, Base, NetOK, RoutingInv
<1>7. /\ buf' = [buf EXCEPT ![b].list = Tail(@), ![b].count = @ - msg[m].size, ![b].wakeup = Kept(b)]
      /\ msg' = [msg EXCEPT ![m].at = None]
      /\ events' = ScheduledAll(es, Woken(b))
      /\ UNCHANGED <<routing, net, requested, sent>>
  BY <1>1, <1>2, <1>3, Zenon DEF Absorbed
<1>8. Kept(b) = <<>> /\ Woken(b) = new
  BY <1>4, <1>5, <1>6, WokenAll
<1>9. /\ buf'[b] = [buf[b] EXCEPT !.list = Tail(@), !.count = @ - msg[m].size, !.wakeup = <<>>]
      /\ \A x \in Buffers \ {b} : buf'[x] = buf[x]
      /\ DOMAIN buf' = Buffers /\ buf' = [x \in Buffers |-> buf'[x]]
  BY <1>5, <1>6, <1>7, <1>8
<1>10. msg[m].size \in Nat
  BY <1>5, MovingIs
<1>11. /\ buf'[b].list = Tail(buf[b].list) /\ buf'[b].count = buf[b].count - msg[m].size /\ buf'[b].wakeup = <<>>
  <2> DEFINE p == buf[b]
             z == msg[m].size
  <2>1. p \in Ports /\ buf'[b] = [p EXCEPT !.list = Tail(p.list), !.count = p.count - z, !.wakeup = <<>>]
    BY <1>5, <1>9
  <2> HIDE DEF p, z
  <2>2. buf'[b].list = Tail(p.list) /\ buf'[b].count = p.count - z /\ buf'[b].wakeup = <<>>
    BY <2>1 DEF Ports
  <2> QED BY <2>2 DEF p, z
<1>12. /\ msg'[m].at = None /\ msg'[m].size = msg[m].size
       /\ msg'[m].src = msg[m].src /\ msg'[m].dst = msg[m].dst
       /\ \A x \in Messages \ {m} : msg'[x] = msg[x]
       /\ msg' \in [Messages -> Moving]
  <2>1. None \in Pick
    BY DEF Pick
  <2>2. [msg[m] EXCEPT !.at = None] \in Moving
    BY <1>5, <2>1 DEF Moving
  <2>3. msg' = [msg EXCEPT ![m] = [msg[m] EXCEPT !.at = None]]
    BY <1>5, <1>6, <1>7, Zenon
  <2>4. msg' \in [Messages -> Moving] /\ \A x \in Messages \ {m} : msg'[x] = msg[x]
    BY <1>5, <1>6, <2>2, <2>3
  <2>5. msg'[m] = [msg[m] EXCEPT !.at = None]
    BY <1>5, <1>6, <2>3
  <2> QED BY <1>5, <2>4, <2>5 DEF Moving
<1>13. buf[b].list \in Seq(Messages) /\ buf[b].list # <<>> /\ buf[b].count - msg[m].size \in Nat
  <2>1. buf[b].list \in Seq(Messages) /\ buf[b].list # <<>> /\ Head(buf[b].list) = m
    BY <1>3, <1>5, PortIs DEF IsHead
  <2>2. Loads \in [Messages -> Nat] /\ Loads[m] = msg[m].size
    <3>1. \A x \in Messages : msg[x].size \in Nat
      BY <1>6, MovingIs
    <3> QED BY <1>5, <3>1 DEF Loads
  <2>3. IsSum(buf[b].list, Loads, buf[b].count)
    BY <1>5, <1>6 DEF Counted, Filled
  <2>4. buf[b].count - Loads[m] \in Nat
    BY <2>1, <2>2, <2>3, SumTail
  <2> QED BY <2>1, <2>2, <2>4
<1>14. buf' \in [Buffers -> Ports]
  <2>1. buf'[b] \in Ports
    <3>1. Tail(buf[b].list) \in Seq(Messages) /\ <<>> \in Seq(Waits)
      BY <1>13
    <3>2. buf'[b] = [buf[b] EXCEPT !.list = Tail(buf[b].list), !.count = buf[b].count - msg[m].size, !.wakeup = <<>>]
      BY <1>9
    <3> QED BY <1>5, <1>13, <3>1, <3>2 DEF Ports
  <2>2. \A x \in Buffers : buf'[x] \in Ports
    BY <1>6, <1>9, <2>1
  <2> QED BY <1>9, <2>2
<1>15. Common(m, es)
  BY <1>1, <1>2, <1>7, <1>12, <1>14, Handled
<1>16. Lists(m)
  <2>1. Left(b, m)
    BY <1>11 DEF Left
  <2>2. \A x \in Buffers \ {b} : Same(x)
    BY <1>9 DEF Same
  <2> QED BY <1>3, <1>5, <1>6, <1>12, <2>1, <2>2 DEF Lists
<1>17. new \in Seq(Waits)
  BY <1>4, <1>5, PortIs
<1>18. \A x \in Messages \ {m} : Count(new, Of(x)) = InWakeup(x, b)
  BY <1>4 DEF InWakeup
<1>19. Count(new, Of(m)) = 0
  BY <1>4, <1>5 DEF Taken, InWakeup
<1>20. ~Live(m)'
  BY <1>5, <1>7, <1>12 DEF Live
<1>21. msg[m].at = b /\ msg[m].at # None
  BY <1>3, <1>5, <1>6
<1>22. events' = ScheduledAll(es, new)
  BY <1>7, <1>8
<1>23. \A x \in Buffers \ {b} : buf'[x].wakeup = buf[x].wakeup
  BY <1>9
<1>24. \A x \in Elems(new) : x \in Elems(buf[b].wakeup) \/ Sound(x)'
  BY <1>4
<1>25. IF Live(m)' THEN Count(new, Of(m)) = 1 ELSE Count(new, Of(m)) = 0
  BY <1>19, <1>20
<1>26. sent' = sent /\ buf'[b].wakeup = <<>>
  BY <1>7, <1>11
<1> QED BY <1>5, <1>15, <1>16, <1>17, <1>18, <1>21, <1>22, <1>23, <1>24, <1>25, <1>26, LeaveStep

\* net_try_send_ev
LEMMA SendStep ==
  ASSUME NetInv, ready, UNCHANGED <<routing, net>>, NEW m \in Messages, NEW es, Taken(m, es), NEW r \in Moving,
         m \notin Elems(sent), msg[m].at = None, r.at = None,
         r.src \in Nodes(T), r.dst \in Nodes(T), r.size \in Sizes, table[r.src][r.dst].out \in OutOf(T, r.src),
         \/ requested' = requested /\ m <= requested /\ r = msg[m]
         \/ requested' = requested + 1 /\ m = requested + 1,
         TrySend(m, r, es)
  PROVE  NetInv'
<1>1. PICK o : o = table[r.src][r.dst].out
  OBVIOUS
<1>2. /\ buf \in [Buffers -> Ports] /\ msg \in [Messages -> Moving] /\ None \notin Buffers
      /\ requested \in Nat /\ Outs = Outputs(T) /\ Outs \subseteq Buffers
  BY NetIsOK, NetworkAssumption DEF NetInv, Base, NetOK, RoutingInv
<1>3. o \in Outs /\ o \in Buffers /\ o \in Pick
  BY <1>1, <1>2 DEF OutOf, Pick
<1>4. buf[o] \in Ports
  BY <1>2, <1>3
<1>5. buf[o].write \in Nat /\ buf[o].count \in Nat /\ buf[o].list \in Seq(Messages) /\ buf[o].wakeup \in Seq(Waits)
  BY <1>4, PortIs
<1>6. Buffers' = Buffers /\ Outs' = Outs /\ T' = T /\ table' = table /\ m \in Nat
  BY DEF Buffers, Outs, T, routing, Messages
<1>7. r.size \in Nat /\ r.busy \in Nat
  BY MovingIs
<1>8. ASSUME NEW p \in Moving, msg' = [msg EXCEPT ![m] = p], p.src = r.src, p.dst = r.dst, p.size = r.size,
             buf' \in [Buffers -> Ports]
      PROVE  Common(m, es) /\ msg'[m] = p
  <2>1. msg' \in [Messages -> Moving] /\ msg'[m] = p /\ \A x \in Messages \ {m} : msg'[x] = msg[x]
    BY <1>2, <1>8
  <2>2. RoutingInv'
    BY RoutingStays DEF NetInv, Base
  <2>3. UNCHANGED <<topology, table, phase, net>>
    BY DEF routing
  <2>4. Routed(m)'
    BY <1>6, <1>8, <2>1 DEF Routed
  <2>5. \/ /\ requested' = requested /\ m <= requested
           /\ msg'[m].src = msg[m].src /\ msg'[m].dst = msg[m].dst /\ msg'[m].size = msg[m].size
        \/ requested' = requested + 1 /\ m = requested + 1
    BY <1>8, <2>1
  <2> QED BY <1>8, <2>1, <2>2, <2>3, <2>4, <2>5 DEF Common
<1>9. m <= requested'
  BY <1>2, <1>6
<1>10. CASE /\ buf[o].write > 0
            /\ events' = Scheduled(es, Event("try", m, buf[o].write))
            /\ msg' = [msg EXCEPT ![m] = r]
            /\ UNCHANGED <<buf, sent>>
  <2>1. PICK e : e = Event("try", m, buf[o].write)
    OBVIOUS
  <2>2. e \in Of(m) /\ e.ev = "try" /\ e.msg = m
    BY <1>5, <2>1 DEF Event, Of, Waits
  <2>3. buf' \in [Buffers -> Ports]
    BY <1>2, <1>10
  <2>4. Common(m, es) /\ msg'[m] = r
    BY <1>8, <1>10, <2>3
  <2>5. Lists(m) /\ Sends(m)
    BY <1>2, <1>10, <2>4 DEF Lists, Same, Sends
  <2>6. Live(m)'
    BY <1>9, <1>10 DEF Live
  <2>7. Sound(e)'
    BY <1>9, <1>10, <2>2 DEF Sound
  <2>8. /\ msg'[m].at = None /\ events' = Scheduled(es, e)
        /\ \A b \in Buffers : buf'[b].wakeup = buf[b].wakeup
        /\ \A b \in Buffers : msg[m].at = b => msg'[m].at = b
    BY <1>2, <1>10, <2>1, <2>4
  <2> QED BY <2>2, <2>4, <2>5, <2>6, <2>7, <2>8, ScheduleStep
<1>11. CASE /\ buf[o].write = 0 /\ ~Fits(r.size, o)
            /\ buf' = [buf EXCEPT ![o].wakeup = Append(@, Event("try", m, 0))]
            /\ msg' = [msg EXCEPT ![m] = r]
            /\ events' = es
            /\ UNCHANGED sent
  <2>1. PICK e : e = Event("try", m, 0)
    OBVIOUS
  <2>2. e \in Of(m) /\ e \in Waits /\ e.ev = "try" /\ e.msg = m /\ e.left = 0
    BY <2>1 DEF Event, Of, Waits
  <2>3. /\ buf'[o].wakeup = Append(buf[o].wakeup, e)
        /\ \A c \in Buffers \ {o} : buf'[c].wakeup = buf[c].wakeup
        /\ \A c \in Buffers : buf'[c].list = buf[c].list /\ buf'[c].count = buf[c].count
    BY <1>2, <1>3, <1>11, <2>1 DEF Ports
  <2>4. buf' \in [Buffers -> Ports]
    <3>1. Append(buf[o].wakeup, e) \in Seq(Waits)
      BY <1>5, <2>2
    <3>2. [buf[o] EXCEPT !.wakeup = Append(buf[o].wakeup, e)] \in Ports
      BY <1>4, <3>1 DEF Ports
    <3> QED BY <1>2, <1>3, <1>11, <2>1, <3>2
  <2>5. Common(m, es) /\ msg'[m] = r
    BY <1>8, <1>11, <2>4
  <2>6. Lists(m)
    BY <1>2, <2>3, <2>5 DEF Lists, Same
  <2>7. Live(m)'
    BY <1>9, <1>11 DEF Live
  <2>8. Stuck(m, o)'
    <3>1. msg'[m].at # o /\ msg'[m].size = r.size /\ net' = net /\ buf'[o].count = buf[o].count
      BY <1>2, <1>3, <2>3, <2>5
    <3>2. ~(buf[o].count + r.size <= net.size)
      BY <1>11 DEF Fits
    <3> QED BY <3>1, <3>2 DEF Stuck, Fits
  <2>9. Waiting(e, o)'
    BY <1>9, <1>11, <2>2, <2>8 DEF Waiting, Sound
  <2>10. sent' = sent /\ msg'[m].at = msg[m].at /\ events' = es
    BY <1>11, <2>5
  <2> QED BY <1>3, <2>2, <2>3, <2>5, <2>6, <2>7, <2>9, <2>10, ParkStep
<1>12. CASE /\ buf[o].write = 0 /\ Fits(r.size, o)
            /\ buf' = [buf EXCEPT ![o].list = Enqueued(o, m), ![o].count = @ + r.size, ![o].write = 1]
            /\ msg' = [msg EXCEPT ![m] = [r EXCEPT !.at = o, !.busy = 1]]
            /\ events' = Scheduled(es, Event("output", m, 1))
            /\ sent' = Append(sent, m)
  <2>1. PICK e : e = Event("output", m, 1)
    OBVIOUS
  <2>2. PICK p : p = [r EXCEPT !.at = o, !.busy = 1]
    OBVIOUS
  <2>3. e \in Of(m) /\ e.ev = "output" /\ e.msg = m /\ e.left = 1
    BY <2>1 DEF Event, Of, Waits
  <2>4. p \in Moving /\ p.src = r.src /\ p.dst = r.dst /\ p.size = r.size /\ p.at = o /\ p.busy = 1
    BY <1>3, <2>2 DEF Moving
  <2> DEFINE q == [buf[o] EXCEPT !.list = Append(buf[o].list, m), !.count = buf[o].count + r.size, !.write = 1]
  <2>5. buf' = [buf EXCEPT ![o] = q]
    BY <1>2, <1>3, <1>12 DEF Enqueued
  <2>6. q \in Ports /\ q.list = Append(buf[o].list, m) /\ q.count = buf[o].count + r.size /\ q.wakeup = buf[o].wakeup
    <3>1. Append(buf[o].list, m) \in Seq(Messages) /\ buf[o].count + r.size \in Nat
      BY <1>5, <1>7
    <3> QED BY <1>4, <3>1 DEF Ports
  <2> HIDE DEF q
  <2>7. buf' \in [Buffers -> Ports] /\ buf'[o] = q /\ \A c \in Buffers \ {o} : buf'[c] = buf[c]
    BY <1>2, <1>3, <2>5, <2>6
  <2>8. Common(m, es) /\ msg'[m] = p
    BY <1>8, <1>12, <2>2, <2>4, <2>7
  <2>9. Lists(m)
    <3>1. \A c \in Buffers \ {o} : Same(c)
      BY <2>7 DEF Same
    <3>2. Joined(o, m) /\ buf'[o].count <= net.size
      BY <1>12, <2>4, <2>6, <2>7, <2>8 DEF Joined, Fits
    <3> QED BY <1>2, <2>4, <2>8, <3>1, <3>2 DEF Lists
  <2>10. sent' = Append(sent, m) /\ m \in Elems(sent')
    <3>1. sent \in Seq(Messages) /\ Distinct(sent)
      BY DEF NetInv, Base, Fields
    <3>2. Elems(Append(sent, m)) = Elems(sent) \union {m}
      BY <3>1, AppendDistinct
    <3> QED BY <1>12, <3>2
  <2>11. Sends(m)
    BY <2>10 DEF Sends
  <2>12. Live(m)'
    BY <1>2, <1>3, <1>9, <2>4, <2>8 DEF Live
  <2>13. Sound(e)'
    <3>1. msg'[m].at # None /\ msg'[m].busy <= e.left /\ msg'[m].at \in Outs
      BY <1>2, <1>3, <2>3, <2>4, <2>8
    <3> QED BY <1>6, <1>9, <2>3, <3>1 DEF Sound
  <2>14. \A b \in Buffers : buf'[b].wakeup = buf[b].wakeup
    BY <2>6, <2>7
  <2>15. events' = Scheduled(es, e) /\ \A b \in Buffers : msg[m].at = b => msg'[m].at = b
    BY <1>2, <1>12, <2>1
  <2> QED BY <2>3, <2>8, <2>9, <2>10, <2>11, <2>12, <2>13, <2>14, <2>15, ScheduleStep
<1> QED BY <1>1, <1>10, <1>11, <1>12, Zenon DEF TrySend

-----------------------------------------------------------------------------
(* Who is next: the choice in turn, and the arbitration of a bus.           *)

LEMMA TurnIs ==
  ASSUME NEW S, NEW s \in Seq(S), NEW pos, NEW R
  PROVE  RoundRobin(s, pos, R) \in R \union {None}
<1> DEFINE n == Len(s)
           turn == [i \in DOMAIN s |-> s[Turn(s, pos, i)]]
           I == {i \in 1..Len(turn) : turn[i] \in R}
           k == SelectInSeq(turn, LAMBDA x : x \in R)
<1>1. n \in Nat /\ DOMAIN s = 1..n
  OBVIOUS
<1>2. turn \in Seq({s[Turn(s, pos, i)] : i \in 1..n})
  <2> HIDE DEF n
  <2> QED BY <1>1
<1>3. Len(turn) \in Nat
  BY <1>2
<1>4. RoundRobin(s, pos, R) = IF k = 0 THEN None ELSE turn[k]
  BY Zenon DEF RoundRobin
<1>5. k = IF I # {} THEN Min(I) ELSE 0
  BY DEF SelectInSeq
<1> HIDE DEF turn, k
<1>6. CASE I = {}
  BY <1>4, <1>5, <1>6
<1>7. CASE I # {}
  <2>1. I \in SUBSET (1..Len(turn))
    OBVIOUS
  <2>2. Min(I) \in I
    <3> HIDE DEF I
    <3> QED BY <1>3, <1>7, <2>1, FirstPlace
  <2>3. k \in I
    BY <1>5, <1>7, <2>2
  <2>4. turn[k] \in R
    BY <2>3
  <2> QED BY <1>4, <2>4
<1> QED BY <1>6, <1>7

LEMMA PlaceIs ==
  ASSUME NEW S, NEW s \in Seq(S), NEW b
  PROVE  Place(s, b) \in Nat
<1> DEFINE I == {i \in 1..Len(s) : s[i] = b}
           k == SelectInSeq(s, LAMBDA x : x = b)
<1>1. Place(s, b) = IF b = None THEN 1 ELSE k
  BY Zenon DEF Place
<1>2. k = IF I # {} THEN Min(I) ELSE 0
  BY DEF SelectInSeq
<1>3. Len(s) \in Nat /\ I \in SUBSET (1..Len(s))
  OBVIOUS
<1> HIDE DEF k, I
<1>4. k \in Nat
  <2>1. CASE I = {}
    BY <1>2, <2>1
  <2>2. CASE I # {}
    <3>1. Min(I) \in I
      BY <1>3, <2>2, FirstPlace
    <3>2. k \in I
      BY <1>2, <2>2, <3>1
    <3>3. k \in 1..Len(s)
      BY <1>3, <3>2
    <3> QED BY <1>3, <3>3
  <2> QED BY <2>1, <2>2
<1> QED BY <1>1, <1>4

\* The arbitration looks at the lanes in turn.
Undecided(u) == [lane |-> None, turn |-> last[u], chan |-> chan]
Decide(u, b, a, c) ==
  IF a.lane # None THEN a
  ELSE LET pick == LanePick(u, c, a.turn) IN
       [lane |-> IF pick = b THEN c ELSE None,
        turn |-> IF chan[c].decided \/ pick = None THEN a.turn ELSE Place(net.sources[u], pick),
        chan |-> [a.chan EXCEPT ![c].decided = TRUE, ![c].pick = pick]]

Decides(u, b, n, all) ==
  all = [k \in 0..n |-> IF k = 0 THEN Undecided(u) ELSE Decide(u, b, all[k - 1], net.lanes[u][k])]

LEMMA DecidesDefined ==
  ASSUME NEW u, NEW b, NEW n \in Nat
  PROVE  \E all : Decides(u, b, n, all)
<1> DEFINE S == {m \in Nat : ~\E all : Decides(u, b, m, all)}
<1>1. SUFFICES ASSUME S # {} PROVE FALSE
  OBVIOUS
<1>2. PICK m \in S : \A k \in S : <<k, m>> \notin OpToRel(<, Nat)
  <2>1. S \in SUBSET Nat
    OBVIOUS
  <2> HIDE DEF S
  <2> QED BY <1>1, <2>1, WFMin, NatLessThanWellFounded, Zenon
<1>3. m \in Nat /\ ~\E all : Decides(u, b, m, all)
  OBVIOUS
<1>4. CASE m = 0
  <2> DEFINE all == [k \in {0} |-> Undecided(u)]
             step(k) == IF k = 0 THEN Undecided(u) ELSE Decide(u, b, all[k - 1], net.lanes[u][k])
  <2>1. 0..m = {0}
    BY <1>4
  <2>2. \A k \in {0} : step(k) = Undecided(u)
    OBVIOUS
  <2>3. all = [k \in 0..m |-> step(k)]
    BY <2>1, <2>2, Zenon
  <2> QED BY <1>3, <2>3, Zenon DEF Decides
<1>5. CASE m # 0
  <2>1. m - 1 \in Nat /\ m - 1 < m
    BY <1>3, <1>5
  <2>2. m - 1 \notin S
    <3>1. <<m - 1, m>> \in Nat \X Nat
      BY <1>3, <2>1
    <3> QED BY <1>2, <2>1, <3>1 DEF OpToRel
  <2>3. PICK f : Decides(u, b, m - 1, f)
    BY <2>1, <2>2
  <2> DEFINE all == [k \in 0..m |-> IF k = 0 THEN Undecided(u) ELSE Decide(u, b, f[k - 1], net.lanes[u][k])]
  <2>4. \A k \in 0..(m - 1) : f[k] = IF k = 0 THEN Undecided(u) ELSE Decide(u, b, f[k - 1], net.lanes[u][k])
    BY <2>3, Zenon DEF Decides
  <2>5. \A k \in 0..(m - 1) : k \in 0..m
    BY <1>3
  <2>6. \A k \in 0..(m - 1) : all[k] = IF k = 0 THEN Undecided(u) ELSE Decide(u, b, f[k - 1], net.lanes[u][k])
    BY <2>5, Zenon
  <2>7. \A k \in 0..(m - 1) : all[k] = f[k]
    <3> HIDE DEF all
    <3> QED BY <2>4, <2>6, Zenon
  <2>8. \A k \in 0..m : k # 0 => k - 1 \in 0..(m - 1)
    BY <1>3
  <2>9. \A k \in 0..m : (IF k = 0 THEN Undecided(u) ELSE Decide(u, b, f[k - 1], net.lanes[u][k]))
                        = (IF k = 0 THEN Undecided(u) ELSE Decide(u, b, all[k - 1], net.lanes[u][k]))
    <3> HIDE DEF all
    <3> QED BY <2>7, <2>8, Zenon
  <2>10. all = [k \in 0..m |-> IF k = 0 THEN Undecided(u) ELSE Decide(u, b, all[k - 1], net.lanes[u][k])]
    <3>1. all = [k \in 0..m |-> IF k = 0 THEN Undecided(u) ELSE Decide(u, b, f[k - 1], net.lanes[u][k])]
      OBVIOUS
    <3> HIDE DEF all
    <3> QED BY <2>9, <3>1, Zenon
  <2> QED BY <1>3, <2>10, Zenon DEF Decides
<1> QED BY <1>4, <1>5

\* What may become of a lane: it is as it was, or decided, with the decision it had or one made
\* while it was not busy.
Decision(c, x) ==
  /\ x \in Carriers /\ x.busy = chan[c].busy
  /\ x = chan[c] \/ (x.decided /\ IF chan[c].decided THEN x.pick = chan[c].pick ELSE x.pick = None \/ chan[c].busy = 0)
Arbitrated(u, b, a) ==
  /\ a.turn \in Nat /\ DOMAIN a.chan = Chans /\ a.chan = [c \in Chans |-> a.chan[c]]
  /\ \A c \in Chans : Decision(c, a.chan[c])
  /\ a.lane # None => a.lane \in ToSet(net.lanes[u]) /\ a.chan[a.lane].decided /\ a.chan[a.lane].pick = b

LEMMA LanePickIs ==
  ASSUME NetOK, chan \in [Chans -> Carriers], NEW u \in net.buses, NEW c \in Chans, NEW turn, buf \in [Buffers -> Ports]
  PROVE  /\ LanePick(u, c, turn) \in Pick
         /\ IF chan[c].decided THEN LanePick(u, c, turn) = chan[c].pick
            ELSE LanePick(u, c, turn) = None \/ chan[c].busy = 0
<1>1. net.sources[u] \in Seq(Outs)
  BY DEF NetOK
<1>2. RoundRobin(net.sources[u], turn, HeadsReady) \in HeadsReady \union {None}
  BY <1>1, TurnIs
<1>3. HeadsReady \subseteq Buffers
  BY DEF HeadsReady
<1>4. RoundRobin(net.sources[u], turn, HeadsReady) \in Pick
  BY <1>2, <1>3 DEF Pick
<1>5. chan[c] \in Carriers
  OBVIOUS
<1>6. chan[c].busy \in Nat /\ chan[c].pick \in Pick /\ None \in Pick
  BY <1>5 DEF Carriers, Pick
<1> QED BY <1>4, <1>6 DEF LanePick

LEMMA DecideStep ==
  ASSUME NetOK, chan \in [Chans -> Carriers], buf \in [Buffers -> Ports], NEW u \in net.buses,
         NEW b, NEW c \in ToSet(net.lanes[u]), NEW a, Arbitrated(u, b, a)
  PROVE  Arbitrated(u, b, Decide(u, b, a, c))
<1> DEFINE pick == LanePick(u, c, a.turn)
           x == [a.chan[c] EXCEPT !.decided = TRUE, !.pick = pick]
           w == [a.chan EXCEPT ![c].decided = TRUE, ![c].pick = pick]
           r == Decide(u, b, a, c)
<1>1. CASE a.lane # None
  BY <1>1 DEF Decide
<1>2. CASE a.lane = None
  <2>1. c \in Chans /\ c # None
    <3>1. c \in Chans
      BY DEF Chans
    <3>2. c # None
      BY DEF NetOK
    <3> QED BY <3>1, <3>2
  <2>2. /\ pick \in Pick
        /\ IF chan[c].decided THEN pick = chan[c].pick ELSE pick = None \/ chan[c].busy = 0
    BY <2>1, LanePickIs
  <2>3. /\ r = [lane |-> IF pick = b THEN c ELSE None,
                turn |-> IF chan[c].decided \/ pick = None THEN a.turn ELSE Place(net.sources[u], pick),
                chan |-> w]
    BY <1>2, Zenon DEF Decide
  <2> HIDE DEF pick
  <2>4. /\ r.lane = (IF pick = b THEN c ELSE None) /\ r.chan = w
        /\ r.turn = IF chan[c].decided \/ pick = None THEN a.turn ELSE Place(net.sources[u], pick)
    BY <2>3
  <2> HIDE DEF r
  <2>5. Place(net.sources[u], pick) \in Nat
    <3>1. net.sources[u] \in Seq(Outs)
      BY DEF NetOK
    <3> QED BY <3>1, PlaceIs
  <2>6. r.turn \in Nat
    BY <2>4, <2>5 DEF Arbitrated
  <2>7. /\ DOMAIN a.chan = Chans /\ a.chan = [d \in Chans |-> a.chan[d]]
        /\ \A d \in Chans : Decision(d, a.chan[d])
    BY DEF Arbitrated
  <2>8. /\ DOMAIN w = Chans /\ w[c] = x /\ w = [d \in Chans |-> w[d]]
        /\ \A d \in Chans \ {c} : w[d] = a.chan[d]
    BY <2>1, <2>7
  <2>9. a.chan[c] \in Carriers /\ a.chan[c].busy = chan[c].busy
    BY <2>1, <2>7 DEF Decision
  <2>10. x \in Carriers /\ x.busy = chan[c].busy /\ x.decided = TRUE /\ x.pick = pick
    BY <2>2, <2>9 DEF Carriers
  <2> HIDE DEF x, w
  <2>11. Decision(c, x)
    BY <2>2, <2>10 DEF Decision
  <2>12. \A d \in Chans : Decision(d, w[d])
    BY <2>7, <2>8, <2>11
  <2>13. r.lane # None => r.lane = c /\ pick = b
    BY <2>4
  <2> QED BY <2>4, <2>6, <2>8, <2>10, <2>12, <2>13 DEF Arbitrated, r
<1> QED BY <1>1, <1>2

LEMMA ArbitrationIs ==
  ASSUME NetOK, chan \in [Chans -> Carriers], last \in [net.buses -> Nat], buf \in [Buffers -> Ports],
         NEW u \in net.buses, NEW b
  PROVE  Arbitrated(u, b, Arbitration(u, b))
<1> DEFINE n == Len(net.lanes[u])
           after == CHOOSE after : after = [k \in 0..n |-> IF k = 0 THEN Undecided(u) ELSE Decide(u, b, after[k - 1], net.lanes[u][k])]
<1>1. net.lanes[u] \in Seq(Chans)
  BY DEF NetOK
<1>2. n \in Nat /\ DOMAIN net.lanes[u] = 1..n
  BY <1>1
<1>3. Arbitration(u, b) = after[n]
  BY Zenon DEF Arbitration, Undecided, Decide
<1>4. after = [k \in 0..n |-> IF k = 0 THEN Undecided(u) ELSE Decide(u, b, after[k - 1], net.lanes[u][k])]
  <2>1. \E a : Decides(u, b, n, a)
    BY <1>2, DecidesDefined
  <2> QED BY <2>1, Zenon DEF Decides
<1> HIDE DEF after
<1>5. \A k \in 0..n : after[k] = IF k = 0 THEN Undecided(u) ELSE Decide(u, b, after[k - 1], net.lanes[u][k])
  BY <1>4, Zenon
<1>6. Arbitrated(u, b, Undecided(u))
  <2>1. \A c \in Chans : Decision(c, chan[c])
    BY DEF Decision
  <2> QED BY <2>1 DEF Arbitrated, Undecided
<1>7. \A k \in 1..n : net.lanes[u][k] \in ToSet(net.lanes[u])
  BY <1>2 DEF ToSet
<1> DEFINE S == {k \in 0..n : ~Arbitrated(u, b, after[k])}
<1>8. S = {}
  <2> SUFFICES ASSUME S # {} PROVE FALSE
    OBVIOUS
  <2>1. S \in SUBSET Nat
    BY <1>2
  <2>2. PICK m \in S : \A k \in S : <<k, m>> \notin OpToRel(<, Nat)
    <3> HIDE DEF S
    <3> QED BY <2>1, WFMin, NatLessThanWellFounded, Zenon
  <2>3. m \in 0..n /\ ~Arbitrated(u, b, after[m])
    OBVIOUS
  <2>4. m # 0
    BY <1>5, <1>6, <2>3
  <2>5. m - 1 \in 0..n /\ m - 1 < m /\ m \in 1..n
    BY <1>2, <2>3, <2>4
  <2>6. m - 1 \notin S
    <3>1. <<m - 1, m>> \in Nat \X Nat
      BY <1>2, <2>3, <2>5
    <3> HIDE DEF S
    <3> QED BY <2>2, <2>5, <3>1 DEF OpToRel
  <2>7. Arbitrated(u, b, after[m - 1])
    BY <2>5, <2>6
  <2>8. after[m] = Decide(u, b, after[m - 1], net.lanes[u][m])
    BY <1>5, <2>3, <2>4
  <2> QED BY <1>7, <2>3, <2>5, <2>7, <2>8, DecideStep
<1>9. n \in 0..n
  BY <1>2
<1> QED BY <1>3, <1>8, <1>9

-----------------------------------------------------------------------------
(* What is transferred at a time.                                           *)

\* The links or lanes that lead to the input buffer c.
Over(c) == LET w == From(T, c) IN IF w[1] = "bus" THEN ToSet(net.lanes[w[2]]) ELSE {w}

\* A lane that is busy in the cycle of a decision transfers for the buffer it was given to.
Taking ==
  \A u \in net.buses : \A c \in ToSet(net.lanes[u]) :
    chan[c].decided /\ chan[c].pick # None /\ chan[c].busy > 0 => buf[chan[c].pick].read > 0

MovingAt(m, S) == msg[m].at \in S /\ msg[m].busy > 0

\* A buffer is written while a message moves to it, and one message moves there.
Written ==
  /\ \A m \in Messages : msg[m].at \in Buffers => msg[m].busy <= buf[msg[m].at].write
  /\ \A m, k \in Messages : MovingAt(m, Buffers) /\ MovingAt(k, Buffers) /\ msg[m].at = msg[k].at => m = k

\* f is the link or lane over which each message moves, no two over the same.
Carries(f) ==
  /\ f \in [Messages -> Chans \union {None}]
  /\ \A m \in Messages : MovingAt(m, Buffers \ Outs) =>
       f[m] \in Chans /\ f[m] \in Over(msg[m].at) /\ msg[m].busy <= chan[f[m]].busy
  /\ \A m, k \in Messages : MovingAt(m, Buffers \ Outs) /\ MovingAt(k, Buffers \ Outs) /\ f[m] = f[k] => m = k

TransferInv == Carrying /\ Taking /\ Written /\ \E f : Carries(f)

\* What all steps leave as it is: the network and the time, while the lanes are decided at most.
Untimed ==
  /\ UNCHANGED <<topology, net>> /\ chan' \in [Chans -> Carriers] /\ last' \in [net.buses -> Nat]
  /\ buf \in [Buffers -> Ports] /\ buf' \in [Buffers -> Ports]
  /\ msg \in [Messages -> Moving] /\ msg' \in [Messages -> Moving]
  /\ NetOK

LEMMA UntimedFacts ==
  ASSUME Untimed
  PROVE  /\ Buffers' = Buffers /\ Outs' = Outs /\ Chans' = Chans /\ Links' = Links /\ T' = T /\ net' = net
         /\ Outs \subseteq Buffers /\ None \notin Buffers
         /\ \A c : Over(c)' = Over(c)
         /\ \A b \in Buffers : buf[b].read \in Nat /\ buf'[b].read \in Nat /\ buf[b].write \in Nat /\ buf'[b].write \in Nat
         /\ \A m \in Messages : msg[m].busy \in Nat /\ msg'[m].busy \in Nat /\ msg[m].at \in Pick /\ msg'[m].at \in Pick
         /\ \A c \in Chans : chan'[c].busy \in Nat /\ chan'[c].pick \in Pick
         /\ \A u \in net.buses : ToSet(net.lanes[u]) \subseteq Chans
<1>1. Buffers' = Buffers /\ Outs' = Outs /\ Chans' = Chans /\ Links' = Links /\ T' = T /\ net' = net
  BY DEF Untimed, Buffers, Outs, Chans, Links, T
<1>2. \A c : Over(c)' = Over(c)
  BY <1>1 DEF Over
<1>3. ASSUME NEW b \in Buffers
      PROVE  buf[b].read \in Nat /\ buf'[b].read \in Nat /\ buf[b].write \in Nat /\ buf'[b].write \in Nat
  <2>1. buf[b] \in Ports /\ buf'[b] \in Ports
    BY DEF Untimed
  <2> QED BY <2>1, PortIs
<1>4. ASSUME NEW m \in Messages
      PROVE  msg[m].busy \in Nat /\ msg'[m].busy \in Nat /\ msg[m].at \in Pick /\ msg'[m].at \in Pick
  <2>1. msg[m] \in Moving /\ msg'[m] \in Moving
    BY DEF Untimed
  <2> QED BY <2>1, MovingIs
<1>5. ASSUME NEW c \in Chans PROVE chan'[c].busy \in Nat /\ chan'[c].pick \in Pick
  <2>1. chan'[c] \in Carriers
    BY DEF Untimed
  <2> QED BY <2>1 DEF Carriers
<1>6. \A u \in net.buses : ToSet(net.lanes[u]) \subseteq Chans
  BY DEF Chans
<1>7. Outs \subseteq Buffers /\ None \notin Buffers
  BY DEF Untimed, NetOK
<1> QED BY <1>1, <1>2, <1>3, <1>4, <1>5, <1>6, <1>7

LEMMA UntimedCarrying ==
  ASSUME Untimed
  PROVE  Carrying'
<1>1. Buffers' = Buffers /\ Chans' = Chans /\ net' = net
  BY UntimedFacts
<1>2. Pick' = Pick
  BY <1>1 DEF Pick
<1>3. Carriers' = Carriers
  BY <1>2 DEF Carriers
<1>4. chan' \in [Chans -> Carriers] /\ last' \in [net.buses -> Nat]
  BY DEF Untimed
<1> QED BY <1>1, <1>3, <1>4 DEF Carrying

\* Nothing moves that did not: no buffer or message gets busy, and channels are decided at most.
LEMMA CalmStep ==
  ASSUME TransferInv, Untimed,
         \A m \in Messages : msg'[m].at \in Buffers => msg'[m].at = msg[m].at /\ msg'[m].busy = msg[m].busy,
         \A b \in Buffers : buf'[b].read = buf[b].read /\ buf'[b].write = buf[b].write,
         \A c \in Chans : Decision(c, chan'[c])
  PROVE  TransferInv'
<1>1. /\ Buffers' = Buffers /\ Outs' = Outs /\ Chans' = Chans /\ Links' = Links /\ T' = T /\ net' = net
      /\ Outs \subseteq Buffers /\ None \notin Buffers /\ \A c : Over(c)' = Over(c)
      /\ \A u \in net.buses : ToSet(net.lanes[u]) \subseteq Chans
      /\ \A m \in Messages : msg[m].at \in Pick
      /\ \A c \in Chans : chan'[c].pick \in Pick
  BY UntimedFacts
<1>2. \A c \in Chans : chan'[c].busy = chan[c].busy
  BY DEF Decision
<1>3. Carrying'
  BY UntimedCarrying
<1>4. Taking'
  <2> SUFFICES ASSUME NEW u \in net.buses, NEW c \in ToSet(net.lanes[u]),
                      chan'[c].decided, chan'[c].pick # None, chan'[c].busy > 0
               PROVE  buf'[chan'[c].pick].read > 0
    BY <1>1 DEF Taking
  <2>1. c \in Chans /\ chan'[c].pick \in Buffers
    BY <1>1 DEF Pick
  <2>2. chan[c].decided /\ chan[c].pick = chan'[c].pick /\ chan[c].busy > 0
    <3>1. Decision(c, chan'[c])
      BY <2>1
    <3> QED BY <1>2, <2>1, <3>1 DEF Decision, Carrying, TransferInv, Carriers
  <2>3. buf[chan[c].pick].read > 0
    BY <2>2 DEF TransferInv, Taking
  <2> QED BY <2>1, <2>2, <2>3
<1>5. \A m \in Messages : \A S \in SUBSET Buffers : MovingAt(m, S)' => MovingAt(m, S) /\ msg'[m].at = msg[m].at /\ msg'[m].busy = msg[m].busy
  BY DEF MovingAt
<1>6. Written'
  BY <1>1, <1>5 DEF Written, MovingAt, TransferInv
<1>7. \E f : Carries(f)'
  <2>1. PICK f : Carries(f)
    BY DEF TransferInv
  <2>2. \A m \in Messages : MovingAt(m, Buffers \ Outs)' => MovingAt(m, Buffers \ Outs) /\ msg'[m].at = msg[m].at /\ msg'[m].busy = msg[m].busy
    BY <1>1, <1>5 DEF MovingAt
  <2>3. f \in [Messages -> Chans \union {None}]
    BY <2>1 DEF Carries
  <2>4. ASSUME NEW m \in Messages, MovingAt(m, Buffers \ Outs)'
        PROVE  f[m] \in Chans /\ f[m] \in Over(msg[m].at)' /\ msg'[m].busy <= chan'[f[m]].busy
    <3>1. f[m] \in Chans /\ f[m] \in Over(msg[m].at) /\ msg[m].busy <= chan[f[m]].busy
      BY <2>1, <2>2, <2>4 DEF Carries
    <3> QED BY <1>1, <1>2, <2>2, <2>4, <3>1
  <2>5. \A m, k \in Messages : MovingAt(m, Buffers \ Outs)' /\ MovingAt(k, Buffers \ Outs)' /\ f[m] = f[k] => m = k
    BY <2>1, <2>2 DEF Carries
  <2>6. Carries(f)'
    BY <1>1, <2>3, <2>4, <2>5 DEF Carries
  <2> QED BY <2>6
<1> QED BY <1>3, <1>4, <1>6, <1>7 DEF TransferInv

\* The message m moves to c for lat cycles.
Puts(m, c, lat) ==
  /\ Untimed /\ m \in Messages /\ c \in Buffers /\ lat \in Nat
  /\ msg'[m].at = c /\ msg'[m].busy = lat /\ \A k \in Messages \ {m} : msg'[k] = msg[k]
  /\ buf[c].write = 0 /\ buf'[c].write = lat /\ \A b \in Buffers \ {c} : buf'[b].write = buf[b].write
  /\ \A b \in Buffers : buf[b].read > 0 => buf'[b].read > 0

LEMMA PutWritten ==
  ASSUME Written, NEW m, NEW c, NEW lat, Puts(m, c, lat)
  PROVE  Written'
<1>1. /\ Buffers' = Buffers /\ m \in Messages /\ c \in Buffers /\ lat \in Nat /\ buf'[c].write = lat
      /\ msg'[m].at = c /\ msg'[m].busy = lat /\ \A k \in Messages \ {m} : msg'[k] = msg[k]
      /\ buf[c].write = 0 /\ \A b \in Buffers \ {c} : buf'[b].write = buf[b].write
      /\ \A k \in Messages : msg[k].busy \in Nat
  BY UntimedFacts DEF Puts
<1>2. ASSUME NEW k \in Messages \ {m}, MovingAt(k, Buffers)' PROVE MovingAt(k, Buffers) /\ msg[k].at # c /\ msg'[k].at = msg[k].at
  <2>1. MovingAt(k, Buffers) /\ msg'[k].at = msg[k].at
    BY <1>1, <1>2 DEF MovingAt
  <2>2. msg[k].busy <= buf[msg[k].at].write /\ msg[k].busy > 0
    BY <2>1 DEF Written, MovingAt
  <2> QED BY <1>1, <2>1, <2>2
<1>3. ASSUME NEW k \in Messages, msg'[k].at \in Buffers PROVE msg'[k].busy <= buf'[msg'[k].at].write
  <2>1. CASE k = m
    BY <1>1, <2>1
  <2>2. CASE k # m
    <3>1. msg'[k] = msg[k] /\ msg[k].busy \in Nat
      BY <1>1, <2>2
    <3>2. msg[k].busy <= buf[msg[k].at].write
      BY <1>3, <3>1 DEF Written
    <3>3. CASE msg[k].at = c
      BY <1>1, <3>1, <3>2, <3>3
    <3>4. CASE msg[k].at # c
      BY <1>1, <1>3, <3>1, <3>2, <3>4
    <3> QED BY <3>3, <3>4
  <2> QED BY <2>1, <2>2
<1>4. ASSUME NEW j \in Messages, NEW k \in Messages, MovingAt(j, Buffers)', MovingAt(k, Buffers)', msg'[j].at = msg'[k].at
      PROVE  j = k
  <2>1. CASE j # m /\ k # m
    <3>1. MovingAt(j, Buffers) /\ MovingAt(k, Buffers) /\ msg[j].at = msg[k].at
      BY <1>2, <1>4, <2>1
    <3> QED BY <3>1 DEF Written
  <2>2. CASE j = m /\ k # m
    BY <1>1, <1>2, <1>4, <2>2
  <2>3. CASE j # m /\ k = m
    BY <1>1, <1>2, <1>4, <2>3
  <2> QED BY <2>1, <2>2, <2>3
<1> QED BY <1>1, <1>3, <1>4 DEF Written

LEMMA PutOut ==
  ASSUME TransferInv, NEW m, NEW c, NEW lat, Puts(m, c, lat), c \in Outs, chan' = chan
  PROVE  TransferInv'
<1>1. /\ Buffers' = Buffers /\ Outs' = Outs /\ Chans' = Chans /\ net' = net /\ \A d : Over(d)' = Over(d)
      /\ Untimed /\ Outs \subseteq Buffers /\ \A b \in Buffers : buf[b].read > 0 => buf'[b].read > 0
      /\ m \in Messages /\ msg'[m].at = c /\ \A k \in Messages \ {m} : msg'[k] = msg[k]
      /\ \A u \in net.buses : ToSet(net.lanes[u]) \subseteq Chans /\ None \notin Buffers
      /\ \A d \in Chans : chan'[d].pick \in Pick
  BY UntimedFacts DEF Puts
<1>2. Carrying' /\ Written'
  BY <1>1, UntimedCarrying, PutWritten DEF TransferInv
<1>3. Taking'
  <2> SUFFICES ASSUME NEW u \in net.buses, NEW d \in ToSet(net.lanes[u]),
                      chan'[d].decided, chan'[d].pick # None, chan'[d].busy > 0
               PROVE  buf'[chan'[d].pick].read > 0
    BY <1>1 DEF Taking
  <2>1. buf[chan[d].pick].read > 0
    BY DEF TransferInv, Taking
  <2>2. chan[d].pick \in Buffers
    BY <1>1 DEF Pick
  <2> QED BY <1>1, <2>1, <2>2
<1>4. \E f : Carries(f)'
  <2>1. PICK f : Carries(f)
    BY DEF TransferInv
  <2>2. \A k \in Messages : MovingAt(k, Buffers \ Outs)' => k # m /\ MovingAt(k, Buffers \ Outs) /\ msg'[k] = msg[k]
    BY <1>1 DEF MovingAt
  <2>3. f \in [Messages -> Chans \union {None}]
    BY <2>1 DEF Carries
  <2>4. ASSUME NEW k \in Messages, MovingAt(k, Buffers \ Outs)'
        PROVE  f[k] \in Chans /\ f[k] \in Over(msg[k].at)' /\ msg'[k].busy <= chan'[f[k]].busy
    <3>1. f[k] \in Chans /\ f[k] \in Over(msg[k].at) /\ msg[k].busy <= chan[f[k]].busy
      BY <2>1, <2>2, <2>4 DEF Carries
    <3> QED BY <1>1, <2>2, <2>4, <3>1
  <2>5. \A j, k \in Messages : MovingAt(j, Buffers \ Outs)' /\ MovingAt(k, Buffers \ Outs)' /\ f[j] = f[k] => j = k
    BY <2>1, <2>2 DEF Carries
  <2>6. Carries(f)'
    BY <1>1, <2>3, <2>4, <2>5 DEF Carries
  <2> QED BY <2>6
<1> QED BY <1>2, <1>3, <1>4 DEF TransferInv

LEMMA PutIn ==
  ASSUME TransferInv, NEW m, NEW c, NEW lat, Puts(m, c, lat), c \notin Outs, NEW b,
         NEW x \in Chans, x \in Over(c), chan[x].busy = 0, chan'[x].busy = lat,
         \A u \in net.buses : x \in ToSet(net.lanes[u]) => chan'[x].pick = b /\ buf'[b].read > 0,
         \A d \in Chans \ {x} : Decision(d, chan'[d])
  PROVE  TransferInv'
<1>1. /\ Buffers' = Buffers /\ Outs' = Outs /\ Chans' = Chans /\ net' = net /\ \A d : Over(d)' = Over(d)
      /\ Untimed /\ Outs \subseteq Buffers /\ \A a \in Buffers : buf[a].read > 0 => buf'[a].read > 0
      /\ m \in Messages /\ msg'[m].at = c /\ msg'[m].busy = lat /\ \A k \in Messages \ {m} : msg'[k] = msg[k]
      /\ \A u \in net.buses : ToSet(net.lanes[u]) \subseteq Chans
      /\ \A d \in Chans : chan'[d].pick \in Pick
      /\ lat \in Nat /\ \A k \in Messages : msg[k].busy \in Nat
  BY UntimedFacts DEF Puts
<1>2. Carrying' /\ Written'
  BY <1>1, UntimedCarrying, PutWritten DEF TransferInv
<1>3. \A d \in Chans \ {x} : chan'[d].busy = chan[d].busy
  BY DEF Decision
<1>4. Taking'
  <2> SUFFICES ASSUME NEW u \in net.buses, NEW d \in ToSet(net.lanes[u]),
                      chan'[d].decided, chan'[d].pick # None, chan'[d].busy > 0
               PROVE  buf'[chan'[d].pick].read > 0
    BY <1>1 DEF Taking
  <2>1. CASE d = x
    BY <2>1
  <2>2. CASE d # x
    <3>1. d \in Chans /\ chan'[d].pick \in Buffers
      BY <1>1 DEF Pick
    <3>2. Decision(d, chan'[d]) /\ chan'[d].busy = chan[d].busy
      BY <1>3, <2>2, <3>1
    <3>3. chan[d] \in Carriers
      BY <3>1 DEF TransferInv, Carrying
    <3>4. chan[d].decided /\ chan[d].pick = chan'[d].pick /\ chan[d].busy > 0
      BY <3>2, <3>3 DEF Decision, Carriers
    <3>5. buf[chan[d].pick].read > 0
      BY <3>4 DEF TransferInv, Taking
    <3> QED BY <1>1, <3>1, <3>4, <3>5
  <2> QED BY <2>1, <2>2
<1>5. \E f : Carries(f)'
  <2>1. PICK f : Carries(f)
    BY DEF TransferInv
  <2> DEFINE g == [f EXCEPT ![m] = x]
  <2>2. f \in [Messages -> Chans \union {None}]
    BY <2>1 DEF Carries
  <2>3. g \in [Messages -> Chans \union {None}] /\ g[m] = x /\ \A k \in Messages \ {m} : g[k] = f[k]
    BY <1>1, <2>2
  <2> HIDE DEF g
  <2>4. ASSUME NEW k \in Messages \ {m}, MovingAt(k, Buffers \ Outs)'
        PROVE  /\ MovingAt(k, Buffers \ Outs) /\ msg'[k] = msg[k] /\ g[k] = f[k] /\ g[k] # x
               /\ g[k] \in Chans /\ g[k] \in Over(msg[k].at)' /\ msg'[k].busy <= chan'[g[k]].busy
    <3>1. MovingAt(k, Buffers \ Outs) /\ msg'[k] = msg[k] /\ g[k] = f[k]
      BY <1>1, <2>3, <2>4 DEF MovingAt
    <3>2. f[k] \in Chans /\ f[k] \in Over(msg[k].at) /\ msg[k].busy <= chan[f[k]].busy
      BY <2>1, <3>1 DEF Carries
    <3>3. f[k] # x
      <4>1. msg[k].busy > 0 /\ msg[k].busy \in Nat
        BY <1>1, <3>1 DEF MovingAt
      <4> QED BY <3>2, <4>1
    <3> QED BY <1>1, <1>3, <3>1, <3>2, <3>3
  <2>5. g[m] \in Chans /\ g[m] \in Over(msg[m].at)' /\ msg'[m].busy <= chan'[g[m]].busy
    BY <1>1, <2>3
  <2>6. ASSUME NEW k \in Messages, MovingAt(k, Buffers \ Outs)'
        PROVE  g[k] \in Chans /\ g[k] \in Over(msg[k].at)' /\ msg'[k].busy <= chan'[g[k]].busy
    <3>1. CASE k = m
      BY <2>5, <3>1
    <3>2. CASE k # m
      BY <2>4, <2>6, <3>2
    <3> QED BY <3>1, <3>2
  <2>7. ASSUME NEW j \in Messages, NEW k \in Messages,
               MovingAt(j, Buffers \ Outs)', MovingAt(k, Buffers \ Outs)', g[j] = g[k]
        PROVE  j = k
    <3>1. CASE j # m /\ k # m
      <4>1. MovingAt(j, Buffers \ Outs) /\ MovingAt(k, Buffers \ Outs) /\ f[j] = f[k]
        BY <2>4, <2>7, <3>1
      <4> QED BY <2>1, <4>1 DEF Carries
    <3>2. CASE j = m /\ k # m
      BY <2>3, <2>4, <2>7, <3>2
    <3>3. CASE j # m /\ k = m
      BY <2>3, <2>4, <2>7, <3>3
    <3> QED BY <3>1, <3>2, <3>3
  <2>8. Carries(g)'
    BY <1>1, <2>3, <2>6, <2>7 DEF Carries
  <2> QED BY <2>8
<1> QED BY <1>2, <1>4, <1>5 DEF TransferInv

-----------------------------------------------------------------------------
(* Each action keeps both invariants.                                       *)

LEMMA IsUntimed ==
  ASSUME NetInv, NetInv', UNCHANGED <<routing, net>>, chan' \in [Chans -> Carriers], last' \in [net.buses -> Nat]
  PROVE  Untimed
<1>1. UNCHANGED <<topology, net>> /\ Buffers' = Buffers /\ T' = T
  BY DEF routing, Buffers, T
<1>2. Pick' = Pick
  BY <1>1 DEF Pick
<1>3. Ports' = Ports /\ Moving' = Moving
  BY <1>1, <1>2 DEF Ports, Moving
<1>4. buf \in [Buffers -> Ports] /\ msg \in [Messages -> Moving] /\ NetOK
  BY NetIsOK DEF NetInv, Base, RoutingInv
<1>5. buf' \in [Buffers -> Ports]
  BY <1>1, <1>3 DEF NetInv, Base
<1>6. msg' \in [Messages -> Moving]
  BY <1>3 DEF NetInv, Base
<1> QED BY <1>1, <1>4, <1>5, <1>6 DEF Untimed

\* The channels stay as they are.
LEMMA ChannelsSame ==
  ASSUME TransferInv, UNCHANGED <<chan, last>>
  PROVE  /\ chan' \in [Chans -> Carriers] /\ last' \in [net.buses -> Nat]
         /\ \A c \in Chans : Decision(c, chan'[c])
<1>1. chan \in [Chans -> Carriers] /\ last \in [net.buses -> Nat]
  BY DEF TransferInv, Carrying
<1>2. \A c \in Chans : Decision(c, chan[c])
  BY <1>1 DEF Decision
<1> QED BY <1>1, <1>2

\* A handler that neither moves a message nor decides about a channel.
LEMMA StillStep ==
  ASSUME NetInv, NetInv', TransferInv, UNCHANGED <<routing, net, msg, chan, last>>,
         \A b \in Buffers : buf'[b].read = buf[b].read /\ buf'[b].write = buf[b].write
  PROVE  TransferInv'
<1>1. /\ chan' \in [Chans -> Carriers] /\ last' \in [net.buses -> Nat]
      /\ \A c \in Chans : Decision(c, chan'[c])
  BY ChannelsSame
<1>2. Untimed
  BY <1>1, IsUntimed
<1>3. \A m \in Messages : msg'[m].at \in Buffers => msg'[m].at = msg[m].at /\ msg'[m].busy = msg[m].busy
  OBVIOUS
<1> QED BY <1>1, <1>2, <1>3, CalmStep

LEMMA SendTransfer ==
  ASSUME NetInv, NetInv', TransferInv, UNCHANGED <<routing, net, chan, last>>, NEW m \in Messages, NEW es,
         NEW r \in Moving, r.at = None, NEW o \in Outs, o = table[r.src][r.dst].out, TrySend(m, r, es)
  PROVE  TransferInv'
<1>1. /\ chan' \in [Chans -> Carriers] /\ last' \in [net.buses -> Nat]
      /\ \A c \in Chans : Decision(c, chan'[c])
  BY ChannelsSame
<1>2. Untimed
  BY <1>1, IsUntimed
<1>3. buf \in [Buffers -> Ports] /\ msg \in [Messages -> Moving] /\ o \in Buffers /\ None \notin Buffers
  BY <1>2 DEF Untimed, NetOK
<1>4. buf[o] \in Ports
  BY <1>3
<1>5. /\ \/ buf' = buf
         \/ buf' = [buf EXCEPT ![o].wakeup = Append(@, Event("try", m, 0))]
      /\ msg' = [msg EXCEPT ![m] = r]
      \/ /\ buf[o].write = 0
         /\ buf' = [buf EXCEPT ![o].list = Enqueued(o, m), ![o].count = @ + r.size, ![o].write = 1]
         /\ msg' = [msg EXCEPT ![m] = [r EXCEPT !.at = o, !.busy = 1]]
  BY Zenon DEF TrySend
<1>6. CASE /\ buf' = buf \/ buf' = [buf EXCEPT ![o].wakeup = Append(@, Event("try", m, 0))]
           /\ msg' = [msg EXCEPT ![m] = r]
  <2>1. ASSUME NEW b \in Buffers PROVE buf'[b].read = buf[b].read /\ buf'[b].write = buf[b].write
    <3>1. CASE buf' = buf
      BY <3>1
    <3>2. CASE buf' = [buf EXCEPT ![o].wakeup = Append(@, Event("try", m, 0))]
      <4>1. CASE b = o
        <5>1. buf'[b] = [buf[b] EXCEPT !.wakeup = Append(buf[b].wakeup, Event("try", m, 0))]
          BY <1>3, <3>2, <4>1, Zenon
        <5> QED BY <1>4, <4>1, <5>1, Zenon DEF Ports
      <4>2. CASE b # o
        BY <1>3, <3>2, <4>2, Zenon
      <4> QED BY <4>1, <4>2
    <3> QED BY <1>6, <3>1, <3>2, Zenon
  <2>2. ASSUME NEW k \in Messages, msg'[k].at \in Buffers PROVE msg'[k].at = msg[k].at /\ msg'[k].busy = msg[k].busy
    <3>1. k # m
      BY <1>3, <1>6, <2>2, Zenon
    <3> QED BY <1>3, <1>6, <3>1, Zenon
  <2> QED BY <1>1, <1>2, <2>1, <2>2, CalmStep
<1>7. CASE /\ buf[o].write = 0
           /\ buf' = [buf EXCEPT ![o].list = Enqueued(o, m), ![o].count = @ + r.size, ![o].write = 1]
           /\ msg' = [msg EXCEPT ![m] = [r EXCEPT !.at = o, !.busy = 1]]
  <2>1. /\ buf'[o] = [buf[o] EXCEPT !.list = Enqueued(o, m), !.count = buf[o].count + r.size, !.write = 1]
        /\ \A b \in Buffers \ {o} : buf'[b] = buf[b]
    BY <1>3, <1>7, Zenon
  <2>2. buf'[o].write = 1 /\ buf'[o].read = buf[o].read
    BY <1>4, <2>1 DEF Ports
  <2>3. /\ msg'[m] = [r EXCEPT !.at = o, !.busy = 1] /\ \A k \in Messages \ {m} : msg'[k] = msg[k]
    BY <1>3, <1>7, Zenon
  <2>4. msg'[m].at = o /\ msg'[m].busy = 1
    BY <2>3 DEF Moving
  <2>5. \A b \in Buffers \ {o} : buf'[b].write = buf[b].write
    BY <2>1
  <2>6. \A b \in Buffers : buf[b].read > 0 => buf'[b].read > 0
    BY <2>1, <2>2, Zenon
  <2>7. Puts(m, o, 1)
    BY <1>2, <1>3, <1>7, <2>2, <2>3, <2>4, <2>5, <2>6, Zenon DEF Puts
  <2> QED BY <2>7, PutOut
<1> QED BY <1>5, <1>6, <1>7, Zenon

LEMMA RequestKeeps ==
  ASSUME NetInv, TransferInv, NEW p \in net.traffic, NEW z \in Sizes, Request(p[1], p[2], z)
  PROVE  NetInv' /\ TransferInv'
<1>1. PICK m : m = requested + 1
  OBVIOUS
<1>2. PICK r : r = [src |-> p[1], dst |-> p[2], size |-> z, at |-> None, busy |-> 0]
  OBVIOUS
<1>3. /\ ready /\ m \in Messages /\ table[p[1]][p[2]].out # None /\ requested' = m
      /\ TrySend(m, r, events) /\ UNCHANGED <<routing, net, chan, last>>
  BY <1>1, <1>2 DEF Request
<1>4. Base /\ Fields /\ Once /\ NetOK /\ OwnOuts(T, table) /\ requested \in Nat
  BY NetIsOK, NetworkAssumption DEF NetInv, Base, RoutingInv
<1>5. p[1] \in Nodes(T) /\ p[2] \in Nodes(T) /\ Outs = Outputs(T)
  BY <1>4 DEF NetOK
<1>6. r \in Moving /\ r.src = p[1] /\ r.dst = p[2] /\ r.size = z /\ r.at = None
  BY <1>2, <1>5 DEF Moving, Pick
<1>7. PICK o : o = table[p[1]][p[2]].out
  OBVIOUS
<1>8. o \in OutOf(T, p[1]) /\ o \in Outs
  BY <1>3, <1>4, <1>5, <1>7 DEF OwnOuts, OutOf
<1>9. Taken(m, events)
  BY <1>1, <1>3, <1>4, NewTaken
<1>10. m \notin Elems(sent) /\ msg[m].at = None
  <2>1. m > requested
    BY <1>1, <1>4
  <2> QED BY <1>3, <1>4, <2>1 DEF Fields
<1>11. NetInv'
  <2>1. table[r.src][r.dst].out \in OutOf(T, r.src)
    BY <1>6, <1>7, <1>8
  <2>2. requested' = requested + 1 /\ m = requested + 1
    BY <1>1, <1>3
  <2> QED BY <1>3, <1>5, <1>6, <1>9, <1>10, <2>1, <2>2, SendStep
<1>12. TransferInv'
  <2>1. o = table[r.src][r.dst].out
    BY <1>6, <1>7
  <2> QED BY <1>3, <1>6, <1>8, <1>11, <2>1, SendTransfer
<1> QED BY <1>11, <1>12

LEMMA RetryKeeps ==
  ASSUME NetInv, TransferInv, Retry
  PROVE  NetInv' /\ TransferInv'
<1>1. PICK m : m = Current
  OBVIOUS
<1>2. PICK r : r = msg[m]
  OBVIOUS
<1>3. PICK es : es = Tail(events)
  OBVIOUS
<1>4. /\ IsDue(events) /\ Head(events).ev = "try" /\ TrySend(m, r, es)
      /\ UNCHANGED <<routing, net, requested, chan, last>>
  BY <1>1, <1>2, <1>3 DEF Retry, Handles
<1>5. /\ m \in Messages /\ r \in Moving /\ m <= requested /\ Routed(m) /\ Taken(m, es) /\ ready
      /\ Sound(Head(events)) /\ Head(events).msg = m
  BY <1>1, <1>2, <1>3, <1>4, HeadFacts
<1>6. m \notin Elems(sent)
  BY <1>4, <1>5 DEF Sound
<1>7. msg[m].at = None /\ r.at = None
  BY <1>2, <1>5, <1>6 DEF NetInv, Fields
<1>8. /\ r.src \in Nodes(T) /\ r.dst \in Nodes(T) /\ r.size \in Sizes
      /\ table[r.src][r.dst].out \in OutOf(T, r.src)
  BY <1>2, <1>5 DEF Routed
<1>9. NetInv'
  <2>1. requested' = requested /\ m <= requested /\ r = msg[m]
    BY <1>2, <1>4, <1>5
  <2> QED BY <1>4, <1>5, <1>6, <1>7, <1>8, <2>1, SendStep
<1>10. TransferInv'
  <2>1. PICK o : o = table[r.src][r.dst].out
    OBVIOUS
  <2>2. o \in Outs
    BY <1>8, <2>1, NetIsOK DEF OutOf, NetInv, Base, RoutingInv, NetOK
  <2> QED BY <1>4, <1>5, <1>7, <1>9, <2>1, <2>2, SendTransfer
<1> QED BY <1>9, <1>10

LEMMA NotHeadKeeps ==
  ASSUME NetInv, TransferInv, NEW ev \in {"output", "input"}, NotHead(ev)
  PROVE  NetInv' /\ TransferInv'
<1>1. /\ IsDue(events) /\ Head(events).ev = ev /\ ~IsHead(Current) /\ WaitOn(msg[Current].at)
      /\ UNCHANGED <<routing, net, requested, msg, sent, chan, last>>
  BY DEF NotHead, Handles
<1>2. PICK b : b = msg[Current].at
  OBVIOUS
<1>3. b \in Buffers /\ buf \in [Buffers -> Ports]
  BY <1>1, <1>2, HeadFacts DEF NetInv, Base
<1>4. Stuck(Current, b)
  BY <1>1, <1>2 DEF Stuck
<1>5. NetInv'
  BY <1>1, <1>2, <1>3, <1>4, WaitStep
<1>6. ASSUME NEW c \in Buffers PROVE buf'[c].read = buf[c].read /\ buf'[c].write = buf[c].write
  BY <1>1, <1>2, <1>3 DEF WaitOn, Ports
<1> QED BY <1>1, <1>5, <1>6, StillStep

LEMMA ArriveKeeps ==
  ASSUME NetInv, TransferInv, Arrive
  PROVE  NetInv' /\ TransferInv'
<1>1. /\ IsDue(events) /\ Head(events).ev = "input" /\ IsHead(Current) /\ AtDestination(Current)
      /\ events' = Scheduled(Tail(events), Event("receive", Current, 0))
      /\ UNCHANGED <<routing, net, requested, msg, sent, buf, chan, last>>
  BY DEF Arrive, Handles
<1>2. NetInv'
  BY <1>1, NextStep
<1> QED BY <1>1, <1>2, StillStep

LEMMA AbsorbKeeps ==
  ASSUME NetInv, TransferInv, IsDue(events), Head(events).ev \in {"receive", "return"}, Absorbed(Current, Tail(events))
  PROVE  NetInv' /\ TransferInv'
<1>1. NetInv'
  BY AbsorbStep
<1>2. PICK m : m = Current
  OBVIOUS
<1>3. PICK b : b = msg[m].at
  OBVIOUS
<1>4. /\ buf' = [buf EXCEPT ![b].list = Tail(@), ![b].count = @ - msg[m].size, ![b].wakeup = Kept(b)]
      /\ msg' = [msg EXCEPT ![m].at = None]
      /\ UNCHANGED <<routing, net, chan, last>>
  BY <1>2, <1>3, Zenon DEF Absorbed
<1>5. m \in Messages /\ b \in Buffers /\ buf[b] \in Ports /\ msg[m] \in Moving
  BY <1>2, <1>3, HeadFacts
<1>6. /\ chan' \in [Chans -> Carriers] /\ last' \in [net.buses -> Nat]
      /\ \A c \in Chans : Decision(c, chan'[c])
  BY <1>4, ChannelsSame
<1>7. Untimed
  BY <1>1, <1>4, <1>6, IsUntimed
<1>8. buf \in [Buffers -> Ports] /\ msg \in [Messages -> Moving] /\ None \notin Buffers
  BY <1>7 DEF Untimed, NetOK
<1>9. /\ buf'[b] = [buf[b] EXCEPT !.list = Tail(@), !.count = @ - msg[m].size, !.wakeup = Kept(b)]
      /\ \A c \in Buffers \ {b} : buf'[c] = buf[c]
      /\ msg'[m] = [msg[m] EXCEPT !.at = None] /\ \A k \in Messages \ {m} : msg'[k] = msg[k]
  BY <1>4, <1>5, <1>8
<1>10. buf'[b].read = buf[b].read /\ buf'[b].write = buf[b].write
  BY <1>5, <1>9 DEF Ports
<1>11. msg'[m].at = None
  BY <1>5, <1>9 DEF Moving
<1>12. \A c \in Buffers : buf'[c].read = buf[c].read /\ buf'[c].write = buf[c].write
  BY <1>9, <1>10
<1>13. \A k \in Messages : msg'[k].at \in Buffers => msg'[k].at = msg[k].at /\ msg'[k].busy = msg[k].busy
  BY <1>8, <1>9, <1>11
<1> QED BY <1>1, <1>6, <1>7, <1>12, <1>13, CalmStep

LEMMA ReceiveKeeps ==
  ASSUME NetInv, TransferInv, Receive \/ Return
  PROVE  NetInv' /\ TransferInv'
<1>1. IsDue(events) /\ Head(events).ev \in {"receive", "return"}
  BY DEF Receive, Return, Handles
<1>2. CASE Absorbed(Current, Tail(events))
  BY <1>1, <1>2, AbsorbKeeps
<1>3. CASE ~Absorbed(Current, Tail(events))
  <2>1. /\ Head(events).ev = "receive" /\ events' = Scheduled(Tail(events), Event("return", Current, 0))
        /\ UNCHANGED <<routing, net, requested, msg, sent, buf, chan, last>>
    BY <1>3 DEF Receive, Return, Handles
  <2>2. IsHead(Current) /\ AtDestination(Current)
    <3>1. Sound(Head(events)) /\ Head(events).msg = Current
      BY <1>1, HeadFacts
    <3> QED BY <2>1, <3>1 DEF Sound
  <2>3. NetInv'
    BY <1>1, <2>1, <2>2, NextStep
  <2> QED BY <2>1, <2>3, StillStep
<1> QED BY <1>2, <1>3

LEMMA LatencyIs ==
  ASSUME NEW z \in Nat \ {0}, NEW s \in Nat \ {0}
  PROVE  Latency(z, s) \in Nat \ {0}
<1>1. z - 1 \in Nat
  OBVIOUS
<1>2. \A n \in Nat : n \div s \in Nat
  OBVIOUS
<1>3. (z - 1) \div s \in Nat
  BY <1>1, <1>2
<1> QED BY <1>3 DEF Latency

\* What a transfer does to the times of its message and buffers.
LEMMA MoveTransfer ==
  ASSUME NetInv, NetInv', TransferInv, UNCHANGED <<routing, net>>,
         chan' \in [Chans -> Carriers], last' \in [net.buses -> Nat],
         NEW m \in Messages, NEW b \in Buffers, NEW c \in Buffers \ {b}, buf[c].write = 0,
         NEW bs \in [Buffers -> Ports], \A x \in Buffers : bs[x].read = buf[x].read /\ bs[x].write = buf[x].write,
         NEW lat \in Nat \ {0}, NEW ev, Transfer(bs, m, b, c, lat, ev)
  PROVE  Puts(m, c, lat) /\ buf'[b].read > 0
<1>1. Untimed
  BY IsUntimed
<1>2. /\ buf' = [bs EXCEPT ![b].list = Tail(@), ![b].count = @ - msg[m].size,
                           ![b].wakeup = Kept(b), ![b].read = lat,
                           ![c].list = Enqueued(c, m), ![c].count = @ + msg[m].size, ![c].write = lat]
      /\ msg' = [msg EXCEPT ![m].at = c, ![m].busy = lat]
  BY DEF Transfer
<1>3. msg \in [Messages -> Moving]
  BY <1>1 DEF Untimed
<1>4. /\ buf'[b] = [bs[b] EXCEPT !.list = Tail(@), !.count = @ - msg[m].size, !.wakeup = Kept(b), !.read = lat]
      /\ buf'[c] = [bs[c] EXCEPT !.list = Enqueued(c, m), !.count = @ + msg[m].size, !.write = lat]
      /\ \A x \in Buffers \ {b, c} : buf'[x] = bs[x]
  BY <1>2
<1>5. bs[b] \in Ports /\ bs[c] \in Ports
  OBVIOUS
<1>6. buf'[b].read = lat /\ buf'[b].write = bs[b].write
  BY <1>4, <1>5 DEF Ports
<1>7. buf'[c].read = bs[c].read /\ buf'[c].write = lat
  BY <1>4, <1>5 DEF Ports
<1>8. \A x \in Buffers \ {c} : buf'[x].write = buf[x].write
  <2>1. \A x \in Buffers \ {b, c} : buf'[x].write = buf[x].write
    BY <1>4
  <2>2. buf'[b].write = buf[b].write
    BY <1>6
  <2> QED BY <2>1, <2>2
<1>9. ASSUME NEW x \in Buffers, buf[x].read > 0 PROVE buf'[x].read > 0
  <2>1. CASE x = b
    BY <1>6, <2>1
  <2>2. CASE x = c
    BY <1>7, <1>9, <2>2
  <2>3. CASE x \in Buffers \ {b, c}
    BY <1>4, <1>9, <2>3
  <2> QED BY <2>1, <2>2, <2>3
<1>10. msg'[m] = [msg[m] EXCEPT !.at = c, !.busy = lat] /\ \A k \in Messages \ {m} : msg'[k] = msg[k]
  BY <1>2, <1>3
<1>11. msg[m] \in Moving
  BY <1>3
<1>12. msg'[m].at = c /\ msg'[m].busy = lat
  BY <1>10, <1>11 DEF Moving
<1>13. Puts(m, c, lat)
  BY <1>1, <1>7, <1>8, <1>9, <1>10, <1>12 DEF Puts
<1> QED BY <1>6, <1>13

LEMMA LinkPickIs ==
  ASSUME NetOK, chan \in [Chans -> Carriers], buf \in [Buffers -> Ports], NEW l \in Links
  PROVE  LinkPick(l) \in Pick /\ (chan[l].decided => LinkPick(l) = chan[l].pick)
<1>1. net.vcs[l] \in Seq(Outs) /\ l \in Chans
  BY DEF NetOK, Chans
<1>2. RoundRobin(net.vcs[l], Place(net.vcs[l], chan[l].pick), HeadsReady) \in HeadsReady \union {None}
  BY <1>1, TurnIs
<1>3. HeadsReady \subseteq Buffers
  BY DEF HeadsReady
<1>4. RoundRobin(net.vcs[l], Place(net.vcs[l], chan[l].pick), HeadsReady) \in Pick
  BY <1>2, <1>3 DEF Pick
<1>5. chan[l] \in Carriers
  BY <1>1
<1>6. chan[l].pick \in Pick
  BY <1>5 DEF Carriers
<1> QED BY <1>4, <1>6 DEF LinkPick

\* A link that is not busy is decided.
LEMMA LinkDecided ==
  ASSUME NetOK, chan \in [Chans -> Carriers], buf \in [Buffers -> Ports], NEW l \in Links, chan[l].busy = 0,
         NEW pick, Len(net.vcs[l]) > 1 => pick = LinkPick(l),
         NEW dec, dec = IF Len(net.vcs[l]) > 1 THEN [chan EXCEPT ![l].decided = TRUE, ![l].pick = pick] ELSE chan
  PROVE  dec \in [Chans -> Carriers] /\ \A c \in Chans : Decision(c, dec[c])
<1>1. l \in Chans /\ chan[l] \in Carriers
  BY DEF Chans
<1>2. \A c \in Chans : Decision(c, chan[c])
  BY DEF Decision
<1>3. CASE ~(Len(net.vcs[l]) > 1)
  BY <1>2, <1>3
<1>4. CASE Len(net.vcs[l]) > 1
  <2>1. pick \in Pick /\ (chan[l].decided => pick = chan[l].pick)
    BY <1>4, LinkPickIs
  <2> DEFINE x == [chan[l] EXCEPT !.decided = TRUE, !.pick = pick]
  <2>2. x \in Carriers /\ x.busy = chan[l].busy /\ x.decided = TRUE /\ x.pick = pick
    BY <1>1, <2>1 DEF Carriers
  <2>3. dec = [chan EXCEPT ![l] = x]
    BY <1>1, <1>4
  <2> HIDE DEF x
  <2>4. Decision(l, x)
    BY <2>1, <2>2 DEF Decision
  <2>5. dec[l] = x /\ \A c \in Chans \ {l} : dec[c] = chan[c]
    BY <1>1, <2>3
  <2>6. dec \in [Chans -> Carriers]
    BY <1>1, <2>2, <2>3
  <2>7. \A c \in Chans : Decision(c, dec[c])
    BY <1>2, <2>4, <2>5
  <2> QED BY <2>6, <2>7
<1> QED BY <1>3, <1>4

LEMMA OverLinkKeeps ==
  ASSUME NetInv, TransferInv, OverLink
  PROVE  NetInv' /\ TransferInv'
<1>1. PICK m : m = Current
  OBVIOUS
<1>2. PICK b : b = msg[m].at
  OBVIOUS
<1>3. PICK l : l = net.wire[b]
  OBVIOUS
<1>4. PICK c : c = CHOOSE i \in net.targets[b] : TRUE
  OBVIOUS
<1>5. PICK lat : lat = Latency(msg[m].size, net.speed[l])
  OBVIOUS
<1>6. PICK busy : busy = IF buf[b].read > 0 THEN buf[b].read ELSE chan[l].busy
  OBVIOUS
<1>8. PICK pick : pick = IF Len(net.vcs[l]) > 1 THEN LinkPick(l) ELSE b
  OBVIOUS
<1>9. PICK dec : dec = IF Len(net.vcs[l]) > 1 THEN [chan EXCEPT ![l].decided = TRUE, ![l].pick = pick] ELSE chan
  OBVIOUS
<1>10. /\ Handles("output") /\ IsHead(m) /\ l[1] = "link"
       /\ UNCHANGED <<routing, net, requested, sent, last>>
  BY <1>1, <1>2, <1>3, Zenon DEF OverLink
<1>11. \/ /\ busy > 0 /\ RetryAfter(busy)
          /\ UNCHANGED <<buf, msg, chan>>
       \/ /\ busy = 0 /\ (pick # b \/ buf[c].write > 0)
          /\ RetryAfter(IF pick # b THEN 1 ELSE buf[c].write)
          /\ chan' = dec /\ UNCHANGED <<buf, msg>>
       \/ /\ busy = 0 /\ pick = b /\ buf[c].write = 0 /\ ~Fits(msg[m].size, c) /\ WaitOn(c)
          /\ chan' = dec /\ UNCHANGED msg
       \/ /\ busy = 0 /\ pick = b /\ buf[c].write = 0 /\ Fits(msg[m].size, c)
          /\ Transfer(buf, m, b, c, lat, "input")
          /\ chan' = [dec EXCEPT ![l].busy = lat]
  BY <1>1, <1>2, <1>3, <1>4, <1>5, <1>6, <1>8, <1>9, Zenon DEF OverLink
<1>12. /\ IsDue(events) /\ Head(events).ev = "output"
  BY <1>10 DEF Handles
<1>13. /\ m \in Messages /\ Routed(m) /\ b \in Buffers /\ buf[b] \in Ports /\ buf \in [Buffers -> Ports]
       /\ b \in Outs /\ NetOK /\ chan \in [Chans -> Carriers] /\ last \in [net.buses -> Nat]
  <2>1. /\ m \in Messages /\ Routed(m) /\ b \in Buffers /\ buf[b] \in Ports
        /\ Sound(Head(events)) /\ Head(events).msg = m
    BY <1>1, <1>2, <1>12, HeadFacts
  <2>2. b \in Outs
    BY <1>2, <1>12, <2>1 DEF Sound
  <2>3. NetOK /\ buf \in [Buffers -> Ports]
    BY NetIsOK DEF NetInv, Base, RoutingInv
  <2> QED BY <2>1, <2>2, <2>3 DEF TransferInv, Carrying
<1>14. l \in Links /\ l \in Chans /\ l[1] = "link" /\ net.targets[b] # {} /\ c \in net.targets[b] /\ net.speed[l] \in Nat \ {0}
  <2>1. l \in Links /\ net.targets[b] # {}
    BY <1>3, <1>10, <1>13 DEF NetOK
  <2>2. c \in net.targets[b]
    BY <1>4, <2>1
  <2> QED BY <1>10, <1>13, <2>1, <2>2 DEF NetOK, Chans
<1>15. c \in Buffers \ {b} /\ c \notin Outs /\ l = From(T, c) /\ l \in Over(c)
  <2>1. c \in Buffers \ Outs /\ net.wire[b] = From(T, c)
    BY <1>13, <1>14 DEF NetOK
  <2> QED BY <1>3, <1>10, <1>13, <2>1 DEF Over
<1>16. lat \in Nat \ {0}
  <2>1. msg[m].size \in Nat \ {0}
    BY <1>13, NetworkAssumption DEF Routed
  <2> QED BY <1>5, <1>14, <2>1, LatencyIs
<1>17. buf[b].read \in Nat /\ chan[l].busy \in Nat /\ buf[c].write \in Nat
  <2>1. chan[l] \in Carriers /\ buf[c] \in Ports
    BY <1>13, <1>14, <1>15
  <2> QED BY <1>13, <2>1, PortIs DEF Carriers
<1>18. ASSUME busy = 0 PROVE dec \in [Chans -> Carriers] /\ \A d \in Chans : Decision(d, dec[d])
  <2>1. chan[l].busy = 0
    BY <1>6, <1>17, <1>18
  <2>2. Len(net.vcs[l]) > 1 => pick = LinkPick(l)
    BY <1>8
  <2> QED BY <1>9, <1>13, <1>14, <2>1, <2>2, LinkDecided
<1>19. ASSUME NEW n \in Nat, RetryAfter(n), UNCHANGED <<buf, msg>>, chan' = chan \/ (busy = 0 /\ chan' = dec)
       PROVE  NetInv' /\ TransferInv'
  <2>1. NetInv'
    BY <1>10, <1>12, <1>13, <1>19, RetryStep
  <2>2. chan' \in [Chans -> Carriers] /\ \A d \in Chans : Decision(d, chan'[d])
    <3>1. \A d \in Chans : Decision(d, chan[d])
      BY <1>13 DEF Decision
    <3>2. CASE chan' = chan
      BY <1>13, <3>1, <3>2
    <3>3. CASE chan' # chan
      BY <1>18, <1>19, <3>3
    <3> QED BY <3>2, <3>3
  <2>3. Untimed
    BY <1>10, <1>13, <2>1, <2>2, IsUntimed
  <2> QED BY <1>19, <2>1, <2>2, <2>3, CalmStep
<1>20. CASE busy > 0 /\ RetryAfter(busy) /\ UNCHANGED <<buf, msg, chan>>
  <2>1. busy \in Nat
    BY <1>6, <1>17
  <2> QED BY <1>19, <1>20, <2>1
<1>21. CASE /\ busy = 0 /\ RetryAfter(IF pick # b THEN 1 ELSE buf[c].write)
            /\ chan' = dec /\ UNCHANGED <<buf, msg>>
  <2>1. PICK n : n = IF pick # b THEN 1 ELSE buf[c].write
    OBVIOUS
  <2>2. n \in Nat /\ RetryAfter(n)
    BY <1>17, <1>21, <2>1
  <2> QED BY <1>19, <1>21, <2>2
<1>22. CASE /\ busy = 0 /\ ~Fits(msg[m].size, c) /\ WaitOn(c)
            /\ chan' = dec /\ UNCHANGED msg
  <2>1. Stuck(m, c)
    BY <1>2, <1>15, <1>22 DEF Stuck
  <2>2. NetInv'
    BY <1>1, <1>10, <1>12, <1>15, <1>22, <2>1, WaitStep
  <2>3. chan' \in [Chans -> Carriers] /\ \A d \in Chans : Decision(d, chan'[d])
    BY <1>18, <1>22
  <2>4. Untimed
    BY <1>10, <1>13, <2>2, <2>3, IsUntimed
  <2>5. ASSUME NEW x \in Buffers PROVE buf'[x].read = buf[x].read /\ buf'[x].write = buf[x].write
    BY <1>13, <1>15, <1>22 DEF WaitOn, Ports
  <2>6. \A k \in Messages : msg'[k].at \in Buffers => msg'[k].at = msg[k].at /\ msg'[k].busy = msg[k].busy
    BY <1>22
  <2> QED BY <2>2, <2>3, <2>4, <2>5, <2>6, CalmStep
<1>23. CASE /\ busy = 0 /\ buf[c].write = 0 /\ Fits(msg[m].size, c)
            /\ Transfer(buf, m, b, c, lat, "input")
            /\ chan' = [dec EXCEPT ![l].busy = lat]
  <2>1. NetInv'
    <3>1. b = msg[Current].at /\ Fits(msg[Current].size, c) /\ Transfer(buf, Current, b, c, lat, "input") /\ IsHead(Current)
      BY <1>1, <1>2, <1>10, <1>23
    <3>2. ("input" = "input" /\ c \notin Outs) \/ ("input" = "output" /\ c \in Outs)
      BY <1>15
    <3>3. \A x \in Buffers : buf[x].list = buf[x].list /\ buf[x].count = buf[x].count /\ buf[x].wakeup = buf[x].wakeup
      OBVIOUS
    <3>4. Head(events).ev \in {"output", "input"} /\ lat \in Nat
      BY <1>12, <1>16
    <3> QED BY <1>10, <1>12, <1>13, <1>15, <3>1, <3>2, <3>3, <3>4, MoveStep
  <2>2. dec \in [Chans -> Carriers] /\ \A d \in Chans : Decision(d, dec[d])
    BY <1>18, <1>23
  <2>3. dec[l] \in Carriers
    BY <1>14, <2>2
  <2>4. chan' \in [Chans -> Carriers] /\ chan'[l].busy = lat /\ \A d \in Chans \ {l} : chan'[d] = dec[d]
    <3>1. [dec[l] EXCEPT !.busy = lat] \in Carriers /\ [dec[l] EXCEPT !.busy = lat].busy = lat
      BY <1>16, <2>3 DEF Carriers
    <3> QED BY <1>14, <1>23, <2>2, <3>1
  <2>5. Puts(m, c, lat)
    BY <1>10, <1>13, <1>15, <1>16, <1>23, <2>1, <2>4, MoveTransfer
  <2>6. \A u \in net.buses : l \notin ToSet(net.lanes[u])
    <3> SUFFICES ASSUME NEW u \in net.buses, l \in ToSet(net.lanes[u]) PROVE FALSE
      OBVIOUS
    <3>1. PICK k : l = <<"lane", u, k>>
      BY <1>13 DEF NetOK
    <3>2. l[1] = "lane"
      BY <3>1
    <3> QED BY <1>14, <3>2
  <2>7. chan[l].busy = 0
    BY <1>6, <1>17, <1>23
  <2>8. \A d \in Chans \ {l} : Decision(d, chan'[d])
    BY <2>2, <2>4
  <2> QED BY <1>14, <1>15, <2>1, <2>4, <2>5, <2>6, <2>7, <2>8, PutIn
<1> QED BY <1>11, <1>20, <1>21, <1>22, <1>23

\* A lane that a buffer gets is free.
LEMMA LaneFree ==
  ASSUME TransferInv, NEW u \in net.buses, NEW x \in ToSet(net.lanes[u]), x \in Chans, NEW b \in Buffers,
         None \notin Buffers, buf[b].read = 0, NEW y, Decision(x, y), y.decided, y.pick = b
  PROVE  chan[x].busy = 0
<1>1. chan[x] \in Carriers
  BY DEF TransferInv, Carrying
<1>2. chan[x].busy \in Nat /\ b # None
  BY <1>1 DEF Carriers
<1>3. ASSUME chan[x].busy # 0 PROVE FALSE
  <2>1. chan[x].decided /\ chan[x].pick = b
    BY <1>2, <1>3 DEF Decision
  <2>2. chan[x].busy > 0
    BY <1>2, <1>3
  <2>3. buf[b].read > 0
    BY <1>2, <2>1, <2>2 DEF TransferInv, Taking
  <2> QED BY <2>3
<1> QED BY <1>3

LEMMA OverBusKeeps ==
  ASSUME NetInv, TransferInv, OverBus
  PROVE  NetInv' /\ TransferInv'
<1>1. PICK m : m = Current
  OBVIOUS
<1>2. PICK b : b = msg[m].at
  OBVIOUS
<1>3. PICK u : u = net.wire[b][2]
  OBVIOUS
<1>4. PICK next : next = table[net.node[b]][msg[m].dst].next
  OBVIOUS
<1>5. PICK c : c = CHOOSE i \in net.targets[b] : net.node[i] = next
  OBVIOUS
<1>6. PICK won : won = Arbitration(u, b)
  OBVIOUS
<1>7. PICK busy : busy = IF buf[b].read > 0 THEN buf[b].read ELSE buf[c].write
  OBVIOUS
<1>8. PICK lat : lat = Latency(msg[m].size, net.speed[won.lane])
  OBVIOUS
<1>10. /\ Handles("output") /\ IsHead(m) /\ net.wire[b][1] = "bus"
       /\ buf[b].read > 0 \/ \E i \in net.targets[b] : net.node[i] = next
       /\ UNCHANGED <<routing, net, requested, sent>>
  BY <1>1, <1>2, <1>4, Zenon DEF OverBus
<1>11. \/ /\ busy > 0 /\ RetryAfter(busy)
          /\ UNCHANGED <<buf, msg, chan, last>>
       \/ /\ busy = 0 /\ ~Fits(msg[m].size, c) /\ WaitOn(c)
          /\ UNCHANGED <<msg, chan, last>>
       \/ /\ busy = 0 /\ Fits(msg[m].size, c)
          /\ last' = [last EXCEPT ![u] = won.turn]
          /\ \/ /\ won.lane = None /\ RetryAfter(1)
                /\ chan' = won.chan /\ UNCHANGED <<buf, msg>>
             \/ /\ won.lane # None
                /\ Transfer(buf, m, b, c, lat, "input")
                /\ chan' = [won.chan EXCEPT ![won.lane].busy = lat]
  BY <1>1, <1>2, <1>3, <1>4, <1>5, <1>6, <1>7, <1>8, Zenon DEF OverBus
<1>12. /\ IsDue(events) /\ Head(events).ev = "output"
  BY <1>10 DEF Handles
<1>13. /\ m \in Messages /\ Routed(m) /\ b \in Buffers /\ buf[b] \in Ports /\ buf \in [Buffers -> Ports]
       /\ b \in Outs /\ NetOK /\ chan \in [Chans -> Carriers] /\ last \in [net.buses -> Nat] /\ None \notin Buffers
  <2>1. /\ m \in Messages /\ Routed(m) /\ b \in Buffers /\ buf[b] \in Ports
        /\ Sound(Head(events)) /\ Head(events).msg = m
    BY <1>1, <1>2, <1>12, HeadFacts
  <2>2. b \in Outs
    BY <1>2, <1>12, <2>1 DEF Sound
  <2>3. NetOK /\ buf \in [Buffers -> Ports]
    BY NetIsOK DEF NetInv, Base, RoutingInv
  <2>4. None \notin Buffers
    BY <2>3 DEF NetOK
  <2> QED BY <2>1, <2>2, <2>3, <2>4 DEF TransferInv, Carrying
<1>14. u \in net.buses /\ ToSet(net.lanes[u]) \subseteq Chans
  <2>1. u \in net.buses
    BY <1>3, <1>10, <1>13 DEF NetOK
  <2> QED BY <2>1 DEF Chans
<1>15. Arbitrated(u, b, won)
  BY <1>6, <1>13, <1>14, ArbitrationIs
<1>16. buf[b].read \in Nat
  BY <1>13, PortIs
<1>17. ASSUME buf[b].read = 0
       PROVE  c \in net.targets[b] /\ c \in Buffers \ {b} /\ c \notin Outs /\ buf[c].write \in Nat /\ Over(c) = ToSet(net.lanes[u])
  <2>1. c \in net.targets[b]
    BY <1>5, <1>10, <1>17
  <2>2. c \in Buffers \ Outs /\ net.wire[b] = From(T, c)
    BY <1>13, <2>1 DEF NetOK
  <2>3. buf[c] \in Ports
    BY <1>13, <2>2
  <2>4. buf[c].write \in Nat
    BY <2>3, PortIs
  <2> QED BY <1>3, <1>10, <1>13, <2>1, <2>2, <2>4 DEF Over
<1>18. busy = 0 => buf[b].read = 0 /\ buf[c].write = 0
  BY <1>7, <1>16
<1>19. CASE /\ busy > 0 /\ RetryAfter(busy)
            /\ UNCHANGED <<buf, msg, chan, last>>
  <2>1. busy \in Nat
    BY <1>7, <1>16, <1>17
  <2>2. NetInv'
    BY <1>10, <1>12, <1>13, <1>19, <2>1, RetryStep
  <2> QED BY <1>10, <1>19, <2>2, StillStep
<1>20. CASE /\ busy = 0 /\ ~Fits(msg[m].size, c) /\ WaitOn(c)
            /\ UNCHANGED <<msg, chan, last>>
  <2>1. c \in Buffers \ {b}
    BY <1>17, <1>18, <1>20
  <2>2. Stuck(m, c)
    BY <1>2, <1>20, <2>1 DEF Stuck
  <2>3. NetInv'
    BY <1>1, <1>10, <1>12, <1>20, <2>1, <2>2, WaitStep
  <2>4. ASSUME NEW x \in Buffers PROVE buf'[x].read = buf[x].read /\ buf'[x].write = buf[x].write
    BY <1>13, <1>20, <2>1 DEF WaitOn, Ports
  <2> QED BY <1>10, <1>20, <2>3, <2>4, StillStep
<1>21. last' = [last EXCEPT ![u] = won.turn] => last' \in [net.buses -> Nat]
  BY <1>13, <1>14, <1>15 DEF Arbitrated
<1>22. won.chan \in [Chans -> Carriers] /\ \A d \in Chans : Decision(d, won.chan[d])
  <2>1. \A d \in Chans : Decision(d, won.chan[d])
    BY <1>15 DEF Arbitrated
  <2>2. \A d \in Chans : won.chan[d] \in Carriers
    BY <2>1 DEF Decision
  <2>3. won.chan = [d \in Chans |-> won.chan[d]]
    BY <1>15, Zenon DEF Arbitrated
  <2> QED BY <2>1, <2>2, <2>3
<1>23. CASE /\ busy = 0 /\ last' = [last EXCEPT ![u] = won.turn]
            /\ won.lane = None /\ RetryAfter(1)
            /\ chan' = won.chan /\ UNCHANGED <<buf, msg>>
  <2>1. NetInv'
    <3>1. 1 \in Nat /\ RetryAfter(1)
      BY <1>23
    <3> QED BY <1>10, <1>12, <1>13, <1>23, <3>1, RetryStep
  <2>2. chan' \in [Chans -> Carriers] /\ \A d \in Chans : Decision(d, chan'[d])
    BY <1>22, <1>23
  <2>3. last' \in [net.buses -> Nat]
    BY <1>21, <1>23
  <2>4. Untimed
    BY <1>10, <2>1, <2>2, <2>3, IsUntimed
  <2>5. \A k \in Messages : msg'[k].at \in Buffers => msg'[k].at = msg[k].at /\ msg'[k].busy = msg[k].busy
    BY <1>23
  <2>6. \A x \in Buffers : buf'[x].read = buf[x].read /\ buf'[x].write = buf[x].write
    BY <1>23
  <2> QED BY <2>1, <2>2, <2>4, <2>5, <2>6, CalmStep
<1>24. CASE /\ busy = 0 /\ Fits(msg[m].size, c) /\ last' = [last EXCEPT ![u] = won.turn]
            /\ won.lane # None
            /\ Transfer(buf, m, b, c, lat, "input")
            /\ chan' = [won.chan EXCEPT ![won.lane].busy = lat]
  <2>1. c \in Buffers \ {b} /\ c \notin Outs /\ Over(c) = ToSet(net.lanes[u]) /\ buf[c].write = 0 /\ buf[b].read = 0
    BY <1>17, <1>18, <1>24
  <2>2. PICK x : x = won.lane
    OBVIOUS
  <2>3. x \in ToSet(net.lanes[u]) /\ x \in Chans /\ x \in Over(c) /\ won.chan[x].decided /\ won.chan[x].pick = b
    <3>1. x \in ToSet(net.lanes[u]) /\ won.chan[x].decided /\ won.chan[x].pick = b
      BY <1>15, <1>24, <2>2 DEF Arbitrated
    <3> QED BY <1>14, <2>1, <3>1
  <2>4. lat \in Nat \ {0}
    <3>1. net.speed[x] \in Nat \ {0}
      BY <1>13, <1>14, <2>3 DEF NetOK
    <3>2. msg[m].size \in Nat \ {0}
      BY <1>13, NetworkAssumption DEF Routed
    <3> QED BY <1>8, <2>2, <3>1, <3>2, LatencyIs
  <2>5. NetInv'
    <3>1. b = msg[Current].at /\ Fits(msg[Current].size, c) /\ Transfer(buf, Current, b, c, lat, "input") /\ IsHead(Current)
      BY <1>1, <1>2, <1>10, <1>24
    <3>2. ("input" = "input" /\ c \notin Outs) \/ ("input" = "output" /\ c \in Outs)
      BY <2>1
    <3>3. \A y \in Buffers : buf[y].list = buf[y].list /\ buf[y].count = buf[y].count /\ buf[y].wakeup = buf[y].wakeup
      OBVIOUS
    <3>4. Head(events).ev \in {"output", "input"} /\ lat \in Nat
      BY <1>12, <2>4
    <3> QED BY <1>10, <1>12, <1>13, <2>1, <3>1, <3>2, <3>3, <3>4, MoveStep
  <2>6. chan[x].busy = 0
    <3>1. Decision(x, won.chan[x])
      BY <1>22, <2>3
    <3> QED BY <1>13, <1>14, <2>1, <2>3, <3>1, LaneFree
  <2>7. /\ chan' \in [Chans -> Carriers] /\ chan'[x].busy = lat /\ chan'[x].pick = b
        /\ \A d \in Chans \ {x} : chan'[d] = won.chan[d]
    <3> DEFINE y == [won.chan[x] EXCEPT !.busy = lat]
    <3>1. won.chan[x] \in Carriers
      BY <1>22, <2>3
    <3>2. y \in Carriers /\ y.busy = lat /\ y.pick = b
      BY <2>3, <2>4, <3>1 DEF Carriers
    <3>3. chan' = [won.chan EXCEPT ![x] = y]
      BY <1>24, <2>2
    <3> HIDE DEF y
    <3> QED BY <1>22, <2>3, <3>2, <3>3
  <2>8. last' \in [net.buses -> Nat]
    BY <1>21, <1>24
  <2>9. Puts(m, c, lat) /\ buf'[b].read > 0
    BY <1>10, <1>13, <1>24, <2>1, <2>4, <2>5, <2>7, <2>8, MoveTransfer
  <2>10. \A d \in Chans \ {x} : Decision(d, chan'[d])
    BY <1>22, <2>7
  <2> QED BY <2>1, <2>3, <2>5, <2>6, <2>7, <2>9, <2>10, PutIn
<1> QED BY <1>11, <1>19, <1>20, <1>23, <1>24

LEMMA NodesOf ==
  ASSUME NetOK, topology \in DOMAIN Topologies, NEW b \in Buffers
  PROVE  net.node[b] \in Nodes(T)
<1>1. WellFormed(T)
  BY Here
<1>2. b \in Outputs(T) \/ b \in Inputs(T)
  BY DEF NetOK
<1>3. Owner(T, b) \in Nodes(T)
  <2>1. \A i \in DOMAIN T.links : T.links[i].src \in Nodes(T) /\ T.links[i].dst \in Nodes(T)
    BY <1>1, Described
  <2>2. CASE b \in Outputs(T)
    BY <1>1, <2>1, <2>2, Apart
  <2>3. CASE b \in Inputs(T)
    BY <1>1, <2>1, <2>3, Apart
  <2> QED BY <1>2, <2>2, <2>3
<1> QED BY <1>3 DEF NetOK

LEMMA SwitchPickIs ==
  ASSUME NetOK, topology \in DOMAIN Topologies, buf \in [Buffers -> Ports], NEW o \in Buffers
  PROVE  SwitchPick(o) \in Pick
<1> DEFINE n == net.node[o]
           mine == {b \in HeadsReady :
             /\ table[n][msg[Head(buf[b].list)].dst].out = o
             /\ Fits(msg[Head(buf[b].list)].size, o)}
           next == RoundRobin(net.inputs[n], Place(net.inputs[n], buf[o].pick), mine)
<1>1. net.inputs[n] \in Seq(Buffers)
  BY NodesOf DEF NetOK
<1>2. SwitchPick(o) = IF buf[o].decided THEN buf[o].pick ELSE next
  BY Zenon DEF SwitchPick
<1>3. mine \subseteq Buffers
  BY DEF HeadsReady
<1> HIDE DEF mine, n
<1>4. next \in mine \union {None}
  BY <1>1, TurnIs
<1>5. next \in Pick
  BY <1>3, <1>4 DEF Pick
<1>6. buf[o] \in Ports
  OBVIOUS
<1>7. buf[o].pick \in Pick
  BY <1>6, PortIs
<1> QED BY <1>2, <1>5, <1>7

LEMMA ThroughSwitchKeeps ==
  ASSUME NetInv, TransferInv, ThroughSwitch
  PROVE  NetInv' /\ TransferInv'
<1>1. PICK m : m = Current
  OBVIOUS
<1>2. PICK b : b = msg[m].at
  OBVIOUS
<1>3. PICK o : o = table[net.node[b]][msg[m].dst].out
  OBVIOUS
<1>4. PICK busy : busy = IF buf[b].read > 0 THEN buf[b].read ELSE buf[o].write
  OBVIOUS
<1>5. PICK pick : pick = SwitchPick(o)
  OBVIOUS
<1>6. PICK lat : lat = Latency(msg[m].size, net.switch[net.node[b]])
  OBVIOUS
<1>7. PICK dec : dec = [buf EXCEPT ![o].decided = TRUE, ![o].pick = pick]
  OBVIOUS
<1>10. /\ Handles("input") /\ IsHead(m) /\ (buf[b].read > 0 \/ o # None)
       /\ UNCHANGED <<routing, net, requested, sent, chan, last>>
  BY <1>1, <1>2, <1>3, Zenon DEF ThroughSwitch
<1>11. \/ /\ busy > 0 /\ RetryAfter(busy)
          /\ UNCHANGED <<msg, buf>>
       \/ /\ busy = 0 /\ ~Fits(msg[m].size, o) /\ WaitOn(o)
          /\ UNCHANGED msg
       \/ /\ busy = 0 /\ Fits(msg[m].size, o) /\ pick # b /\ RetryAfter(1)
          /\ buf' = dec
          /\ UNCHANGED msg
       \/ /\ busy = 0 /\ Fits(msg[m].size, o) /\ pick = b /\ net.node[b] \in DOMAIN net.switch
          /\ Transfer(dec, m, b, o, lat, "output")
  BY <1>1, <1>2, <1>3, <1>4, <1>5, <1>6, <1>7, Zenon DEF ThroughSwitch
<1>12. /\ IsDue(events) /\ Head(events).ev = "input"
  BY <1>10 DEF Handles
<1>13. /\ m \in Messages /\ Routed(m) /\ b \in Buffers /\ buf[b] \in Ports /\ buf \in [Buffers -> Ports]
       /\ b \in Buffers \ Outs /\ NetOK /\ Outs \subseteq Buffers
       /\ topology \in DOMAIN Topologies /\ OwnOuts(T, table)
  <2>1. /\ m \in Messages /\ Routed(m) /\ b \in Buffers /\ buf[b] \in Ports
        /\ Sound(Head(events)) /\ Head(events).msg = m
    BY <1>1, <1>2, <1>12, HeadFacts
  <2>2. b \in Buffers \ Outs
    BY <1>2, <1>12, <2>1 DEF Sound
  <2>3. NetOK /\ buf \in [Buffers -> Ports] /\ topology \in DOMAIN Topologies /\ OwnOuts(T, table)
    BY NetIsOK DEF NetInv, Base, RoutingInv
  <2>4. Outs \subseteq Buffers
    BY <2>3 DEF NetOK
  <2> QED BY <2>1, <2>2, <2>3, <2>4
<1>14. buf[b].read \in Nat
  BY <1>13, PortIs
<1>15. ASSUME buf[b].read = 0
       PROVE  /\ o \in Outs /\ o \in Buffers \ {b} /\ buf[o] \in Ports /\ buf[o].write \in Nat
              /\ dec \in [Buffers -> Ports] /\ \A x \in Buffers \ {o} : dec[x] = buf[x]
              /\ dec[o].list = buf[o].list /\ dec[o].count = buf[o].count /\ dec[o].wakeup = buf[o].wakeup
              /\ dec[o].read = buf[o].read /\ dec[o].write = buf[o].write
  <2>1. net.node[b] \in Nodes(T) /\ msg[m].dst \in Nodes(T) /\ o # None
    BY <1>10, <1>13, <1>15, NodesOf DEF Routed
  <2>2. o \in OutOf(T, net.node[b])
    BY <1>3, <1>13, <2>1 DEF OwnOuts
  <2>3. o \in Outs
    BY <1>13, <2>2 DEF OutOf, NetOK
  <2>4. o \in Buffers \ {b} /\ buf[o] \in Ports
    BY <1>13, <2>3
  <2>5. pick \in Pick
    BY <1>5, <1>13, <2>4, SwitchPickIs
  <2> DEFINE x == [buf[o] EXCEPT !.decided = TRUE, !.pick = pick]
  <2>6. /\ x \in Ports /\ x.list = buf[o].list /\ x.count = buf[o].count /\ x.wakeup = buf[o].wakeup
        /\ x.read = buf[o].read /\ x.write = buf[o].write
    BY <2>4, <2>5 DEF Ports
  <2>7. dec = [buf EXCEPT ![o] = x]
    BY <1>7, <1>13, <2>4
  <2> HIDE DEF x
  <2>8. dec \in [Buffers -> Ports] /\ dec[o] = x /\ \A y \in Buffers \ {o} : dec[y] = buf[y]
    BY <1>13, <2>4, <2>6, <2>7
  <2>9. buf[o].write \in Nat
    BY <2>4, PortIs
  <2> QED BY <2>3, <2>4, <2>6, <2>8, <2>9
<1>16. busy = 0 => buf[b].read = 0 /\ buf[o].write = 0
  BY <1>4, <1>14
<1>17. CASE /\ busy > 0 /\ RetryAfter(busy)
            /\ UNCHANGED <<msg, buf>>
  <2>1. busy \in Nat
    BY <1>4, <1>14, <1>15
  <2>2. NetInv'
    BY <1>10, <1>12, <1>13, <1>17, <2>1, RetryStep
  <2> QED BY <1>10, <1>17, <2>2, StillStep
<1>18. CASE /\ busy = 0 /\ ~Fits(msg[m].size, o) /\ WaitOn(o)
            /\ UNCHANGED msg
  <2>1. o \in Buffers \ {b}
    BY <1>15, <1>16, <1>18
  <2>2. Stuck(m, o)
    BY <1>2, <1>18, <2>1 DEF Stuck
  <2>3. NetInv'
    BY <1>1, <1>10, <1>12, <1>18, <2>1, <2>2, WaitStep
  <2>4. ASSUME NEW x \in Buffers PROVE buf'[x].read = buf[x].read /\ buf'[x].write = buf[x].write
    BY <1>13, <1>18, <2>1 DEF WaitOn, Ports
  <2> QED BY <1>10, <1>18, <2>3, <2>4, StillStep
<1>19. ASSUME busy = 0
       PROVE  /\ \A x \in Buffers : dec[x].list = buf[x].list /\ dec[x].count = buf[x].count /\ dec[x].wakeup = buf[x].wakeup
              /\ \A x \in Buffers : dec[x].read = buf[x].read /\ dec[x].write = buf[x].write
  BY <1>15, <1>16, <1>19
<1>20. CASE /\ busy = 0 /\ RetryAfter(1) /\ buf' = dec /\ UNCHANGED msg
  <2>1. 1 \in Nat /\ RetryAfter(1) /\ buf' \in [Buffers -> Ports]
    BY <1>15, <1>16, <1>20
  <2>2. \A x \in Buffers : buf'[x].list = buf[x].list /\ buf'[x].count = buf[x].count /\ buf'[x].wakeup = buf[x].wakeup
    BY <1>19, <1>20
  <2>3. NetInv'
    BY <1>10, <1>12, <1>20, <2>1, <2>2, RetryStep
  <2>4. \A x \in Buffers : buf'[x].read = buf[x].read /\ buf'[x].write = buf[x].write
    BY <1>19, <1>20
  <2> QED BY <1>10, <1>20, <2>3, <2>4, StillStep
<1>21. CASE /\ busy = 0 /\ Fits(msg[m].size, o) /\ net.node[b] \in DOMAIN net.switch
            /\ Transfer(dec, m, b, o, lat, "output")
  <2>1. o \in Outs /\ o \in Buffers \ {b} /\ dec \in [Buffers -> Ports] /\ buf[o].write = 0
    BY <1>15, <1>16, <1>21
  <2>2. lat \in Nat \ {0}
    <3>1. net.switch[net.node[b]] \in Nat \ {0}
      BY <1>13, <1>21 DEF NetOK
    <3>2. msg[m].size \in Nat \ {0}
      BY <1>13, NetworkAssumption DEF Routed
    <3> QED BY <1>6, <3>1, <3>2, LatencyIs
  <2>3. NetInv'
    <3>1. b = msg[Current].at /\ Fits(msg[Current].size, o) /\ Transfer(dec, Current, b, o, lat, "output") /\ IsHead(Current)
      BY <1>1, <1>2, <1>10, <1>21
    <3>2. ("output" = "input" /\ o \notin Outs) \/ ("output" = "output" /\ o \in Outs)
      BY <2>1
    <3>3. \A y \in Buffers : dec[y].list = buf[y].list /\ dec[y].count = buf[y].count /\ dec[y].wakeup = buf[y].wakeup
      BY <1>19, <1>21
    <3>4. Head(events).ev \in {"output", "input"} /\ lat \in Nat
      BY <1>12, <2>2
    <3> QED BY <1>10, <1>12, <1>13, <2>1, <3>1, <3>2, <3>3, <3>4, MoveStep
  <2>4. chan' \in [Chans -> Carriers] /\ last' \in [net.buses -> Nat]
    BY <1>10, ChannelsSame
  <2>5. \A y \in Buffers : dec[y].read = buf[y].read /\ dec[y].write = buf[y].write
    BY <1>19, <1>21
  <2>6. Puts(m, o, lat)
    BY <1>10, <1>13, <1>21, <2>1, <2>2, <2>3, <2>4, <2>5, MoveTransfer
  <2> QED BY <1>10, <2>1, <2>3, <2>6, PutOut
<1> QED BY <1>11, <1>17, <1>18, <1>20, <1>21

-----------------------------------------------------------------------------
(* The time moves on.                                                       *)

LEMMA Less ==
  /\ \A n \in Nat : OneLess(n) \in Nat /\ OneLess(n) <= n /\ (n = 0 => OneLess(n) = 0)
  /\ \A n, k \in Nat : n <= k => OneLess(n) <= OneLess(k)
  /\ \A n \in Nat : OneLess(n) > 0 => n > 0
BY DEF OneLess

LEMMA TickEvents ==
  ASSUME IsQueue(events, Waits), IsQuiet(events), events' = Elapsed(events)
  PROVE  /\ IsQueue(events', Waits) /\ \A x : Count(events', Of(x)) = Count(events, Of(x))
         /\ events = <<>> => events' = <<>>
         /\ \A e \in Elems(events') : \E d \in Elems(events) :
              d \in Waits /\ e.ev = d.ev /\ e.msg = d.msg /\ e.left = OneLess(d.left)
<1>1. CASE events = <<>>
  <2>1. events' = <<>>
    BY <1>1 DEF Elapsed
  <2>2. Elems(<<>>) = {}
    BY DEF Elems
  <2> QED BY <1>1, <2>1, <2>2
<1>2. CASE events # <<>>
  <2>1. Timed(Waits)
    <3> SUFFICES ASSUME NEW x \in Waits
                 PROVE  /\ x.left \in Nat /\ [x EXCEPT !.left = OneLess(x.left)] \in Waits
                        /\ [x EXCEPT !.left = OneLess(x.left)].left = OneLess(x.left)
      BY DEF Timed
    <3>1. x.left \in Nat
      BY WaitsTimed
    <3>2. PICK n \in Nat : n = OneLess(x.left)
      BY <3>1, Less
    <3>3. [x EXCEPT !.left = n] \in Waits /\ [x EXCEPT !.left = n].left = n
      BY DEF Waits
    <3> QED BY <3>1, <3>2, <3>3
  <2>2. IsQueue(events', Waits) /\ Len(events') = Len(events) /\ Aged(events)
    BY <1>2, <2>1, ElapsedQueue
  <2>3. \A i \in 1..Len(events) : events'[i] = [events[i] EXCEPT !.left = OneLess(events[i].left)]
    BY <2>2 DEF Aged
  <2>4. \A i \in 1..Len(events) : events[i] \in Waits
    BY DEF IsQueue
  <2>5. ASSUME NEW i \in 1..Len(events)
        PROVE  /\ events'[i].ev = events[i].ev /\ events'[i].msg = events[i].msg
               /\ events'[i].left = OneLess(events[i].left) /\ events'[i] \in Waits
    <3>1. PICK x \in Waits : x = events[i]
      BY <2>4
    <3>2. PICK n : n = OneLess(x.left)
      OBVIOUS
    <3>3. n \in Nat
      BY <3>1, <3>2, WaitsTimed, Less
    <3>4. PICK y : y = [x EXCEPT !.left = n]
      OBVIOUS
    <3>5. y.ev = x.ev /\ y.msg = x.msg /\ y.left = n /\ y \in Waits
      BY <3>1, <3>3, <3>4 DEF Waits
    <3>6. events'[i] = y
      BY <2>3, <3>1, <3>2, <3>4
    <3> QED BY <3>1, <3>2, <3>5, <3>6
  <2>6. ASSUME NEW x PROVE Count(events', Of(x)) = Count(events, Of(x))
    <3>1. \A i \in 1..Len(events) : events'[i] \in Of(x) <=> events[i] \in Of(x)
      BY <2>4, <2>5 DEF Of
    <3>2. Places(events', Of(x)) = Places(events, Of(x))
      BY <2>2, <3>1 DEF Places
    <3> QED BY <3>2 DEF Count
  <2>7. ASSUME NEW e \in Elems(events')
        PROVE  \E d \in Elems(events) : d \in Waits /\ e.ev = d.ev /\ e.msg = d.msg /\ e.left = OneLess(d.left)
    <3>1. PICK i \in 1..Len(events) : e = events'[i]
      BY <2>2 DEF Elems
    <3>2. events[i] \in Elems(events)
      BY DEF Elems
    <3> QED BY <2>4, <2>5, <3>1, <3>2
  <2> QED BY <1>2, <2>2, <2>6, <2>7
<1> QED BY <1>1, <1>2

LEMMA TickFacts ==
  ASSUME NetInv, Tick
  PROVE  /\ ready /\ UNCHANGED <<routing, net, requested, sent, last>>
         /\ msg' \in [Messages -> Moving] /\ buf' \in [Buffers -> Ports]
         /\ \A m \in Messages : /\ msg'[m].src = msg[m].src /\ msg'[m].dst = msg[m].dst /\ msg'[m].size = msg[m].size
                                /\ msg'[m].at = msg[m].at /\ msg'[m].busy = OneLess(msg[m].busy) /\ msg[m].busy \in Nat
         /\ \A b \in Buffers : /\ buf'[b].list = buf[b].list /\ buf'[b].count = buf[b].count
                               /\ buf'[b].wakeup = buf[b].wakeup
                               /\ buf[b].read \in Nat /\ buf'[b].read = OneLess(buf[b].read)
                               /\ buf[b].write \in Nat /\ buf'[b].write = OneLess(buf[b].write)
<1>1. /\ msg' = [m \in Messages |-> [msg[m] EXCEPT !.busy = OneLess(msg[m].busy)]]
      /\ buf' = [b \in DOMAIN buf |-> [buf[b] EXCEPT !.read = OneLess(buf[b].read), !.write = OneLess(buf[b].write), !.decided = FALSE]]
      /\ ready /\ UNCHANGED <<routing, net, requested, sent, last>>
  BY Zenon DEF Tick
<1>2. msg \in [Messages -> Moving] /\ buf \in [Buffers -> Ports] /\ DOMAIN buf = Buffers
  BY DEF NetInv, Base
<1>3. ASSUME NEW m \in Messages
      PROVE  /\ msg'[m] \in Moving
             /\ msg'[m].src = msg[m].src /\ msg'[m].dst = msg[m].dst /\ msg'[m].size = msg[m].size
             /\ msg'[m].at = msg[m].at /\ msg'[m].busy = OneLess(msg[m].busy) /\ msg[m].busy \in Nat
  <2>1. PICK x \in Moving : x = msg[m]
    BY <1>2
  <2>2. PICK n : n = OneLess(x.busy)
    OBVIOUS
  <2>3. x.busy \in Nat /\ n \in Nat
    BY <2>2, MovingIs, Less
  <2>4. PICK y : y = [x EXCEPT !.busy = n]
    OBVIOUS
  <2>5. msg'[m] = y
    BY <1>1, <2>1, <2>2, <2>4, Zenon
  <2>6. y \in Moving /\ y.src = x.src /\ y.dst = x.dst /\ y.size = x.size /\ y.at = x.at /\ y.busy = n
    BY <2>3, <2>4 DEF Moving
  <2> QED BY <2>1, <2>2, <2>3, <2>5, <2>6
<1>4. ASSUME NEW b \in Buffers
      PROVE  /\ buf'[b] \in Ports
             /\ buf'[b].list = buf[b].list /\ buf'[b].count = buf[b].count /\ buf'[b].wakeup = buf[b].wakeup
             /\ buf[b].read \in Nat /\ buf'[b].read = OneLess(buf[b].read)
             /\ buf[b].write \in Nat /\ buf'[b].write = OneLess(buf[b].write)
  <2>1. PICK x \in Ports : x = buf[b]
    BY <1>2
  <2>2. PICK i : i = OneLess(x.read)
    OBVIOUS
  <2>3. PICK j : j = OneLess(x.write)
    OBVIOUS
  <2>4. x.read \in Nat /\ x.write \in Nat /\ i \in Nat /\ j \in Nat
    BY <2>2, <2>3, PortIs, Less
  <2>5. PICK y : y = [x EXCEPT !.read = i, !.write = j, !.decided = FALSE]
    OBVIOUS
  <2>6. buf'[b] = y
    BY <1>1, <1>2, <2>1, <2>2, <2>3, <2>5, Zenon
  <2>7. y \in Ports /\ y.list = x.list /\ y.count = x.count /\ y.wakeup = x.wakeup /\ y.read = i /\ y.write = j
    BY <2>4, <2>5 DEF Ports
  <2> QED BY <2>1, <2>2, <2>3, <2>4, <2>6, <2>7
<1>5. msg' \in [Messages -> Moving]
  BY <1>1, <1>3, Zenon
<1>6. buf' \in [Buffers -> Ports]
  BY <1>1, <1>2, <1>4, Zenon
<1> QED BY <1>1, <1>3, <1>4, <1>5, <1>6, Zenon

LEMMA TickSound ==
  ASSUME NetInv, Tick, NEW d \in Waits, Sound(d), d.msg \in Messages,
         NEW e, e.ev = d.ev, e.msg = d.msg, e.left = OneLess(d.left)
  PROVE  Sound(e)'
<1>1. PICK m \in Messages : m = d.msg
  OBVIOUS
<1>2. /\ UNCHANGED <<routing, net, requested, sent>> /\ msg'[m].at = msg[m].at /\ msg'[m].dst = msg[m].dst
      /\ msg'[m].busy = OneLess(msg[m].busy) /\ msg[m].busy \in Nat
      /\ \A b \in Buffers : buf'[b].list = buf[b].list
  BY TickFacts
<1>3. Buffers' = Buffers /\ Outs' = Outs
  BY <1>2 DEF Buffers, Outs
<1>4. /\ m <= requested
      /\ IF d.ev = "try" THEN m \notin Elems(sent) ELSE msg[m].at # None /\ msg[m].busy <= d.left
      /\ d.ev = "output" => msg[m].at \in Outs
      /\ d.ev \in {"input", "receive", "return"} => msg[m].at \in Buffers \ Outs
      /\ d.ev \in {"receive", "return"} => IsHead(m) /\ AtDestination(m)
  BY <1>1 DEF Sound
<1>5. ASSUME d.ev # "try" PROVE msg'[m].busy <= e.left
  <2>1. d.left \in Nat /\ msg[m].busy <= d.left
    BY <1>4, <1>5, WaitsTimed
  <2> QED BY <1>2, <2>1, Less
<1>6. ASSUME d.ev \in {"receive", "return"} PROVE IsHead(m)' /\ AtDestination(m)'
  <2>1. msg[m].at \in Buffers /\ IsHead(m) /\ AtDestination(m)
    BY <1>4, <1>6
  <2> QED BY <1>2, <2>1 DEF IsHead, AtDestination
<1> QED BY <1>1, <1>2, <1>3, <1>4, <1>5, <1>6 DEF Sound

LEMMA TickNet ==
  ASSUME NetInv, Tick
  PROVE  NetInv'
<1>1. Base /\ Fields /\ Filled /\ Once /\ AllSound
  BY DEF NetInv
<1>2. /\ ready /\ UNCHANGED <<routing, net, requested, sent, last>>
      /\ msg' \in [Messages -> Moving] /\ buf' \in [Buffers -> Ports]
      /\ \A m \in Messages : /\ msg'[m].src = msg[m].src /\ msg'[m].dst = msg[m].dst /\ msg'[m].size = msg[m].size
                             /\ msg'[m].at = msg[m].at /\ msg'[m].busy = OneLess(msg[m].busy) /\ msg[m].busy \in Nat
      /\ \A b \in Buffers : buf'[b].list = buf[b].list /\ buf'[b].count = buf[b].count /\ buf'[b].wakeup = buf[b].wakeup
  BY TickFacts
<1>3. Buffers' = Buffers /\ T' = T /\ Outs' = Outs /\ table' = table /\ phase' = phase
  BY <1>2 DEF Buffers, Outs, T, routing
<1>4. Pick' = Pick
  BY <1>3 DEF Pick
<1>5. Ports' = Ports /\ Moving' = Moving
  BY <1>3, <1>4 DEF Ports, Moving
<1>6. IsQueue(events, Waits) /\ IsQuiet(events) /\ events' = Elapsed(events)
  BY <1>1, Zenon DEF Base, Tick
<1>7. /\ IsQueue(events', Waits) /\ \A x : Count(events', Of(x)) = Count(events, Of(x))
      /\ \A e \in Elems(events') : \E d \in Elems(events) :
           d \in Waits /\ e.ev = d.ev /\ e.msg = d.msg /\ e.left = OneLess(d.left)
  BY <1>6, TickEvents
<1>8. Base'
  <2>1. RoutingInv'
    BY <1>1, <1>2, RoutingStays DEF Base
  <2>2. ready' /\ net' = Built(T)'
    BY <1>1, <1>2, <1>3 DEF Base, ready
  <2> QED BY <1>1, <1>2, <1>3, <1>5, <1>7, <2>1, <2>2 DEF Base
<1>9. Fields'
  <2>1. ASSUME NEW m \in Messages, m <= requested PROVE Routed(m)'
    <3>1. Routed(m)
      BY <1>1, <2>1 DEF Fields
    <3> QED BY <1>2, <1>3, <3>1 DEF Routed
  <2> QED BY <1>1, <1>2, <2>1 DEF Fields
<1>10. Filled'
  <2>1. Loads' = Loads
    BY <1>2 DEF Loads
  <2>2. ASSUME NEW b \in Buffers PROVE Held(b)' /\ Counted(b)'
    <3>1. Held(b) /\ Counted(b)
      BY <1>1 DEF Filled
    <3>2. {m \in Messages : msg'[m].at = b} = {m \in Messages : msg[m].at = b}
      BY <1>2
    <3>3. Held(b)'
      BY <1>2, <3>1, <3>2 DEF Held
    <3>4. Counted(b)'
      BY <1>2, <2>1, <3>1 DEF Counted
    <3> QED BY <3>3, <3>4
  <2> QED BY <1>3, <2>2 DEF Filled
<1>11. Once'
  <2>1. \A x : InEvents(x)' = InEvents(x) /\ \A b \in Buffers : InWakeup(x, b)' = InWakeup(x, b)
    BY <1>2, <1>7 DEF InEvents, InWakeup
  <2>2. ASSUME NEW m \in Messages PROVE IF Live(m)' THEN Single(m)' ELSE Absent(m)'
    <3>1. Live(m)' <=> Live(m)
      BY <1>2 DEF Live
    <3>2. IF Live(m) THEN Single(m) ELSE Absent(m)
      BY <1>1 DEF Once
    <3>3. Single(m) => Single(m)'
      BY <1>3, <2>1 DEF Single
    <3>4. Absent(m) => Absent(m)'
      BY <1>3, <2>1 DEF Absent
    <3> QED BY <3>1, <3>2, <3>3, <3>4
  <2> QED BY <2>2 DEF Once
<1>12. AllSound'
  <2>1. ASSUME NEW e \in Elems(events') PROVE Sound(e)'
    <3>1. PICK d \in Elems(events) : d \in Waits /\ e.ev = d.ev /\ e.msg = d.msg /\ e.left = OneLess(d.left)
      BY <1>7
    <3>2. Sound(d) /\ d.msg \in Messages
      BY <1>1, <3>1, WaitsTimed DEF AllSound
    <3> QED BY <3>1, <3>2, TickSound
  <2>2. ASSUME NEW b \in Buffers, NEW e \in Elems(buf'[b].wakeup) PROVE Waiting(e, b)'
    <3>1. Waiting(e, b)
      BY <1>1, <1>2, <2>2 DEF AllSound
    <3>2. e \in Waits
      <4>1. buf[b].wakeup \in Seq(Waits) /\ e \in Elems(buf[b].wakeup)
        BY <1>1, <1>2, <2>2 DEF Base, Ports
      <4> QED BY <4>1, ElemsOf
    <3>3. e.msg \in Messages /\ e.left = OneLess(e.left) /\ Sound(e)
      BY <3>1, <3>2, WaitsTimed, Less DEF Waiting
    <3>4. Sound(e)'
      BY <3>2, <3>3, TickSound
    <3>5. Stuck(e.msg, b)'
      <4>1. PICK m \in Messages : m = e.msg
        BY <3>3
      <4>2. msg'[m].at = msg[m].at /\ msg'[m].size = msg[m].size /\ buf'[b].list = buf[b].list /\ buf'[b].count = buf[b].count
        BY <1>2
      <4>3. Stuck(m, b)
        BY <3>1, <4>1 DEF Waiting
      <4>4. Stuck(m, b)'
        BY <1>2, <4>2, <4>3 DEF Stuck, IsHead, Fits
      <4> QED BY <4>1, <4>4
    <3> QED BY <3>1, <3>4, <3>5 DEF Waiting
  <2> QED BY <1>3, <2>1, <2>2 DEF AllSound
<1> QED BY <1>8, <1>9, <1>10, <1>11, <1>12 DEF NetInv

LEMMA TickTransfer ==
  ASSUME NetInv, TransferInv, Tick
  PROVE  TransferInv'
<1>1. /\ UNCHANGED <<routing, net, last>>
      /\ \A m \in Messages : msg'[m].at = msg[m].at /\ msg'[m].busy = OneLess(msg[m].busy) /\ msg[m].busy \in Nat
      /\ \A b \in Buffers : buf[b].write \in Nat /\ buf'[b].write = OneLess(buf[b].write)
  BY TickFacts
<1>2. Buffers' = Buffers /\ Outs' = Outs /\ Links' = Links /\ T' = T /\ Chans' = Chans
  BY <1>1 DEF Buffers, Outs, Links, Chans, T, routing
<1>3. Carriers' = Carriers /\ \A c : Over(c)' = Over(c)
  BY <1>1, <1>2 DEF Carriers, Pick, Over
<1>4. chan' = [c \in DOMAIN chan |-> [chan[c] EXCEPT !.busy = OneLess(chan[c].busy), !.decided = FALSE]]
  BY Zenon DEF Tick
<1>5. chan \in [Chans -> Carriers] /\ last \in [net.buses -> Nat] /\ Taking /\ Written
  BY DEF TransferInv, Carrying
<1>6. ASSUME NEW c \in Chans
      PROVE  /\ chan'[c] \in Carriers /\ chan[c].busy \in Nat /\ chan'[c].busy = OneLess(chan[c].busy)
             /\ chan'[c].decided = FALSE
  <2>1. PICK x \in Carriers : x = chan[c]
    BY <1>5
  <2>2. PICK n : n = OneLess(x.busy)
    OBVIOUS
  <2>3. x.busy \in Nat /\ n \in Nat
    BY <2>2, Less DEF Carriers
  <2>4. PICK y : y = [x EXCEPT !.busy = n, !.decided = FALSE]
    OBVIOUS
  <2>5. chan'[c] = y
    BY <1>4, <1>5, <2>1, <2>2, <2>4, Zenon
  <2>6. y \in Carriers /\ y.busy = n /\ y.decided = FALSE
    BY <2>3, <2>4 DEF Carriers
  <2> QED BY <2>1, <2>2, <2>3, <2>5, <2>6
<1>7. Carrying'
  <2>1. chan' \in [Chans -> Carriers]
    BY <1>4, <1>5, <1>6, Zenon
  <2> QED BY <1>1, <1>2, <1>3, <1>5, <2>1 DEF Carrying
<1>8. \A u \in net.buses : ToSet(net.lanes[u]) \subseteq Chans
  BY DEF Chans
<1>9. Taking'
  <2>1. \A u \in net.buses : \A c \in ToSet(net.lanes[u]) : chan'[c].decided = FALSE
    BY <1>6, <1>8
  <2> QED BY <1>1, <2>1 DEF Taking
<1>10. ASSUME NEW m \in Messages, NEW S, MovingAt(m, S)' PROVE MovingAt(m, S)
  <2>1. msg'[m].at = msg[m].at /\ msg'[m].busy > 0 /\ msg'[m].busy = OneLess(msg[m].busy) /\ msg[m].busy \in Nat
    BY <1>1, <1>10 DEF MovingAt
  <2>2. msg[m].busy > 0
    BY <2>1, Less
  <2> QED BY <1>10, <2>1, <2>2 DEF MovingAt
<1>11. Written'
  <2>1. ASSUME NEW m \in Messages, msg'[m].at \in Buffers PROVE msg'[m].busy <= buf'[msg'[m].at].write
    <3>1. PICK b \in Buffers : b = msg[m].at
      BY <1>1, <2>1
    <3>2. msg[m].busy <= buf[b].write
      BY <1>5, <3>1 DEF Written
    <3>3. msg[m].busy \in Nat /\ buf[b].write \in Nat
      BY <1>1
    <3>4. OneLess(msg[m].busy) <= OneLess(buf[b].write)
      BY <3>2, <3>3, Less
    <3> QED BY <1>1, <3>1, <3>4
  <2>2. ASSUME NEW m \in Messages, NEW k \in Messages, MovingAt(m, Buffers)', MovingAt(k, Buffers)', msg'[m].at = msg'[k].at
        PROVE  m = k
    <3>1. MovingAt(m, Buffers) /\ MovingAt(k, Buffers)
      BY <1>2, <1>10, <2>2
    <3>2. msg[m].at = msg[k].at
      BY <1>1, <2>2
    <3> QED BY <1>5, <3>1, <3>2 DEF Written
  <2> QED BY <1>2, <2>1, <2>2 DEF Written
<1>12. \E f : Carries(f)'
  <2>1. PICK f : Carries(f)
    BY DEF TransferInv
  <2>2. f \in [Messages -> Chans \union {None}]
    BY <2>1 DEF Carries
  <2>3. ASSUME NEW m \in Messages, MovingAt(m, Buffers \ Outs)'
        PROVE  f[m] \in Chans /\ f[m] \in Over(msg'[m].at) /\ msg'[m].busy <= chan'[f[m]].busy
    <3>1. MovingAt(m, Buffers \ Outs)
      BY <1>2, <1>10, <2>3
    <3>2. f[m] \in Chans /\ f[m] \in Over(msg[m].at) /\ msg[m].busy <= chan[f[m]].busy
      BY <2>1, <3>1 DEF Carries
    <3>3. msg[m].busy \in Nat /\ chan[f[m]].busy \in Nat
      BY <1>1, <1>6, <3>2
    <3>4. OneLess(msg[m].busy) <= OneLess(chan[f[m]].busy)
      BY <3>2, <3>3, Less
    <3> QED BY <1>1, <1>6, <3>2, <3>4
  <2>4. ASSUME NEW m \in Messages, NEW k \in Messages,
               MovingAt(m, Buffers \ Outs)', MovingAt(k, Buffers \ Outs)', f[m] = f[k]
        PROVE  m = k
    <3>1. MovingAt(m, Buffers \ Outs) /\ MovingAt(k, Buffers \ Outs)
      BY <1>2, <1>10, <2>4
    <3> QED BY <2>1, <2>4, <3>1 DEF Carries
  <2>5. \A m \in Messages : MovingAt(m, Buffers \ Outs)' => f[m] \in Over(msg[m].at)'
    BY <1>2, <1>3, <2>3, Zenon DEF Over
  <2>6. Carries(f)'
    BY <1>2, <2>2, <2>3, <2>4, <2>5 DEF Carries
  <2> QED BY <2>6
<1> QED BY <1>7, <1>9, <1>11, <1>12 DEF TransferInv

-----------------------------------------------------------------------------
(* Before the network is there, and steps that change nothing.               *)

LEMMA QuietStep ==
  ASSUME NetInv, TransferInv, RoutingInv', UNCHANGED <<topology, net, requested, msg, sent, buf, chan, last, events>>,
         table' = table \/ requested = 0, ready => ready'
  PROVE  NetInv' /\ TransferInv'
<1>1. Base /\ Fields /\ Filled /\ Once /\ AllSound
  BY DEF NetInv
<1>2. Buffers' = Buffers /\ T' = T /\ Outs' = Outs /\ Links' = Links /\ Chans' = Chans /\ Loads' = Loads
  BY DEF Buffers, Outs, T, Links, Chans, Loads
<1>3. Pick' = Pick
  BY <1>2 DEF Pick
<1>4. Ports' = Ports /\ Moving' = Moving /\ Carriers' = Carriers
  BY <1>2, <1>3 DEF Ports, Moving, Carriers
<1>5. Base'
  BY <1>1, <1>2, <1>4 DEF Base
<1>6. Fields'
  <2>1. ASSUME NEW m \in Messages, m <= requested PROVE Routed(m)'
    <3>1. m >= 1 /\ requested \in Nat
      BY <1>1, NetworkAssumption DEF Messages, Base
    <3>2. table' = table
      BY <2>1, <3>1 DEF Messages
    <3>3. Routed(m)
      BY <1>1, <2>1 DEF Fields
    <3> QED BY <1>2, <3>2, <3>3 DEF Routed
  <2> QED BY <1>1, <2>1 DEF Fields
<1>7. Filled'
  <2>1. \A b \in Buffers : Held(b) /\ Counted(b)
    BY <1>1 DEF Filled
  <2>2. \A b \in Buffers : Held(b)' /\ Counted(b)'
    BY <1>2, <2>1 DEF Held, Counted
  <2> QED BY <1>2, <2>2 DEF Filled
<1>8. Once'
  BY <1>1, <1>2 DEF Once, Live, Single, Absent, InEvents, InWakeup
<1>9. AllSound'
  <2>1. \A e : Sound(e) => Sound(e)'
    BY <1>2 DEF Sound, IsHead, AtDestination
  <2>2. \A m, b : Stuck(m, b) => Stuck(m, b)'
    BY DEF Stuck, IsHead, Fits
  <2>3. \A e, b : Waiting(e, b) => Waiting(e, b)'
    BY <2>1, <2>2 DEF Waiting
  <2> QED BY <1>1, <1>2, <2>1, <2>3 DEF AllSound
<1>10. NetInv'
  BY <1>5, <1>6, <1>7, <1>8, <1>9 DEF NetInv
<1>11. /\ chan' \in [Chans -> Carriers] /\ last' \in [net.buses -> Nat]
       /\ \A c \in Chans : Decision(c, chan'[c])
  BY ChannelsSame
<1>12. Untimed
  <2>1. buf \in [Buffers -> Ports] /\ msg \in [Messages -> Moving] /\ NetOK
    BY <1>1, NetIsOK DEF Base, RoutingInv
  <2> QED BY <1>11, <2>1 DEF Untimed
<1>13. TransferInv'
  <2>1. \A m \in Messages : msg'[m].at \in Buffers => msg'[m].at = msg[m].at /\ msg'[m].busy = msg[m].busy
    OBVIOUS
  <2>2. \A b \in Buffers : buf'[b].read = buf[b].read /\ buf'[b].write = buf[b].write
    OBVIOUS
  <2> QED BY <1>11, <1>12, <2>1, <2>2, CalmStep
<1> QED BY <1>10, <1>13

LEMMA ConfigureKeeps ==
  ASSUME NetInv, TransferInv, Configure, UNCHANGED <<net, requested, msg, sent, buf, chan, last, events>>
  PROVE  NetInv' /\ TransferInv'
<1>1. topology' = topology /\ ~ready
  BY Zenon DEF Configure, FloydWarshall, ListRoutes, Start, ready
<1>2. RoutingInv'
  BY RoutingStep DEF NetInv, Base
<1>3. requested = 0
  BY <1>1 DEF NetInv, Base
<1> QED BY <1>1, <1>2, <1>3, QuietStep

LEMMA StutterKeeps ==
  ASSUME NetInv, TransferInv, UNCHANGED vars
  PROVE  NetInv' /\ TransferInv'
<1>1. UNCHANGED routing /\ UNCHANGED <<net, requested, msg, sent, buf, chan, last, events>>
  BY DEF vars
<1>2. topology' = topology /\ table' = table /\ (ready => ready')
  BY <1>1 DEF routing, ready
<1>3. RoutingInv'
  BY <1>1, RoutingStays DEF NetInv, Base
<1> QED BY <1>1, <1>2, <1>3, QuietStep

LEMMA InitKeeps ==
  ASSUME Init
  PROVE  NetInv /\ TransferInv
<1>1. InitRouting /\ net = Built(T) /\ requested = 0 /\ sent = <<>> /\ events = <<>>
  BY DEF Init
<1>2. /\ msg = [m \in Messages |-> [src |-> None, dst |-> None, size |-> 0, at |-> None, busy |-> 0]]
      /\ buf = [b \in Buffers |->
              [list |-> <<>>, count |-> 0, wakeup |-> <<>>, read |-> 0, write |-> 0, decided |-> FALSE, pick |-> None]]
      /\ chan = [c \in Chans |-> [busy |-> 0, decided |-> FALSE, pick |-> None]]
      /\ last = [u \in net.buses |-> 1]
  BY DEF Init, Chans
<1>3. RoutingInv /\ NetOK /\ ~ready
  <2>1. RoutingInv /\ phase = "table"
    BY <1>1, RoutingInit DEF InitRouting
  <2> QED BY <1>1, <2>1, NetIsOK DEF RoutingInv, ready
<1>4. Elems(<<>>) = {} /\ IsQueue(<<>>, Waits) /\ <<>> \in Seq(Messages) /\ <<>> \in Seq(Waits) /\ Distinct(<<>>)
  BY DEF Elems, IsQueue, Distinct
<1>5. ASSUME NEW m \in Messages
      PROVE  msg[m].at = None /\ msg[m].busy = 0 /\ msg[m].size = 0 /\ m > requested /\ ~(m <= requested) /\ msg[m] \in Moving
  <2>1. m \in Nat /\ m >= 1
    BY NetworkAssumption DEF Messages
  <2>2. msg[m] = [src |-> None, dst |-> None, size |-> 0, at |-> None, busy |-> 0]
    BY <1>2
  <2>3. msg[m] \in Moving
    BY <2>2 DEF Moving, Pick
  <2> QED BY <1>1, <2>1, <2>2, <2>3
<1>6. ASSUME NEW b \in Buffers
      PROVE  buf[b].list = <<>> /\ buf[b].count = 0 /\ buf[b].wakeup = <<>> /\ buf[b] \in Ports
  <2>1. buf[b] = [list |-> <<>>, count |-> 0, wakeup |-> <<>>, read |-> 0, write |-> 0, decided |-> FALSE, pick |-> None]
    BY <1>2
  <2>2. buf[b] \in Ports
    BY <1>4, <2>1 DEF Ports, Pick
  <2> QED BY <2>1, <2>2
<1>7. Base
  <2>1. msg \in [Messages -> Moving]
    BY <1>2, <1>5
  <2>2. buf \in [Buffers -> Ports]
    BY <1>2, <1>6
  <2>3. requested \in 0..MaxMessages
    BY <1>1, NetworkAssumption
  <2> QED BY <1>1, <1>3, <1>4, <2>1, <2>2, <2>3 DEF Base
<1>8. Fields
  BY <1>1, <1>4, <1>5 DEF Fields
<1>9. Filled
  <2> SUFFICES ASSUME NEW b \in Buffers PROVE Held(b) /\ Counted(b)
    BY DEF Filled
  <2>1. {m \in Messages : msg[m].at = b} = {}
    BY <1>3, <1>5 DEF NetOK
  <2>2. Held(b)
    BY <1>4, <1>6, <2>1 DEF Held
  <2>3. IsSum(<<>>, Loads, 0)
    BY SumOfNone
  <2>4. 0 <= net.size
    BY <1>3 DEF NetOK
  <2> QED BY <1>6, <2>2, <2>3, <2>4 DEF Counted
<1>10. Once
  <2>1. \A m \in Messages : ~Live(m)
    BY <1>5 DEF Live
  <2>2. \A m \in Messages : Absent(m)
    BY <1>1, <1>6, NoneOf DEF Absent, InEvents, InWakeup
  <2> QED BY <2>1, <2>2 DEF Once
<1>11. AllSound
  BY <1>1, <1>4, <1>6 DEF AllSound
<1>12. NetInv
  BY <1>7, <1>8, <1>9, <1>10, <1>11 DEF NetInv
<1>13. Carrying
  <2>1. [busy |-> 0, decided |-> FALSE, pick |-> None] \in Carriers
    BY DEF Carriers, Pick
  <2> QED BY <1>2, <2>1 DEF Carrying
<1>14. Taking
  <2>1. \A c \in Chans : chan[c].busy = 0
    BY <1>2
  <2>2. \A u \in net.buses : ToSet(net.lanes[u]) \subseteq Chans
    BY DEF Chans
  <2> QED BY <2>1, <2>2 DEF Taking
<1>15. Written
  BY <1>3, <1>5 DEF Written, MovingAt, NetOK
<1>16. Carries([m \in Messages |-> None])
  <2>1. \A m \in Messages : ~MovingAt(m, Buffers \ Outs)
    BY <1>3, <1>5 DEF MovingAt, NetOK
  <2> QED BY <2>1 DEF Carries
<1>17. TransferInv
  BY <1>13, <1>14, <1>15, <1>16 DEF TransferInv
<1> QED BY <1>12, <1>17

-----------------------------------------------------------------------------
(* The theorems.                                                            *)

LEMMA InvariantStep ==
  ASSUME NetInv, TransferInv, [Next]_vars
  PROVE  NetInv' /\ TransferInv'
<1>1. CASE Configure /\ UNCHANGED <<net, requested, msg, sent, buf, chan, last, events>>
  BY <1>1, ConfigureKeeps
<1>2. CASE Retry
  BY <1>2, RetryKeeps
<1>3. CASE NotHead("output") \/ NotHead("input")
  BY <1>3, NotHeadKeeps
<1>4. CASE OverLink
  BY <1>4, OverLinkKeeps
<1>5. CASE OverBus
  BY <1>5, OverBusKeeps
<1>6. CASE Arrive
  BY <1>6, ArriveKeeps
<1>7. CASE ThroughSwitch
  BY <1>7, ThroughSwitchKeeps
<1>8. CASE Receive \/ Return
  BY <1>8, ReceiveKeeps
<1>9. CASE Tick
  BY <1>9, TickNet, TickTransfer
<1>10. CASE \E p \in net.traffic, z \in Sizes : Request(p[1], p[2], z)
  <2>1. PICK p \in net.traffic, z \in Sizes : Request(p[1], p[2], z)
    BY <1>10
  <2> QED BY <2>1, RequestKeeps
<1>11. CASE UNCHANGED vars
  BY <1>11, StutterKeeps
<1> QED BY <1>1, <1>2, <1>3, <1>4, <1>5, <1>6, <1>7, <1>8, <1>9, <1>10, <1>11 DEF Next, Step

\* The inductive invariant: a message has its one event, in the list of pending events or in a
\* wakeup list where it has a reason to be, the buffers count what they hold, and each transfer
\* has its link or lane.
THEOREM Invariant == Spec => [](NetInv /\ TransferInv)
<1>1. Init => NetInv /\ TransferInv
  BY InitKeeps
<1>2. (NetInv /\ TransferInv) /\ [Next]_vars => (NetInv /\ TransferInv)'
  BY InvariantStep
<1> QED BY <1>1, <1>2, PTL DEF Spec

LEMMA TypeHolds ==
  ASSUME NetInv, TransferInv
  PROVE  TypeOK
<1>1. chan \in [Chans -> Carriers] /\ last \in [net.buses -> Nat]
  BY DEF TransferInv, Carrying
<1>2. chan \in [DOMAIN chan -> Carriers]
  BY <1>1
<1>3. /\ requested \in 0..MaxMessages /\ sent \in Seq(Messages) /\ events \in Seq(Waits)
      /\ msg \in [Messages -> Moving] /\ buf \in [Buffers -> Ports]
  BY DEF NetInv, Base, IsQueue
<1> QED BY <1>1, <1>2, <1>3 DEF TypeOK

\* All state of the network has its type: every pending or waiting event is one of a message, no
\* count or time left is negative, and a decision names a buffer or nothing.
THEOREM TypeCorrect == Spec => []TypeOK
<1>1. NetInv /\ TransferInv => TypeOK
  BY TypeHolds
<1> QED BY <1>1, Invariant, PTL

-----------------------------------------------------------------------------
\* The places of the events of m in a list.
LEMMA PlacesOf ==
  ASSUME NEW s \in Seq(Waits), NEW m
  PROVE  /\ {i \in DOMAIN s : s[i].msg = m} = Places(s, Of(m))
         /\ Count(s, Of(m)) = 0 => {i \in DOMAIN s : s[i].msg = m} = {}
         /\ Count(s, Of(m)) = 1 => \E i : {j \in DOMAIN s : s[j].msg = m} = {i}
<1>1. DOMAIN s = 1..Len(s) /\ \A i \in 1..Len(s) : s[i] \in Waits
  OBVIOUS
<1>2. {i \in DOMAIN s : s[i].msg = m} = Places(s, Of(m))
  BY <1>1 DEF Places, Of
<1>3. IsFiniteSet(Places(s, Of(m))) /\ Count(s, Of(m)) = Cardinality(Places(s, Of(m)))
  BY PlacesFinite DEF Count
<1>4. Count(s, Of(m)) = 0 => Places(s, Of(m)) = {}
  BY <1>3, FS_EmptySet
<1>5. Count(s, Of(m)) = 1 => \E i : Places(s, Of(m)) = {i}
  BY <1>3, FS_Singleton
<1> QED BY <1>2, <1>4, <1>5

LEMMA PendingIs ==
  ASSUME Base, NEW m
  PROVE  /\ Absent(m) => Pending(m) = {}
         /\ Single(m) => Cardinality(Pending(m)) = 1
<1> DEFINE E == {i \in DOMAIN events : events[i].msg = m}
           W(b) == {i \in DOMAIN buf[b].wakeup : buf[b].wakeup[i].msg = m}
<1>1. events \in Seq(Waits) /\ \A b \in Buffers : buf[b].wakeup \in Seq(Waits)
  BY DEF Base, IsQueue, Ports
<1>2. /\ InEvents(m) = 0 => E = {}
      /\ InEvents(m) = 1 => \E i : E = {i}
  BY <1>1, PlacesOf DEF InEvents
<1>3. \A b \in Buffers : /\ InWakeup(m, b) = 0 => W(b) = {}
                         /\ InWakeup(m, b) = 1 => \E i : W(b) = {i}
  BY <1>1, PlacesOf DEF InWakeup
<1>4. Pending(m) = {<<<<"events">>, i>> : i \in E} \union UNION {{<<b, i>> : i \in W(b)} : b \in Buffers}
  BY DEF Pending
<1> HIDE DEF E, W
<1>5. ASSUME \A b \in Buffers : W(b) = {} PROVE UNION {{<<b, i>> : i \in W(b)} : b \in Buffers} = {}
  BY <1>5
<1>6. ASSUME Absent(m) PROVE Pending(m) = {}
  <2>1. E = {} /\ \A b \in Buffers : W(b) = {}
    BY <1>2, <1>3, <1>6 DEF Absent
  <2> QED BY <1>4, <1>5, <2>1
<1>7. ASSUME InEvents(m) = 1, \A b \in Buffers : InWakeup(m, b) = 0 PROVE Cardinality(Pending(m)) = 1
  <2>1. \A b \in Buffers : W(b) = {}
    BY <1>3, <1>7
  <2>2. PICK i : E = {i}
    BY <1>2, <1>7
  <2>3. {<<<<"events">>, j>> : j \in E} = {<<<<"events">>, i>>}
    BY <2>2
  <2>4. Pending(m) = {<<<<"events">>, i>>}
    BY <1>4, <1>5, <2>1, <2>3
  <2> QED BY <2>4, FS_Singleton
<1>8. ASSUME InEvents(m) = 0, NEW b \in Buffers, InWakeup(m, b) = 1, \A c \in Buffers \ {b} : InWakeup(m, c) = 0
      PROVE  Cardinality(Pending(m)) = 1
  <2>1. \A c \in Buffers \ {b} : W(c) = {}
    BY <1>3, <1>8
  <2>2. PICK i : W(b) = {i}
    BY <1>3, <1>8
  <2>3. E = {}
    BY <1>2, <1>8
  <2>4. \A x : x \in UNION {{<<c, j>> : j \in W(c)} : c \in Buffers} <=> x = <<b, i>>
    BY <2>1, <2>2
  <2>5. {<<<<"events">>, j>> : j \in E} = {}
    BY <2>3
  <2>6. Pending(m) = {<<b, i>>}
    BY <1>4, <2>4, <2>5
  <2> QED BY <2>6, FS_Singleton
<1> QED BY <1>6, <1>7, <1>8 DEF Single

LEMMA ToSetIs == \A S : \A s \in Seq(S) : ToSet(s) = Elems(s)
BY DEF ToSet, Elems

LEMMA OneContinuationHolds ==
  ASSUME NetInv
  PROVE  OneContinuation
<1>1. Base /\ Fields /\ Once /\ sent \in Seq(Messages) /\ requested \in Nat /\ Messages = 1..MaxMessages /\ MaxMessages \in Nat
      /\ requested <= MaxMessages
  BY NetworkAssumption DEF NetInv, Base, Messages
<1>2. ToSet(sent) = Elems(sent)
  BY <1>1, ToSetIs
<1>3. ASSUME NEW m \in InFlight \union Wanted PROVE Cardinality(Pending(m)) = 1
  <2>1. m \in Messages /\ Live(m)
    <3>1. CASE m \in InFlight
      <4>1. m \in Messages /\ msg[m].at # None /\ m \in Nat
        BY <1>1, <3>1 DEF InFlight
      <4>2. m <= requested
        BY <1>1, <4>1 DEF Fields
      <4> QED BY <4>1, <4>2 DEF Live
    <3>2. CASE m \in Wanted
      <4>1. m \in 1..requested /\ m \notin Elems(sent)
        BY <1>2, <3>2 DEF Wanted
      <4> QED BY <1>1, <4>1 DEF Live
    <3> QED BY <3>1, <3>2
  <2>2. Single(m)
    BY <1>1, <2>1 DEF Once
  <2> QED BY <1>1, <2>2, PendingIs
<1>4. ASSUME NEW m \in Messages, Received(m) PROVE Pending(m) = {}
  <2>1. ~Live(m)
    BY <1>2, <1>4 DEF Received, Live
  <2>2. Absent(m)
    BY <1>1, <2>1 DEF Once
  <2> QED BY <1>1, <2>2, PendingIs
<1> QED BY <1>3, <1>4 DEF OneContinuation

\* A message on its way or still to be sent has exactly one event, pending or in one wakeup list,
\* and one that was received has none.
THEOREM Continuation == Spec => []OneContinuation
<1>1. NetInv /\ TransferInv => OneContinuation
  BY OneContinuationHolds
<1> QED BY <1>1, Invariant, PTL

LEMMA NoLostWakeupHolds ==
  ASSUME NetInv
  PROVE  NoLostWakeup
<1>1. ASSUME NEW b \in Buffers, NEW i \in DOMAIN buf[b].wakeup
      PROVE  Stuck(buf[b].wakeup[i].msg, b)
  <2>1. buf[b].wakeup \in Seq(Waits)
    BY DEF NetInv, Base, Ports
  <2>2. buf[b].wakeup[i] \in Elems(buf[b].wakeup)
    BY <2>1 DEF Elems
  <2> QED BY <2>2 DEF NetInv, AllSound, Waiting
<1> QED BY <1>1, Zenon DEF NoLostWakeup, Stuck

\* Who waits in the wakeup list of a buffer is not at its head, or does not fit in it: no
\* extraction has passed by without waking it.
THEOREM Wakeups == Spec => []NoLostWakeup
<1>1. NetInv /\ TransferInv => NoLostWakeup
  BY NoLostWakeupHolds
<1> QED BY <1>1, Invariant, PTL

-----------------------------------------------------------------------------
LEMMA CodeAssertionsHold ==
  ASSUME NetInv
  PROVE  CodeAssertions
<1>1. Base /\ Fields /\ Filled /\ AllSound /\ NetOK /\ None \notin Buffers
  BY NetIsOK DEF NetInv, Base, NetOK, RoutingInv
<1>2. ASSUME NEW m \in Messages, m <= requested PROVE msg[m].size \in Nat \ {0} /\ msg[m].size <= net.size
  <2>1. msg[m].size \in Sizes
    BY <1>1, <1>2 DEF Fields, Routed
  <2> QED BY <1>1, <2>1, NetworkAssumption DEF NetOK
<1>3. ASSUME NEW b \in Buffers
      PROVE  /\ \A m \in ToSet(buf[b].list) : m \in Messages /\ msg[m].at = b /\ msg[m].size <= buf[b].count
             /\ \A m \in Messages : msg[m].at = b => m \in ToSet(buf[b].list)
             /\ buf[b].count <= net.size /\ buf[b].count \in Nat
  <2>1. buf[b] \in Ports
    BY <1>1 DEF Base
  <2>2. buf[b].list \in Seq(Messages) /\ buf[b].count \in Nat
    BY <2>1, PortIs
  <2>3. ToSet(buf[b].list) = Elems(buf[b].list)
    BY <2>2, ToSetIs
  <2>4. Elems(buf[b].list) = {m \in Messages : msg[m].at = b} /\ IsSum(buf[b].list, Loads, buf[b].count) /\ buf[b].count <= net.size
    BY <1>1 DEF Filled, Held, Counted
  <2>5. Loads \in [Messages -> Nat] /\ \A m \in Messages : Loads[m] = msg[m].size
    <3>1. \A m \in Messages : msg[m] \in Moving
      BY <1>1 DEF Base
    <3>2. \A m \in Messages : msg[m].size \in Nat
      BY <3>1, MovingIs
    <3> QED BY <3>2 DEF Loads
  <2>6. \A m \in Elems(buf[b].list) : m \in Messages /\ Loads[m] <= buf[b].count
    BY <2>2, <2>4, <2>5, SumElem
  <2> QED BY <2>2, <2>3, <2>4, <2>5, <2>6
<1>4. ASSUME NEW b \in Buffers, buf[b].wakeup # <<>> PROVE buf[b].count > 0
  <2>1. buf[b].wakeup \in Seq(Waits)
    BY <1>1 DEF Base, Ports
  <2>2. PICK e : e = buf[b].wakeup[1]
    OBVIOUS
  <2>3. 1 \in 1..Len(buf[b].wakeup) /\ e \in Waits
    BY <1>4, <2>1, <2>2
  <2>4. e \in Elems(buf[b].wakeup)
    BY <2>2, <2>3 DEF Elems
  <2>5. PICK m : m = e.msg
    OBVIOUS
  <2>6. m \in Messages /\ m <= requested /\ Stuck(m, b)
    BY <1>1, <2>3, <2>4, <2>5, WaitsTimed DEF AllSound, Waiting, Sound
  <2>7. msg[m].size \in Nat \ {0} /\ msg[m].size <= net.size
    BY <1>2, <2>6
  <2>8. net.size \in Nat /\ buf[b].count \in Nat
    BY <1>1, <1>3 DEF NetOK
  <2>9. CASE msg[m].at = b
    <3>1. msg[m].size <= buf[b].count
      BY <1>3, <2>6, <2>9
    <3> QED BY <2>7, <2>8, <3>1
  <2>10. CASE msg[m].at # b
    <3>1. ~(buf[b].count + msg[m].size <= net.size)
      BY <2>6, <2>10 DEF Stuck, Fits
    <3> QED BY <2>7, <2>8, <3>1
  <2> QED BY <2>9, <2>10
<1>5. ASSUME NEW i \in DOMAIN events
      PROVE  LET e == events[i] IN
             /\ e.ev \in {"output", "input"} => e.msg \in InFlight /\ msg[e.msg].busy <= e.left
             /\ e.ev \in {"receive", "return"} => IsHead(e.msg) /\ AtDestination(e.msg)
  <2>1. events \in Seq(Waits)
    BY <1>1 DEF Base, IsQueue
  <2>2. PICK e : e = events[i]
    OBVIOUS
  <2>3. e \in Elems(events) /\ e \in Waits
    BY <2>1, <2>2 DEF Elems
  <2>4. Sound(e) /\ e.msg \in Messages
    BY <1>1, <2>3, WaitsTimed DEF AllSound
  <2> QED BY <2>2, <2>4 DEF Sound, InFlight
<1> QED BY <1>3, <1>4, <1>5 DEF CodeAssertions

\* The assertions of the handlers hold: a message is in the buffer it names and is counted there,
\* no buffer is filled beyond its size, nobody waits at an empty one, the last transfer of a message
\* is over when it goes on, and its receiver finds it at the head.
THEOREM Assertions == Spec => []CodeAssertions
<1>1. NetInv /\ TransferInv => CodeAssertions
  BY CodeAssertionsHold
<1> QED BY <1>1, Invariant, PTL

-----------------------------------------------------------------------------
LEMMA AtMostOne ==
  ASSUME NEW S, \A x, y \in S : x = y
  PROVE  Cardinality(S) <= 1
<1>1. CASE S = {}
  BY <1>1, FS_EmptySet
<1>2. CASE S # {}
  <2>1. PICK x : S = {x}
    BY <1>2
  <2> QED BY <2>1, FS_Singleton
<1> QED BY <1>1, <1>2

\* The lane numbers tell the messages on a bus apart.
HaveLanes(S, f, u, n) ==
  /\ \A m \in S : \E k \in 1..n : f[m] = <<"lane", u, k>>
  /\ \A m, k \in S : f[m] = f[k] => m = k

LEMMA OnLanes ==
  ASSUME NEW S, NEW f, NEW u, NEW n \in Nat, HaveLanes(S, f, u, n)
  PROVE  Cardinality(S) <= n
<1> DEFINE g == [m \in S |-> f[m][3]]
<1>1. ASSUME NEW m \in S PROVE f[m][3] \in 1..n /\ f[m] = <<"lane", u, f[m][3]>>
  <2>1. PICK k \in 1..n : f[m] = <<"lane", u, k>>
    BY DEF HaveLanes
  <2> QED BY <2>1
<1>2. g \in [S -> 1..n]
  BY <1>1
<1>3. \A m, k \in S : g[m] = g[k] => m = k
  <2> SUFFICES ASSUME NEW m \in S, NEW k \in S, g[m] = g[k] PROVE m = k
    OBVIOUS
  <2>1. f[m][3] = f[k][3]
    OBVIOUS
  <2>2. f[m] = f[k]
    BY <1>1, <2>1
  <2> QED BY <2>2 DEF HaveLanes
<1> HIDE DEF g
<1>4. g \in Injection(S, 1..n)
  BY <1>2, <1>3 DEF Injection, IsInjective
<1>5. IsFiniteSet(1..n) /\ Cardinality(1..n) = n
  BY FS_Interval
<1>6. Cardinality(S) <= Cardinality(1..n)
  BY <1>4, <1>5, FS_Injection
<1> QED BY <1>5, <1>6

LEMMA OneTransferHolds ==
  ASSUME NetInv, TransferInv
  PROVE  OneTransfer
<1>1. NetOK /\ Written /\ Outs \subseteq Buffers
  BY NetIsOK DEF NetInv, Base, NetOK, RoutingInv, TransferInv
<1>2. PICK f : Carries(f)
  BY DEF TransferInv
<1>3. ASSUME NEW b \in Outs, NEW m \in Messages, msg[m].at \in net.targets[b], msg[m].busy > 0
      PROVE  MovingAt(m, Buffers \ Outs) /\ f[m] \in Over(msg[m].at) /\ net.wire[b] = From(T, msg[m].at)
  <2>1. msg[m].at \in Buffers \ Outs /\ net.wire[b] = From(T, msg[m].at)
    BY <1>1, <1>3 DEF NetOK
  <2>2. MovingAt(m, Buffers \ Outs)
    BY <1>3, <2>1 DEF MovingAt
  <2> QED BY <1>2, <2>1, <2>2 DEF Carries
<1>4. \A m, k \in Messages : MovingAt(m, Buffers \ Outs) /\ MovingAt(k, Buffers \ Outs) /\ f[m] = f[k] => m = k
  BY <1>2 DEF Carries
<1>5. ASSUME NEW l \in Links
      PROVE  Cardinality(MovingTo(UNION {net.targets[b] : b \in ToSet(net.vcs[l])})) <= 1
  <2> DEFINE S == MovingTo(UNION {net.targets[b] : b \in ToSet(net.vcs[l])})
  <2>1. net.vcs[l] \in Seq(Outs)
    BY <1>1 DEF NetOK
  <2>2. ASSUME NEW m \in S PROVE m \in Messages /\ MovingAt(m, Buffers \ Outs) /\ f[m] = l
    <3>1. PICK b \in ToSet(net.vcs[l]) : msg[m].at \in net.targets[b]
      BY DEF MovingTo
    <3>2. m \in Messages /\ msg[m].busy > 0
      BY DEF MovingTo, InFlight
    <3>3. b \in Outs
      BY <2>1, <3>1, ToSetIs DEF Elems
    <3>4. net.wire[b] = l /\ l[1] = "link"
      BY <1>1, <3>1 DEF NetOK
    <3>5. MovingAt(m, Buffers \ Outs) /\ f[m] \in Over(msg[m].at) /\ l = From(T, msg[m].at)
      BY <1>3, <3>1, <3>2, <3>3, <3>4
    <3>6. Over(msg[m].at) = {l}
      BY <3>4, <3>5 DEF Over
    <3> QED BY <3>2, <3>5, <3>6
  <2>3. \A m, k \in S : m = k
    BY <1>4, <2>2
  <2> HIDE DEF S
  <2>4. Cardinality(S) <= 1
    BY <2>3, AtMostOne
  <2> QED BY <2>4 DEF S
<1>6. ASSUME NEW u \in net.buses
      PROVE  Cardinality(MovingTo(UNION {net.targets[b] : b \in ToSet(net.sources[u])})) <= Len(net.lanes[u])
  <2> DEFINE S == MovingTo(UNION {net.targets[b] : b \in ToSet(net.sources[u])})
  <2>1. net.sources[u] \in Seq(Outs) /\ net.lanes[u] \in Seq(Chans)
    BY <1>1 DEF NetOK
  <2>2. PICK n \in Nat : n = Len(net.lanes[u])
    BY <2>1
  <2>3. ToSet(net.lanes[u]) = {<<"lane", u, k>> : k \in 1..n}
    BY <1>1, <2>2 DEF NetOK
  <2>4. ASSUME NEW m \in S PROVE m \in Messages /\ MovingAt(m, Buffers \ Outs) /\ f[m] \in ToSet(net.lanes[u])
    <3>1. PICK b \in ToSet(net.sources[u]) : msg[m].at \in net.targets[b]
      BY DEF MovingTo
    <3>2. m \in Messages /\ msg[m].busy > 0
      BY DEF MovingTo, InFlight
    <3>3. b \in Outs
      BY <2>1, <3>1, ToSetIs DEF Elems
    <3>4. net.wire[b] = <<"bus", u>>
      BY <1>1, <3>1 DEF NetOK
    <3>5. MovingAt(m, Buffers \ Outs) /\ f[m] \in Over(msg[m].at) /\ From(T, msg[m].at) = <<"bus", u>>
      BY <1>3, <3>1, <3>2, <3>3, <3>4
    <3>6. Over(msg[m].at) = ToSet(net.lanes[u])
      BY <3>5 DEF Over
    <3> QED BY <3>2, <3>5, <3>6
  <2>5. \A m, k \in S : f[m] = f[k] => m = k
    BY <1>4, <2>4
  <2>6. \A m \in S : \E k \in 1..n : f[m] = <<"lane", u, k>>
    BY <2>3, <2>4
  <2> HIDE DEF S
  <2>7. HaveLanes(S, f, u, n)
    BY <2>5, <2>6 DEF HaveLanes
  <2>8. Cardinality(S) <= n
    BY <2>7, OnLanes
  <2> QED BY <2>2, <2>8 DEF S
<1>7. ASSUME NEW b \in Buffers PROVE Cardinality(MovingTo({b})) <= 1
  <2> DEFINE S == MovingTo({b})
  <2>1. \A m \in S : m \in Messages /\ msg[m].at = b /\ MovingAt(m, Buffers)
    BY <1>7 DEF MovingTo, InFlight, MovingAt
  <2>2. \A m, k \in S : m = k
    BY <1>1, <2>1 DEF Written
  <2> HIDE DEF S
  <2>3. Cardinality(S) <= 1
    BY <2>2, AtMostOne
  <2> QED BY <2>3 DEF S
<1> QED BY <1>5, <1>6, <1>7 DEF OneTransfer

\* No link carries two messages at a time, whatever its virtual channels, no bus more than it has
\* lanes, and to no buffer do two messages move.
THEOREM Transfers == Spec => []OneTransfer
<1>1. NetInv /\ TransferInv => OneTransfer
  BY OneTransferHolds
<1> QED BY <1>1, Invariant, PTL

LEMMA RoutesHold ==
  ASSUME NetInv
  PROVE  ShortestRoutes
<1>1. phase = "routed" /\ T.routes = <<>> => Shortest(T, table)
  BY DEF NetInv, Base, RoutingInv
<1> QED BY <1>1, Zenon DEF ShortestRoutes, Shortest

\* The routes that the Floyd-Warshall algorithm finds are shortest paths, and each entry's output
\* buffer reaches its next hop.
THEOREM Routes == Spec => []ShortestRoutes
<1>1. NetInv /\ TransferInv => ShortestRoutes
  BY RoutesHold
<1> QED BY <1>1, Invariant, PTL

-----------------------------------------------------------------------------
(* Ways.  f leads from a buffer to the next; where it leads out of its domain *)
(* the way ends.                                                            *)

ClosedUnder(f, S) == \A x \in S : f[x] \in DOMAIN f => f[x] \in S
Reach(f, b) == {x \in DOMAIN f : \A S \in SUBSET DOMAIN f : b \in S /\ ClosedUnder(f, S) => x \in S}

LEMMA ReachClosed ==
  ASSUME NEW f, NEW b \in DOMAIN f
  PROVE  /\ b \in Reach(f, b) /\ Reach(f, b) \subseteq DOMAIN f
         /\ \A x \in Reach(f, b) : f[x] \in DOMAIN f => f[x] \in Reach(f, b)
         /\ \A S \in SUBSET DOMAIN f : b \in S /\ ClosedUnder(f, S) => Reach(f, b) \subseteq S
<1>1. b \in Reach(f, b) /\ Reach(f, b) \subseteq DOMAIN f
  BY DEF Reach
<1>2. ASSUME NEW x \in Reach(f, b), f[x] \in DOMAIN f PROVE f[x] \in Reach(f, b)
  <2> SUFFICES ASSUME NEW S \in SUBSET DOMAIN f, b \in S, ClosedUnder(f, S) PROVE f[x] \in S
    BY <1>2 DEF Reach
  <2>1. x \in S
    BY DEF Reach
  <2> QED BY <1>2, <2>1 DEF ClosedUnder
<1>3. \A S \in SUBSET DOMAIN f : b \in S /\ ClosedUnder(f, S) => Reach(f, b) \subseteq S
  BY DEF Reach
<1> QED BY <1>1, <1>2, <1>3

LEMMA ReachSplit ==
  ASSUME NEW f, NEW b \in DOMAIN f
  PROVE  /\ f[b] \in DOMAIN f => Reach(f, b) = {b} \union Reach(f, f[b])
         /\ f[b] \notin DOMAIN f => Reach(f, b) = {b}
<1>1. ASSUME f[b] \in DOMAIN f PROVE Reach(f, b) = {b} \union Reach(f, f[b])
  <2> DEFINE c == f[b]
             S == {b} \union Reach(f, c)
  <2>1. c \in Reach(f, c) /\ Reach(f, c) \subseteq DOMAIN f /\ \A x \in Reach(f, c) : f[x] \in DOMAIN f => f[x] \in Reach(f, c)
    BY <1>1, ReachClosed
  <2>2. b \in S /\ S \in SUBSET DOMAIN f /\ ClosedUnder(f, S)
    BY <2>1 DEF ClosedUnder
  <2>3. Reach(f, b) \subseteq S
    <3> HIDE DEF S
    <3> QED BY <2>2, ReachClosed
  <2>4. b \in Reach(f, b) /\ Reach(f, b) \in SUBSET DOMAIN f /\ c \in Reach(f, b) /\ ClosedUnder(f, Reach(f, b))
    BY <1>1, ReachClosed DEF ClosedUnder
  <2>5. Reach(f, c) \subseteq Reach(f, b)
    <3> HIDE DEF c
    <3> QED BY <2>1, <2>4, ReachClosed
  <2> QED BY <2>3, <2>4, <2>5
<1>2. ASSUME f[b] \notin DOMAIN f PROVE Reach(f, b) = {b}
  <2>1. {b} \in SUBSET DOMAIN f /\ b \in {b} /\ ClosedUnder(f, {b})
    BY <1>2 DEF ClosedUnder
  <2>2. Reach(f, b) \subseteq {b}
    BY <2>1, ReachClosed
  <2> QED BY <2>2, ReachClosed
<1> QED BY <1>1, <1>2

\* Of two buffers on a way one is reached from the other.
LEMMA ReachLine ==
  ASSUME NEW f, NEW b \in DOMAIN f, NEW t \in Reach(f, b), NEW y \in Reach(f, b)
  PROVE  t \in Reach(f, y) \/ y \in Reach(f, t)
<1> DEFINE S == {z \in DOMAIN f : t \in Reach(f, z) \/ z \in Reach(f, t)}
<1>1. t \in DOMAIN f /\ y \in DOMAIN f
  BY ReachClosed
<1>2. ASSUME NEW z \in S, f[z] \in DOMAIN f PROVE f[z] \in S
  <2>1. CASE t \in Reach(f, z)
    <3>1. t = z \/ t \in Reach(f, f[z])
      BY <1>2, <2>1, ReachSplit
    <3>2. CASE t = z
      <4>1. f[z] \in Reach(f, t)
        BY <1>1, <1>2, <3>2, ReachClosed
      <4> QED BY <1>2, <4>1
    <3> QED BY <1>2, <3>1, <3>2
  <2>2. CASE z \in Reach(f, t)
    <3>1. f[z] \in Reach(f, t)
      BY <1>1, <1>2, <2>2, ReachClosed
    <3> QED BY <1>2, <3>1
  <2> QED BY <2>1, <2>2
<1>3. S \in SUBSET DOMAIN f /\ b \in S /\ ClosedUnder(f, S)
  BY <1>2 DEF ClosedUnder
<1>4. Reach(f, b) \subseteq S
  <2> HIDE DEF S
  <2> QED BY <1>3, ReachClosed
<1> QED BY <1>4

\* A way that ends does not come back.
LEMMA ReachOnce ==
  ASSUME NEW f, NEW b \in DOMAIN f, NEW t \in Reach(f, b), f[t] \notin DOMAIN f, NEW y \in Reach(f, b), f[y] \in DOMAIN f
  PROVE  y \notin Reach(f, f[y])
<1>1. SUFFICES ASSUME y \in Reach(f, f[y]) PROVE FALSE
  OBVIOUS
<1>2. y \in DOMAIN f /\ t \in DOMAIN f
  BY ReachClosed
<1>3. t \in Reach(f, y)
  <2>1. Reach(f, t) = {t}
    BY <1>2, ReachSplit
  <2>2. y \notin Reach(f, t)
    BY <2>1
  <2> QED BY <2>2, ReachLine
<1> DEFINE C == {z \in Reach(f, y) : f[z] \in DOMAIN f /\ y \in Reach(f, f[z])}
<1>4. ASSUME NEW z \in C, f[z] \in DOMAIN f PROVE f[z] \in C
  <2>1. z \in Reach(f, y) /\ y \in Reach(f, f[z])
    OBVIOUS
  <2>2. f[z] \in Reach(f, y)
    BY <1>2, <1>4, <2>1, ReachClosed
  <2>3. CASE y = f[z]
    BY <1>1, <2>2, <2>3
  <2>4. CASE y # f[z]
    <3> DEFINE w == f[z]
    <3>1. w \in DOMAIN f /\ y \in Reach(f, w) /\ y # w
      BY <1>4, <2>1, <2>4
    <3> HIDE DEF w
    <3>2. f[w] \in DOMAIN f /\ y \in Reach(f, f[w])
      BY <3>1, ReachSplit
    <3> QED BY <2>2, <3>2 DEF w
  <2> QED BY <2>3, <2>4
<1>5. C \in SUBSET DOMAIN f /\ y \in C /\ ClosedUnder(f, C)
  <2>1. y \in Reach(f, y) /\ Reach(f, y) \subseteq DOMAIN f
    BY <1>2, ReachClosed
  <2> QED BY <1>1, <1>4, <2>1 DEF ClosedUnder
<1>6. Reach(f, y) \subseteq C
  <2> HIDE DEF C
  <2> QED BY <1>2, <1>5, ReachClosed
<1>7. t \in C
  BY <1>3, <1>6
<1> QED BY <1>7

\* One that follows on an ended way does not catch up by moving, nor is it caught up.
LEMMA ReachBehind ==
  ASSUME NEW f, NEW z \in DOMAIN f, NEW x \in Reach(f, z), f[x] \in DOMAIN f,
         NEW t \in Reach(f, z), f[t] \notin DOMAIN f
  PROVE  f[x] # z
<1>1. SUFFICES ASSUME f[x] = z PROVE FALSE
  OBVIOUS
<1>2. z \in Reach(f, z)
  BY ReachClosed
<1>3. f[z] \in DOMAIN f
  <2>1. ASSUME f[z] \notin DOMAIN f PROVE FALSE
    <3>1. x = z
      BY <2>1, ReachSplit
    <3> QED BY <2>1, <3>1
  <2> QED BY <2>1
<1>4. z \in Reach(f, f[z])
  <2>1. x = z \/ x \in Reach(f, f[z])
    BY <1>3, ReachSplit
  <2>2. CASE x = z
    BY <1>1, <1>3, <2>2, ReachClosed
  <2>3. CASE x \in Reach(f, f[z])
    <3>1. PICK w \in DOMAIN f : w = f[z]
      BY <1>3
    <3>2. f[x] \in Reach(f, w)
      BY <2>3, <3>1, ReachClosed
    <3> QED BY <1>1, <3>1, <3>2
  <2> QED BY <2>1, <2>2, <2>3
<1> QED BY <1>2, <1>3, <1>4, ReachOnce

-----------------------------------------------------------------------------
\* m is before k in the list s.
Before(s, m, k) == \E i, j \in 1..Len(s) : i < j /\ s[i] = m /\ s[j] = k

LEMMA BeforeAppend ==
  ASSUME NEW M, NEW s \in Seq(M), NEW x \in M
  PROVE  /\ \A m, k : Before(s, m, k) => Before(Append(s, x), m, k)
         /\ \A m \in Elems(s) : Before(Append(s, x), m, x)
         /\ \A m, k : Before(Append(s, x), m, k) => Before(s, m, k) \/ (k = x /\ m \in Elems(s))
<1> DEFINE n == Len(s)
           r == Append(s, x)
<1>1. n \in Nat /\ Len(r) = n + 1 /\ r[n + 1] = x /\ \A i \in 1..n : r[i] = s[i]
  OBVIOUS
<1> HIDE DEF r, n
<1>2. \A i \in 1..n : i \in 1..(n + 1) /\ i < n + 1
  BY <1>1
<1>3. \A m, k : Before(s, m, k) => Before(r, m, k)
  BY <1>1, <1>2 DEF Before, n
<1>4. ASSUME NEW m \in Elems(s) PROVE Before(r, m, x)
  <2>1. PICK i \in 1..n : s[i] = m
    BY DEF Elems, n
  <2>2. i \in 1..Len(r) /\ n + 1 \in 1..Len(r) /\ i < n + 1 /\ r[i] = m /\ r[n + 1] = x
    BY <1>1, <1>2, <2>1
  <2> QED BY <2>2 DEF Before
<1>5. ASSUME NEW m, NEW k, Before(r, m, k) PROVE Before(s, m, k) \/ (k = x /\ m \in Elems(s))
  <2>1. PICK i, j \in 1..Len(r) : i < j /\ r[i] = m /\ r[j] = k
    BY <1>5 DEF Before
  <2>2. i \in 1..n /\ (j \in 1..n \/ j = n + 1)
    BY <1>1, <2>1
  <2>3. s[i] = m
    BY <1>1, <2>1, <2>2
  <2>4. CASE j \in 1..n
    BY <1>1, <2>1, <2>2, <2>3, <2>4 DEF Before, n
  <2>5. CASE j = n + 1
    BY <1>1, <2>1, <2>2, <2>3, <2>5 DEF Elems, n
  <2> QED BY <2>2, <2>4, <2>5
<1> QED BY <1>3, <1>4, <1>5 DEF r

LEMMA BeforeTail ==
  ASSUME NEW M, NEW s \in Seq(M), s # <<>>, NEW m, NEW k, Before(s, m, k), Distinct(s)
  PROVE  Head(s) # k /\ (Head(s) # m => Before(Tail(s), m, k))
<1> DEFINE n == Len(s)
           r == Tail(s)
<1>1. n \in Nat \ {0} /\ Head(s) = s[1] /\ Len(r) = n - 1 /\ \A i \in 1..(n - 1) : r[i] = s[i + 1]
  OBVIOUS
<1>2. PICK i, j \in 1..n : i < j /\ s[i] = m /\ s[j] = k
  BY DEF Before
<1> HIDE DEF r, n
<1>3. ASSUME Head(s) = k PROVE FALSE
  <2>1. 1 \in 1..n /\ s[1] = s[j]
    BY <1>1, <1>2, <1>3
  <2>2. j = 1
    BY <2>1 DEF Distinct, n
  <2> QED BY <1>1, <1>2, <2>2
<1>4. ASSUME Head(s) # m PROVE Before(r, m, k)
  <2>1. i # 1
    BY <1>1, <1>2, <1>4
  <2>2. i - 1 \in 1..(n - 1) /\ j - 1 \in 1..(n - 1) /\ i - 1 < j - 1 /\ (i - 1) + 1 = i /\ (j - 1) + 1 = j
    BY <1>1, <1>2, <2>1
  <2>3. r[i - 1] = m /\ r[j - 1] = k
    BY <1>1, <1>2, <2>2
  <2> QED BY <1>1, <2>2, <2>3 DEF Before
<1> QED BY <1>3, <1>4 DEF r

LEMMA BeforeDiffers ==
  ASSUME NEW s, NEW m, NEW k, Before(s, m, k), Distinct(s), Len(s) \in Nat
  PROVE  m \in Elems(s) /\ k \in Elems(s) /\ m # k
<1>1. PICK i, j \in 1..Len(s) : i < j /\ s[i] = m /\ s[j] = k
  BY DEF Before
<1>2. m \in Elems(s) /\ k \in Elems(s)
  BY <1>1 DEF Elems
<1>3. i # j
  BY <1>1
<1> QED BY <1>1, <1>2, <1>3 DEF Distinct

-----------------------------------------------------------------------------
(* The order of the messages.  A message that is in b and goes to d is taken  *)
(* there or goes on along its way, which depends on b and d alone.           *)

AtHome(d, b) == b \notin Outs /\ net.node[b] = d
Onto(b, d) ==
  IF b \notin Outs THEN table[net.node[b]][d].out
  ELSE IF net.wire[b][1] = "bus" THEN CHOOSE i \in net.targets[b] : net.node[i] = table[net.node[b]][d].next
  ELSE CHOOSE i \in net.targets[b] : TRUE
Along(d) == [b \in Buffers |-> IF AtHome(d, b) THEN None ELSE Onto(b, d)]

\* The way from z goes round a cycle of routes.
Endless(f, z) == \A t \in Reach(f, z) : f[t] \in DOMAIN f

\* m is ahead of k, unless they go round.
Trails(f, m, k) ==
  \/ Endless(f, msg[k].at)
  \/ /\ msg[m].at \in Reach(f, msg[k].at)
     /\ msg[m].at = msg[k].at => Before(buf[msg[k].at].list, m, k)

Started(m) == msg[m].at # None => msg[m].at \in Reach(Along(msg[m].dst), table[msg[m].src][msg[m].dst].out)
Alike(m, k) == msg[m].src = msg[k].src /\ msg[m].dst = msg[k].dst
Behind(m, k) ==
  /\ msg[k].at = None => msg[m].at = None
  /\ msg[k].at # None /\ msg[m].at # None => Trails(Along(msg[k].dst), m, k)

OrderInv ==
  /\ \A m \in Elems(sent) : Started(m)
  /\ \A m, k \in Elems(sent) : Before(sent, m, k) /\ Alike(m, k) => Behind(m, k)

\* What a step does to the messages that were sent: nothing, or one enters the network, goes
\* on, or is taken.
Trips == \A x \in Elems(sent) : msg'[x].src = msg[x].src /\ msg'[x].dst = msg[x].dst
OthersAt(m) == \A x \in Elems(sent) \ {m} : msg'[x].at = msg[x].at
Rests ==
  /\ sent' = sent
  /\ \A x \in Elems(sent) : msg'[x].at = msg[x].at
  /\ \A b \in Buffers : buf'[b].list = buf[b].list
Enters(m) ==
  /\ m \notin Elems(sent) /\ sent' = Append(sent, m) /\ OthersAt(m)
  /\ msg'[m].src \in Nodes(T) /\ msg'[m].dst \in Nodes(T)
  /\ msg'[m].at = table[msg'[m].src][msg'[m].dst].out /\ msg'[m].at \in Buffers
  /\ \A b \in Buffers : buf'[b].list = IF b = msg'[m].at THEN Append(buf[b].list, m) ELSE buf[b].list
Goes(m, c) ==
  /\ m \in Elems(sent) /\ sent' = sent /\ OthersAt(m)
  /\ msg[m].at \in Buffers \ {c} /\ IsHead(m) /\ msg'[m].at = c /\ c = Along(msg[m].dst)[msg[m].at]
  /\ \A b \in Buffers : buf'[b].list = IF b = msg[m].at THEN Tail(buf[b].list)
                                       ELSE IF b = c THEN Append(buf[b].list, m) ELSE buf[b].list
Leaves(m) ==
  /\ m \in Elems(sent) /\ sent' = sent /\ OthersAt(m)
  /\ msg[m].at \in Buffers /\ IsHead(m) /\ msg'[m].at = None /\ AtHome(msg[m].dst, msg[m].at)
  /\ \A b \in Buffers : buf'[b].list = IF b = msg[m].at THEN Tail(buf[b].list) ELSE buf[b].list
WayStep ==
  /\ UNCHANGED <<topology, net, table>> /\ Trips
  /\ \/ Rests
     \/ \E m \in Messages : Enters(m) \/ Leaves(m) \/ \E c \in Buffers : Goes(m, c)

LEMMA RestsStep ==
  ASSUME NetInv, UNCHANGED <<topology, net, table, sent>>, msg' = msg,
         \A b \in Buffers : buf'[b].list = buf[b].list
  PROVE  WayStep
BY DEF WayStep, Trips, Rests

LEMMA EntersStep ==
  ASSUME NetInv, UNCHANGED <<routing, net>>, NEW m \in Messages, m \notin Elems(sent), NEW es,
         NEW r \in Moving, r.src \in Nodes(T), r.dst \in Nodes(T),
         NEW o \in Buffers, o = table[r.src][r.dst].out, TrySend(m, r, es)
  PROVE  WayStep
<1>1. buf \in [Buffers -> Ports] /\ msg \in [Messages -> Moving] /\ Elems(sent) \subseteq Messages
  <2>1. sent \in Seq(Messages)
    BY DEF NetInv, Base
  <2> QED BY <2>1 DEF NetInv, Base, Elems
<1>2. buf[o] \in Ports /\ UNCHANGED <<topology, net, table>>
  BY <1>1 DEF routing
<1>3. \/ /\ buf' = buf \/ buf' = [buf EXCEPT ![o].wakeup = Append(@, Event("try", m, 0))]
         /\ msg' = [msg EXCEPT ![m] = r] /\ sent' = sent
      \/ /\ buf' = [buf EXCEPT ![o].list = Enqueued(o, m), ![o].count = @ + r.size, ![o].write = 1]
         /\ msg' = [msg EXCEPT ![m] = [r EXCEPT !.at = o, !.busy = 1]]
         /\ sent' = Append(sent, m)
  BY Zenon DEF TrySend
<1>4. \A x \in Elems(sent) : x \in Messages \ {m}
  BY <1>1
<1>5. CASE /\ buf' = buf \/ buf' = [buf EXCEPT ![o].wakeup = Append(@, Event("try", m, 0))]
           /\ msg' = [msg EXCEPT ![m] = r] /\ sent' = sent
  <2>1. \A x \in Elems(sent) : msg'[x] = msg[x]
    BY <1>1, <1>4, <1>5, Zenon
  <2>2. ASSUME NEW b \in Buffers PROVE buf'[b].list = buf[b].list
    <3>1. CASE buf' = buf
      BY <3>1
    <3>2. CASE buf' = [buf EXCEPT ![o].wakeup = Append(@, Event("try", m, 0))]
      <4>1. CASE b = o
        <5>1. buf'[b] = [buf[b] EXCEPT !.wakeup = Append(buf[b].wakeup, Event("try", m, 0))]
          BY <1>1, <3>2, <4>1, Zenon
        <5> QED BY <1>2, <4>1, <5>1, Zenon DEF Ports
      <4>2. CASE b # o
        BY <1>1, <3>2, <4>2, Zenon
      <4> QED BY <4>1, <4>2
    <3> QED BY <1>5, <3>1, <3>2, Zenon
  <2> QED BY <1>2, <1>5, <2>1, <2>2, Zenon DEF WayStep, Trips, Rests
<1>6. CASE /\ buf' = [buf EXCEPT ![o].list = Enqueued(o, m), ![o].count = @ + r.size, ![o].write = 1]
           /\ msg' = [msg EXCEPT ![m] = [r EXCEPT !.at = o, !.busy = 1]]
           /\ sent' = Append(sent, m)
  <2>1. /\ buf'[o] = [buf[o] EXCEPT !.list = Enqueued(o, m), !.count = buf[o].count + r.size, !.write = 1]
        /\ \A b \in Buffers \ {o} : buf'[b] = buf[b]
    BY <1>1, <1>6, Zenon
  <2>2. buf'[o].list = Append(buf[o].list, m)
    BY <1>2, <2>1, Zenon DEF Ports, Enqueued
  <2>3. msg'[m] = [r EXCEPT !.at = o, !.busy = 1] /\ \A x \in Messages \ {m} : msg'[x] = msg[x]
    BY <1>1, <1>6, Zenon
  <2>4. msg'[m].at = o /\ msg'[m].src = r.src /\ msg'[m].dst = r.dst
    BY <2>3 DEF Moving
  <2>5. \A x \in Elems(sent) : msg'[x] = msg[x]
    BY <1>4, <2>3
  <2>6. \A b \in Buffers : buf'[b].list = IF b = msg'[m].at THEN Append(buf[b].list, m) ELSE buf[b].list
    BY <2>1, <2>2, <2>4, Zenon
  <2>7. Enters(m)
    BY <1>6, <2>4, <2>5, <2>6, Zenon DEF Enters, OthersAt
  <2> QED BY <1>2, <2>5, <2>7 DEF WayStep, Trips
<1> QED BY <1>3, <1>5, <1>6, Zenon

LEMMA GoesStep ==
  ASSUME NetInv, UNCHANGED <<routing, net, sent>>, NEW m \in Elems(sent), IsHead(m),
         NEW b \in Buffers, b = msg[m].at, NEW c \in Buffers \ {b}, c = Along(msg[m].dst)[b],
         NEW bs \in [Buffers -> Ports], \A x \in Buffers : bs[x].list = buf[x].list,
         NEW lat, NEW ev, Transfer(bs, m, b, c, lat, ev)
  PROVE  WayStep
<1>1. msg \in [Messages -> Moving] /\ Elems(sent) \subseteq Messages /\ m \in Messages
  <2>1. sent \in Seq(Messages)
    BY DEF NetInv, Base
  <2> QED BY <2>1 DEF NetInv, Base, Elems
<1>2. /\ buf' = [bs EXCEPT ![b].list = Tail(@), ![b].count = @ - msg[m].size,
                           ![b].wakeup = Kept(b), ![b].read = lat,
                           ![c].list = Enqueued(c, m), ![c].count = @ + msg[m].size, ![c].write = lat]
      /\ msg' = [msg EXCEPT ![m].at = c, ![m].busy = lat]
  BY Zenon DEF Transfer
<1>3. /\ buf'[b] = [bs[b] EXCEPT !.list = Tail(@), !.count = @ - msg[m].size, !.wakeup = Kept(b), !.read = lat]
      /\ buf'[c] = [bs[c] EXCEPT !.list = Enqueued(c, m), !.count = @ + msg[m].size, !.write = lat]
      /\ \A x \in Buffers \ {b, c} : buf'[x] = bs[x]
  BY <1>2, Zenon
<1>4. bs[b] \in Ports /\ bs[c] \in Ports /\ msg[m] \in Moving
  BY <1>1
<1>5. buf'[b].list = Tail(buf[b].list)
  BY <1>3, <1>4 DEF Ports
<1>6. buf'[c].list = Append(buf[c].list, m)
  BY <1>3, <1>4, Zenon DEF Ports, Enqueued
<1>7. msg'[m] = [msg[m] EXCEPT !.at = c, !.busy = lat] /\ \A x \in Messages \ {m} : msg'[x] = msg[x]
  BY <1>1, <1>2, Zenon
<1>8. msg'[m].at = c /\ msg'[m].src = msg[m].src /\ msg'[m].dst = msg[m].dst
  BY <1>4, <1>7 DEF Moving
<1>9. \A x \in Elems(sent) \ {m} : msg'[x] = msg[x]
  BY <1>1, <1>7
<1>10. \A x \in Buffers : buf'[x].list = IF x = b THEN Tail(buf[x].list)
                                        ELSE IF x = c THEN Append(buf[x].list, m) ELSE buf[x].list
  <2>1. \A x \in Buffers \ {b, c} : buf'[x].list = buf[x].list
    BY <1>3
  <2> QED BY <1>5, <1>6, <2>1, Zenon
<1>11. Goes(m, c)
  BY <1>8, <1>9, <1>10 DEF Goes, OthersAt
<1>12. Trips
  BY <1>8, <1>9 DEF Trips
<1> QED BY <1>1, <1>11, <1>12 DEF WayStep, routing

LEMMA WaitLists ==
  ASSUME NetInv, NEW c, WaitOn(c), NEW b \in Buffers
  PROVE  buf'[b].list = buf[b].list
<1>1. buf \in [Buffers -> Ports] /\ buf' = [buf EXCEPT ![c].wakeup = Append(@, Head(events))]
  BY DEF NetInv, Base, WaitOn
<1>2. CASE b = c
  <2>1. buf'[b] = [buf[b] EXCEPT !.wakeup = Append(buf[b].wakeup, Head(events))]
    BY <1>1, <1>2
  <2>2. buf[b] \in Ports
    BY <1>1
  <2> QED BY <2>1, <2>2 DEF Ports
<1>3. CASE b # c
  BY <1>1, <1>3
<1> QED BY <1>2, <1>3

LEMMA RequestWay ==
  ASSUME NetInv, NEW p \in net.traffic, NEW z \in Sizes, Request(p[1], p[2], z)
  PROVE  WayStep
<1>1. PICK m : m = requested + 1
  OBVIOUS
<1>2. PICK r : r = [src |-> p[1], dst |-> p[2], size |-> z, at |-> None, busy |-> 0]
  OBVIOUS
<1>3. /\ m \in Messages /\ table[p[1]][p[2]].out # None
      /\ TrySend(m, r, events) /\ UNCHANGED <<routing, net>>
  BY <1>1, <1>2 DEF Request
<1>4. Base /\ Fields /\ NetOK /\ OwnOuts(T, table) /\ requested \in Nat
  BY NetIsOK, NetworkAssumption DEF NetInv, Base, RoutingInv
<1>5. p[1] \in Nodes(T) /\ p[2] \in Nodes(T) /\ Outs = Outputs(T) /\ Outs \subseteq Buffers
  BY <1>4 DEF NetOK
<1>6. r \in Moving /\ r.src = p[1] /\ r.dst = p[2]
  BY <1>2, <1>5 DEF Moving, Pick
<1>7. PICK o : o = table[p[1]][p[2]].out
  OBVIOUS
<1>8. o \in Buffers
  BY <1>3, <1>4, <1>5, <1>7 DEF OwnOuts, OutOf
<1>9. m \notin Elems(sent)
  <2>1. m > requested
    BY <1>1, <1>4
  <2> QED BY <1>3, <1>4, <2>1 DEF Fields
<1>10. o = table[r.src][r.dst].out
  BY <1>6, <1>7
<1> QED BY <1>3, <1>5, <1>6, <1>8, <1>9, <1>10, EntersStep

LEMMA RetryWay ==
  ASSUME NetInv, Retry
  PROVE  WayStep
<1>1. PICK m : m = Current
  OBVIOUS
<1>2. PICK r : r = msg[m]
  OBVIOUS
<1>3. PICK es : es = Tail(events)
  OBVIOUS
<1>4. IsDue(events) /\ Head(events).ev = "try" /\ TrySend(m, r, es) /\ UNCHANGED <<routing, net>>
  BY <1>1, <1>2, <1>3 DEF Retry, Handles
<1>5. m \in Messages /\ r \in Moving /\ Routed(m) /\ Sound(Head(events)) /\ Head(events).msg = m
  BY <1>1, <1>2, <1>4, HeadFacts
<1>6. m \notin Elems(sent)
  BY <1>4, <1>5 DEF Sound
<1>7. r.src \in Nodes(T) /\ r.dst \in Nodes(T) /\ table[r.src][r.dst].out \in OutOf(T, r.src)
  BY <1>2, <1>5 DEF Routed
<1>8. PICK o : o = table[r.src][r.dst].out
  OBVIOUS
<1>9. o \in Buffers
  BY <1>7, <1>8, NetIsOK DEF OutOf, NetInv, Base, RoutingInv, NetOK
<1> QED BY <1>4, <1>5, <1>6, <1>7, <1>8, <1>9, EntersStep

LEMMA NotHeadWay ==
  ASSUME NetInv, NEW ev, NotHead(ev)
  PROVE  WayStep
<1>1. WaitOn(msg[Current].at) /\ UNCHANGED <<topology, net, table, sent>> /\ msg' = msg
  BY DEF NotHead, routing
<1>2. \A b \in Buffers : buf'[b].list = buf[b].list
  BY <1>1, WaitLists
<1> QED BY <1>1, <1>2, RestsStep

LEMMA LinkWay ==
  ASSUME NetInv, OverLink
  PROVE  WayStep
<1>1. PICK m : m = Current
  OBVIOUS
<1>2. PICK b : b = msg[m].at
  OBVIOUS
<1>3. PICK c : c = CHOOSE i \in net.targets[b] : TRUE
  OBVIOUS
<1>4. PICK lat : lat = Latency(msg[m].size, net.speed[net.wire[b]])
  OBVIOUS
<1>5. /\ Handles("output") /\ IsHead(m) /\ net.wire[b][1] = "link"
      /\ UNCHANGED <<routing, net, requested, sent, last>>
      /\ \/ UNCHANGED <<buf, msg>>
         \/ WaitOn(c) /\ UNCHANGED msg
         \/ Transfer(buf, m, b, c, lat, "input")
  BY <1>1, <1>2, <1>3, <1>4, Zenon DEF OverLink
<1>6. IsDue(events) /\ Head(events).ev = "output" /\ UNCHANGED <<topology, table>>
  BY <1>5 DEF Handles, routing
<1>7. m \in Messages /\ b \in Outs /\ NetOK /\ buf \in [Buffers -> Ports] /\ m \in Elems(sent)
  <2>1. m \in Messages /\ Sound(Head(events)) /\ Head(events).msg = m /\ m \in Elems(sent)
    BY <1>1, <1>6, HeadFacts
  <2>2. b \in Outs
    BY <1>2, <1>6, <2>1 DEF Sound
  <2> QED BY <2>1, <2>2, NetIsOK DEF NetInv, Base, RoutingInv
<1>8. b \in Buffers /\ c \in Buffers \ {b}
  <2>1. net.targets[b] # {} /\ net.targets[b] \subseteq Buffers \ Outs /\ Outs \subseteq Buffers
    BY <1>5, <1>7 DEF NetOK
  <2>2. c \in net.targets[b]
    BY <1>3, <2>1
  <2> QED BY <1>7, <2>1, <2>2
<1>9. c = Along(msg[m].dst)[b]
  BY <1>3, <1>5, <1>7, <1>8 DEF Along, AtHome, Onto
<1>10. CASE UNCHANGED <<buf, msg>>
  BY <1>5, <1>6, <1>10, RestsStep
<1>11. CASE WaitOn(c) /\ UNCHANGED msg
  <2>1. \A x \in Buffers : buf'[x].list = buf[x].list
    BY <1>11, WaitLists
  <2> QED BY <1>5, <1>6, <1>11, <2>1, RestsStep
<1>12. CASE Transfer(buf, m, b, c, lat, "input")
  <2>1. \A x \in Buffers : buf[x].list = buf[x].list
    OBVIOUS
  <2> QED BY <1>2, <1>5, <1>7, <1>8, <1>9, <1>12, <2>1, GoesStep
<1> QED BY <1>5, <1>10, <1>11, <1>12

LEMMA BusWay ==
  ASSUME NetInv, OverBus
  PROVE  WayStep
<1>1. PICK m : m = Current
  OBVIOUS
<1>2. PICK b : b = msg[m].at
  OBVIOUS
<1>3. PICK d : d = msg[m].dst
  OBVIOUS
<1>4. PICK c : c = CHOOSE i \in net.targets[b] : net.node[i] = table[net.node[b]][d].next
  OBVIOUS
<1>5. PICK lat : lat = Latency(msg[m].size, net.speed[Arbitration(net.wire[b][2], b).lane])
  OBVIOUS
<1>6. PICK busy : busy = IF buf[b].read > 0 THEN buf[b].read ELSE buf[c].write
  OBVIOUS
<1>7. /\ Handles("output") /\ IsHead(m) /\ net.wire[b][1] = "bus"
      /\ buf[b].read > 0 \/ \E i \in net.targets[b] : net.node[i] = table[net.node[b]][d].next
      /\ UNCHANGED <<routing, net, requested, sent>>
      /\ \/ UNCHANGED <<buf, msg>>
         \/ WaitOn(c) /\ UNCHANGED msg
         \/ busy = 0 /\ Transfer(buf, m, b, c, lat, "input")
  BY <1>1, <1>2, <1>3, <1>4, <1>5, <1>6, Zenon DEF OverBus
<1>8. IsDue(events) /\ Head(events).ev = "output" /\ UNCHANGED <<topology, table>>
  BY <1>7 DEF Handles, routing
<1>9. m \in Messages /\ b \in Outs /\ NetOK /\ buf \in [Buffers -> Ports] /\ m \in Elems(sent) /\ b \in Buffers
  <2>1. m \in Messages /\ Sound(Head(events)) /\ Head(events).msg = m /\ m \in Elems(sent)
    BY <1>1, <1>8, HeadFacts
  <2>2. b \in Outs
    BY <1>2, <1>8, <2>1 DEF Sound
  <2>3. NetOK /\ buf \in [Buffers -> Ports]
    BY NetIsOK DEF NetInv, Base, RoutingInv
  <2>4. b \in Buffers
    BY <2>2, <2>3 DEF NetOK
  <2> QED BY <2>1, <2>2, <2>3, <2>4
<1>10. CASE UNCHANGED <<buf, msg>>
  BY <1>7, <1>8, <1>10, RestsStep
<1>11. CASE WaitOn(c) /\ UNCHANGED msg
  <2>1. \A x \in Buffers : buf'[x].list = buf[x].list
    BY <1>11, WaitLists
  <2> QED BY <1>7, <1>8, <1>11, <2>1, RestsStep
<1>12. CASE busy = 0 /\ Transfer(buf, m, b, c, lat, "input")
  <2>1. buf[b] \in Ports
    BY <1>9
  <2>2. buf[b].read = 0
    BY <1>6, <1>12, <2>1, PortIs
  <2>3. c \in net.targets[b] /\ net.targets[b] \subseteq Buffers \ Outs
    BY <1>4, <1>7, <1>9, <2>2 DEF NetOK
  <2>4. c \in Buffers \ {b}
    BY <1>9, <2>3
  <2>5. c = Along(d)[b]
    BY <1>4, <1>7, <1>9 DEF Along, AtHome, Onto
  <2>6. \A x \in Buffers : buf[x].list = buf[x].list
    OBVIOUS
  <2>7. c = Along(msg[m].dst)[b]
    BY <1>3, <2>5
  <2> QED BY <1>2, <1>7, <1>9, <1>12, <2>4, <2>6, <2>7, GoesStep
<1> QED BY <1>7, <1>10, <1>11, <1>12

LEMMA SwitchWay ==
  ASSUME NetInv, ThroughSwitch
  PROVE  WayStep
<1>1. PICK m : m = Current
  OBVIOUS
<1>2. PICK b : b = msg[m].at
  OBVIOUS
<1>3. PICK o : o = table[net.node[b]][msg[m].dst].out
  OBVIOUS
<1>4. PICK busy : busy = IF buf[b].read > 0 THEN buf[b].read ELSE buf[o].write
  OBVIOUS
<1>5. PICK pick : pick = SwitchPick(o)
  OBVIOUS
<1>6. PICK lat : lat = Latency(msg[m].size, net.switch[net.node[b]])
  OBVIOUS
<1>7. PICK dec : dec = [buf EXCEPT ![o].decided = TRUE, ![o].pick = pick]
  OBVIOUS
<1>8. /\ Handles("input") /\ IsHead(m) /\ ~AtDestination(m) /\ (buf[b].read > 0 \/ o # None)
      /\ UNCHANGED <<routing, net, requested, sent, chan, last>>
      /\ \/ UNCHANGED <<msg, buf>>
         \/ WaitOn(o) /\ UNCHANGED msg
         \/ busy = 0 /\ buf' = dec /\ UNCHANGED msg
         \/ busy = 0 /\ Transfer(dec, m, b, o, lat, "output")
  BY <1>1, <1>2, <1>3, <1>4, <1>5, <1>6, <1>7, Zenon DEF ThroughSwitch
<1>9. IsDue(events) /\ Head(events).ev = "input" /\ UNCHANGED <<topology, table>>
  BY <1>8 DEF Handles, routing
<1>10. /\ m \in Messages /\ Routed(m) /\ b \in Buffers \ Outs /\ NetOK /\ buf \in [Buffers -> Ports] /\ m \in Elems(sent)
       /\ topology \in DOMAIN Topologies /\ OwnOuts(T, table)
  <2>1. m \in Messages /\ Routed(m) /\ Sound(Head(events)) /\ Head(events).msg = m /\ m \in Elems(sent)
    BY <1>1, <1>9, HeadFacts
  <2>2. b \in Buffers \ Outs
    BY <1>2, <1>9, <2>1 DEF Sound
  <2> QED BY <2>1, <2>2, NetIsOK DEF NetInv, Base, RoutingInv
<1>11. ASSUME busy = 0
       PROVE  o \in Buffers \ {b} /\ dec \in [Buffers -> Ports] /\ \A x \in Buffers : dec[x].list = buf[x].list
  <2>1. buf[b] \in Ports
    BY <1>10
  <2>2. buf[b].read = 0
    BY <1>4, <1>11, <2>1, PortIs
  <2>3. net.node[b] \in Nodes(T) /\ msg[m].dst \in Nodes(T) /\ o # None
    BY <1>8, <1>10, <2>2, <2>1, PortIs, NodesOf DEF Routed
  <2>4. o \in Outs
    BY <1>3, <1>10, <2>3 DEF OwnOuts, OutOf, NetOK
  <2>5. o \in Buffers \ {b}
    BY <1>10, <2>4 DEF NetOK
  <2>6. pick \in Pick /\ buf[o] \in Ports
    BY <1>5, <1>10, <2>5, SwitchPickIs
  <2> DEFINE x == [buf[o] EXCEPT !.decided = TRUE, !.pick = pick]
  <2>7. x \in Ports /\ x.list = buf[o].list
    BY <2>6 DEF Ports
  <2>8. dec = [buf EXCEPT ![o] = x]
    BY <1>7, <1>10, <2>5
  <2> HIDE DEF x
  <2>9. dec \in [Buffers -> Ports] /\ dec[o] = x /\ \A y \in Buffers \ {o} : dec[y] = buf[y]
    BY <1>10, <2>5, <2>7, <2>8
  <2> QED BY <2>5, <2>7, <2>9
<1>12. CASE UNCHANGED <<msg, buf>>
  BY <1>8, <1>9, <1>12, RestsStep
<1>13. CASE WaitOn(o) /\ UNCHANGED msg
  <2>1. \A x \in Buffers : buf'[x].list = buf[x].list
    BY <1>13, WaitLists
  <2> QED BY <1>8, <1>9, <1>13, <2>1, RestsStep
<1>14. CASE busy = 0 /\ buf' = dec /\ UNCHANGED msg
  <2>1. \A x \in Buffers : buf'[x].list = buf[x].list
    BY <1>11, <1>14
  <2> QED BY <1>8, <1>9, <1>14, <2>1, RestsStep
<1>15. CASE busy = 0 /\ Transfer(dec, m, b, o, lat, "output")
  <2>1. o = Along(msg[m].dst)[b]
    BY <1>2, <1>3, <1>8, <1>10, Zenon DEF Along, AtHome, Onto, AtDestination
  <2> QED BY <1>2, <1>8, <1>10, <1>11, <1>15, <2>1, GoesStep, Zenon
<1> QED BY <1>8, <1>12, <1>13, <1>14, <1>15

LEMMA AbsorbWay ==
  ASSUME NetInv, IsDue(events), Head(events).ev \in {"receive", "return"}, Absorbed(Current, Tail(events))
  PROVE  WayStep
<1>1. PICK m : m = Current
  OBVIOUS
<1>2. PICK b : b = msg[m].at
  OBVIOUS
<1>3. /\ buf' = [buf EXCEPT ![b].list = Tail(@), ![b].count = @ - msg[m].size, ![b].wakeup = Kept(b)]
      /\ msg' = [msg EXCEPT ![m].at = None]
      /\ UNCHANGED <<routing, net, sent>>
  BY <1>1, <1>2, Zenon DEF Absorbed
<1>4. /\ m \in Messages /\ b \in Buffers \ Outs /\ buf[b] \in Ports /\ msg[m] \in Moving /\ m \in Elems(sent)
      /\ IsHead(m) /\ AtDestination(m)
  <2>1. /\ m \in Messages /\ b \in Buffers /\ buf[b] \in Ports /\ msg[m] \in Moving /\ m \in Elems(sent)
        /\ Sound(Head(events)) /\ Head(events).msg = m
    BY <1>1, <1>2, HeadFacts
  <2> QED BY <1>2, <2>1 DEF Sound
<1>5. buf \in [Buffers -> Ports] /\ msg \in [Messages -> Moving] /\ Elems(sent) \subseteq Messages
  <2>1. sent \in Seq(Messages)
    BY DEF NetInv, Base
  <2> QED BY <2>1 DEF NetInv, Base, Elems
<1>6. /\ buf'[b] = [buf[b] EXCEPT !.list = Tail(@), !.count = @ - msg[m].size, !.wakeup = Kept(b)]
      /\ \A x \in Buffers \ {b} : buf'[x] = buf[x]
      /\ msg'[m] = [msg[m] EXCEPT !.at = None] /\ \A x \in Messages \ {m} : msg'[x] = msg[x]
  BY <1>3, <1>4, <1>5
<1>7. buf'[b].list = Tail(buf[b].list)
  BY <1>4, <1>6 DEF Ports
<1>8. msg'[m].at = None /\ msg'[m].src = msg[m].src /\ msg'[m].dst = msg[m].dst
  BY <1>4, <1>6 DEF Moving
<1>9. \A x \in Elems(sent) \ {m} : msg'[x] = msg[x]
  BY <1>5, <1>6
<1>10. AtHome(msg[m].dst, b)
  BY <1>2, <1>4 DEF AtHome, AtDestination
<1>11. \A x \in Buffers : buf'[x].list = IF x = b THEN Tail(buf[x].list) ELSE buf[x].list
  BY <1>6, <1>7
<1>12. Leaves(m)
  BY <1>2, <1>3, <1>4, <1>8, <1>9, <1>10, <1>11 DEF Leaves, OthersAt
<1>13. Trips
  BY <1>8, <1>9 DEF Trips
<1> QED BY <1>3, <1>4, <1>12, <1>13 DEF WayStep, routing

LEMMA TickWay ==
  ASSUME NetInv, Tick
  PROVE  WayStep
<1>1. /\ msg' = [m \in Messages |-> [msg[m] EXCEPT !.busy = OneLess(@)]]
      /\ buf' = [b \in DOMAIN buf |-> [buf[b] EXCEPT !.read = OneLess(@), !.write = OneLess(@), !.decided = FALSE]]
      /\ UNCHANGED <<topology, table, net, sent>>
  BY Zenon DEF Tick, routing
<1>2. buf \in [Buffers -> Ports] /\ msg \in [Messages -> Moving] /\ Elems(sent) \subseteq Messages
  <2>1. sent \in Seq(Messages)
    BY DEF NetInv, Base
  <2> QED BY <2>1 DEF NetInv, Base, Elems
<1>3. ASSUME NEW m \in Messages
      PROVE  msg'[m].at = msg[m].at /\ msg'[m].src = msg[m].src /\ msg'[m].dst = msg[m].dst
  <2>1. msg[m] \in Moving /\ msg'[m] = [msg[m] EXCEPT !.busy = OneLess(@)]
    BY <1>1, <1>2, Zenon
  <2> QED BY <2>1 DEF Moving
<1>4. ASSUME NEW b \in Buffers PROVE buf'[b].list = buf[b].list
  <2>1. buf[b] \in Ports /\ buf'[b] = [buf[b] EXCEPT !.read = OneLess(@), !.write = OneLess(@), !.decided = FALSE]
    BY <1>1, <1>2, Zenon
  <2> QED BY <2>1 DEF Ports
<1>5. Rests /\ Trips
  BY <1>1, <1>2, <1>3, <1>4, Zenon DEF Rests, Trips
<1> QED BY <1>1, <1>5, Zenon DEF WayStep

\* Every step, but those that set up the routes, before any message is sent.
LEMMA WayStepHolds ==
  ASSUME NetInv, [Next]_vars
  PROVE  WayStep \/ (sent = <<>> /\ sent' = <<>>)
<1>1. CASE Configure /\ UNCHANGED <<net, requested, msg, sent, buf, chan, last, events>>
  <2>1. requested = 0
    BY <1>1, Zenon DEF Configure, FloydWarshall, ListRoutes, Start, ready, NetInv, Base
  <2>2. ASSUME NEW m \in Messages PROVE m \notin Elems(sent)
    <3>1. m > requested
      BY <2>1, NetworkAssumption DEF Messages
    <3> QED BY <3>1 DEF NetInv, Fields
  <2>3. sent \in Seq(Messages)
    BY DEF NetInv, Base
  <2>4. sent = <<>>
    <3>1. Len(sent) \in Nat /\ (sent # <<>> => 1 \in 1..Len(sent) /\ sent[1] \in Messages)
      BY <2>3
    <3> QED BY <2>2, <3>1 DEF Elems
  <2> QED BY <1>1, <2>4
<1>2. CASE Retry
  BY <1>2, RetryWay
<1>3. CASE NotHead("output") \/ NotHead("input")
  BY <1>3, NotHeadWay
<1>4. CASE OverLink
  BY <1>4, LinkWay
<1>5. CASE OverBus
  BY <1>5, BusWay
<1>6. CASE Arrive
  <2>1. UNCHANGED <<topology, net, table, sent, msg, buf>>
    BY <1>6 DEF Arrive, routing
  <2> QED BY <2>1, RestsStep
<1>7. CASE ThroughSwitch
  BY <1>7, SwitchWay
<1>8. CASE Receive \/ Return
  <2>1. IsDue(events) /\ Head(events).ev \in {"receive", "return"}
    BY <1>8 DEF Receive, Return, Handles
  <2>2. CASE Absorbed(Current, Tail(events))
    BY <2>1, <2>2, AbsorbWay
  <2>3. CASE ~Absorbed(Current, Tail(events))
    <3>1. UNCHANGED <<topology, net, table, sent, msg, buf>>
      BY <1>8, <2>3 DEF Receive, Return, routing
    <3> QED BY <3>1, RestsStep
  <2> QED BY <2>2, <2>3
<1>9. CASE Tick
  BY <1>9, TickWay
<1>10. CASE \E p \in net.traffic, z \in Sizes : Request(p[1], p[2], z)
  <2>1. PICK p \in net.traffic, z \in Sizes : Request(p[1], p[2], z)
    BY <1>10
  <2> QED BY <2>1, RequestWay
<1>11. CASE UNCHANGED vars
  <2>1. UNCHANGED <<topology, net, table, sent, msg, buf>>
    BY <1>11 DEF vars, routing
  <2> QED BY <2>1, RestsStep
<1> QED BY <1>1, <1>2, <1>3, <1>4, <1>5, <1>6, <1>7, <1>8, <1>9, <1>10, <1>11 DEF Next, Step

\* What is known of the messages and lists.
LEMMA Parts ==
  ASSUME NetInv
  PROVE  /\ Distinct(sent) /\ Len(sent) \in Nat /\ sent \in Seq(Messages) /\ Elems(sent) \subseteq Messages
         /\ NetOK /\ None \notin Buffers
         /\ \A b \in Buffers : /\ buf[b].list \in Seq(Messages) /\ Distinct(buf[b].list)
                               /\ Elems(buf[b].list) = {m \in Messages : msg[m].at = b}
         /\ \A m \in Messages : msg[m].at # None => msg[m].at \in Buffers
         /\ \A m \in Elems(sent) : table[msg[m].src][msg[m].dst].out \in Buffers
<1>1. Base /\ Fields /\ Filled /\ NetOK
  BY NetIsOK DEF NetInv, Base, RoutingInv
<1>2. sent \in Seq(Messages) /\ Len(sent) \in Nat /\ Elems(sent) \subseteq Messages
  <2>1. sent \in Seq(Messages)
    BY <1>1 DEF Base
  <2> QED BY <2>1 DEF Elems
<1>3. None \notin Buffers /\ Outs = Outputs(T) /\ Outs \subseteq Buffers
  BY <1>1 DEF NetOK
<1>4. ASSUME NEW b \in Buffers
      PROVE  /\ buf[b].list \in Seq(Messages) /\ Distinct(buf[b].list)
             /\ Elems(buf[b].list) = {m \in Messages : msg[m].at = b}
  <2>1. buf[b] \in Ports /\ Held(b)
    BY <1>1 DEF Base, Filled
  <2> QED BY <2>1, PortIs DEF Held
<1>5. ASSUME NEW m \in Messages PROVE msg[m].at # None => msg[m].at \in Buffers
  <2>1. msg[m] \in Moving
    BY <1>1 DEF Base
  <2> QED BY <2>1 DEF Moving, Pick
<1>6. ASSUME NEW m \in Elems(sent) PROVE table[msg[m].src][msg[m].dst].out \in Buffers
  <2>1. m \in Messages /\ m \in Nat /\ requested \in Nat
    BY <1>1, <1>2, NetworkAssumption DEF Messages, Base
  <2>2. Routed(m)
    BY <1>1, <2>1 DEF Fields
  <2> QED BY <1>3, <2>2 DEF Routed, OutOf
<1> QED BY <1>1, <1>2, <1>3, <1>4, <1>5, <1>6 DEF Fields

-----------------------------------------------------------------------------
(* Every step keeps the messages in their order.                            *)

LEMMA AlongSame ==
  ASSUME UNCHANGED <<net, table>>, NEW k, msg'[k].dst = msg[k].dst
  PROVE  Along(msg[k].dst)' = Along(msg[k].dst)
BY DEF Along, AtHome, Onto, Buffers, Outs

LEMMA BehindNow ==
  ASSUME NEW m, NEW k, NEW f, f = Along(msg[k].dst), NEW x, x = msg[m].at, NEW z, z = msg[k].at, Behind(m, k)
  PROVE  /\ z = None => x = None
         /\ z # None /\ x # None => Endless(f, z) \/ (x \in Reach(f, z) /\ (x = z => Before(buf[z].list, m, k)))
BY DEF Behind, Trails

LEMMA BehindNext ==
  ASSUME NEW m, NEW k, NEW f, f = Along(msg[k].dst)', NEW x, x = msg'[m].at, NEW z, z = msg'[k].at,
         z = None => x = None,
         z # None /\ x # None => Endless(f, z) \/ (x \in Reach(f, z) /\ (x = z => Before(buf'[z].list, m, k)))
  PROVE  Behind(m, k)'
BY DEF Behind, Trails

\* In a list the step does not change the order of the other messages.
LEMMA ListKeeps ==
  ASSUME NetInv, NEW m \in Messages, NEW k1, NEW k2, k1 # m, NEW z \in Buffers, Before(buf[z].list, k1, k2),
         NEW new, \/ new = buf[z].list
                  \/ new = Tail(buf[z].list) /\ buf[z].list # <<>> /\ Head(buf[z].list) = m
                  \/ new = Append(buf[z].list, m)
  PROVE  Before(new, k1, k2)
<1>1. buf[z].list \in Seq(Messages) /\ Distinct(buf[z].list)
  BY Parts
<1>2. CASE new = buf[z].list
  BY <1>2
<1>3. CASE new = Tail(buf[z].list) /\ buf[z].list # <<>> /\ Head(buf[z].list) = m
  BY <1>1, <1>3, BeforeTail
<1>4. CASE new = Append(buf[z].list, m)
  BY <1>1, <1>4, BeforeAppend
<1> QED BY <1>2, <1>3, <1>4

\* The order and the ways of two messages that both stay where they are.
LEMMA BothStay ==
  ASSUME NetInv, UNCHANGED <<topology, net, table>>, NEW m \in Messages, NEW k1 \in Elems(sent), NEW k2 \in Elems(sent),
         msg'[k1].at = msg[k1].at, msg'[k2].at = msg[k2].at, msg'[k2].dst = msg[k2].dst, k1 # m,
         \A b \in Buffers : \/ buf'[b].list = buf[b].list
                            \/ buf'[b].list = Tail(buf[b].list) /\ buf[b].list # <<>> /\ Head(buf[b].list) = m
                            \/ buf'[b].list = Append(buf[b].list, m),
         Behind(k1, k2)
  PROVE  Behind(k1, k2)'
<1>1. PICK f : f = Along(msg[k2].dst)
  OBVIOUS
<1>2. PICK x : x = msg[k1].at
  OBVIOUS
<1>3. PICK z : z = msg[k2].at
  OBVIOUS
<1>4. f = Along(msg[k2].dst)'
  BY <1>1, AlongSame
<1>5. /\ z = None => x = None
      /\ z # None /\ x # None => Endless(f, z) \/ (x \in Reach(f, z) /\ (x = z => Before(buf[z].list, k1, k2)))
  BY <1>1, <1>2, <1>3, BehindNow
<1>6. ASSUME z # None, Before(buf[z].list, k1, k2) PROVE Before(buf'[z].list, k1, k2)
  <2>1. z \in Buffers
    BY <1>3, <1>6, Parts
  <2>2. PICK new : new = buf'[z].list
    OBVIOUS
  <2>3. \/ new = buf[z].list
        \/ new = Tail(buf[z].list) /\ buf[z].list # <<>> /\ Head(buf[z].list) = m
        \/ new = Append(buf[z].list, m)
    BY <2>1, <2>2
  <2>4. Before(new, k1, k2)
    BY <1>6, <2>1, <2>3, ListKeeps
  <2> QED BY <2>2, <2>4
<1>7. z # None /\ x # None => Endless(f, z) \/ (x \in Reach(f, z) /\ (x = z => Before(buf'[z].list, k1, k2)))
  BY <1>5, <1>6
<1>8. x = msg'[k1].at /\ z = msg'[k2].at
  BY <1>2, <1>3
<1> QED BY <1>4, <1>5, <1>7, <1>8, BehindNext

LEMMA StartedSame ==
  ASSUME UNCHANGED <<net, table>>, NEW m, Started(m), msg'[m].at = msg[m].at,
         msg'[m].src = msg[m].src, msg'[m].dst = msg[m].dst
  PROVE  Started(m)'
<1>1. Along(msg[m].dst)' = Along(msg[m].dst)
  BY AlongSame
<1> QED BY <1>1 DEF Started

LEMMA RestsOrder ==
  ASSUME NetInv, OrderInv, UNCHANGED <<topology, net, table>>, Trips, Rests
  PROVE  OrderInv'
<1>1. ASSUME NEW m \in Elems(sent) PROVE Started(m)'
  BY StartedSame DEF OrderInv, Trips, Rests
<1>2. ASSUME NEW k1 \in Elems(sent), NEW k2 \in Elems(sent), Before(sent, k1, k2), Alike(k1, k2)'
      PROVE  Behind(k1, k2)'
  <2>1. Behind(k1, k2)
    BY <1>2 DEF OrderInv, Trips, Alike
  <2>2. PICK f : f = Along(msg[k2].dst)
    OBVIOUS
  <2>3. PICK x : x = msg[k1].at
    OBVIOUS
  <2>4. PICK z : z = msg[k2].at
    OBVIOUS
  <2>5. f = Along(msg[k2].dst)'
    BY <2>2, AlongSame DEF Trips
  <2>6. /\ z = None => x = None
        /\ z # None /\ x # None => Endless(f, z) \/ (x \in Reach(f, z) /\ (x = z => Before(buf[z].list, k1, k2)))
    BY <2>1, <2>2, <2>3, <2>4, BehindNow
  <2>7. z # None => buf'[z].list = buf[z].list
    BY <2>4, Parts DEF Rests
  <2>8. z # None /\ x # None => Endless(f, z) \/ (x \in Reach(f, z) /\ (x = z => Before(buf'[z].list, k1, k2)))
    BY <2>6, <2>7
  <2>9. x = msg'[k1].at /\ z = msg'[k2].at
    BY <2>3, <2>4 DEF Rests
  <2> QED BY <2>5, <2>6, <2>8, <2>9, BehindNext
<1>3. sent' = sent
  BY DEF Rests
<1> QED BY <1>1, <1>2, <1>3 DEF OrderInv

LEMMA EntersOrder ==
  ASSUME NetInv, OrderInv, UNCHANGED <<topology, net, table>>, Trips, NEW m \in Messages, Enters(m)
  PROVE  OrderInv'
<1>1. PICK o : o = msg'[m].at
  OBVIOUS
<1>2. /\ m \notin Elems(sent) /\ sent' = Append(sent, m) /\ \A x \in Elems(sent) \ {m} : msg'[x].at = msg[x].at
      /\ o = table[msg'[m].src][msg'[m].dst].out /\ o \in Buffers
      /\ \A b \in Buffers : buf'[b].list = IF b = o THEN Append(buf[b].list, m) ELSE buf[b].list
  BY <1>1 DEF Enters, OthersAt
<1>3. /\ sent \in Seq(Messages) /\ Distinct(sent) /\ Len(sent) \in Nat /\ Elems(sent) \subseteq Messages /\ None \notin Buffers
      /\ \A b \in Buffers : buf[b].list \in Seq(Messages) /\ Elems(buf[b].list) = {k \in Messages : msg[k].at = b}
  BY Parts
<1>4. Elems(sent') = Elems(sent) \union {m}
  BY <1>2, <1>3, AppendDistinct
<1>5. ASSUME NEW k \in Elems(sent)
      PROVE  k # m /\ msg'[k].at = msg[k].at /\ msg'[k].src = msg[k].src /\ msg'[k].dst = msg[k].dst
  BY <1>2 DEF Trips
<1>6. ASSUME NEW k \in Elems(sent) PROVE Started(k)'
  <2>1. Started(k)
    BY DEF OrderInv
  <2> QED BY <1>5, <2>1, StartedSame
<1>7. Started(m)'
  <2>1. PICK f : f = Along(msg[m].dst)'
    OBVIOUS
  <2>2. DOMAIN f = Buffers
    BY <2>1 DEF Along, Buffers
  <2>3. o \in Reach(f, o)
    BY <1>2, <2>2, ReachClosed
  <2> QED BY <1>1, <1>2, <2>1, <2>3 DEF Started
<1>8. \A b \in Buffers : \/ buf'[b].list = buf[b].list
                         \/ buf'[b].list = Tail(buf[b].list) /\ buf[b].list # <<>> /\ Head(buf[b].list) = m
                         \/ buf'[b].list = Append(buf[b].list, m)
  BY <1>2
<1>9. ASSUME NEW k1 \in Elems(sent'), NEW k2 \in Elems(sent'), Before(sent', k1, k2), Alike(k1, k2)'
      PROVE  Behind(k1, k2)'
  <2>1. CASE Before(sent, k1, k2)
    <3>1. k1 \in Elems(sent) /\ k2 \in Elems(sent)
      BY <1>3, <2>1, BeforeDiffers
    <3>2. Alike(k1, k2)
      BY <1>5, <1>9, <3>1 DEF Alike
    <3>3. Behind(k1, k2)
      BY <2>1, <3>1, <3>2 DEF OrderInv
    <3> QED BY <1>5, <1>8, <3>1, <3>3, BothStay
  <2>2. CASE k2 = m /\ k1 \in Elems(sent)
    <3>1. PICK f : f = Along(msg[k2].dst)'
      OBVIOUS
    <3>2. PICK x : x = msg'[k1].at
      OBVIOUS
    <3>3. x = msg[k1].at
      BY <1>5, <2>2, <3>2
    <3>4. ASSUME x # None PROVE x \in Reach(f, o) /\ (x = o => Before(buf'[o].list, k1, k2))
      <4>1. Started(k1)
        BY <2>2 DEF OrderInv
      <4>2. x \in Reach(Along(msg[k1].dst), table[msg[k1].src][msg[k1].dst].out)
        BY <3>3, <3>4, <4>1 DEF Started
      <4>3. msg[k1].src = msg'[m].src /\ msg[k1].dst = msg'[m].dst
        BY <1>5, <1>9, <2>2 DEF Alike
      <4>4. table[msg[k1].src][msg[k1].dst].out = o
        BY <1>2, <4>3
      <4>5. Along(msg[k1].dst) = f
        <5>1. PICK d : d = msg[k1].dst
          OBVIOUS
        <5>2. msg'[k2].dst = d
          BY <2>2, <4>3, <5>1
        <5>3. f = Along(d)
          BY <3>1, <5>2 DEF Along, AtHome, Onto, Buffers, Outs
        <5> QED BY <5>1, <5>3
      <4>6. ASSUME x = o PROVE Before(buf'[o].list, k1, m)
        <5>1. k1 \in Elems(buf[o].list) /\ buf[o].list \in Seq(Messages)
          BY <1>2, <1>3, <2>2, <3>3, <4>6
        <5>2. Before(Append(buf[o].list, m), k1, m)
          BY <5>1, BeforeAppend
        <5> QED BY <1>2, <5>2, Zenon
      <4> QED BY <2>2, <4>2, <4>4, <4>5, <4>6
    <3>5. o # None /\ o = msg'[k2].at
      BY <1>1, <1>2, <1>3, <2>2
    <3> QED BY <3>1, <3>2, <3>4, <3>5, BehindNext
  <2>3. Before(sent, k1, k2) \/ (k2 = m /\ k1 \in Elems(sent))
    BY <1>2, <1>3, <1>9, BeforeAppend
  <2> QED BY <2>1, <2>2, <2>3
<1> QED BY <1>4, <1>6, <1>7, <1>9 DEF OrderInv

LEMMA GoesOrder ==
  ASSUME NetInv, OrderInv, UNCHANGED <<topology, net, table>>, Trips, NEW m \in Messages, NEW c \in Buffers, Goes(m, c)
  PROVE  OrderInv'
<1>1. PICK b : b = msg[m].at
  OBVIOUS
<1>2. PICK g : g = Along(msg[m].dst)
  OBVIOUS
<1>3. /\ m \in Elems(sent) /\ sent' = sent /\ \A x \in Elems(sent) \ {m} : msg'[x].at = msg[x].at
      /\ b \in Buffers \ {c} /\ IsHead(m) /\ msg'[m].at = c /\ c = g[b]
      /\ \A x \in Buffers : buf'[x].list = IF x = b THEN Tail(buf[x].list)
                                           ELSE IF x = c THEN Append(buf[x].list, m) ELSE buf[x].list
  BY <1>1, <1>2 DEF Goes, OthersAt
<1>4. /\ Distinct(sent) /\ Len(sent) \in Nat /\ None \notin Buffers
      /\ \A x \in Buffers : /\ buf[x].list \in Seq(Messages) /\ Distinct(buf[x].list)
                            /\ Elems(buf[x].list) = {k \in Messages : msg[k].at = x}
      /\ Elems(sent) \subseteq Messages
  BY Parts
<1>5. buf[b].list # <<>> /\ Head(buf[b].list) = m
  BY <1>1, <1>3 DEF IsHead
<1>6. \A k \in Elems(sent) : msg'[k].src = msg[k].src /\ msg'[k].dst = msg[k].dst
  BY DEF Trips
<1>7. DOMAIN g = Buffers
  BY <1>2 DEF Along
<1>8. ASSUME NEW k \in Elems(sent) PROVE Started(k)'
  <2>1. Started(k)
    BY DEF OrderInv
  <2>2. CASE k # m
    BY <1>3, <1>6, <2>1, <2>2, StartedSame
  <2>3. CASE k = m
    <3>1. PICK o : o = table[msg[m].src][msg[m].dst].out
      OBVIOUS
    <3>2. b \in Reach(g, o) /\ o \in Buffers
      BY <1>1, <1>2, <1>3, <1>4, <2>1, <2>3, <3>1, Parts DEF Started
    <3>3. c \in Reach(g, o)
      BY <1>3, <1>7, <3>2, ReachClosed
    <3>4. g = Along(msg[m].dst)'
      BY <1>2, <1>3, <1>6, AlongSame
    <3>5. o = table'[msg'[m].src][msg'[m].dst].out
      BY <1>3, <1>6, <3>1
    <3> QED BY <1>3, <2>3, <3>3, <3>4, <3>5 DEF Started
  <2> QED BY <2>2, <2>3
<1>9. ASSUME NEW k1 \in Elems(sent), NEW k2 \in Elems(sent), Before(sent, k1, k2), Alike(k1, k2)'
      PROVE  Behind(k1, k2)'
  <2>1. k1 # k2
    BY <1>4, <1>9, BeforeDiffers
  <2>2. Alike(k1, k2)
    BY <1>6, <1>9 DEF Alike
  <2>3. Behind(k1, k2)
    BY <1>9, <2>2 DEF OrderInv
  <2>4. PICK f : f = Along(msg[k2].dst)
    OBVIOUS
  <2>5. PICK x : x = msg[k1].at
    OBVIOUS
  <2>6. PICK z : z = msg[k2].at
    OBVIOUS
  <2>7. f = Along(msg[k2].dst)'
    BY <1>6, <2>4, AlongSame
  <2>8. /\ z = None => x = None
        /\ z # None /\ x # None => Endless(f, z) \/ (x \in Reach(f, z) /\ (x = z => Before(buf[z].list, k1, k2)))
    BY <2>3, <2>4, <2>5, <2>6, BehindNow
  <2>9. (z # None => z \in Buffers) /\ DOMAIN f = Buffers
    BY <1>4, <2>4, <2>6, Parts DEF Along
  <2>10. CASE k1 = m
    <3>1. x = b /\ msg'[k1].at = c /\ msg'[k2].at = z /\ g = f
      <4>1. msg[k1].dst = msg[k2].dst
        BY <2>2 DEF Alike
      <4> QED BY <1>1, <1>2, <1>3, <2>1, <2>4, <2>5, <2>6, <2>10, <4>1
    <3>2. x # None
      BY <1>3, <1>4, <3>1
    <3>3. ASSUME z # None, ~Endless(f, z) PROVE c \in Reach(f, z) /\ c # z
      <4>1. b \in Reach(f, z) /\ z \in DOMAIN f /\ f[b] \in DOMAIN f /\ c = f[b]
        BY <1>3, <2>8, <2>9, <3>1, <3>2, <3>3
      <4>2. PICK t \in Reach(f, z) : f[t] \notin DOMAIN f
        BY <3>3 DEF Endless
      <4>3. f[b] # z
        BY <4>1, <4>2, ReachBehind
      <4>4. f[b] \in Reach(f, z)
        BY <4>1, ReachClosed
      <4> QED BY <4>1, <4>3, <4>4
    <3>4. z = None => c = None
      BY <2>8, <3>2
    <3>5. z # None /\ c # None => Endless(f, z) \/ (c \in Reach(f, z) /\ (c = z => Before(buf'[z].list, k1, k2)))
      BY <3>3
    <3>6. c = msg'[k1].at /\ z = msg'[k2].at
      BY <3>1
    <3> QED BY <2>7, <3>4, <3>5, <3>6, BehindNext
  <2>11. CASE k2 = m
    <3>1. z = b /\ msg'[k2].at = c /\ msg'[k1].at = x /\ g = f
      BY <1>1, <1>2, <1>3, <2>1, <2>4, <2>5, <2>6, <2>11
    <3>2. b # None /\ c # None
      BY <1>3, <1>4
    <3>3. b \in DOMAIN f /\ f[b] \in DOMAIN f /\ c = f[b] /\ c \in DOMAIN f
      BY <1>3, <2>9, <3>1
    <3>4. Reach(f, b) = {b} \union Reach(f, c)
      BY <3>3, ReachSplit
    <3>5. ASSUME x # None, ~Endless(f, c) PROVE x \in Reach(f, c) /\ (x = c => Before(buf'[c].list, k1, k2))
      <4>1. ~Endless(f, b)
        BY <3>4, <3>5 DEF Endless
      <4>2. x \in Reach(f, b) /\ (x = b => Before(buf[b].list, k1, k2))
        BY <2>8, <3>1, <3>2, <3>5, <4>1
      <4>3. x # b
        <5>1. SUFFICES ASSUME x = b PROVE FALSE
          OBVIOUS
        <5>2. Before(buf[b].list, k1, m)
          BY <2>11, <4>2, <5>1
        <5>3. buf[b].list \in Seq(Messages) /\ Distinct(buf[b].list)
          BY <1>3, <1>4
        <5>4. Head(buf[b].list) # m
          BY <1>5, <5>2, <5>3, BeforeTail
        <5> QED BY <1>5, <5>4
      <4>4. ASSUME x = c PROVE Before(buf'[c].list, k1, k2)
        <5>1. k1 \in Elems(buf[c].list) /\ buf[c].list \in Seq(Messages)
          BY <1>4, <2>5, <4>4
        <5>2. Before(Append(buf[c].list, m), k1, m)
          BY <5>1, BeforeAppend
        <5>3. buf'[c].list = Append(buf[c].list, m)
          BY <1>3
        <5> QED BY <2>11, <5>2, <5>3
      <4> QED BY <3>4, <4>2, <4>3, <4>4
    <3>6. c = None => x = None
      BY <3>2
    <3>7. c # None /\ x # None => Endless(f, c) \/ (x \in Reach(f, c) /\ (x = c => Before(buf'[c].list, k1, k2)))
      BY <3>5
    <3>8. x = msg'[k1].at /\ c = msg'[k2].at
      BY <3>1
    <3> QED BY <2>7, <3>6, <3>7, <3>8, BehindNext
  <2>12. CASE k1 # m /\ k2 # m
    <3>1. \A y \in Buffers : \/ buf'[y].list = buf[y].list
                             \/ buf'[y].list = Tail(buf[y].list) /\ buf[y].list # <<>> /\ Head(buf[y].list) = m
                             \/ buf'[y].list = Append(buf[y].list, m)
      BY <1>3, <1>5
    <3> QED BY <1>3, <1>6, <2>3, <2>12, <3>1, BothStay
  <2> QED BY <2>10, <2>11, <2>12
<1> QED BY <1>3, <1>8, <1>9 DEF OrderInv

LEMMA LeavesOrder ==
  ASSUME NetInv, OrderInv, UNCHANGED <<topology, net, table>>, Trips, NEW m \in Messages, Leaves(m)
  PROVE  OrderInv'
<1>1. PICK b : b = msg[m].at
  OBVIOUS
<1>2. PICK g : g = Along(msg[m].dst)
  OBVIOUS
<1>3. /\ m \in Elems(sent) /\ sent' = sent /\ \A x \in Elems(sent) \ {m} : msg'[x].at = msg[x].at
      /\ b \in Buffers /\ IsHead(m) /\ msg'[m].at = None /\ AtHome(msg[m].dst, b)
      /\ \A x \in Buffers : buf'[x].list = IF x = b THEN Tail(buf[x].list) ELSE buf[x].list
  BY <1>1 DEF Leaves, OthersAt
<1>4. /\ Distinct(sent) /\ Len(sent) \in Nat /\ None \notin Buffers
      /\ buf[b].list \in Seq(Messages) /\ Distinct(buf[b].list)
  BY <1>3, Parts
<1>5. buf[b].list # <<>> /\ Head(buf[b].list) = m
  BY <1>1, <1>3 DEF IsHead
<1>6. \A k \in Elems(sent) : msg'[k].src = msg[k].src /\ msg'[k].dst = msg[k].dst
  BY DEF Trips
<1>7. DOMAIN g = Buffers /\ g[b] = None
  BY <1>2, <1>3 DEF Along
<1>8. Reach(g, b) = {b}
  BY <1>3, <1>4, <1>7, ReachSplit
<1>9. ASSUME NEW k \in Elems(sent) PROVE Started(k)'
  <2>1. Started(k)
    BY DEF OrderInv
  <2>2. CASE k # m
    BY <1>3, <1>6, <2>1, <2>2, StartedSame
  <2>3. CASE k = m
    BY <1>3, <2>3 DEF Started
  <2> QED BY <2>2, <2>3
<1>10. ASSUME NEW k1 \in Elems(sent), NEW k2 \in Elems(sent), Before(sent, k1, k2), Alike(k1, k2)'
       PROVE  Behind(k1, k2)'
  <2>1. k1 # k2
    BY <1>4, <1>10, BeforeDiffers
  <2>2. Alike(k1, k2)
    BY <1>6, <1>10 DEF Alike
  <2>3. Behind(k1, k2)
    BY <1>10, <2>2 DEF OrderInv
  <2>4. CASE k2 = m
    <3>1. PICK x : x = msg[k1].at
      OBVIOUS
    <3>2. b # None => (x # None => Endless(g, b) \/ (x \in Reach(g, b) /\ (x = b => Before(buf[b].list, k1, k2))))
      BY <1>1, <1>2, <2>3, <2>4, <3>1, BehindNow
    <3>3. ~Endless(g, b)
      BY <1>4, <1>7, <1>8 DEF Endless
    <3>4. ASSUME x # None PROVE FALSE
      <4>1. Before(buf[b].list, k1, m)
        BY <1>3, <1>4, <1>8, <2>4, <3>2, <3>3, <3>4
      <4>2. Head(buf[b].list) # m
        BY <1>4, <1>5, <4>1, BeforeTail
      <4> QED BY <1>5, <4>2
    <3>5. msg'[k1].at = None
      BY <1>3, <2>1, <2>4, <3>1, <3>4
    <3> QED BY <3>5 DEF Behind
  <2>5. CASE k1 = m
    BY <1>3, <2>5 DEF Behind
  <2>6. CASE k1 # m /\ k2 # m
    <3>1. \A y \in Buffers : \/ buf'[y].list = buf[y].list
                             \/ buf'[y].list = Tail(buf[y].list) /\ buf[y].list # <<>> /\ Head(buf[y].list) = m
                             \/ buf'[y].list = Append(buf[y].list, m)
      BY <1>3, <1>5
    <3> QED BY <1>3, <1>6, <2>3, <2>6, <3>1, BothStay
  <2> QED BY <2>4, <2>5, <2>6
<1> QED BY <1>3, <1>9, <1>10 DEF OrderInv

LEMMA OrderStep ==
  ASSUME NetInv, OrderInv, [Next]_vars
  PROVE  OrderInv'
<1>1. CASE WayStep
  <2>1. UNCHANGED <<topology, net, table>> /\ Trips
    BY <1>1 DEF WayStep
  <2>2. CASE Rests
    BY <2>1, <2>2, RestsOrder
  <2>3. ASSUME NEW m \in Messages, Enters(m) PROVE OrderInv'
    BY <2>1, <2>3, EntersOrder
  <2>4. ASSUME NEW m \in Messages, Leaves(m) PROVE OrderInv'
    BY <2>1, <2>4, LeavesOrder
  <2>5. ASSUME NEW m \in Messages, NEW c \in Buffers, Goes(m, c) PROVE OrderInv'
    BY <2>1, <2>5, GoesOrder
  <2> QED BY <1>1, <2>2, <2>3, <2>4, <2>5 DEF WayStep
<1>2. CASE sent = <<>> /\ sent' = <<>>
  <2>1. Elems(sent') = {}
    BY <1>2 DEF Elems
  <2> QED BY <2>1 DEF OrderInv
<1> QED BY <1>1, <1>2, WayStepHolds

-----------------------------------------------------------------------------
(* The network implements its abstract module.                               *)

LEMMA ArrivedIs ==
  ASSUME NetInv
  PROVE  Arrived = {m \in Elems(sent) : msg[m].at = None}
<1>1. ToSet(sent) = Elems(sent)
  BY Parts, ToSetIs
<1> QED BY <1>1 DEF Arrived, Received

LEMMA SentIs ==
  ASSUME NetInv
  PROVE  /\ SentWithEnds = [i \in 1..Len(sent) |-> [msg |-> sent[i], src |-> msg[sent[i]].src, dst |-> msg[sent[i]].dst]]
         /\ DOMAIN SentWithEnds = 1..Len(sent)
         /\ \A i \in 1..Len(sent) : /\ SentWithEnds[i].msg = sent[i] /\ sent[i] \in Elems(sent)
                                    /\ SentWithEnds[i].src = msg[sent[i]].src /\ SentWithEnds[i].dst = msg[sent[i]].dst
<1>1. DOMAIN sent = 1..Len(sent)
  BY Parts
<1>2. SentWithEnds = [i \in 1..Len(sent) |-> [msg |-> sent[i], src |-> msg[sent[i]].src, dst |-> msg[sent[i]].dst]]
  BY <1>1 DEF SentWithEnds
<1>3. \A i \in 1..Len(sent) : sent[i] \in Elems(sent)
  BY DEF Elems
<1> QED BY <1>2, <1>3

LEMMA SentSame ==
  ASSUME NetInv, NetInv', sent' = sent, Trips
  PROVE  SentWithEnds' = SentWithEnds
<1>1. \A i \in 1..Len(sent) : msg'[sent[i]].src = msg[sent[i]].src /\ msg'[sent[i]].dst = msg[sent[i]].dst
  BY SentIs DEF Trips
<1>2. DOMAIN sent = 1..Len(sent)
  BY Parts
<1> QED BY <1>1, <1>2 DEF SentWithEnds

LEMMA EntersChannel ==
  ASSUME NetInv, NetInv', UNCHANGED topology, Trips, NEW m \in Messages, Enters(m)
  PROVE  Channels!Next
<1>1. PICK s : s = msg'[m].src
  OBVIOUS
<1>2. PICK d : d = msg'[m].dst
  OBVIOUS
<1>3. /\ m \notin Elems(sent) /\ sent' = Append(sent, m) /\ \A x \in Elems(sent) \ {m} : msg'[x].at = msg[x].at
      /\ s \in Nodes(T) /\ d \in Nodes(T) /\ msg'[m].at # None
  <2>1. None \notin Buffers
    BY Parts
  <2> QED BY <1>1, <1>2, <2>1 DEF Enters, OthersAt
<1>4. s \in Ends /\ d \in Ends
  <2>1. topology \in DOMAIN Topologies
    BY DEF NetInv, Base, RoutingInv
  <2> QED BY <1>3, <2>1 DEF Ends, T
<1>5. sent \in Seq(Messages) /\ Distinct(sent) /\ Len(sent) \in Nat
  BY Parts
<1>6. \A i \in DOMAIN SentWithEnds : SentWithEnds[i].msg # m
  BY <1>3, SentIs
<1>7. PICK n : n = Len(sent)
  OBVIOUS
<1>8. n \in Nat /\ Len(sent') = n + 1 /\ sent'[n + 1] = m /\ \A i \in 1..n : sent'[i] = sent[i]
  BY <1>3, <1>5, <1>7
<1>9. PICK e : e = [msg |-> m, src |-> s, dst |-> d]
  OBVIOUS
<1>10. SentWithEnds' = [i \in 1..(n + 1) |-> IF i = n + 1 THEN e ELSE SentWithEnds[i]]
  <2>1. DOMAIN sent' = 1..(n + 1)
    BY <1>3, <1>5, <1>8
  <2>2. SentWithEnds' = [i \in 1..(n + 1) |-> [msg |-> sent'[i], src |-> msg'[sent'[i]].src, dst |-> msg'[sent'[i]].dst]]
    BY <2>1 DEF SentWithEnds
  <2>3. ASSUME NEW i \in 1..(n + 1)
        PROVE  [msg |-> sent'[i], src |-> msg'[sent'[i]].src, dst |-> msg'[sent'[i]].dst] = IF i = n + 1 THEN e ELSE SentWithEnds[i]
    <3>1. CASE i = n + 1
      BY <1>1, <1>2, <1>8, <1>9, <3>1
    <3>2. CASE i \in 1..n
      <4>1. PICK x : x = sent[i]
        OBVIOUS
      <4>2. x \in Elems(sent) /\ sent'[i] = x /\ i # n + 1
        BY <1>7, <1>8, <3>2, <4>1 DEF Elems
      <4>3. SentWithEnds[i] = [msg |-> x, src |-> msg[x].src, dst |-> msg[x].dst]
        BY <1>7, <3>2, <4>1, SentIs
      <4>4. msg'[x].src = msg[x].src /\ msg'[x].dst = msg[x].dst
        BY <4>2 DEF Trips
      <4> QED BY <4>2, <4>3, <4>4
    <3> QED BY <1>8, <3>1, <3>2
  <2> QED BY <2>2, <2>3
<1>11. SentWithEnds' = Append(SentWithEnds, e)
  <2>1. PICK w : w = SentWithEnds
    OBVIOUS
  <2> DEFINE M == {w[i] : i \in 1..n} \union {e}
  <2>2. w = [i \in 1..n |-> w[i]]
    BY <1>7, <2>1, SentIs
  <2>3. w \in [1..n -> M] /\ e \in M
    BY <2>2
  <2> HIDE DEF M
  <2>4. n \in Nat /\ w \in Seq(M) /\ Len(w) = n
    BY <1>8, <2>3, FunctionSeq
  <2>5. Append(w, e) = [i \in 1..(n + 1) |-> IF i = n + 1 THEN e ELSE w[i]]
    <3>1. Append(w, e) \in Seq(M) /\ Len(Append(w, e)) = n + 1
      BY <2>3, <2>4
    <3>2. Append(w, e) = [i \in 1..(n + 1) |-> Append(w, e)[i]]
      <4>1. \A r \in Seq(M) : r \in [1..Len(r) -> M]
        OBVIOUS
      <4>2. Append(w, e) \in [1..(n + 1) -> M]
        BY <3>1, <4>1
      <4> QED BY <4>2, Zenon
    <3>3. \A i \in 1..(n + 1) : Append(w, e)[i] = IF i = n + 1 THEN e ELSE w[i]
      BY <2>3, <2>4
    <3> QED BY <3>2, <3>3, Zenon
  <2> QED BY <1>10, <2>1, <2>5
<1>12. Arrived' = Arrived
  <2>1. Arrived' = {x \in Elems(sent') : msg'[x].at = None}
    <3>1. sent' \in Seq(Messages)
      BY DEF NetInv, Base
    <3>2. ToSet(sent') = Elems(sent')
      BY <3>1, ToSetIs
    <3> QED BY <3>2 DEF Arrived, Received
  <2>2. Arrived = {x \in Elems(sent) : msg[x].at = None}
    BY ArrivedIs
  <2>3. Elems(sent') = Elems(sent) \union {m}
    BY <1>3, <1>5, AppendDistinct
  <2>4. \A x : x \in Elems(sent') /\ msg'[x].at = None <=> x \in Elems(sent) /\ msg[x].at = None
    BY <1>3, <2>3
  <2> QED BY <2>1, <2>2, <2>4
<1>13. Channels!Send(m, s, d)
  BY <1>6, <1>9, <1>11, <1>12 DEF Channels!Send
<1> QED BY <1>4, <1>13 DEF Channels!Next

LEMMA LeavesChannel ==
  ASSUME NetInv, NetInv', OrderInv, OrderInv', Trips, NEW m \in Messages, Leaves(m)
  PROVE  Channels!Next
<1>1. /\ m \in Elems(sent) /\ sent' = sent /\ \A x \in Elems(sent) \ {m} : msg'[x].at = msg[x].at
      /\ msg[m].at # None /\ msg'[m].at = None
  <2>1. None \notin Buffers
    BY Parts
  <2> QED BY <2>1 DEF Leaves, OthersAt
<1>2. SentWithEnds' = SentWithEnds
  BY <1>1, SentSame
<1>3. PICK i \in 1..Len(sent) : sent[i] = m
  BY <1>1 DEF Elems
<1>4. i \in DOMAIN SentWithEnds /\ SentWithEnds[i].msg = m
  BY <1>3, SentIs
<1>5. Arrived = {x \in Elems(sent) : msg[x].at = None}
  BY ArrivedIs
<1>6. Arrived' = Arrived \union {m}
  <2>1. Arrived' = {x \in Elems(sent) : msg'[x].at = None}
    <3>1. ToSet(sent) = Elems(sent)
      BY Parts, ToSetIs
    <3> QED BY <1>1, <3>1 DEF Arrived, Received
  <2> QED BY <1>1, <1>5, <2>1
<1>7. ASSUME NEW j \in 1..(i - 1),
             SentWithEnds[j].src = SentWithEnds[i].src, SentWithEnds[j].dst = SentWithEnds[i].dst
      PROVE  SentWithEnds[j].msg \in Arrived
  <2>1. PICK k : k = sent[j]
    OBVIOUS
  <2>2. j \in 1..Len(sent) /\ j < i /\ Len(sent) \in Nat
    BY <1>3, Parts
  <2>3. Before(sent, k, m)
    BY <1>3, <2>1, <2>2 DEF Before
  <2>4. k \in Elems(sent) /\ k # m
    BY <2>2, <2>3, Parts, BeforeDiffers
  <2>5. SentWithEnds[j].msg = k /\ SentWithEnds[j].src = msg[k].src /\ SentWithEnds[j].dst = msg[k].dst
    BY <2>1, <2>2, SentIs
  <2>6. SentWithEnds[i].src = msg[m].src /\ SentWithEnds[i].dst = msg[m].dst
    BY <1>3, SentIs
  <2>7. msg'[k].src = msg'[m].src /\ msg'[k].dst = msg'[m].dst
    BY <1>1, <1>7, <2>4, <2>5, <2>6 DEF Trips
  <2>8. Alike(k, m)'
    BY <2>7 DEF Alike
  <2>9. Behind(k, m)'
    BY <1>1, <2>3, <2>4, <2>8 DEF OrderInv
  <2>10. msg'[k].at = None
    BY <1>1, <2>9 DEF Behind
  <2>11. msg[k].at = None
    BY <1>1, <2>4, <2>10
  <2> QED BY <1>5, <2>4, <2>5, <2>11
<1>8. m \notin Arrived
  BY <1>1, <1>5
<1>9. Channels!Receive(i)
  BY <1>2, <1>4, <1>6, <1>7, <1>8 DEF Channels!Receive
<1> QED BY <1>4, <1>9 DEF Channels!Next

LEMMA StepChannels ==
  ASSUME NetInv, NetInv', OrderInv, OrderInv', [Next]_vars
  PROVE  [Channels!Next]_<<SentWithEnds, Arrived>>
<1>1. ASSUME sent' = sent, Trips, \A x \in Elems(sent) : msg'[x].at = None <=> msg[x].at = None
      PROVE  UNCHANGED <<SentWithEnds, Arrived>>
  <2>1. SentWithEnds' = SentWithEnds
    BY <1>1, SentSame
  <2>2. ToSet(sent) = Elems(sent)
    BY Parts, ToSetIs
  <2>3. Arrived' = {x \in Elems(sent) : msg'[x].at = None}
    BY <1>1, <2>2 DEF Arrived, Received
  <2>4. Arrived = {x \in Elems(sent) : msg[x].at = None}
    BY ArrivedIs
  <2> QED BY <1>1, <2>1, <2>3, <2>4
<1>2. CASE WayStep
  <2>1. UNCHANGED <<topology, net, table>> /\ Trips
    BY <1>2 DEF WayStep
  <2>2. CASE Rests
    BY <1>1, <2>1, <2>2 DEF Rests
  <2>3. ASSUME NEW m \in Messages, Enters(m) PROVE Channels!Next
    BY <2>1, <2>3, EntersChannel
  <2>4. ASSUME NEW m \in Messages, Leaves(m) PROVE Channels!Next
    BY <2>1, <2>4, LeavesChannel
  <2>5. ASSUME NEW m \in Messages, NEW c \in Buffers, Goes(m, c) PROVE UNCHANGED <<SentWithEnds, Arrived>>
    <3>1. None \notin Buffers
      BY Parts
    <3>2. sent' = sent /\ \A x \in Elems(sent) : msg'[x].at = None <=> msg[x].at = None
      BY <2>5, <3>1 DEF Goes, OthersAt
    <3> QED BY <1>1, <2>1, <3>2
  <2> QED BY <1>2, <2>2, <2>3, <2>4, <2>5 DEF WayStep
<1>3. CASE sent = <<>> /\ sent' = <<>>
  <2>1. Elems(sent) = {}
    BY <1>3 DEF Elems
  <2> QED BY <1>1, <1>3, <2>1 DEF Trips
<1> QED BY <1>2, <1>3, WayStepHolds

LEMMA InitChannels ==
  ASSUME Init
  PROVE  OrderInv /\ Channels!Init
<1>1. sent = <<>>
  BY DEF Init
<1>2. Elems(sent) = {}
  BY <1>1 DEF Elems
<1>3. ToSet(sent) = {} /\ SentWithEnds = <<>>
  BY <1>1 DEF ToSet, SentWithEnds
<1>4. Arrived = {}
  BY <1>3 DEF Arrived
<1> QED BY <1>2, <1>3, <1>4 DEF OrderInv, Channels!Init

\* Between any two nodes the messages arrive in the order in which they were sent, each once,
\* whatever the topology, its routes and the sizes of its buffers: the network implements its
\* abstract module.
THEOREM InOrder == Spec => ImplementsChannels
<1>1. Init => OrderInv /\ Channels!Init
  BY InitChannels
<1>2. NetInv /\ OrderInv /\ [Next]_vars => OrderInv'
  BY OrderStep
<1>3. NetInv /\ NetInv' /\ OrderInv /\ OrderInv' /\ [Next]_vars => [Channels!Next]_<<SentWithEnds, Arrived>>
  BY StepChannels
<1> QED BY <1>1, <1>2, <1>3, Invariant, PTL DEF Spec, ImplementsChannels, Channels!Spec, Channels!vars

=============================================================================
