-------------------------- MODULE FpgaTransferProofs --------------------------
(***************************************************************************)
(* Proofs about FpgaTransfer, for any number of tasks and ports and any       *)
(* sizes and times that TransferAssumption admits.                          *)
(***************************************************************************)
EXTENDS FpgaTransfer, EventListProofs

-----------------------------------------------------------------------------
(* Names of stacks, and events.                                            *)

Name  == {s \in Seq(Tasks \union Nat) : Len(s) \in 1..4 /\ s[1] \in Tasks}
EventName == {"Pre", "PreFinish", "Chunk", "Bursts", "Finish", "Beats", "BeatFinish", "Words", "Memory", "WordFinish"}
EventRec == [ev : EventName, stack : Name, left : Nat]
StackRec == [addr : Nat, buf : Nat, size : Int, offset : Nat, left : Nat, count : Nat]

\* The level of the stacks that access words, and the events of the stacks of level n.
Leaf == IF path = "burst" THEN 4 ELSE 2
Kinds(n) ==
  CASE n = 1 -> {"Pre", "PreFinish"}
    [] n = 2 -> IF path = "burst" THEN {"Chunk", "Bursts", "Finish"} ELSE {"Chunk", "Words", "Memory", "WordFinish"}
    [] n = 3 -> {"Beats", "BeatFinish"}
    [] n = 4 -> {"Words", "Memory", "WordFinish"}

\* A stack is freed after those below it.
Closed(D) == IsFiniteSet(D) /\ D \subseteq Name /\ \A s \in D : Len(s) > 1 => Front(s) \in D

Typed ==
  /\ path \in {"burst", "large"}
  /\ access \in [Tasks -> Accesses \union {None}]
  /\ stk \in [DOMAIN stk -> StackRec] /\ Closed(DOMAIN stk) /\ \A s \in DOMAIN stk : Len(s) <= Leaf
  /\ portuse \in Int
  /\ memoplist \in Seq(Name) /\ \A i \in 1..Len(memoplist) : memoplist[i] \in DOMAIN stk /\ Len(memoplist[i]) = 2
  /\ memory \in [DOMAIN memory -> Nat \ {0}]
  /\ \A s \in DOMAIN memory : s \in DOMAIN stk /\ Len(s) = Leaf
  /\ told \in [Tasks -> 0..1] /\ \A t \in Tasks : access[t] = None => told[t] = 0
  /\ image = [t \in Tasks |-> image[t]]
  /\ \A t \in Tasks : access[t] # None => DOMAIN image[t] = 0..(access[t].size - 1)

Queued ==
  /\ IsQueue(events, EventRec)
  /\ \A i \in 1..Len(events) : events[i].stack \in DOMAIN stk /\ events[i].ev \in Kinds(Len(events[i].stack))

-----------------------------------------------------------------------------
(* What a stack waits for: its events, its place in memoplist, the stacks      *)
(* below it and the memory.                                                *)

Of(ev, s)  == [ev : {ev}, stack : {s}, left : Nat]
N(ev, s)   == Count(events, Of(ev, s))
Waiting(s) == Count(memoplist, {s})
KidsIn(D, s) == {k \in D : Len(k) > 1 /\ Front(k) = s}
Kids(s)    == KidsIn(DOMAIN stk, s)
Below(s)   == Cardinality(Kids(s))
Unanswered(s)  == IF s \in DOMAIN memory THEN memory[s] ELSE 0

\* The counters of a transfer and of a burst are no less than what is still to return.
TransferCounted(s) ==
  /\ access[s[1]] # None /\ told[s[1]] = 0
  /\ N("Pre", s) <= 1 /\ (stk[s].size > 0 => N("Pre", s) = 1)
  /\ Below(s) + N("PreFinish", s) <= stk[s].count

ChunkCounted(s) == N("Chunk", s) + Waiting(s) + N("Bursts", s) + N("Finish", s) + Below(s) <= 1

BurstCounted(s) ==
  /\ N("Beats", s) <= 1 /\ (stk[s].left > 0 => N("Beats", s) = 1)
  /\ Below(s) + N("BeatFinish", s) <= stk[s].count

LeafCounted(s) ==
  LET before == N("Chunk", s) + Waiting(s) + N("Words", s) + N("Memory", s)
      after  == N("WordFinish", s) + Unanswered(s)
  IN  /\ before <= 1 /\ (before = 1 => after = 0)
      /\ N("Memory", s) = 1 => stk[s].count > 0
      /\ after <= stk[s].count

CountedFor(s) ==
  /\ Len(s) = 1 => TransferCounted(s)
  /\ Len(s) = 2 => ChunkCounted(s)
  /\ Len(s) = 3 => BurstCounted(s)
  /\ Len(s) = Leaf => LeafCounted(s)

Counted == \A s \in DOMAIN stk : CountedFor(s)

-----------------------------------------------------------------------------
(* A transfer and a burst outlive what is below them.  While a transfer's      *)
(* event for the next chunk is pending, one of its chunks cannot end before.   *)

Slack(ev, load) ==
  IF path = "burst"
  THEN CASE ev \in {"Chunk", "Bursts"} -> Extra[load] + 1
         [] ev = "Beats" -> 1
         [] OTHER -> 0
  ELSE IF ev \in {"Chunk", "Words"} THEN MemoryLatency ELSE 0

Late(ev) == ev \in IF path = "burst" THEN {"Words", "Memory", "WordFinish", "BeatFinish", "Finish"}
                   ELSE {"Memory", "WordFinish"}

Under(s, c) == s = c \/ Front(s) = c \/ Front(Front(s)) = c

\* The event a does not come after what e leads to at the end of the chunk c.
InTime(a, e, c, first) ==
  /\ a.left <= e.left + Slack(e.ev, IsLoad(c))
  /\ Late(e.ev) => first
  /\ e.ev = "Bursts" => stk[c].left > 0

HeldBy(i, c) ==
  /\ Len(c) = 2 /\ Front(c) = events[i].stack
  /\ \A j \in 1..Len(events) : Under(events[j].stack, c) => InTime(events[i], events[j], c, i < j)
  /\ Waiting(c) > 0 => events[i].left <= Slack("Chunk", IsLoad(c))
  /\ \A s \in DOMAIN memory : ~Under(s, c)

Held == \A i \in 1..Len(events) : events[i].ev = "Pre" => \E c \in DOMAIN stk : HeldBy(i, c)

\* While a burst's event for the next beat is pending the burst has not begun or something of
\* it returns later.
Continued(i) ==
  LET u == events[i].stack IN
  \/ Kids(u) = {} /\ N("BeatFinish", u) = 0
  \/ \E j \in 1..Len(events) :
       /\ events[j].ev = "Words" /\ events[j].stack \in Kids(u) /\ events[i].left <= events[j].left
  \/ events[i].left = 0 /\ Kids(u) # {}
  \/ events[i].left = 0 /\ \E j \in 1..Len(events) : i < j /\ events[j].ev = "BeatFinish" /\ events[j].stack = u

Continues == \A i \in 1..Len(events) : events[i].ev = "Beats" => Continued(i)

-----------------------------------------------------------------------------
(* The bytes.                                                              *)

\* Names are not used twice: chunks and beats are named by places in the buffer that the
\* stack above has passed.
Passed(s) ==
  /\ Len(s) = 2 => s[2] \in Nat /\ s[2] < stk[Front(s)].buf
  /\ Len(s) = 4 => s[4] \in Nat /\ s[4] < stk[Front(s)].buf + stk[Front(s)].offset

Sized(s) ==
  /\ stk[s].addr = access[s[1]].addr + stk[s].buf
  /\ Len(s) = 1 => stk[s].size >= 0 /\ stk[s].buf + stk[s].size = access[s[1]].size
  /\ Len(s) = 2 /\ N("Chunk", s) + Waiting(s) > 0 => stk[s].size > 0
  /\ Len(s) = 2 /\ N("Bursts", s) + Below(s) > 0 => stk[s].size <= stk[s].left * (Length * Width)
  /\ Len(s) = 2 /\ N("Finish", s) > 0 => stk[s].size <= 0

Least(a, b) == IF a <= b THEN a ELSE b

\* The bytes that a stack has still to exchange itself.
Owed(s, o) ==
  LET b == stk[s] IN
  CASE Len(s) = 1 -> b.buf <= o
    [] Len(s) = 2 -> IF path = "burst" THEN b.buf + b.offset <= o /\ o < b.buf + b.offset + b.size
                     ELSE b.buf <= o /\ o < b.buf + b.size
    [] Len(s) = 3 -> b.buf + b.offset <= o /\ o < b.buf + b.offset + Least(b.left * Width, b.size)
    [] Len(s) = 4 -> b.buf <= o /\ o < b.buf + Least(Width, b.size)

InBuffer(t, o)  == t \in Tasks /\ access[t] # None /\ o \in 0..(access[t].size - 1)
Exchanged(t, o) == image[t][o] = access[t].addr + o

Covered ==
  \A t \in Tasks : access[t] # None =>
    \A o \in 0..(access[t].size - 1) :
      Exchanged(t, o) \/ (told[t] = 0 /\ \E s \in DOMAIN stk : s[1] = t /\ Owed(s, o))

Bytes == (\A s \in DOMAIN stk : Passed(s) /\ Sized(s)) /\ Covered

TransferInv == Typed /\ Queued /\ Counted /\ Held /\ Continues /\ Bytes

-----------------------------------------------------------------------------
(* Names.                                                                  *)

LEMMA TaskName ==
  ASSUME NEW t \in Tasks
  PROVE  /\ <<t>> \in Name /\ Len(<<t>>) = 1 /\ <<t>>[1] = t
         /\ \A s \in Name : Len(s) = 1 => s = <<s[1]>>
         /\ \A b \in Nat : <<t, b>> = Append(<<t>>, b)
<1>1. <<t>> \in Seq(Tasks \union Nat) /\ Len(<<t>>) = 1 /\ <<t>>[1] = t
  OBVIOUS
<1>2. \A s \in Name : Len(s) = 1 => s = <<s[1]>>
  BY DEF Name
<1>3. \A b \in Nat : <<t, b>> = Append(<<t>>, b)
  OBVIOUS
<1> QED BY <1>1, <1>2, <1>3 DEF Name

LEMMA ChildName ==
  ASSUME NEW s \in Name, Len(s) < 4, NEW x \in Nat
  PROVE  /\ Append(s, x) \in Name /\ Len(Append(s, x)) = Len(s) + 1
         /\ Front(Append(s, x)) = s /\ Append(s, x)[1] = s[1] /\ Append(s, x)[Len(s) + 1] = x
         /\ Append(s, x) # s
<1> DEFINE c == Append(s, x)
<1>1. s \in Seq(Tasks \union Nat) /\ Len(s) \in 1..4 /\ s[1] \in Tasks /\ x \in Tasks \union Nat
  BY DEF Name
<1>2. /\ c \in Seq(Tasks \union Nat) /\ Len(c) = Len(s) + 1 /\ c[Len(s) + 1] = x
      /\ \A i \in 1..Len(s) : c[i] = s[i]
  BY <1>1
<1> HIDE DEF c
<1>3. Front(c) = s
  <2>1. Front(c) \in Seq(Tasks \union Nat) /\ Len(Front(c)) = Len(s) /\ \A i \in 1..Len(s) : Front(c)[i] = c[i]
    <3>1. Len(c) - 1 = Len(s)
      BY <1>1, <1>2
    <3> QED BY <1>1, <1>2, <3>1 DEF Front
  <2> QED BY <1>1, <1>2, <2>1
<1>4. c[1] = s[1]
  BY <1>1, <1>2
<1>5. c # s
  <2>1. Len(c) # Len(s)
    BY <1>1, <1>2
  <2> QED BY <2>1
<1>6. c \in Name
  <2>1. Len(c) \in 1..4
    BY <1>1, <1>2
  <2> QED BY <1>1, <1>2, <1>4, <2>1 DEF Name
<1> QED BY <1>2, <1>3, <1>4, <1>5, <1>6 DEF c

LEMMA ParentName ==
  ASSUME NEW s \in Name, Len(s) > 1
  PROVE  /\ Front(s) \in Name /\ Len(Front(s)) = Len(s) - 1 /\ Front(s)[1] = s[1] /\ Front(s) # s
         /\ s[Len(s)] \in Tasks \union Nat /\ s = Append(Front(s), s[Len(s)])
<1>1. s \in Seq(Tasks \union Nat) /\ Len(s) \in 2..4 /\ s[1] \in Tasks
  <2>1. s \in Seq(Tasks \union Nat) /\ Len(s) \in 1..4 /\ s[1] \in Tasks
    BY DEF Name
  <2> DEFINE n == Len(s)
  <2>3. n \in 1..4 /\ n > 1
    BY <2>1
  <2> HIDE DEF n
  <2>4. n \in 2..4
    BY <2>3
  <2>2. Len(s) \in 2..4
    BY <2>4 DEF n
  <2> QED BY <2>1, <2>2
<1>2. /\ Front(s) \in Seq(Tasks \union Nat) /\ Len(Front(s)) = Len(s) - 1
      /\ \A i \in 1..(Len(s) - 1) : Front(s)[i] = s[i]
  BY <1>1 DEF Front
<1>3. Front(s)[1] = s[1]
  BY <1>1, <1>2
<1>4. s[Len(s)] \in Tasks \union Nat
  BY <1>1
<1>5. s = Append(Front(s), s[Len(s)])
  <2> DEFINE f == Front(s)
             a == Append(f, s[Len(s)])
  <2> HIDE DEF f
  <2>1. f \in Seq(Tasks \union Nat) /\ Len(f) = Len(s) - 1 /\ \A i \in 1..(Len(s) - 1) : f[i] = s[i]
    BY <1>2 DEF f
  <2>2. a \in Seq(Tasks \union Nat) /\ Len(a) = Len(f) + 1 /\ a[Len(f) + 1] = s[Len(s)]
        /\ \A i \in 1..Len(f) : a[i] = f[i]
    BY <1>4, <2>1
  <2> HIDE DEF a
  <2>3. Len(a) = Len(s) /\ \A i \in 1..Len(s) : a[i] = s[i]
    BY <1>1, <2>1, <2>2
  <2> QED BY <1>1, <2>2, <2>3 DEF a, f
<1>6. Front(s) \in Name /\ Front(s) # s
  <2>1. Len(Front(s)) \in 1..4 /\ Len(Front(s)) # Len(s)
    BY <1>1, <1>2
  <2> QED BY <1>1, <1>2, <1>3, <2>1 DEF Name
<1> QED BY <1>2, <1>3, <1>4, <1>5, <1>6

-----------------------------------------------------------------------------
(* The pending events after a step: which there are, and how many of each.      *)

Is(e, ev, s) == IF e.ev = ev /\ e.stack = s THEN 1 ELSE 0

LEMMA EventIsRec ==
  ASSUME NEW ev \in EventName, NEW s \in Name, NEW n \in Nat
  PROVE  Event(ev, s, n) \in EventRec /\ Event(ev, s, n).ev = ev /\ Event(ev, s, n).stack = s /\ Event(ev, s, n).left = n
BY DEF Event, EventRec

LEMMA InOf ==
  ASSUME NEW e \in EventRec, NEW ev, NEW s
  PROVE  e \in Of(ev, s) <=> e.ev = ev /\ e.stack = s
BY DEF EventRec, Of

LEMMA CountIs ==
  ASSUME NEW es \in Seq(EventRec), NEW ev, NEW s
  PROVE  /\ Count(es, Of(ev, s)) \in Nat
         /\ Count(es, Of(ev, s)) = 0 <=> \A i \in 1..Len(es) : ~(es[i].ev = ev /\ es[i].stack = s)
<1>1. \A i \in 1..Len(es) : es[i] \in EventRec
  OBVIOUS
<1>2. Count(es, Of(ev, s)) = 0 <=> \A i \in 1..Len(es) : es[i] \notin Of(ev, s)
  BY CountNone
<1>3. Count(es, Of(ev, s)) \in Nat
  BY PlacesFinite
<1> QED BY <1>1, <1>2, <1>3, InOf

LEMMA QueueRec ==
  ASSUME NEW es, IsQueue(es, EventRec)
  PROVE  \A i \in 1..Len(es) : es[i] \in EventRec /\ es[i].stack \in Name /\ es[i].left \in Nat
<1>1. es \in Seq(EventRec)
  BY DEF IsQueue
<1>2. \A i \in 1..Len(es) : es[i] \in EventRec
  BY <1>1
<1> QED BY <1>2 DEF EventRec

LEMMA RecLeft == \A x \in EventRec : x.left \in Nat
BY DEF EventRec

LEMMA AfterTail ==
  ASSUME NEW es, IsQueue(es, EventRec), es # <<>>
  PROVE  /\ IsQueue(Tail(es), EventRec) /\ Grown(es, Tail(es), 1, {})
         /\ Head(es) = es[1] /\ es[1] \in EventRec /\ Len(es) \in Nat \ {0}
         /\ \A ev, s : Count(es, Of(ev, s)) = Count(Tail(es), Of(ev, s)) + Is(es[1], ev, s)
<1>1. /\ IsQueue(Tail(es), EventRec) /\ Grown(es, Tail(es), 1, {})
      /\ Head(es) = es[1] /\ es[1] \in EventRec /\ Len(es) \in Nat \ {0}
  BY RecLeft, TailGrown
<1>2. ASSUME NEW ev, NEW s
      PROVE  Count(es, Of(ev, s)) = Count(Tail(es), Of(ev, s)) + Is(es[1], ev, s)
  <2>1. Count(es, Of(ev, s)) = IF es[1] \in Of(ev, s) THEN Count(Tail(es), Of(ev, s)) + 1 ELSE Count(Tail(es), Of(ev, s))
    BY TailCount DEF IsQueue
  <2>2. Count(Tail(es), Of(ev, s)) \in Nat
    BY <1>1, CountIs DEF IsQueue
  <2> QED BY <1>1, <2>1, <2>2, InOf DEF Is
<1> QED BY <1>1, <1>2

LEMMA AfterOne ==
  ASSUME NEW es, IsQueue(es, EventRec), NEW e \in EventRec
  PROVE  /\ IsQueue(Scheduled(es, e), EventRec) /\ Grown(es, Scheduled(es, e), 0, {e})
         /\ \A ev, s : Count(Scheduled(es, e), Of(ev, s)) = Count(es, Of(ev, s)) + Is(e, ev, s)
<1>1. IsQueue(Scheduled(es, e), EventRec) /\ Grown(es, Scheduled(es, e), 0, {e})
  BY RecLeft, ScheduledGrown
<1>2. ASSUME NEW ev, NEW s
      PROVE  Count(Scheduled(es, e), Of(ev, s)) = Count(es, Of(ev, s)) + Is(e, ev, s)
  <2>1. Count(Scheduled(es, e), Of(ev, s)) = IF e \in Of(ev, s) THEN Count(es, Of(ev, s)) + 1 ELSE Count(es, Of(ev, s))
    BY RecLeft, ScheduledCount
  <2>2. Count(es, Of(ev, s)) \in Nat
    BY CountIs DEF IsQueue
  <2> QED BY <2>1, <2>2, InOf DEF Is
<1> QED BY <1>1, <1>2

LEMMA AfterTwo ==
  ASSUME NEW es, IsQueue(es, EventRec), NEW a \in EventRec, NEW b \in EventRec
  PROVE  LET r == ScheduledAll(es, <<a, b>>) IN
         /\ IsQueue(r, EventRec) /\ Grown(es, r, 0, {a, b})
         /\ \A ev, s : Count(r, Of(ev, s)) = Count(es, Of(ev, s)) + Is(a, ev, s) + Is(b, ev, s)
<1> DEFINE q == Scheduled(es, a)
           r == Scheduled(q, b)
<1>1. /\ IsQueue(q, EventRec) /\ Grown(es, q, 0, {a})
      /\ \A ev, s : Count(q, Of(ev, s)) = Count(es, Of(ev, s)) + Is(a, ev, s)
  BY AfterOne
<1> HIDE DEF q
<1>2. /\ IsQueue(r, EventRec) /\ Grown(q, r, 0, {b})
      /\ \A ev, s : Count(r, Of(ev, s)) = Count(q, Of(ev, s)) + Is(b, ev, s)
  BY <1>1, AfterOne
<1>3. Grown(es, r, 0, {a} \union {b})
  <2> HIDE DEF r
  <2> QED BY <1>1, <1>2, RecLeft, GrownTwice DEF IsQueue
<1>4. {a} \union {b} = {a, b}
  OBVIOUS
<1>5. ScheduledAll(es, <<a, b>>) = r
  BY ScheduledTwo DEF q
<1> HIDE DEF r
<1> QED BY <1>1, <1>2, <1>3, <1>4, <1>5

\* The same after the first event.
LEMMA HandledGrown ==
  ASSUME NEW es, IsQueue(es, EventRec), es # <<>>, NEW r, IsQueue(r, EventRec), NEW New, Grown(Tail(es), r, 0, New)
  PROVE  Grown(es, r, 1, New)
<1>1. IsQueue(Tail(es), EventRec) /\ Grown(es, Tail(es), 1, {})
  BY AfterTail
<1>2. Grown(es, r, 1, {} \union New)
  BY <1>1, RecLeft, GrownTwice DEF IsQueue
<1>3. {} \union New = New
  OBVIOUS
<1> QED BY <1>2, <1>3

-----------------------------------------------------------------------------
(* Functions and numbers.                                                  *)

LEMMA PutIn ==
  ASSUME NEW T, NEW f, f \in [DOMAIN f -> T], NEW k, NEW x \in T, NEW g, g = Put(f, k, x)
  PROVE  g \in [DOMAIN f \union {k} -> T] /\ g \in [DOMAIN g -> T]
BY DEF Put

LEMMA FreedIn ==
  ASSUME NEW T, NEW f, f \in [DOMAIN f -> T], NEW k, NEW g, g = Freed(f, k)
  PROVE  g \in [DOMAIN f \ {k} -> T] /\ g \in [DOMAIN g -> T]
BY DEF Freed, Restrict

LEMMA MinTwo ==
  ASSUME NEW a \in Int, NEW b \in Int
  PROVE  Min({a, b}) = Least(a, b)
<1>1. \A y \in {a, b} : Least(a, b) <= y
  BY DEF Least
<1>2. \E x \in {a, b} : \A y \in {a, b} : x =< y
  BY <1>1 DEF Least
<1>3. Min({a, b}) \in {a, b} /\ \A y \in {a, b} : Min({a, b}) =< y
  BY <1>2 DEF Min
<1> QED BY <1>3 DEF Least

-----------------------------------------------------------------------------
(* The stacks below a stack, after one is created or freed.                  *)

LEMMA KidsAre ==
  ASSUME NEW D, IsFiniteSet(D), NEW s
  PROVE  /\ IsFiniteSet(KidsIn(D, s)) /\ Cardinality(KidsIn(D, s)) \in Nat
         /\ Cardinality(KidsIn(D, s)) = 0 <=> KidsIn(D, s) = {}
<1>1. KidsIn(D, s) \in SUBSET D
  BY DEF KidsIn
<1>2. IsFiniteSet(KidsIn(D, s))
  BY <1>1, FS_Subset
<1> QED BY <1>2, FS_EmptySet, FS_CardinalityType

LEMMA KidsAdded ==
  ASSUME NEW D, Closed(D), NEW k \in Name, k \notin D
  PROVE  /\ IsFiniteSet(D \union {k})
         /\ \A s : KidsIn(D \union {k}, s) = IF Len(k) > 1 /\ s = Front(k) THEN KidsIn(D, s) \union {k} ELSE KidsIn(D, s)
         /\ \A s : Cardinality(KidsIn(D \union {k}, s)) =
                     IF Len(k) > 1 /\ s = Front(k) THEN Cardinality(KidsIn(D, s)) + 1 ELSE Cardinality(KidsIn(D, s))
         /\ KidsIn(D, k) = {} /\ KidsIn(D \union {k}, k) = {} /\ Cardinality(KidsIn(D \union {k}, k)) = 0
<1>1. IsFiniteSet(D \union {k})
  BY FS_AddElement DEF Closed
<1>2. \A s : KidsIn(D \union {k}, s) = IF Len(k) > 1 /\ s = Front(k) THEN KidsIn(D, s) \union {k} ELSE KidsIn(D, s)
  BY DEF KidsIn
<1>3. ASSUME NEW s
      PROVE  Cardinality(KidsIn(D \union {k}, s)) =
               IF Len(k) > 1 /\ s = Front(k) THEN Cardinality(KidsIn(D, s)) + 1 ELSE Cardinality(KidsIn(D, s))
  <2>1. IsFiniteSet(KidsIn(D, s)) /\ k \notin KidsIn(D, s)
    BY KidsAre DEF KidsIn, Closed
  <2>2. Cardinality(KidsIn(D, s) \union {k}) = Cardinality(KidsIn(D, s)) + 1
    BY <2>1, FS_AddElement
  <2>3. KidsIn(D \union {k}, s) = IF Len(k) > 1 /\ s = Front(k) THEN KidsIn(D, s) \union {k} ELSE KidsIn(D, s)
    BY <1>2, Zenon
  <2> QED BY <2>2, <2>3
<1>4. KidsIn(D, k) = {}
  BY DEF KidsIn, Closed
<1>5. KidsIn(D \union {k}, k) = {}
  <2>1. Len(k) > 1 => k # Front(k)
    BY ParentName
  <2>2. KidsIn(D \union {k}, k) = IF Len(k) > 1 /\ k = Front(k) THEN KidsIn(D, k) \union {k} ELSE KidsIn(D, k)
    BY <1>2, Zenon
  <2> QED BY <1>4, <2>1, <2>2
<1>6. Cardinality(KidsIn(D \union {k}, k)) = 0
  BY <1>5, FS_EmptySet
<1> QED BY <1>1, <1>2, <1>3, <1>4, <1>5, <1>6

LEMMA KidsFreed ==
  ASSUME NEW D, Closed(D), NEW k \in D, KidsIn(D, k) = {}
  PROVE  /\ Closed(D \ {k})
         /\ \A s : KidsIn(D \ {k}, s) = IF Len(k) > 1 /\ s = Front(k) THEN KidsIn(D, s) \ {k} ELSE KidsIn(D, s)
         /\ \A s : Cardinality(KidsIn(D \ {k}, s)) =
                     IF Len(k) > 1 /\ s = Front(k) THEN Cardinality(KidsIn(D, s)) - 1 ELSE Cardinality(KidsIn(D, s))
         /\ Len(k) > 1 => k \in KidsIn(D, Front(k)) /\ Cardinality(KidsIn(D, Front(k))) > 0
<1>1. IsFiniteSet(D \ {k})
  BY FS_RemoveElement DEF Closed
<1>2. \A s : KidsIn(D \ {k}, s) = IF Len(k) > 1 /\ s = Front(k) THEN KidsIn(D, s) \ {k} ELSE KidsIn(D, s)
  BY DEF KidsIn
<1>3. ASSUME NEW s
      PROVE  Cardinality(KidsIn(D \ {k}, s)) =
               IF Len(k) > 1 /\ s = Front(k) THEN Cardinality(KidsIn(D, s)) - 1 ELSE Cardinality(KidsIn(D, s))
  <2>1. KidsIn(D \ {k}, s) = IF Len(k) > 1 /\ s = Front(k) THEN KidsIn(D, s) \ {k} ELSE KidsIn(D, s)
    BY <1>2, Zenon
  <2>2. CASE Len(k) > 1 /\ s = Front(k)
    <3>1. IsFiniteSet(KidsIn(D, s)) /\ k \in KidsIn(D, s)
      BY <2>2, KidsAre DEF KidsIn, Closed
    <3>2. Cardinality(KidsIn(D, s) \ {k}) = Cardinality(KidsIn(D, s)) - 1
      BY <3>1, FS_RemoveElement
    <3> QED BY <2>1, <2>2, <3>2
  <2>3. CASE ~(Len(k) > 1 /\ s = Front(k))
    BY <2>1, <2>3
  <2> QED BY <2>2, <2>3
<1>4. \A s \in D \ {k} : Len(s) > 1 => Front(s) \in D \ {k}
  BY DEF KidsIn, Closed
<1>5. Len(k) > 1 => k \in KidsIn(D, Front(k)) /\ Cardinality(KidsIn(D, Front(k))) > 0
  <2>1. SUFFICES ASSUME Len(k) > 1 PROVE k \in KidsIn(D, Front(k)) /\ Cardinality(KidsIn(D, Front(k))) > 0
    OBVIOUS
  <2>2. k \in KidsIn(D, Front(k)) /\ IsFiniteSet(D)
    BY <2>1 DEF KidsIn, Closed
  <2>3. Cardinality(KidsIn(D, Front(k))) \in Nat /\ Cardinality(KidsIn(D, Front(k))) # 0
    BY <2>2, KidsAre
  <2> QED BY <2>2, <2>3
<1> QED BY <1>1, <1>2, <1>3, <1>4, <1>5 DEF Closed

-----------------------------------------------------------------------------
(* What a handler does to the events: r is es without its first n events, of    *)
(* which o is one, and with the events a and b.  Any of o, a and b may be       *)
(* Nothing.                                                                *)

Nothing == [ev |-> "", stack |-> <<>>, left |-> 0]

Becomes(es, r, n, o, a, b) ==
  /\ IsQueue(es, EventRec) /\ IsQueue(r, EventRec)
  /\ Grown(es, r, n, {a, b} \ {Nothing})
  /\ \A s \in Name : \A ev : Count(r, Of(ev, s)) = Count(es, Of(ev, s)) - Is(o, ev, s) + Is(a, ev, s) + Is(b, ev, s)
  /\ \A s, ev : Count(es, Of(ev, s)) \in Nat /\ Count(r, Of(ev, s)) \in Nat

LEMMA NothingIs ==
  /\ \A s \in Name : \A ev : Is(Nothing, ev, s) = 0
  /\ \A e \in EventRec : e # Nothing
<1>1. \A s \in Name : s # <<>>
  <2>1. \A s \in Name : Len(s) # 0
    BY DEF Name
  <2> QED BY <2>1
<1>2. Nothing.ev = "" /\ Nothing.stack = <<>>
  BY DEF Nothing
<1>3. \A e \in EventRec : e.stack \in Name
  BY DEF EventRec
<1> QED BY <1>1, <1>2, <1>3 DEF Is

LEMMA NothingEv == Nothing.ev # "Pre" /\ Nothing.ev # "Beats"
BY DEF Nothing

LEMMA Counts ==
  ASSUME NEW es, IsQueue(es, EventRec)
  PROVE  \A s, ev : Count(es, Of(ev, s)) \in Nat
BY CountIs DEF IsQueue

LEMMA HandledNone ==
  ASSUME NEW es, IsQueue(es, EventRec), es # <<>>
  PROVE  Becomes(es, Tail(es), 1, es[1], Nothing, Nothing)
<1>1. /\ IsQueue(Tail(es), EventRec) /\ Grown(es, Tail(es), 1, {})
      /\ es[1] \in EventRec
      /\ \A ev, s : Count(es, Of(ev, s)) = Count(Tail(es), Of(ev, s)) + Is(es[1], ev, s)
  BY AfterTail
<1>2. {Nothing, Nothing} \ {Nothing} = {}
  OBVIOUS
<1>3. \A s, ev : Count(es, Of(ev, s)) \in Nat /\ Count(Tail(es), Of(ev, s)) \in Nat /\ Is(es[1], ev, s) \in Nat
  BY <1>1, Counts DEF Is
<1>4. \A s \in Name : \A ev : Count(Tail(es), Of(ev, s)) = Count(es, Of(ev, s)) - Is(es[1], ev, s) + Is(Nothing, ev, s) + Is(Nothing, ev, s)
  BY <1>1, <1>3, NothingIs
<1> QED BY <1>1, <1>2, <1>3, <1>4 DEF Becomes

LEMMA AddedOne ==
  ASSUME NEW es, IsQueue(es, EventRec), NEW a \in EventRec
  PROVE  Becomes(es, Scheduled(es, a), 0, Nothing, a, Nothing)
<1> DEFINE r == Scheduled(es, a)
<1>1. /\ IsQueue(r, EventRec) /\ Grown(es, r, 0, {a})
      /\ \A ev, s : Count(r, Of(ev, s)) = Count(es, Of(ev, s)) + Is(a, ev, s)
  BY AfterOne
<1> HIDE DEF r
<1>2. {a, Nothing} \ {Nothing} = {a}
  BY NothingIs
<1>3. \A s, ev : Count(es, Of(ev, s)) \in Nat /\ Count(r, Of(ev, s)) \in Nat /\ Is(a, ev, s) \in Nat
  BY <1>1, Counts DEF Is
<1>4. \A s \in Name : \A ev : Count(r, Of(ev, s)) = Count(es, Of(ev, s)) - Is(Nothing, ev, s) + Is(a, ev, s) + Is(Nothing, ev, s)
  BY <1>1, <1>3, NothingIs
<1>5. Becomes(es, r, 0, Nothing, a, Nothing)
  BY <1>1, <1>2, <1>3, <1>4 DEF Becomes
<1> QED BY <1>5 DEF r

LEMMA AddedTwo ==
  ASSUME NEW es, IsQueue(es, EventRec), NEW a \in EventRec, NEW b \in EventRec
  PROVE  Becomes(es, ScheduledAll(es, <<a, b>>), 0, Nothing, a, b)
<1> DEFINE r == ScheduledAll(es, <<a, b>>)
<1>1. /\ IsQueue(r, EventRec) /\ Grown(es, r, 0, {a, b})
      /\ \A ev, s : Count(r, Of(ev, s)) = Count(es, Of(ev, s)) + Is(a, ev, s) + Is(b, ev, s)
  BY AfterTwo
<1> HIDE DEF r
<1>2. {a, b} \ {Nothing} = {a, b}
  BY NothingIs
<1>3. \A s, ev : Count(es, Of(ev, s)) \in Nat /\ Count(r, Of(ev, s)) \in Nat /\ Is(a, ev, s) \in Nat /\ Is(b, ev, s) \in Nat
  BY <1>1, Counts DEF Is
<1>4. \A s \in Name : \A ev : Count(r, Of(ev, s)) = Count(es, Of(ev, s)) - Is(Nothing, ev, s) + Is(a, ev, s) + Is(b, ev, s)
  BY <1>1, <1>3, NothingIs
<1>5. Becomes(es, r, 0, Nothing, a, b)
  BY <1>1, <1>2, <1>3, <1>4 DEF Becomes
<1> QED BY <1>5 DEF r

\* The same after the first event.
LEMMA ThenHandled ==
  ASSUME NEW es, IsQueue(es, EventRec), es # <<>>, NEW r, NEW a, NEW b, Becomes(Tail(es), r, 0, Nothing, a, b)
  PROVE  Becomes(es, r, 1, es[1], a, b)
<1>1. /\ IsQueue(Tail(es), EventRec) /\ es[1] \in EventRec
      /\ \A ev, s : Count(es, Of(ev, s)) = Count(Tail(es), Of(ev, s)) + Is(es[1], ev, s)
  BY AfterTail
<1>2. Grown(es, r, 1, {a, b} \ {Nothing})
  <2> DEFINE New == {a, b} \ {Nothing}
  <2> HIDE DEF New
  <2>1. IsQueue(r, EventRec) /\ Grown(Tail(es), r, 0, New)
    BY DEF Becomes, New
  <2>2. Grown(es, r, 1, New)
    BY <2>1, HandledGrown
  <2> QED BY <2>2 DEF New
<1>3. \A s, ev : /\ Count(es, Of(ev, s)) \in Nat /\ Count(Tail(es), Of(ev, s)) \in Nat /\ Count(r, Of(ev, s)) \in Nat
                 /\ Is(es[1], ev, s) \in Nat /\ Is(a, ev, s) \in Nat /\ Is(b, ev, s) \in Nat
  BY <1>1, Counts DEF Is, Becomes
<1>4. \A s \in Name : \A ev : Count(r, Of(ev, s)) = Count(es, Of(ev, s)) - Is(es[1], ev, s) + Is(a, ev, s) + Is(b, ev, s)
  <2>1. \A s \in Name : \A ev : Count(r, Of(ev, s)) = Count(Tail(es), Of(ev, s)) - Is(Nothing, ev, s) + Is(a, ev, s) + Is(b, ev, s)
    BY DEF Becomes
  <2> QED BY <1>1, <1>3, <2>1, NothingIs
<1> QED BY <1>2, <1>3, <1>4 DEF Becomes

LEMMA HandledOne ==
  ASSUME NEW es, IsQueue(es, EventRec), es # <<>>, NEW a \in EventRec
  PROVE  Becomes(es, Scheduled(Tail(es), a), 1, es[1], a, Nothing)
BY AfterTail, AddedOne, ThenHandled

LEMMA HandledTwo ==
  ASSUME NEW es, IsQueue(es, EventRec), es # <<>>, NEW a \in EventRec, NEW b \in EventRec
  PROVE  Becomes(es, ScheduledAll(Tail(es), <<a, b>>), 1, es[1], a, b)
BY AfterTail, AddedTwo, ThenHandled

\* How many events there are of each kind: one less, one or two more.
LEMMA Fewer ==
  ASSUME NEW es, NEW r, NEW n, NEW o, Becomes(es, r, n, o, Nothing, Nothing), NEW s \in Name, NEW ev
  PROVE  Count(r, Of(ev, s)) = Count(es, Of(ev, s)) - Is(o, ev, s)
<1>1. Count(r, Of(ev, s)) = Count(es, Of(ev, s)) - Is(o, ev, s) + Is(Nothing, ev, s) + Is(Nothing, ev, s)
  BY DEF Becomes
<1>2. Is(Nothing, ev, s) = 0
  BY NothingIs
<1>3. Is(o, ev, s) \in Nat /\ Count(es, Of(ev, s)) \in Nat
  BY DEF Is, Becomes
<1> QED BY <1>1, <1>2, <1>3

-----------------------------------------------------------------------------
(* The event that is handled, and what every step keeps.                     *)

LEMMA Due ==
  ASSUME TransferInv, NEW ev, Handles(ev), NEW c, c = Cur, NEW e, e = events[1]
  PROVE  /\ Typed /\ Queued /\ Counted /\ Held /\ Continues /\ Bytes
         /\ IsQueue(events, EventRec) /\ events # <<>> /\ 1 \in 1..Len(events)
         /\ e \in EventRec /\ e.ev = ev /\ e.left = 0 /\ e.stack = c
         /\ c \in DOMAIN stk /\ c \in Name /\ ev \in Kinds(Len(c)) /\ Len(c) <= Leaf
         /\ stk[c] \in StackRec /\ S = stk[c] /\ CountedFor(c)
         /\ N(ev, c) \in Nat /\ N(ev, c) > 0
         /\ \A s, x : Is(e, x, s) = IF x = ev /\ s = c THEN 1 ELSE 0
<1>0. Typed /\ Queued /\ Counted /\ Held /\ Continues /\ Bytes
  BY DEF TransferInv
<1>1. IsQueue(events, EventRec) /\ events # <<>>
  BY <1>0 DEF Queued, Handles, IsDue
<1>2. Head(events) = e /\ e \in EventRec /\ Len(events) \in Nat \ {0}
  BY <1>1, AfterTail
<1>3. 1 \in 1..Len(events)
  BY <1>2
<1>4. e.ev = ev /\ e.left = 0 /\ c = e.stack
  BY <1>2 DEF Handles, IsDue, Cur
<1>5. c \in DOMAIN stk /\ ev \in Kinds(Len(c))
  BY <1>0, <1>3, <1>4 DEF Queued
<1>6. c \in Name /\ stk[c] \in StackRec /\ S = stk[c] /\ Len(c) <= Leaf /\ CountedFor(c)
  BY <1>0, <1>5 DEF Typed, Closed, S, Counted
<1>7. N(ev, c) \in Nat /\ N(ev, c) > 0
  <2>1. Count(events, Of(ev, c)) \in Nat /\ Count(events, Of(ev, c)) # 0
    BY <1>1, <1>3, <1>4, CountIs DEF IsQueue
  <2> QED BY <2>1 DEF N
<1>8. \A s, x : Is(e, x, s) = IF x = ev /\ s = c THEN 1 ELSE 0
  BY <1>4 DEF Is
<1> QED BY <1>0, <1>1, <1>2, <1>3, <1>4, <1>5, <1>6, <1>7, <1>8

LEMMA Level ==
  ASSUME path \in {"burst", "large"}, NEW s \in Name, Len(s) <= Leaf, NEW ev \in Kinds(Len(s))
  PROVE  /\ ev \in {"Pre", "PreFinish"} => Len(s) = 1
         /\ ev \in {"Chunk", "Bursts", "Finish"} => Len(s) = 2
         /\ ev \in {"Bursts", "Finish", "Beats", "BeatFinish"} => path = "burst"
         /\ ev \in {"Beats", "BeatFinish"} => Len(s) = 3
         /\ ev \in {"Words", "Memory", "WordFinish"} => Len(s) = Leaf
         /\ Leaf \in {2, 4} /\ (path = "burst" <=> Leaf = 4)
<1>1. Len(s) \in 1..4
  BY DEF Name
<1> DEFINE n == Len(s)
<1> HIDE DEF n
<1>2. n \in 1..4 /\ n <= Leaf /\ ev \in Kinds(n)
  BY <1>1 DEF n
<1>3. Leaf \in {2, 4} /\ (path = "burst" <=> Leaf = 4)
  BY DEF Leaf
<1>4. /\ ev \in {"Pre", "PreFinish"} => n = 1
      /\ ev \in {"Chunk", "Bursts", "Finish"} => n = 2
      /\ ev \in {"Bursts", "Finish", "Beats", "BeatFinish"} => path = "burst"
      /\ ev \in {"Beats", "BeatFinish"} => n = 3
      /\ ev \in {"Words", "Memory", "WordFinish"} => n = Leaf
  <2>1. n = 1 \/ n = 2 \/ n = 3 \/ n = 4
    BY <1>2
  <2>2. CASE n = 1
    BY <1>2, <2>2 DEF Kinds, Leaf
  <2>3. CASE n = 2
    BY <1>2, <2>3 DEF Kinds, Leaf
  <2>4. CASE n = 3
    BY <1>2, <2>4 DEF Kinds, Leaf
  <2>5. CASE n = 4
    BY <1>2, <2>5 DEF Kinds, Leaf
  <2> QED BY <2>1, <2>2, <2>3, <2>4, <2>5
<1> QED BY <1>3, <1>4 DEF n

\* A step keeps Queued when what it adds is for stacks there are, and when nothing is left for
\* a stack it frees.
LEMMA QueuedKept ==
  ASSUME Queued, UNCHANGED path,
         NEW n \in Nat, NEW o, NEW a \in EventRec \union {Nothing}, NEW b \in EventRec \union {Nothing},
         Becomes(events, events', n, o, a, b),
         a # Nothing => a.stack \in DOMAIN stk' /\ a.ev \in Kinds(Len(a.stack)),
         b # Nothing => b.stack \in DOMAIN stk' /\ b.ev \in Kinds(Len(b.stack)),
         \A s \in DOMAIN stk \ DOMAIN stk' : \A ev \in Kinds(Len(s)) : Count(events', Of(ev, s)) = 0
  PROVE  Queued'
<1>1. IsQueue(events', EventRec)
  BY DEF Becomes
<1>2. \A k : Kinds(k)' = Kinds(k)
  BY DEF Kinds
<1>3. ASSUME NEW i \in 1..Len(events')
      PROVE  events'[i].stack \in DOMAIN stk' /\ events'[i].ev \in Kinds(Len(events'[i].stack))
  <2>1. PICK from : Follows(events, events', n, {a, b} \ {Nothing}, from)
    BY DEF Becomes, Grown
  <2>2. CASE from[i] = 0
    <3>1. events'[i] \in {a, b} \ {Nothing}
      BY <2>1, <2>2 DEF Follows
    <3> QED BY <3>1
  <2>3. CASE from[i] # 0
    <3>1. from[i] \in 0..Len(events) /\ events'[i] = events[from[i]]
      BY <2>1, <2>3 DEF Follows
    <3>2. from[i] \in 1..Len(events)
      BY <2>3, <3>1
    <3>3. events'[i].stack \in DOMAIN stk /\ events'[i].ev \in Kinds(Len(events'[i].stack))
      BY <3>1, <3>2 DEF Queued
    <3>4. events' \in Seq(EventRec)
      BY <1>1 DEF IsQueue
    <3>5. Count(events', Of(events'[i].ev, events'[i].stack)) # 0
      BY <3>4, CountIs
    <3> QED BY <3>3, <3>5
  <2> QED BY <2>2, <2>3
<1> QED BY <1>1, <1>2, <1>3 DEF Queued

-----------------------------------------------------------------------------
(* A transfer outlives its chunks.                                          *)

LEMMA Lengths == \A s \in Name : Len(s) \in Nat /\ (Len(s) = 1 \/ Len(s) = 2 \/ Len(s) = 3 \/ Len(s) = 4)
<1>1. SUFFICES ASSUME NEW s \in Name PROVE Len(s) \in Nat /\ (Len(s) = 1 \/ Len(s) = 2 \/ Len(s) = 3 \/ Len(s) = 4)
  OBVIOUS
<1> DEFINE n == Len(s)
<1>2. n \in 1..4
  BY DEF Name
<1> HIDE DEF n
<1>3. n \in Nat /\ (n = 1 \/ n = 2 \/ n = 3 \/ n = 4)
  BY <1>2
<1> QED BY <1>3 DEF n

LEMMA ParentLevel ==
  \A s \in Name : /\ Len(s) = 2 => Front(s) \in Name /\ Len(Front(s)) = 1 /\ Front(s)[1] = s[1]
                  /\ Len(s) = 3 => Front(s) \in Name /\ Len(Front(s)) = 2 /\ Front(s)[1] = s[1]
                  /\ Len(s) = 4 => Front(s) \in Name /\ Len(Front(s)) = 3 /\ Front(s)[1] = s[1]
<1>1. SUFFICES ASSUME NEW s \in Name
               PROVE  /\ Len(s) = 2 => Front(s) \in Name /\ Len(Front(s)) = 1 /\ Front(s)[1] = s[1]
                      /\ Len(s) = 3 => Front(s) \in Name /\ Len(Front(s)) = 2 /\ Front(s)[1] = s[1]
                      /\ Len(s) = 4 => Front(s) \in Name /\ Len(Front(s)) = 3 /\ Front(s)[1] = s[1]
  OBVIOUS
<1> DEFINE n == Len(s)
           m == Len(Front(s))
<1>2. n > 1 => Front(s) \in Name /\ m = n - 1 /\ Front(s)[1] = s[1]
  BY ParentName
<1> HIDE DEF n, m
<1>3. /\ n = 2 => Front(s) \in Name /\ m = 1 /\ Front(s)[1] = s[1]
      /\ n = 3 => Front(s) \in Name /\ m = 2 /\ Front(s)[1] = s[1]
      /\ n = 4 => Front(s) \in Name /\ m = 3 /\ Front(s)[1] = s[1]
  BY <1>2
<1> QED BY <1>3 DEF n, m

LEMMA UnderIs ==
  ASSUME NEW s \in Name, NEW c \in Name, Len(c) = 2, Under(s, c)
  PROVE  s = c \/ (Len(s) = 3 /\ Front(s) = c) \/ (Len(s) = 4 /\ Len(Front(s)) = 3 /\ Front(Front(s)) = c)
<1>1. \A x : Front(<<x>>) = <<>>
  BY DEF Front
<1>2. Front(<<>>) = <<>>
  BY DEF Front
<1>3. c # <<>>
  <2>1. Len(<<>>) = 0
    OBVIOUS
  <2> QED BY <2>1
<1>4. \A q \in Name : Len(q) = 1 => Front(q) = <<>>
  BY <1>1, TaskName DEF Name
<1>5. CASE Len(s) = 1
  BY <1>2, <1>3, <1>4, <1>5 DEF Under
<1>6. CASE Len(s) = 2
  <2>1. Front(s) \in Name /\ Len(Front(s)) = 1
    BY <1>6, ParentLevel
  <2>2. Front(Front(s)) = <<>>
    BY <1>4, <2>1
  <2> QED BY <1>3, <2>1, <2>2 DEF Under
<1>7. CASE Len(s) = 3
  <2>1. Front(s) \in Name /\ Len(Front(s)) = 2
    BY <1>7, ParentLevel
  <2>2. Len(Front(Front(s))) = 1
    BY <2>1, ParentLevel
  <2> QED BY <1>7, <2>1, <2>2 DEF Under
<1>8. CASE Len(s) = 4
  <2>1. Front(s) \in Name /\ Len(Front(s)) = 3
    BY <1>8, ParentLevel
  <2> QED BY <1>8, <2>1 DEF Under
<1> QED BY <1>5, <1>6, <1>7, <1>8, Lengths

\* What a step owes to the event i for the next chunk, while c holds the transfer.
AddedInTime(i, x, c) ==
  x # Nothing /\ Under(x.stack, c) =>
    /\ events[i].left <= x.left + Slack(x.ev, IsLoad(c))
    /\ Late(x.ev) => events[i].left <= x.left
    /\ x.ev = "Bursts" => stk'[c].left > 0

StaysHeld(i, c, n, a, b) ==
  /\ c \in DOMAIN stk' /\ IsLoad(c)' = IsLoad(c)
  /\ AddedInTime(i, a, c) /\ AddedInTime(i, b, c)
  /\ \A k \in 1..Len(events) : k > n /\ Under(events[k].stack, c) /\ events[k].ev = "Bursts" => stk'[c].left > 0
  /\ Count(memoplist', {c}) > 0 => events[i].left <= Slack("Chunk", IsLoad(c))
  /\ \A s \in DOMAIN memory' : ~Under(s, c)

LEMMA HeldKept ==
  ASSUME UNCHANGED path, NEW n \in Nat, NEW a, NEW b, NEW from,
         IsQueue(events, EventRec), IsQueue(events', EventRec),
         Follows(events, events', n, {a, b} \ {Nothing}, from),
         NEW i \in 1..Len(events), NEW j \in 1..Len(events'), from[j] = i,
         NEW c, HeldBy(i, c), StaysHeld(i, c, n, a, b)
  PROVE  HeldBy(j, c)'
<1> DEFINE l == IsLoad(c)
<1>1. /\ \A e, x : Slack(e, x)' = Slack(e, x)
      /\ \A e : Late(e)' = Late(e)
  BY DEF Slack, Late
<1>2. events'[j] = events[i] /\ events'[j] \in EventRec
  <2>1. i # 0
    OBVIOUS
  <2> QED BY <2>1 DEF Follows, IsQueue
<1>3. ASSUME NEW k \in 1..Len(events'), Under(events'[k].stack, c)
      PROVE  InTime(events[j], events[k], c, j < k)'
  <2>1. CASE from[k] = 0
    <3>1. events'[k] \in {a, b} \ {Nothing}
      BY <2>1 DEF Follows
    <3>2. /\ events[i].left <= events'[k].left + Slack(events'[k].ev, l)
          /\ Late(events'[k].ev) => events[i].left <= events'[k].left
          /\ events'[k].ev = "Bursts" => stk'[c].left > 0
      BY <1>3, <3>1 DEF StaysHeld, AddedInTime
    <3>3. j < k <=> events'[j].left <= events'[k].left
      <4>1. from[j] # 0
        OBVIOUS
      <4> QED BY <2>1, <4>1 DEF Follows
    <3>4. l' = l
      BY DEF StaysHeld
    <3> QED BY <1>1, <1>2, <3>2, <3>3, <3>4 DEF InTime
  <2>2. CASE from[k] # 0
    <3>1. from[k] \in 0..Len(events) /\ from[k] > n /\ events'[k] = events[from[k]]
      BY <2>2 DEF Follows
    <3>2. from[k] \in 1..Len(events)
      BY <2>2, <3>1
    <3>3. InTime(events[i], events'[k], c, i < from[k])
      BY <1>3, <3>1, <3>2 DEF HeldBy
    <3>4. j < k <=> i < from[k]
      <4>1. from[j] # 0
        OBVIOUS
      <4> QED BY <2>2, <4>1 DEF Follows
    <3>5. events'[k].ev = "Bursts" => stk'[c].left > 0
      BY <1>3, <3>1, <3>2 DEF StaysHeld
    <3>6. l' = l
      BY DEF StaysHeld
    <3>7. /\ events[i].left <= events'[k].left + Slack(events'[k].ev, l)
          /\ Late(events'[k].ev) => i < from[k]
      BY <3>3 DEF InTime
    <3> QED BY <1>1, <1>2, <3>4, <3>5, <3>6, <3>7 DEF InTime
  <2> QED BY <2>1, <2>2
<1>4. Waiting(c)' > 0 => events[i].left <= Slack("Chunk", IsLoad(c))'
  BY <1>1 DEF StaysHeld, Waiting
<1> HIDE DEF l
<1>5. Len(c) = 2 /\ Front(c) = events[i].stack /\ \A s \in DOMAIN memory' : ~Under(s, c)
  BY DEF HeldBy, StaysHeld
<1> QED BY <1>2, <1>3, <1>4, <1>5 DEF HeldBy

\* When a step adds an event for the next chunk, a chunk must hold the transfer by itself.
LEMMA HeldWith ==
  ASSUME Held, UNCHANGED path, NEW n \in Nat, NEW o, NEW a, NEW b, Becomes(events, events', n, o, a, b),
         \A j \in 1..Len(events') :
           events'[j] \in {a, b} \ {Nothing} /\ events'[j].ev = "Pre" => \E c \in DOMAIN stk' : HeldBy(j, c)',
         \A i \in 1..Len(events), c \in DOMAIN stk :
           i > n /\ events[i].ev = "Pre" /\ HeldBy(i, c) => StaysHeld(i, c, n, a, b)
  PROVE  Held'
<1>1. SUFFICES ASSUME NEW j \in 1..Len(events'), events'[j].ev = "Pre"
               PROVE  \E c \in DOMAIN stk' : HeldBy(j, c)'
  BY DEF Held
<1>2. PICK from : Follows(events, events', n, {a, b} \ {Nothing}, from)
  BY DEF Becomes, Grown
<1>3. CASE from[j] = 0
  <2>1. events'[j] \in {a, b} \ {Nothing}
    BY <1>2, <1>3 DEF Follows
  <2> QED BY <1>1, <2>1
<1>4. CASE from[j] # 0
  <2>1. from[j] \in 0..Len(events) /\ from[j] > n /\ events'[j] = events[from[j]]
    BY <1>2, <1>4 DEF Follows
  <2>2. from[j] \in 1..Len(events)
    BY <1>4, <2>1
  <2>3. PICK c \in DOMAIN stk : HeldBy(from[j], c)
    BY <1>1, <2>1, <2>2 DEF Held
  <2>4. StaysHeld(from[j], c, n, a, b)
    BY <1>1, <2>1, <2>2, <2>3
  <2>5. HeldBy(j, c)'
    BY <1>2, <2>2, <2>3, <2>4, HeldKept DEF Becomes
  <2> QED BY <2>4, <2>5 DEF StaysHeld
<1> QED BY <1>3, <1>4

LEMMA HeldStep ==
  ASSUME Held, UNCHANGED path, NEW n \in Nat, NEW o, NEW a, NEW b, Becomes(events, events', n, o, a, b),
         a.ev # "Pre", b.ev # "Pre",
         \A i \in 1..Len(events), c \in DOMAIN stk :
           i > n /\ events[i].ev = "Pre" /\ HeldBy(i, c) => StaysHeld(i, c, n, a, b)
  PROVE  Held'
<1>1. \A j \in 1..Len(events') : ~(events'[j] \in {a, b} \ {Nothing} /\ events'[j].ev = "Pre")
  OBVIOUS
<1> QED BY <1>1, HeldWith

-----------------------------------------------------------------------------
(* A burst outlives its beats.                                              *)

\* What a step does to what the burst u of the event i waits for: nothing, or one of its beats
\* goes on to the memory or returns.
Untouched(u, n) ==
  /\ KidsIn(DOMAIN stk', u) = Kids(u)
  /\ N("BeatFinish", u) = 0 => Count(events', Of("BeatFinish", u)) = 0
  /\ \A k \in 1..Len(events) : k <= n => ~(events[k].ev = "Words" /\ events[k].stack \in Kids(u))

BeatHandled(u, n, New) ==
  LET w == events[1].stack IN
  /\ n = 1 /\ w \in Kids(u) /\ events[1].left = 0
  /\ \A k \in 2..Len(events) : ~(events[k].ev = "Words" /\ events[k].stack = w)
  /\ \/ KidsIn(DOMAIN stk', u) = Kids(u)
     \/ KidsIn(DOMAIN stk', u) = Kids(u) \ {w} /\ Event("BeatFinish", u, 0) \in New

LEMMA ContinuedKept ==
  ASSUME NEW n \in Nat, NEW New, NEW from,
         IsQueue(events, EventRec), IsQueue(events', EventRec), Follows(events, events', n, New, from),
         NEW i \in 1..Len(events), NEW j \in 1..Len(events'), from[j] = i, i > n, Continued(i),
         Untouched(events[i].stack, n) \/ BeatHandled(events[i].stack, n, New)
  PROVE  Continued(j)'
<1> DEFINE u == events[i].stack
           K == KidsIn(DOMAIN stk', u)
<1>1. from[j] # 0 /\ events'[j] = events[i] /\ events[i] \in EventRec
  BY DEF Follows, IsQueue
<1>2. ASSUME NEW k \in 1..Len(events), k > n
      PROVE  \E m \in 1..Len(events') : events'[m] = events[k] /\ (i < k => j < m)
  <2>1. PICK m \in 1..Len(events') : from[m] = k
    BY <1>2 DEF Follows
  <2>2. from[m] # 0
    BY <2>1
  <2>3. events'[m] = events[k] /\ (j < m <=> i < k)
    BY <1>1, <2>1, <2>2 DEF Follows
  <2> QED BY <2>3
<1>3. ASSUME \/ K = {} /\ Count(events', Of("BeatFinish", u)) = 0
             \/ \E m \in 1..Len(events') :
                  events'[m].ev = "Words" /\ events'[m].stack \in K /\ events[i].left <= events'[m].left
             \/ events[i].left = 0 /\ K # {}
             \/ events[i].left = 0 /\ \E m \in 1..Len(events') : j < m /\ events'[m].ev = "BeatFinish" /\ events'[m].stack = u
      PROVE  Continued(j)'
  BY <1>1, <1>3 DEF Continued, Kids, N
<1>4. CASE Untouched(u, n)
  <2>1. CASE Kids(u) = {} /\ N("BeatFinish", u) = 0
    <3>1. K = {} /\ Count(events', Of("BeatFinish", u)) = 0
      BY <1>4, <2>1 DEF Untouched
    <3> QED BY <1>3, <3>1
  <2>2. CASE \E k \in 1..Len(events) :
               /\ events[k].ev = "Words" /\ events[k].stack \in Kids(u) /\ events[i].left <= events[k].left
    <3>1. PICK k \in 1..Len(events) :
               /\ events[k].ev = "Words" /\ events[k].stack \in Kids(u) /\ events[i].left <= events[k].left
      BY <2>2
    <3>2. k > n
      <4>1. ~(k <= n)
        BY <1>4, <3>1 DEF Untouched
      <4>2. k \in Nat
        OBVIOUS
      <4> QED BY <4>1, <4>2
    <3>3. PICK m \in 1..Len(events') : events'[m] = events[k]
      BY <1>2, <3>2
    <3>4. events'[m].ev = "Words" /\ events'[m].stack \in K /\ events[i].left <= events'[m].left
      BY <1>4, <3>1, <3>3 DEF Untouched
    <3> HIDE DEF K
    <3> QED BY <1>3, <3>4
  <2>3. CASE events[i].left = 0 /\ Kids(u) # {}
    BY <1>3, <1>4, <2>3 DEF Untouched
  <2>4. CASE events[i].left = 0 /\ \E k \in 1..Len(events) : i < k /\ events[k].ev = "BeatFinish" /\ events[k].stack = u
    <3>1. PICK k \in 1..Len(events) : i < k /\ events[k].ev = "BeatFinish" /\ events[k].stack = u
      BY <2>4
    <3>2. k > n
      BY <3>1
    <3>3. PICK m \in 1..Len(events') : events'[m] = events[k] /\ (i < k => j < m)
      BY <1>2, <3>2
    <3> HIDE DEF K
    <3> QED BY <1>3, <2>4, <3>1, <3>3
  <2> HIDE DEF K
  <2> QED BY <2>1, <2>2, <2>3, <2>4 DEF Continued
<1>5. CASE BeatHandled(u, n, New)
  <2> DEFINE w == events[1].stack
  <2>1. CASE events[i].left = 0
    <3>1. CASE K = Kids(u)
      <4>1. K # {}
        BY <1>5, <3>1 DEF BeatHandled
      <4> QED BY <1>3, <2>1, <4>1
    <3>2. CASE Event("BeatFinish", u, 0) \in New
      <4>1. PICK m \in 1..Len(events') : from[m] = 0 /\ events'[m] = Event("BeatFinish", u, 0)
        BY <3>2 DEF Follows
      <4>2. events'[m].ev = "BeatFinish" /\ events'[m].stack = u /\ events'[m].left = 0
        BY <4>1 DEF Event
      <4>3. j < m
        <5>1. j < m <=> events'[j].left <= events'[m].left
          BY <1>1, <4>1 DEF Follows
        <5> QED BY <1>1, <2>1, <4>2, <5>1
      <4> HIDE DEF K
      <4> QED BY <1>3, <2>1, <4>2, <4>3
    <3> QED BY <1>5, <3>1, <3>2 DEF BeatHandled
  <2>2. CASE events[i].left # 0
    <3>1. PICK k \in 1..Len(events) :
               /\ events[k].ev = "Words" /\ events[k].stack \in Kids(u) /\ events[i].left <= events[k].left
      BY <1>5, <2>2 DEF Continued, BeatHandled
    <3>2. events[i].left \in Nat \ {0}
      BY <1>1, <2>2 DEF EventRec
    <3>3. k # 1
      BY <1>5, <3>1, <3>2 DEF BeatHandled
    <3>4. k \in 2..Len(events) /\ k > n
      BY <1>5, <3>3 DEF BeatHandled
    <3>5. PICK m \in 1..Len(events') : events'[m] = events[k]
      BY <1>2, <3>4
    <3>6. events[k].stack \in K
      BY <1>5, <3>1, <3>4 DEF BeatHandled
    <3> HIDE DEF K
    <3> QED BY <1>3, <3>1, <3>5, <3>6
  <2> QED BY <2>1, <2>2
<1> QED BY <1>4, <1>5

\* When a step adds an event for the next beat, its burst must outlive it by itself.
LEMMA ContinuesWith ==
  ASSUME Continues, NEW n \in Nat, NEW o, NEW a, NEW b, Becomes(events, events', n, o, a, b),
         \A j \in 1..Len(events') : events'[j] \in {a, b} \ {Nothing} /\ events'[j].ev = "Beats" => Continued(j)',
         \A i \in 1..Len(events) :
           i > n /\ events[i].ev = "Beats" =>
             Untouched(events[i].stack, n) \/ BeatHandled(events[i].stack, n, {a, b} \ {Nothing})
  PROVE  Continues'
<1>1. SUFFICES ASSUME NEW j \in 1..Len(events'), events'[j].ev = "Beats"
               PROVE  Continued(j)'
  BY DEF Continues
<1>2. PICK from : Follows(events, events', n, {a, b} \ {Nothing}, from)
  BY DEF Becomes, Grown
<1>3. CASE from[j] = 0
  <2>1. events'[j] \in {a, b} \ {Nothing}
    BY <1>2, <1>3 DEF Follows
  <2> QED BY <1>1, <2>1
<1>4. CASE from[j] # 0
  <2>1. from[j] \in 0..Len(events) /\ from[j] > n /\ events'[j] = events[from[j]]
    BY <1>2, <1>4 DEF Follows
  <2>2. from[j] \in 1..Len(events)
    BY <1>4, <2>1
  <2>3. Continued(from[j]) /\ (Untouched(events[from[j]].stack, n) \/ BeatHandled(events[from[j]].stack, n, {a, b} \ {Nothing}))
    BY <1>1, <2>1, <2>2 DEF Continues
  <2> QED BY <1>2, <2>1, <2>2, <2>3, ContinuedKept DEF Becomes
<1> QED BY <1>3, <1>4

LEMMA ContinuesStep ==
  ASSUME Continues, NEW n \in Nat, NEW o, NEW a, NEW b, Becomes(events, events', n, o, a, b),
         a.ev # "Beats", b.ev # "Beats",
         \A i \in 1..Len(events) :
           i > n /\ events[i].ev = "Beats" =>
             Untouched(events[i].stack, n) \/ BeatHandled(events[i].stack, n, {a, b} \ {Nothing})
  PROVE  Continues'
<1>1. \A j \in 1..Len(events') : ~(events'[j] \in {a, b} \ {Nothing} /\ events'[j].ev = "Beats")
  OBVIOUS
<1> QED BY <1>1, ContinuesWith

-----------------------------------------------------------------------------
(* What a step leaves alone.                                                *)

LEMMA Numbers ==
  ASSUME Typed, Queued
  PROVE  /\ \A s, ev : N(ev, s) \in Nat
         /\ \A s : Below(s) \in Nat /\ Waiting(s) \in Nat /\ Unanswered(s) \in Nat
         /\ \A s : Below(s) = 0 <=> Kids(s) = {}
         /\ \A s : Waiting(s) = 0 <=> \A i \in 1..Len(memoplist) : memoplist[i] # s
<1>1. \A s, ev : N(ev, s) \in Nat
  BY Counts DEF N, Queued
<1>2. \A s : Below(s) \in Nat /\ (Below(s) = 0 <=> Kids(s) = {})
  BY KidsAre DEF Below, Kids, Typed, Closed
<1>3. ASSUME NEW s
      PROVE  Waiting(s) \in Nat /\ (Waiting(s) = 0 <=> \A i \in 1..Len(memoplist) : memoplist[i] # s)
  <2>1. memoplist \in Seq(Name)
    BY DEF Typed
  <2>2. Count(memoplist, {s}) = 0 <=> \A i \in 1..Len(memoplist) : memoplist[i] \notin {s}
    BY <2>1, CountNone
  <2>3. Count(memoplist, {s}) \in Nat
    BY <2>1, PlacesFinite
  <2> QED BY <2>2, <2>3 DEF Waiting
<1>4. \A s : Unanswered(s) \in Nat
  BY DEF Unanswered, Typed
<1> QED BY <1>1, <1>2, <1>3, <1>4

LEMMA NumbersAt ==
  ASSUME Typed, Queued, NEW s
  PROVE  /\ N("Pre", s) \in Nat /\ N("PreFinish", s) \in Nat
         /\ N("Chunk", s) \in Nat /\ N("Bursts", s) \in Nat /\ N("Finish", s) \in Nat
         /\ N("Beats", s) \in Nat /\ N("BeatFinish", s) \in Nat
         /\ N("Words", s) \in Nat /\ N("Memory", s) \in Nat /\ N("WordFinish", s) \in Nat
         /\ Below(s) \in Nat /\ Waiting(s) \in Nat /\ Unanswered(s) \in Nat
BY Numbers

\* How many events of each kind the stack s has, by which of the events are its own.
LEMMA Aside ==
  ASSUME NEW n, NEW o, NEW a, NEW b, Becomes(events, events', n, o, a, b), NEW s \in Name,
         o.stack # s, a.stack # s, b.stack # s
  PROVE  \A ev : Count(events', Of(ev, s)) = N(ev, s)
<1>1. \A ev : Is(o, ev, s) = 0 /\ Is(a, ev, s) = 0 /\ Is(b, ev, s) = 0
  BY DEF Is
<1>2. \A ev : Count(events', Of(ev, s)) = N(ev, s) - Is(o, ev, s) + Is(a, ev, s) + Is(b, ev, s) /\ N(ev, s) \in Nat
  BY DEF Becomes, N
<1> QED BY <1>1, <1>2

LEMMA Leaves ==
  ASSUME NEW n, NEW o, NEW a, NEW b, Becomes(events, events', n, o, a, b), NEW s \in Name,
         o.stack = s, a.stack # s, b.stack # s
  PROVE  /\ Count(events', Of(o.ev, s)) = N(o.ev, s) - 1
         /\ \A ev : ev # o.ev => Count(events', Of(ev, s)) = N(ev, s)
<1>1. /\ \A ev : Is(a, ev, s) = 0 /\ Is(b, ev, s) = 0
      /\ Is(o, o.ev, s) = 1 /\ \A ev : ev # o.ev => Is(o, ev, s) = 0
  BY DEF Is
<1>2. \A ev : Count(events', Of(ev, s)) = N(ev, s) - Is(o, ev, s) + Is(a, ev, s) + Is(b, ev, s) /\ N(ev, s) \in Nat
  BY DEF Becomes, N
<1> QED BY <1>1, <1>2

LEMMA Arrives ==
  ASSUME NEW n, NEW o, NEW a, NEW b, Becomes(events, events', n, o, a, b), NEW s \in Name,
         o.stack # s, a.stack = s, b.stack # s
  PROVE  /\ Count(events', Of(a.ev, s)) = N(a.ev, s) + 1
         /\ \A ev : ev # a.ev => Count(events', Of(ev, s)) = N(ev, s)
<1>1. /\ \A ev : Is(o, ev, s) = 0 /\ Is(b, ev, s) = 0
      /\ Is(a, a.ev, s) = 1 /\ \A ev : ev # a.ev => Is(a, ev, s) = 0
  BY DEF Is
<1>2. \A ev : Count(events', Of(ev, s)) = N(ev, s) - Is(o, ev, s) + Is(a, ev, s) + Is(b, ev, s) /\ N(ev, s) \in Nat
  BY DEF Becomes, N
<1> QED BY <1>1, <1>2

LEMMA ArrivesToo ==
  ASSUME NEW n, NEW o, NEW a, NEW b, Becomes(events, events', n, o, a, b), NEW s \in Name,
         o.stack # s, a.stack # s, b.stack = s
  PROVE  /\ Count(events', Of(b.ev, s)) = N(b.ev, s) + 1
         /\ \A ev : ev # b.ev => Count(events', Of(ev, s)) = N(ev, s)
<1>1. /\ \A ev : Is(o, ev, s) = 0 /\ Is(a, ev, s) = 0
      /\ Is(b, b.ev, s) = 1 /\ \A ev : ev # b.ev => Is(b, ev, s) = 0
  BY DEF Is
<1>2. \A ev : Count(events', Of(ev, s)) = N(ev, s) - Is(o, ev, s) + Is(a, ev, s) + Is(b, ev, s) /\ N(ev, s) \in Nat
  BY DEF Becomes, N
<1> QED BY <1>1, <1>2

LEMMA Turns ==
  ASSUME NEW n, NEW o, NEW a, NEW b, Becomes(events, events', n, o, a, b), NEW s \in Name,
         o.stack = s, a.stack = s, b.stack # s, o.ev # a.ev
  PROVE  /\ Count(events', Of(o.ev, s)) = N(o.ev, s) - 1
         /\ Count(events', Of(a.ev, s)) = N(a.ev, s) + 1
         /\ \A ev : ev # o.ev /\ ev # a.ev => Count(events', Of(ev, s)) = N(ev, s)
<1>1. /\ \A ev : Is(b, ev, s) = 0
      /\ Is(o, o.ev, s) = 1 /\ \A ev : ev # o.ev => Is(o, ev, s) = 0
      /\ Is(a, a.ev, s) = 1 /\ \A ev : ev # a.ev => Is(a, ev, s) = 0
  BY DEF Is
<1>2. \A ev : Count(events', Of(ev, s)) = N(ev, s) - Is(o, ev, s) + Is(a, ev, s) + Is(b, ev, s) /\ N(ev, s) \in Nat
  BY DEF Becomes, N
<1> QED BY <1>1, <1>2

LEMMA ComesAgain ==
  ASSUME NEW n, NEW o, NEW a, NEW b, Becomes(events, events', n, o, a, b), NEW s \in Name,
         o.stack = s, a.stack # s, b.stack = s, o.ev = b.ev
  PROVE  \A ev : Count(events', Of(ev, s)) = N(ev, s)
<1>1. \A ev : Is(a, ev, s) = 0 /\ Is(b, ev, s) = Is(o, ev, s) /\ Is(o, ev, s) \in Nat
  BY DEF Is
<1>2. \A ev : Count(events', Of(ev, s)) = N(ev, s) - Is(o, ev, s) + Is(a, ev, s) + Is(b, ev, s) /\ N(ev, s) \in Nat
  BY DEF Becomes, N
<1> QED BY <1>1, <1>2

LEMMA NothingAside == \A s \in Name : Nothing.stack # s
<1>1. \A s \in Name : Len(s) # 0
  BY DEF Name
<1>2. Nothing.stack = <<>>
  BY DEF Nothing
<1> QED BY <1>1, <1>2

\* A chunk is at one thing.
LEMMA ChunkOnly ==
  ASSUME Typed, Queued, NEW s, ChunkCounted(s)
  PROVE  /\ N("Chunk", s) > 0  => N("Chunk", s) = 1 /\ Waiting(s) = 0 /\ N("Bursts", s) = 0 /\ N("Finish", s) = 0 /\ Below(s) = 0
         /\ Waiting(s) > 0     => N("Chunk", s) = 0 /\ Waiting(s) = 1 /\ N("Bursts", s) = 0 /\ N("Finish", s) = 0 /\ Below(s) = 0
         /\ N("Bursts", s) > 0 => N("Chunk", s) = 0 /\ Waiting(s) = 0 /\ N("Bursts", s) = 1 /\ N("Finish", s) = 0 /\ Below(s) = 0
         /\ N("Finish", s) > 0 => N("Chunk", s) = 0 /\ Waiting(s) = 0 /\ N("Bursts", s) = 0 /\ N("Finish", s) = 1 /\ Below(s) = 0
         /\ Below(s) > 0       => N("Chunk", s) = 0 /\ Waiting(s) = 0 /\ N("Bursts", s) = 0 /\ N("Finish", s) = 0 /\ Below(s) = 1
<1> DEFINE v == N("Chunk", s)
           w == Waiting(s)
           x == N("Bursts", s)
           y == N("Finish", s)
           z == Below(s)
<1>1. v \in Nat /\ w \in Nat /\ x \in Nat /\ y \in Nat /\ z \in Nat
  BY NumbersAt
<1>2. v + w + x + y + z <= 1
  BY DEF ChunkCounted
<1> HIDE DEF v, w, x, y, z
<1>3. /\ v > 0 => v = 1 /\ w = 0 /\ x = 0 /\ y = 0 /\ z = 0
      /\ w > 0 => v = 0 /\ w = 1 /\ x = 0 /\ y = 0 /\ z = 0
      /\ x > 0 => v = 0 /\ w = 0 /\ x = 1 /\ y = 0 /\ z = 0
      /\ y > 0 => v = 0 /\ w = 0 /\ x = 0 /\ y = 1 /\ z = 0
      /\ z > 0 => v = 0 /\ w = 0 /\ x = 0 /\ y = 0 /\ z = 1
  BY <1>1, <1>2
<1> QED BY <1>3 DEF v, w, x, y, z

LEMMA LeafOnly ==
  ASSUME Typed, Queued, NEW s, LeafCounted(s), stk[s].count \in Nat
  PROVE  /\ N("Chunk", s) > 0 \/ Waiting(s) > 0 => N("Words", s) = 0 /\ N("Memory", s) = 0 /\ N("WordFinish", s) = 0 /\ Unanswered(s) = 0
         /\ N("Words", s) > 0 => N("Chunk", s) = 0 /\ Waiting(s) = 0 /\ N("Words", s) = 1 /\ N("Memory", s) = 0
                                 /\ N("WordFinish", s) = 0 /\ Unanswered(s) = 0
         /\ N("Memory", s) > 0 => N("Chunk", s) = 0 /\ Waiting(s) = 0 /\ N("Words", s) = 0 /\ N("Memory", s) = 1
                                  /\ N("WordFinish", s) = 0 /\ Unanswered(s) = 0
         /\ N("WordFinish", s) > 0 \/ Unanswered(s) > 0 =>
              N("Chunk", s) = 0 /\ Waiting(s) = 0 /\ N("Words", s) = 0 /\ N("Memory", s) = 0
         /\ N("WordFinish", s) > 0 /\ stk[s].count = 1 => N("WordFinish", s) = 1 /\ Unanswered(s) = 0
<1> DEFINE v == N("Chunk", s)
           w == Waiting(s)
           x == N("Words", s)
           y == N("Memory", s)
           z == N("WordFinish", s)
           u == Unanswered(s)
           k == stk[s].count
<1>1. v \in Nat /\ w \in Nat /\ x \in Nat /\ y \in Nat /\ z \in Nat /\ u \in Nat /\ k \in Nat
  BY NumbersAt
<1>2. v + w + x + y <= 1 /\ (v + w + x + y = 1 => z + u = 0) /\ z + u <= k
  BY DEF LeafCounted
<1> HIDE DEF v, w, x, y, z, u, k
<1>3. (v > 0 \/ w > 0) => (x = 0 /\ y = 0 /\ z = 0 /\ u = 0)
  BY <1>1, <1>2
<1>4. x > 0 => (v = 0 /\ w = 0 /\ x = 1 /\ y = 0 /\ z = 0 /\ u = 0)
  BY <1>1, <1>2
<1>5. y > 0 => (v = 0 /\ w = 0 /\ x = 0 /\ y = 1 /\ z = 0 /\ u = 0)
  BY <1>1, <1>2
<1>6. (z > 0 \/ u > 0) => (v = 0 /\ w = 0 /\ x = 0 /\ y = 0)
  BY <1>1, <1>2
<1>7. (z > 0 /\ k = 1) => (z = 1 /\ u = 0)
  BY <1>1, <1>2
<1> QED BY <1>3, <1>4, <1>5, <1>6, <1>7 DEF v, w, x, y, z, u, k

\* Every stack belongs to a task that has asked for something and has not been told.
LEMMA Rooted ==
  ASSUME NEW D, Closed(D), NEW s \in D
  PROVE  <<s[1]>> \in D /\ s[1] \in Tasks /\ <<s[1]>>[1] = s[1] /\ Len(<<s[1]>>) = 1
<1>1. D \subseteq Name /\ \A x \in D : Len(x) > 1 => Front(x) \in D
  BY DEF Closed
<1>2. \A x \in Name : x[1] \in Tasks
  BY DEF Name
<1>3. \A x \in D : Len(x) = 1 => <<x[1]>> \in D
  <2>1. \A x \in D : Len(x) = 1 => x = <<x[1]>>
    BY <1>1, <1>2, TaskName
  <2> QED BY <2>1
<1>4. \A x \in D : Len(x) = 2 => <<x[1]>> \in D
  <2>1. ASSUME NEW x \in D, Len(x) = 2
        PROVE  <<x[1]>> \in D
    <3>1. x \in Name
      BY <1>1
    <3>2. Len(x) > 1
      BY <2>1
    <3>3. Front(x) \in D
      BY <1>1, <3>2, Zenon
    <3>4. Len(Front(x)) = 1 /\ Front(x)[1] = x[1]
      BY <2>1, <3>1, ParentLevel, Zenon
    <3> QED BY <1>3, <3>3, <3>4, Zenon
  <2> QED BY <2>1
<1>5. \A x \in D : Len(x) = 3 => <<x[1]>> \in D
  <2>1. ASSUME NEW x \in D, Len(x) = 3
        PROVE  <<x[1]>> \in D
    <3>1. x \in Name
      BY <1>1
    <3>2. Len(x) > 1
      BY <2>1
    <3>3. Front(x) \in D
      BY <1>1, <3>2, Zenon
    <3>4. Len(Front(x)) = 2 /\ Front(x)[1] = x[1]
      BY <2>1, <3>1, ParentLevel, Zenon
    <3> QED BY <1>4, <3>3, <3>4, Zenon
  <2> QED BY <2>1
<1>6. \A x \in D : Len(x) = 4 => <<x[1]>> \in D
  <2>1. ASSUME NEW x \in D, Len(x) = 4
        PROVE  <<x[1]>> \in D
    <3>1. x \in Name
      BY <1>1
    <3>2. Len(x) > 1
      BY <2>1
    <3>3. Front(x) \in D
      BY <1>1, <3>2, Zenon
    <3>4. Len(Front(x)) = 3 /\ Front(x)[1] = x[1]
      BY <2>1, <3>1, ParentLevel, Zenon
    <3> QED BY <1>5, <3>3, <3>4, Zenon
  <2> QED BY <2>1
<1> QED BY <1>1, <1>2, <1>3, <1>4, <1>5, <1>6, Lengths, TaskName

LEMMA Asked ==
  ASSUME Typed, Counted, NEW s \in DOMAIN stk
  PROVE  /\ s[1] \in Tasks /\ access[s[1]] # None /\ access[s[1]] \in Accesses /\ told[s[1]] = 0
         /\ access[s[1]].load \in BOOLEAN /\ access[s[1]].addr \in Nat /\ access[s[1]].size \in Nat
<1>1. <<s[1]>> \in DOMAIN stk /\ s[1] \in Tasks /\ <<s[1]>>[1] = s[1] /\ Len(<<s[1]>>) = 1
  BY Rooted DEF Typed
<1>2. access[s[1]] # None /\ told[s[1]] = 0
  BY <1>1 DEF Counted, CountedFor, TransferCounted
<1>3. access[s[1]] \in Accesses
  BY <1>1, <1>2 DEF Typed
<1> QED BY <1>1, <1>2, <1>3, TransferAssumption

LEMMA SlackNat ==
  ASSUME Typed, Counted, NEW s \in DOMAIN stk, NEW ev
  PROVE  Slack(ev, IsLoad(s)) \in Nat
<1>1. IsLoad(s) \in BOOLEAN
  BY Asked DEF IsLoad
<1>2. Extra[IsLoad(s)] \in Nat /\ MemoryLatency \in Nat
  BY <1>1, TransferAssumption
<1> QED BY <1>2 DEF Slack

SameCounts(s) ==
  /\ access'[s[1]] = access[s[1]] /\ told'[s[1]] = told[s[1]] /\ stk'[s] = stk[s]
  /\ \A ev : Count(events', Of(ev, s)) = N(ev, s)
  /\ Cardinality(KidsIn(DOMAIN stk', s)) = Below(s)
  /\ Count(memoplist', {s}) = Waiting(s)
  /\ Unanswered(s)' = Unanswered(s)

LEMMA CountedSame ==
  ASSUME UNCHANGED path, NEW s, CountedFor(s), SameCounts(s)
  PROVE  CountedFor(s)'
<1>1. /\ \A ev : N(ev, s)' = N(ev, s)
      /\ Below(s)' = Below(s) /\ Waiting(s)' = Waiting(s) /\ Unanswered(s)' = Unanswered(s) /\ Leaf' = Leaf
  BY DEF SameCounts, N, Below, Kids, Waiting, Leaf
<1>2. stk'[s] = stk[s] /\ access'[s[1]] = access[s[1]] /\ told'[s[1]] = told[s[1]]
  BY DEF SameCounts
<1>3. Len(s) = 1 => TransferCounted(s)'
  BY <1>1, <1>2 DEF CountedFor, TransferCounted
<1>4. Len(s) = 2 => ChunkCounted(s)'
  BY <1>1, <1>2 DEF CountedFor, ChunkCounted
<1>5. Len(s) = 3 => BurstCounted(s)'
  BY <1>1, <1>2 DEF CountedFor, BurstCounted
<1>6. Len(s) = Leaf => LeafCounted(s)'
  BY <1>1, <1>2 DEF CountedFor, LeafCounted
<1> QED BY <1>1, <1>3, <1>4, <1>5, <1>6 DEF CountedFor

SizedSame(s) ==
  /\ access'[s[1]] = access[s[1]]
  /\ stk'[s].addr = stk[s].addr /\ stk'[s].buf = stk[s].buf /\ stk'[s].size = stk[s].size /\ stk'[s].left = stk[s].left
  /\ Len(s) = 2 =>
       /\ Count(events', Of("Chunk", s)) + Count(memoplist', {s}) > 0 => N("Chunk", s) + Waiting(s) > 0
       /\ Count(events', Of("Bursts", s)) + Cardinality(KidsIn(DOMAIN stk', s)) > 0 => N("Bursts", s) + Below(s) > 0
       /\ Count(events', Of("Finish", s)) > 0 => N("Finish", s) > 0 \/ stk[s].size <= 0

LEMMA SizedKept ==
  ASSUME NEW s, Sized(s), SizedSame(s)
  PROVE  Sized(s)'
<1>1. /\ stk'[s].addr = access'[s[1]].addr + stk'[s].buf
      /\ Len(s) = 1 => stk'[s].size >= 0 /\ stk'[s].buf + stk'[s].size = access'[s[1]].size
  BY DEF Sized, SizedSame
<1>2. ASSUME Len(s) = 2
      PROVE  /\ N("Chunk", s)' + Waiting(s)' > 0 => stk'[s].size > 0
             /\ N("Bursts", s)' + Below(s)' > 0 => stk'[s].size <= stk'[s].left * (Length * Width)
             /\ N("Finish", s)' > 0 => stk'[s].size <= 0
  BY <1>2 DEF Sized, SizedSame, N, Below, Kids, Waiting
<1> QED BY <1>1, <1>2 DEF Sized

LEMMA SizedAside ==
  ASSUME NEW s, SameCounts(s)
  PROVE  SizedSame(s)
BY DEF SameCounts, SizedSame

\* The stacks that a step changes pass on what they owe.
LEMMA CoveredKept ==
  ASSUME Covered, UNCHANGED <<path, access, told>>,
         \A t, o : InBuffer(t, o) /\ Exchanged(t, o) => Exchanged(t, o)',
         \A s \in DOMAIN stk : \A o : (s \in DOMAIN stk' /\ stk'[s] = stk[s])
                                  \/ (Owed(s, o) /\ InBuffer(s[1], o) =>
                                        Exchanged(s[1], o)' \/ \E r \in DOMAIN stk' : r[1] = s[1] /\ Owed(r, o)')
  PROVE  Covered'
<1>1. SUFFICES ASSUME NEW t \in Tasks, access[t] # None, NEW o \in 0..(access[t].size - 1), ~Exchanged(t, o)'
               PROVE  told[t] = 0 /\ \E r \in DOMAIN stk' : r[1] = t /\ Owed(r, o)'
  BY DEF Covered
<1>0. InBuffer(t, o)
  BY <1>1 DEF InBuffer
<1>2. PICK s \in DOMAIN stk : told[t] = 0 /\ s[1] = t /\ Owed(s, o)
  BY <1>0, <1>1 DEF Covered
<1>3. CASE s \in DOMAIN stk' /\ stk'[s] = stk[s]
  <2>1. Owed(s, o)'
    BY <1>2, <1>3 DEF Owed
  <2> QED BY <1>2, <1>3, <2>1
<1>4. CASE ~(s \in DOMAIN stk' /\ stk'[s] = stk[s])
  <2>1. Exchanged(s[1], o)' \/ \E r \in DOMAIN stk' : r[1] = s[1] /\ Owed(r, o)'
    BY <1>0, <1>2, <1>4
  <2> QED BY <1>1, <1>2, <2>1
<1> QED BY <1>3, <1>4

\* A step that changes no more of the stacks than their counters.
LEMMA BytesSame ==
  ASSUME Bytes, Closed(DOMAIN stk), UNCHANGED <<path, access, image, told>>, DOMAIN stk' = DOMAIN stk,
         \A s \in DOMAIN stk : SizedSame(s) /\ stk'[s].offset = stk[s].offset
  PROVE  Bytes'
<1>1. ASSUME NEW s \in DOMAIN stk
      PROVE  Passed(s)' /\ Sized(s)'
  <2>1. Sized(s)'
    BY SizedKept DEF Bytes
  <2>2. Passed(s) /\ (Len(s) > 1 => stk'[Front(s)].buf = stk[Front(s)].buf /\ stk'[Front(s)].offset = stk[Front(s)].offset)
    BY DEF Bytes, SizedSame, Closed
  <2>3. Passed(s)'
    BY <2>2 DEF Passed
  <2> QED BY <2>1, <2>3
<1>2. ASSUME NEW s \in DOMAIN stk, NEW o, Owed(s, o)
      PROVE  Owed(s, o)'
  BY <1>2 DEF Owed, SizedSame
<1>3. \A t, o : Exchanged(t, o) => Exchanged(t, o)'
  BY DEF Exchanged
<1>4. Covered'
  BY <1>2, <1>3, CoveredKept DEF Bytes
<1> QED BY <1>1, <1>4 DEF Bytes

\* A stack is freed when it owes nothing any more.
LEMMA BytesFreed ==
  ASSUME Bytes, Closed(DOMAIN stk), UNCHANGED <<path, access, told>>, NEW c \in DOMAIN stk, Kids(c) = {},
         DOMAIN stk' = DOMAIN stk \ {c},
         \A s \in DOMAIN stk : s # c => stk'[s] = stk[s] /\ SizedSame(s),
         \A t, o : InBuffer(t, o) /\ Exchanged(t, o) => Exchanged(t, o)',
         \A o : Owed(c, o) /\ InBuffer(c[1], o) => Exchanged(c[1], o)'
  PROVE  Bytes'
<1>1. ASSUME NEW s \in DOMAIN stk'
      PROVE  Passed(s)' /\ Sized(s)'
  <2>1. Sized(s)'
    BY SizedKept DEF Bytes
  <2>2. Len(s) > 1 => Front(s) \in DOMAIN stk /\ Front(s) # c
    BY DEF Closed, Kids, KidsIn
  <2>3. Passed(s) /\ (Len(s) > 1 => stk'[Front(s)] = stk[Front(s)])
    BY <2>2 DEF Bytes
  <2>4. Passed(s)'
    BY <2>3 DEF Passed
  <2> QED BY <2>1, <2>4
<1>2. Covered'
  BY CoveredKept DEF Bytes
<1> QED BY <1>1, <1>2 DEF Bytes

\* The event that is handled does not come before a transfer's next chunk.
LEMMA HeldLate ==
  ASSUME Typed, Counted, Held, IsQueue(events, EventRec), UNCHANGED <<path, access>>, events # <<>>,
         NEW c, c = events[1].stack, Late(events[1].ev) \/ Len(c) = 1, c \in Name,
         NEW a, NEW b, a.ev # "Pre", b.ev # "Pre", Becomes(events, events', 1, events[1], a, b),
         \A h \in DOMAIN stk, x \in {a, b} :
           Len(h) = 2 /\ x # Nothing /\ Under(x.stack, h) =>
             Under(c, h) \/ (x.ev = "Chunk" /\ x.left = 0 /\ x.stack = h /\ Waiting(h) > 0),
         \A s \in DOMAIN stk : s # c => s \in DOMAIN stk' /\ stk'[s] = stk[s],
         \A s \in DOMAIN stk : Count(memoplist', {s}) > 0 => Waiting(s) > 0,
         \A s \in DOMAIN memory' : s \in DOMAIN memory \/ s = c
  PROVE  Held'
<1>1. ASSUME NEW i \in 1..Len(events), NEW h \in DOMAIN stk, i > 1, HeldBy(i, h)
      PROVE  StaysHeld(i, h, 1, a, b)
  <2>1. Len(h) = 2 /\ h \in Name
    BY <1>1 DEF HeldBy, Typed, Closed
  <2>2. ~Under(c, h)
    <3>1. CASE Len(c) = 1
      <4>1. ASSUME Under(c, h) PROVE FALSE
        <5>1. c = h \/ Len(c) = 3 \/ Len(c) = 4
          BY <2>1, <4>1, UnderIs
        <5> QED BY <2>1, <3>1, <5>1
      <4> QED BY <4>1
    <3>2. CASE Late(events[1].ev)
      <4>1. 1 \in 1..Len(events) /\ ~(i < 1)
        BY <1>1
      <4> QED BY <1>1, <3>2, <4>1 DEF HeldBy, InTime
    <3> QED BY <3>1, <3>2
  <2>3. h # c
    BY <2>2 DEF Under
  <2>4. Waiting(h) > 0 => events[i].left <= Slack("Chunk", IsLoad(h))
    BY <1>1 DEF HeldBy
  <2>5. Slack("Chunk", IsLoad(h)) = 0 + Slack("Chunk", IsLoad(h))
    BY SlackNat
  <2>6. ~Late("Chunk")
    BY DEF Late
  <2>7. \A x \in {a, b} : AddedInTime(i, x, h)
    BY <2>1, <2>2, <2>4, <2>5, <2>6 DEF AddedInTime
  <2>8. h \in DOMAIN stk' /\ stk'[h] = stk[h] /\ IsLoad(h)' = IsLoad(h)
    BY <2>3 DEF IsLoad
  <2>9. \A k \in 1..Len(events) : Under(events[k].stack, h) /\ events[k].ev = "Bursts" => stk'[h].left > 0
    BY <1>1, <2>8 DEF HeldBy, InTime
  <2>10. \A s \in DOMAIN memory' : ~Under(s, h)
    BY <1>1, <2>2 DEF HeldBy
  <2> QED BY <2>4, <2>7, <2>8, <2>9, <2>10 DEF StaysHeld
<1> QED BY <1>1, HeldStep

LEMMA LeafKids ==
  ASSUME Typed, NEW c \in DOMAIN stk, Len(c) = Leaf
  PROVE  Kids(c) = {}
<1>1. SUFFICES ASSUME NEW k \in Kids(c) PROVE FALSE
  OBVIOUS
<1>2. k \in DOMAIN stk /\ k \in Name /\ Len(k) > 1 /\ Front(k) = c /\ Len(k) <= Leaf
  BY <1>1 DEF Kids, KidsIn, Typed, Closed
<1>3. Len(c) = Len(k) - 1 /\ Len(k) \in Nat
  BY <1>2, ParentName, Lengths
<1> QED BY <1>2, <1>3

LEMMA StackFreed ==
  ASSUME Typed, NEW c \in DOMAIN stk, stk' = Freed(stk, c), Kids(c) = {}
  PROVE  /\ DOMAIN stk' = DOMAIN stk \ {c} /\ \A s \in DOMAIN stk : s # c => stk'[s] = stk[s]
         /\ stk' \in [DOMAIN stk' -> StackRec] /\ Closed(DOMAIN stk')
         /\ \A s : KidsIn(DOMAIN stk', s) = IF Len(c) > 1 /\ s = Front(c) THEN Kids(s) \ {c} ELSE Kids(s)
         /\ \A s : Cardinality(KidsIn(DOMAIN stk', s)) = IF Len(c) > 1 /\ s = Front(c) THEN Below(s) - 1 ELSE Below(s)
         /\ Len(c) > 1 => Front(c) \in DOMAIN stk /\ Front(c) # c /\ c \in Kids(Front(c)) /\ Below(Front(c)) > 0
<1>1. DOMAIN stk' = DOMAIN stk \ {c} /\ \A s \in DOMAIN stk : s # c => stk'[s] = stk[s]
  BY DEF Freed, Restrict
<1>2. stk' \in [DOMAIN stk' -> StackRec]
  BY FreedIn DEF Typed
<1> DEFINE D == DOMAIN stk
<1>3. Closed(D) /\ KidsIn(D, c) = {} /\ c \in D
  BY DEF Typed, Kids
<1>4. /\ Closed(D \ {c})
      /\ \A s : KidsIn(D \ {c}, s) = IF Len(c) > 1 /\ s = Front(c) THEN KidsIn(D, s) \ {c} ELSE KidsIn(D, s)
      /\ \A s : Cardinality(KidsIn(D \ {c}, s)) =
                  IF Len(c) > 1 /\ s = Front(c) THEN Cardinality(KidsIn(D, s)) - 1 ELSE Cardinality(KidsIn(D, s))
      /\ Len(c) > 1 => c \in KidsIn(D, Front(c)) /\ Cardinality(KidsIn(D, Front(c))) > 0
  <2> HIDE DEF D
  <2> QED BY <1>3, KidsFreed
<1>5. Len(c) > 1 => Front(c) \in DOMAIN stk /\ Front(c) # c
  BY <1>3, ParentName DEF Closed
<1> QED BY <1>1, <1>2, <1>4, <1>5 DEF Kids, Below

-----------------------------------------------------------------------------
(* The memory and its answers.                                             *)

LEMMA MemoryKeeps ==
  ASSUME TransferInv, Memory
  PROVE  TransferInv'
<1>0. PICK c, e : c = Cur /\ e = events[1]
  OBVIOUS
<1>2. /\ Handles("Memory") /\ memory' = Put(memory, c, S.count) /\ events' = Tail(events)
      /\ UNCHANGED <<path, access, stk, portuse, memoplist, image, told>>
  BY <1>0 DEF Memory
<1>1. Typed /\ Queued /\ Counted /\ Held /\ Continues /\ Bytes
  BY DEF TransferInv
<1>3. /\ IsQueue(events, EventRec) /\ events # <<>> /\ e.ev = "Memory" /\ e.left = 0 /\ e.stack = c
      /\ c \in DOMAIN stk /\ c \in Name /\ "Memory" \in Kinds(Len(c)) /\ Len(c) <= Leaf
      /\ N("Memory", c) > 0 /\ stk[c] \in StackRec /\ S = stk[c] /\ CountedFor(c)
      /\ \A s, ev : Is(e, ev, s) = IF ev = "Memory" /\ s = c THEN 1 ELSE 0
  BY <1>0, <1>2, Due
<1>4. Len(c) = Leaf /\ Leaf \in {2, 4}
  BY <1>1, <1>3, Level DEF Typed
<1>5. Becomes(events, events', 1, e, Nothing, Nothing)
  BY <1>0, <1>2, <1>3, HandledNone
<1>6. /\ \A s, ev : N(ev, s) \in Nat
      /\ \A s : Below(s) \in Nat /\ Waiting(s) \in Nat /\ Unanswered(s) \in Nat
  BY <1>1, Numbers
<1>7. \A s \in Name : \A ev : Count(events', Of(ev, s)) = N(ev, s) - Is(e, ev, s)
  BY <1>5, Fewer DEF N
<1>8. LeafCounted(c)
  BY <1>1, <1>3, <1>4 DEF Counted, CountedFor
<1>9. /\ N("Memory", c) = 1 /\ N("Chunk", c) = 0 /\ Waiting(c) = 0 /\ N("Words", c) = 0
      /\ N("WordFinish", c) = 0 /\ Unanswered(c) = 0 /\ stk[c].count > 0
  <2>1. /\ N("Chunk", c) \in Nat /\ N("Words", c) \in Nat /\ N("Memory", c) \in Nat /\ N("WordFinish", c) \in Nat
        /\ Waiting(c) \in Nat /\ Unanswered(c) \in Nat
    BY <1>1, NumbersAt
  <2>2. N("Memory", c) > 0
    BY <1>3
  <2> QED BY <1>8, <2>1, <2>2 DEF LeafCounted
<1>10. /\ DOMAIN memory' = DOMAIN memory \union {c} /\ memory'[c] = stk[c].count
       /\ \A s \in DOMAIN memory : s # c => memory'[s] = memory[s]
  BY <1>2, <1>3 DEF Put
<1>11. /\ Unanswered(c)' = stk[c].count
       /\ \A s : s # c => Unanswered(s)' = Unanswered(s)
  BY <1>10 DEF Unanswered
<1>12. Typed'
  <2>1. stk[c].count \in Nat \ {0}
    BY <1>1, <1>3, <1>9 DEF Typed, StackRec
  <2>2. memory' \in [DOMAIN memory' -> Nat \ {0}]
    BY <1>1, <1>2, <1>3, <2>1, PutIn DEF Typed
  <2>3. \A s \in DOMAIN memory' : s \in DOMAIN stk /\ Len(s) = Leaf
    BY <1>1, <1>3, <1>4, <1>10 DEF Typed
  <2>4. Leaf' = Leaf
    BY <1>2 DEF Leaf
  <2> QED BY <1>1, <1>2, <2>2, <2>3, <2>4 DEF Typed
<1>13. Queued'
  BY <1>1, <1>2, <1>5, QueuedKept
<1>14. Counted'
  <2>1. SUFFICES ASSUME NEW s \in DOMAIN stk PROVE CountedFor(s)'
    BY <1>2 DEF Counted
  <2>2. s \in Name /\ CountedFor(s)
    BY <1>1 DEF Counted, Typed, Closed
  <2>3. CASE s # c
    <3>1. SameCounts(s)
      BY <1>2, <1>3, <1>6, <1>7, <1>11, <2>2, <2>3 DEF SameCounts, Below, Kids, Waiting
    <3> QED BY <1>2, <2>2, <3>1, CountedSame
  <2>4. CASE s = c
    <3>1. /\ N("Memory", s)' = 0 /\ \A ev : ev # "Memory" => N(ev, s)' = N(ev, s)
          /\ Waiting(s)' = Waiting(s) /\ Below(s)' = Below(s) /\ Leaf' = Leaf /\ Unanswered(s)' = stk[s].count
      BY <1>2, <1>3, <1>6, <1>7, <1>9, <1>11, <2>2, <2>4 DEF N, Waiting, Below, Kids, Leaf
    <3>2. LeafCounted(s)'
      <4>1. stk[s].count \in Nat /\ N("Chunk", s)' = 0 /\ Waiting(s)' = 0 /\ N("Words", s)' = 0 /\ N("WordFinish", s)' = 0
        BY <1>3, <1>9, <2>4, <3>1 DEF StackRec
      <4> QED BY <1>2, <3>1, <4>1 DEF LeafCounted
    <3>3. Len(s) = 2 => ChunkCounted(s)'
      BY <2>2, <3>1 DEF CountedFor, ChunkCounted
    <3>4. Len(s) = Leaf' /\ Len(s) \in {2, 4}
      BY <1>4, <2>4, <3>1, Zenon
    <3> QED BY <3>2, <3>3, <3>4 DEF CountedFor
  <2> QED BY <2>3, <2>4
<1>15. Held'
  <2>1. Late("Memory")
    BY DEF Late
  <2> QED BY <1>0, <1>1, <1>2, <1>3, <1>5, <1>10, <2>1, HeldLate, NothingEv DEF Waiting
<1>16. Continues'
  <2>1. ASSUME NEW i \in 1..Len(events)
        PROVE  Untouched(events[i].stack, 1)
    <3>1. events[i].stack \in Name
      BY <1>3, QueueRec
    <3>2. \A k \in 1..Len(events) : k <= 1 => events[k].ev # "Words"
      BY <1>0, <1>3
    <3>3. Count(events', Of("BeatFinish", events[i].stack)) = N("BeatFinish", events[i].stack)
      BY <1>3, <1>6, <1>7, <3>1
    <3> QED BY <1>2, <3>2, <3>3 DEF Untouched, Kids
  <2> QED BY <1>1, <1>5, <2>1, ContinuesStep, NothingEv
<1>17. Bytes'
  <2>1. ASSUME NEW s \in DOMAIN stk
        PROVE  SizedSame(s)
    <3>1. \A ev : ev # "Memory" => Count(events', Of(ev, s)) = N(ev, s)
      BY <1>1, <1>3, <1>6, <1>7 DEF Typed, Closed
    <3> QED BY <1>2, <3>1 DEF SizedSame, Below, Kids, Waiting
  <2> QED BY <1>1, <1>2, <2>1, BytesSame DEF Typed
<1> QED BY <1>12, <1>13, <1>14, <1>15, <1>16, <1>17 DEF TransferInv

-----------------------------------------------------------------------------
(* Beats.                                                                  *)

LEMMA TypedFreed ==
  ASSUME Typed, NEW c \in DOMAIN stk, stk' = Freed(stk, c), Kids(c) = {}, UNCHANGED <<path, access, memory>>,
         c \notin DOMAIN memory, portuse' \in Int, told' \in [Tasks -> 0..1], \A t \in Tasks : access[t] = None => told'[t] = 0,
         memoplist' \in Seq(Name),
         \A i \in 1..Len(memoplist') : memoplist'[i] # c /\ \E j \in 1..Len(memoplist) : memoplist'[i] = memoplist[j],
         image' = [t \in Tasks |-> image'[t]], \A t \in Tasks : DOMAIN image'[t] = DOMAIN image[t]
  PROVE  Typed'
<1>1. /\ DOMAIN stk' = DOMAIN stk \ {c}
      /\ stk' \in [DOMAIN stk' -> StackRec] /\ Closed(DOMAIN stk')
  BY StackFreed
<1>2. \A s \in DOMAIN stk' : Len(s) <= Leaf
  BY <1>1 DEF Typed
<1>3. \A i \in 1..Len(memoplist') : memoplist'[i] \in DOMAIN stk' /\ Len(memoplist'[i]) = 2
  BY <1>1 DEF Typed
<1>4. \A s \in DOMAIN memory : s \in DOMAIN stk' /\ Len(s) = Leaf
  BY <1>1 DEF Typed
<1>5. Leaf' = Leaf
  BY DEF Leaf
<1>6. \A t \in Tasks : access[t] # None => DOMAIN image'[t] = 0..(access[t].size - 1)
  BY DEF Typed
<1>7. memory \in [DOMAIN memory -> Nat \ {0}] /\ path \in {"burst", "large"} /\ access \in [Tasks -> Accesses \union {None}]
  BY DEF Typed
<1> QED BY <1>1, <1>2, <1>3, <1>4, <1>5, <1>6, <1>7 DEF Typed

LEMMA BeatFinishFrees ==
  ASSUME TransferInv, BeatFinish, S.count = 1
  PROVE  TransferInv'
<1>0. PICK c, e, p, a : c = Cur /\ e = events[1] /\ p = Front(c) /\ a = Event("Bursts", p, 0)
  OBVIOUS
<1>2. /\ Handles("BeatFinish") /\ stk' = Freed(stk, c) /\ events' = Scheduled(Tail(events), a)
      /\ UNCHANGED <<path, access, portuse, memoplist, memory, image, told>>
  BY <1>0 DEF BeatFinish, Return
<1>1. Typed /\ Queued /\ Counted /\ Held /\ Continues /\ Bytes
  BY DEF TransferInv
<1>3. /\ IsQueue(events, EventRec) /\ events # <<>> /\ e.ev = "BeatFinish" /\ e.left = 0 /\ e.stack = c
      /\ c \in DOMAIN stk /\ c \in Name /\ "BeatFinish" \in Kinds(Len(c)) /\ Len(c) <= Leaf
      /\ N("BeatFinish", c) > 0 /\ stk[c] \in StackRec /\ S = stk[c] /\ CountedFor(c) /\ 1 \in 1..Len(events)
  BY <1>0, <1>2, Due
<1>4. Len(c) = 3 /\ path = "burst" /\ Leaf = 4 /\ stk[c].count = 1
  BY <1>1, <1>3, Level DEF Typed
<1>5. p \in Name /\ Len(p) = 2 /\ p[1] = c[1]
  BY <1>0, <1>3, <1>4, ParentLevel
<1>6. /\ \A s, ev : N(ev, s) \in Nat
      /\ \A s : Below(s) \in Nat /\ Waiting(s) \in Nat /\ Unanswered(s) \in Nat
      /\ \A s : Below(s) = 0 <=> Kids(s) = {}
  BY <1>1, Numbers
<1>7. BurstCounted(c)
  BY <1>3, <1>4 DEF CountedFor
<1>8. Kids(c) = {} /\ N("BeatFinish", c) = 1
  <2>1. Below(c) + N("BeatFinish", c) <= 1
    BY <1>4, <1>7 DEF BurstCounted
  <2>2. N("BeatFinish", c) \in Nat /\ N("BeatFinish", c) > 0 /\ Below(c) \in Nat
    BY <1>3, <1>6
  <2>3. Below(c) = 0 /\ N("BeatFinish", c) = 1
    BY <2>1, <2>2
  <2> QED BY <1>6, <2>3
<1>9. /\ DOMAIN stk' = DOMAIN stk \ {c} /\ \A s \in DOMAIN stk : s # c => stk'[s] = stk[s]
      /\ \A s : s # p => KidsIn(DOMAIN stk', s) = Kids(s) /\ Cardinality(KidsIn(DOMAIN stk', s)) = Below(s)
      /\ Cardinality(KidsIn(DOMAIN stk', p)) = Below(p) - 1
      /\ p \in DOMAIN stk /\ p # c /\ c \in Kids(p) /\ Below(p) > 0
  <2>1. Len(c) > 1
    BY <1>4
  <2> QED BY <1>0, <1>1, <1>2, <1>3, <1>8, <2>1, StackFreed
<1>10. a \in EventRec /\ a.ev = "Bursts" /\ a.stack = p /\ a.left = 0
  <2>1. "Bursts" \in EventName /\ 0 \in Nat
    BY DEF EventName
  <2> QED BY <1>0, <1>5, <2>1, EventIsRec
<1>11. Becomes(events, events', 1, e, a, Nothing)
  BY <1>0, <1>2, <1>3, <1>10, HandledOne
<1>12. \A s \in DOMAIN stk : s \in Name /\ Nothing.stack # s
  BY <1>1, NothingAside DEF Typed, Closed
<1>13. N("Beats", c) = 0
  <2>1. ASSUME N("Beats", c) # 0 PROVE FALSE
    <3>1. PICK i \in 1..Len(events) : events[i].ev = "Beats" /\ events[i].stack = c
      BY <1>3, <2>1, CountIs DEF N, IsQueue
    <3>2. Continued(i)
      BY <1>1, <3>1 DEF Continues
    <3>3. PICK j \in 1..Len(events) : i < j /\ events[j].ev = "BeatFinish" /\ events[j].stack = c
      BY <1>8, <3>1, <3>2 DEF Continued
    <3>4. events[1] \in Of("BeatFinish", c) /\ events[j] \in Of("BeatFinish", c)
      BY <1>0, <1>3, <3>3, QueueRec, InOf
    <3>5. Count(events, Of("BeatFinish", c)) <= 1
      BY <1>8 DEF N
    <3>6. j = 1
      BY <1>3, <3>4, <3>5, CountOne DEF IsQueue
    <3> QED BY <3>3, <3>6
  <2> QED BY <2>1
<1>14. N("Chunk", p) = 0 /\ Waiting(p) = 0 /\ N("Bursts", p) = 0 /\ N("Finish", p) = 0 /\ Below(p) = 1
  <2>1. ChunkCounted(p)
    BY <1>1, <1>5, <1>9 DEF Counted, CountedFor
  <2> QED BY <1>1, <1>9, <2>1, ChunkOnly

\* The events of c, of p and of the others.
<1>15. Count(events', Of("BeatFinish", c)) = 0 /\ Count(events', Of("Beats", c)) = 0
  <2>1. /\ Count(events', Of("BeatFinish", c)) = N("BeatFinish", c) - 1
        /\ Count(events', Of("Beats", c)) = N("Beats", c)
    <3>0. c \in Name /\ e.stack = c /\ a.stack # c /\ Nothing.stack # c
      BY <1>3, <1>9, <1>10, <1>12
    <3>1. /\ Count(events', Of(e.ev, c)) = N(e.ev, c) - 1
          /\ \A ev : ev # e.ev => Count(events', Of(ev, c)) = N(ev, c)
      BY <1>11, <3>0, Leaves
    <3> QED BY <1>3, <3>1
  <2> QED BY <1>8, <1>13, <2>1
<1>16. /\ Count(events', Of("Bursts", p)) = 1
       /\ Count(events', Of("Chunk", p)) = 0 /\ Count(events', Of("Finish", p)) = 0
  <2>1. /\ Count(events', Of("Bursts", p)) = N("Bursts", p) + 1
        /\ Count(events', Of("Chunk", p)) = N("Chunk", p) /\ Count(events', Of("Finish", p)) = N("Finish", p)
    <3>0. p \in Name /\ e.stack # p /\ a.stack = p /\ Nothing.stack # p
      BY <1>3, <1>5, <1>9, <1>10, <1>12
    <3>1. /\ Count(events', Of(a.ev, p)) = N(a.ev, p) + 1
          /\ \A ev : ev # a.ev => Count(events', Of(ev, p)) = N(ev, p)
      BY <1>11, <3>0, Arrives
    <3> QED BY <1>10, <3>1
  <2> QED BY <1>14, <2>1
<1>17. ASSUME NEW s \in DOMAIN stk, s # c, s # p
       PROVE  SameCounts(s)
  <2>1. \A ev : Count(events', Of(ev, s)) = N(ev, s)
    BY <1>3, <1>10, <1>11, <1>12, <1>17, Aside
  <2> QED BY <1>2, <1>9, <1>17, <2>1 DEF SameCounts, Waiting, Unanswered
<1>18. Typed'
  <2>0. Len(c) # 2 /\ Len(c) # Leaf
    BY <1>4
  <2>1. \A i \in 1..Len(memoplist) : memoplist[i] # c
    <3>1. \A i \in 1..Len(memoplist) : Len(memoplist[i]) = 2
      BY <1>1 DEF Typed
    <3> QED BY <2>0, <3>1
  <2>2. c \notin DOMAIN memory
    <3>1. \A s \in DOMAIN memory : Len(s) = Leaf
      BY <1>1 DEF Typed
    <3> QED BY <2>0, <3>1
  <2> QED BY <1>1, <1>2, <1>3, <1>8, <2>1, <2>2, TypedFreed DEF Typed
<1>19. Queued'
  <2>1. \A ev \in Kinds(Len(c)) : Count(events', Of(ev, c)) = 0
    <3>1. Kinds(Len(c)) = {"Beats", "BeatFinish"}
      BY <1>4 DEF Kinds
    <3> QED BY <1>15, <3>1
  <2>2. a.stack \in DOMAIN stk' /\ a.ev \in Kinds(Len(a.stack))
    BY <1>4, <1>5, <1>9, <1>10 DEF Kinds
  <2>3. \A s \in DOMAIN stk \ DOMAIN stk' : s = c
    BY <1>9
  <2> QED BY <1>1, <1>2, <1>10, <1>11, <2>1, <2>2, <2>3, QueuedKept
<1>20. Counted'
  <2>1. SUFFICES ASSUME NEW s \in DOMAIN stk' PROVE CountedFor(s)'
    BY DEF Counted
  <2>2. CountedFor(s) /\ s \in DOMAIN stk /\ s # c
    BY <1>1, <1>9 DEF Counted
  <2>3. CASE s # p
    BY <1>2, <1>17, <2>2, <2>3, CountedSame
  <2>4. CASE s = p
    <3>1. /\ N("Chunk", s)' = 0 /\ Waiting(s)' = 0 /\ N("Bursts", s)' = 1 /\ N("Finish", s)' = 0 /\ Below(s)' = 0
      BY <1>2, <1>9, <1>14, <1>16, <2>4 DEF N, Below, Kids, Waiting
    <3>2. ChunkCounted(s)' /\ Leaf' = 4
      BY <1>2, <1>4, <3>1 DEF ChunkCounted, Leaf
    <3> QED BY <1>5, <2>4, <3>2 DEF CountedFor
  <2> QED BY <2>3, <2>4
<1>21. Held'
  <2>1. Late("BeatFinish") /\ a.ev # "Pre"
    BY <1>4, <1>10 DEF Late
  <2>2. ASSUME NEW h \in DOMAIN stk, NEW x \in {a, Nothing}, Len(h) = 2, x # Nothing, Under(x.stack, h)
        PROVE  Under(c, h)
    <3>1. Under(p, h)
      BY <1>10, <2>2
    <3>2. p = h \/ Len(p) = 3 \/ Len(p) = 4
      BY <1>5, <1>12, <2>2, <3>1, UnderIs
    <3>3. Len(p) # 3 /\ Len(p) # 4
      BY <1>5
    <3>4. p = h
      BY <3>2, <3>3
    <3> QED BY <1>0, <3>4 DEF Under
  <2>3. \A s \in DOMAIN stk : s # c => s \in DOMAIN stk' /\ stk'[s] = stk[s]
    BY <1>9
  <2>4. \A s \in DOMAIN stk : Count(memoplist', {s}) > 0 => Waiting(s) > 0
    BY <1>2 DEF Waiting
  <2> QED BY <1>0, <1>1, <1>2, <1>3, <1>11, <2>1, <2>2, <2>3, <2>4, HeldLate, NothingEv
<1>22. Continues'
  <2>1. ASSUME NEW i \in 1..Len(events), events[i].ev = "Beats"
        PROVE  Untouched(events[i].stack, 1)
    <3>1. events[i].stack \in DOMAIN stk /\ events[i].stack # p
      <4>1. "Beats" \in Kinds(Len(events[i].stack)) /\ events[i].stack \in DOMAIN stk
        BY <1>1, <2>1 DEF Queued
      <4>2. Len(events[i].stack) = 3
        BY <1>1, <4>1, Level DEF Typed, Closed
      <4>3. Len(events[i].stack) # Len(p)
        BY <1>5, <4>2
      <4> QED BY <4>1, <4>3
    <3>2. \A k \in 1..Len(events) : k <= 1 => events[k].ev # "Words"
      BY <1>0, <1>3
    <3>3. N("BeatFinish", events[i].stack) = 0 => Count(events', Of("BeatFinish", events[i].stack)) = 0
      BY <1>15, <1>17, <3>1 DEF SameCounts
    <3> QED BY <1>9, <3>1, <3>2, <3>3 DEF Untouched
  <2> QED BY <1>1, <1>10, <1>11, <2>1, ContinuesStep, NothingEv
<1>23. Bytes'
  <2>1. ASSUME NEW s \in DOMAIN stk, s # c
        PROVE  SizedSame(s)
    <3>1. CASE s = p
      <4>1. N("Bursts", s) + Below(s) > 0
        BY <1>14, <3>1
      <4>2. stk'[s] = stk[s] /\ access'[s[1]] = access[s[1]]
        BY <1>2, <1>9, <2>1
      <4>3. Count(events', Of("Chunk", s)) + Count(memoplist', {s}) = 0 /\ Count(events', Of("Finish", s)) = 0
        BY <1>2, <1>14, <1>16, <3>1 DEF Waiting
      <4> QED BY <4>1, <4>2, <4>3 DEF SizedSame
    <3>2. CASE s # p
      BY <1>17, <2>1, <3>2, SizedAside
    <3> QED BY <3>1, <3>2
  <2>2. ASSUME NEW o, Owed(c, o), InBuffer(c[1], o) PROVE FALSE
    <3>0. o \in Nat
      <4>1. c[1] \in Tasks /\ access[c[1]].size \in Nat
        BY <1>1, <1>3, Asked
      <4> QED BY <2>2, <4>1 DEF InBuffer
    <3>1. stk[c].left = 0
      <4>1. stk[c].left \in Nat
        BY <1>3 DEF StackRec
      <4> QED BY <1>7, <1>13, <4>1 DEF BurstCounted
    <3>2. stk[c].buf + stk[c].offset <= o /\ o < stk[c].buf + stk[c].offset + Least(0 * Width, stk[c].size)
      BY <1>4, <2>2, <3>1 DEF Owed
    <3>3. 0 * Width = 0 /\ stk[c].size \in Int /\ stk[c].buf \in Nat /\ stk[c].offset \in Nat
      BY <1>3, TransferAssumption DEF StackRec
    <3> QED BY <3>0, <3>2, <3>3 DEF Least
  <2>3. \A t, o : Exchanged(t, o) => Exchanged(t, o)'
    BY <1>2 DEF Exchanged
  <2> QED BY <1>1, <1>2, <1>3, <1>8, <1>9, <2>1, <2>2, <2>3, BytesFreed DEF Typed
<1> QED BY <1>18, <1>19, <1>20, <1>21, <1>22, <1>23 DEF TransferInv

\* A beat ends: it is empty, or its last word is there.
LEMMA BeatReturns ==
  ASSUME TransferInv, path = "burst", NEW ev \in {"Words", "WordFinish"}, Handles(ev), ev = "WordFinish" => S.count = 1, NEW c, c = Cur,
         stk' = Freed(stk, c), events' = Scheduled(Tail(events), Return(c, "BeatFinish")),
         UNCHANGED <<path, access, portuse, memoplist, memory, told>>,
         image' = [t \in Tasks |-> image'[t]], \A t \in Tasks : DOMAIN image'[t] = DOMAIN image[t],
         \A t, o : InBuffer(t, o) /\ Exchanged(t, o) => Exchanged(t, o)',
         \A o : Owed(c, o) /\ InBuffer(c[1], o) => Exchanged(c[1], o)'
  PROVE  TransferInv'
<1>0. PICK e, p, a : c = Cur /\ e = events[1] /\ p = Front(c) /\ a = Event("BeatFinish", p, 0)
  OBVIOUS
<1>2. stk' = Freed(stk, c) /\ events' = Scheduled(Tail(events), a)
  BY <1>0 DEF Return
<1>1. Typed /\ Queued /\ Counted /\ Held /\ Continues /\ Bytes
  BY DEF TransferInv
<1>3. /\ IsQueue(events, EventRec) /\ events # <<>> /\ e.ev = ev /\ e.left = 0 /\ e.stack = c
      /\ c \in DOMAIN stk /\ c \in Name /\ ev \in Kinds(Len(c)) /\ Len(c) <= Leaf
      /\ N(ev, c) > 0 /\ stk[c] \in StackRec /\ S = stk[c] /\ CountedFor(c) /\ 1 \in 1..Len(events)
  BY <1>0, Due
<1>4. Len(c) = 4 /\ Leaf = 4 /\ (ev = "WordFinish" => stk[c].count = 1)
  <2>1. Len(c) = Leaf /\ Leaf = 4
    BY <1>1, <1>3, Level DEF Typed
  <2> QED BY <1>3, <2>1
<1>5. p \in Name /\ Len(p) = 3 /\ p[1] = c[1]
  BY <1>0, <1>3, <1>4, ParentLevel
<1>6. /\ \A s, x : N(x, s) \in Nat
      /\ \A s : Below(s) \in Nat /\ Waiting(s) \in Nat /\ Unanswered(s) \in Nat
      /\ \A s : Below(s) = 0 <=> Kids(s) = {}
  BY <1>1, Numbers
<1>7. Kids(c) = {}
  BY <1>1, <1>3, <1>4, LeafKids
<1>8. N(ev, c) = 1 /\ N("Memory", c) = 0 /\ (ev # "Words" => N("Words", c) = 0) /\ (ev # "WordFinish" => N("WordFinish", c) = 0)
      /\ Unanswered(c) = 0
  <2>1. LeafCounted(c) /\ stk[c].count \in Nat
    BY <1>3, <1>4 DEF CountedFor, StackRec
  <2>2. CASE ev = "Words"
    BY <1>1, <1>3, <2>1, <2>2, LeafOnly
  <2>3. CASE ev = "WordFinish"
    BY <1>1, <1>3, <1>4, <2>1, <2>3, LeafOnly
  <2> QED BY <2>2, <2>3
<1>9. /\ DOMAIN stk' = DOMAIN stk \ {c} /\ \A s \in DOMAIN stk : s # c => stk'[s] = stk[s]
      /\ KidsIn(DOMAIN stk', p) = Kids(p) \ {c}
      /\ \A s : s # p => KidsIn(DOMAIN stk', s) = Kids(s) /\ Cardinality(KidsIn(DOMAIN stk', s)) = Below(s)
      /\ Cardinality(KidsIn(DOMAIN stk', p)) = Below(p) - 1
      /\ p \in DOMAIN stk /\ p # c /\ c \in Kids(p) /\ Below(p) > 0
  <2>1. Len(c) > 1
    BY <1>4
  <2> QED BY <1>0, <1>1, <1>2, <1>3, <1>7, <2>1, StackFreed
<1>10. a \in EventRec /\ a.ev = "BeatFinish" /\ a.stack = p /\ a.left = 0
  <2>1. "BeatFinish" \in EventName /\ 0 \in Nat
    BY DEF EventName
  <2> QED BY <1>0, <1>5, <2>1, EventIsRec
<1>11. Becomes(events, events', 1, e, a, Nothing)
  BY <1>0, <1>2, <1>3, <1>10, HandledOne
<1>12. \A s \in DOMAIN stk : s \in Name /\ Nothing.stack # s
  BY <1>1, NothingAside DEF Typed, Closed
<1>13. stk[p].count \in Nat /\ BurstCounted(p)
  BY <1>1, <1>5, <1>9 DEF Counted, CountedFor, Typed, StackRec

\* The events of c, of p and of the others.
<1>15. \A x \in {"Words", "Memory", "WordFinish"} : Count(events', Of(x, c)) = 0
  <2>1. c \in Name /\ e.stack = c /\ a.stack # c /\ Nothing.stack # c
    BY <1>3, <1>9, <1>10, <1>12
  <2>2. /\ Count(events', Of(e.ev, c)) = N(e.ev, c) - 1
        /\ \A x : x # e.ev => Count(events', Of(x, c)) = N(x, c)
    BY <1>11, <2>1, Leaves
  <2> QED BY <1>3, <1>8, <2>2
<1>16. /\ Count(events', Of("BeatFinish", p)) = N("BeatFinish", p) + 1
       /\ \A x : x # "BeatFinish" => Count(events', Of(x, p)) = N(x, p)
  <2>1. p \in Name /\ e.stack # p /\ a.stack = p /\ Nothing.stack # p
    BY <1>3, <1>5, <1>9, <1>10, <1>12
  <2>2. /\ Count(events', Of(a.ev, p)) = N(a.ev, p) + 1
        /\ \A x : x # a.ev => Count(events', Of(x, p)) = N(x, p)
    BY <1>11, <2>1, Arrives
  <2> QED BY <1>10, <2>2
<1>17. ASSUME NEW s \in DOMAIN stk, s # c, s # p
       PROVE  SameCounts(s)
  <2>1. \A x : Count(events', Of(x, s)) = N(x, s)
    BY <1>3, <1>10, <1>11, <1>12, <1>17, Aside
  <2> QED BY <1>2, <1>9, <1>17, <2>1 DEF SameCounts, Waiting, Unanswered
<1>18. Typed'
  <2>0. Len(c) # 2
    BY <1>4
  <2>1. \A i \in 1..Len(memoplist) : memoplist[i] # c
    <3>1. \A i \in 1..Len(memoplist) : Len(memoplist[i]) = 2
      BY <1>1 DEF Typed
    <3> QED BY <2>0, <3>1
  <2>2. c \notin DOMAIN memory
    BY <1>1, <1>8 DEF Typed, Unanswered
  <2> QED BY <1>1, <1>2, <1>3, <1>7, <2>1, <2>2, TypedFreed DEF Typed
<1>19. Queued'
  <2>1. \A x \in Kinds(Len(c)) : Count(events', Of(x, c)) = 0
    <3>1. Kinds(Len(c)) = {"Words", "Memory", "WordFinish"}
      BY <1>4 DEF Kinds
    <3> QED BY <1>15, <3>1
  <2>2. a.stack \in DOMAIN stk' /\ a.ev \in Kinds(Len(a.stack))
    BY <1>5, <1>9, <1>10 DEF Kinds
  <2>3. \A s \in DOMAIN stk \ DOMAIN stk' : s = c
    BY <1>9
  <2> QED BY <1>1, <1>2, <1>10, <1>11, <2>1, <2>2, <2>3, QueuedKept
<1>20. Counted'
  <2>1. SUFFICES ASSUME NEW s \in DOMAIN stk' PROVE CountedFor(s)'
    BY DEF Counted
  <2>2. CountedFor(s) /\ s \in DOMAIN stk /\ s # c
    BY <1>1, <1>9 DEF Counted
  <2>3. CASE s # p
    BY <1>2, <1>17, <2>2, <2>3, CountedSame
  <2>4. CASE s = p
    <3>1. /\ N("Beats", s)' = N("Beats", s) /\ N("BeatFinish", s)' = N("BeatFinish", s) + 1 /\ Below(s)' = Below(s) - 1
          /\ stk'[s] = stk[s]
      BY <1>9, <1>16, <2>2, <2>4 DEF N, Below, Kids
    <3>2. N("BeatFinish", s) \in Nat /\ Below(s) \in Nat /\ stk[s].count \in Nat /\ BurstCounted(s)
      BY <1>6, <1>13, <2>4
    <3>3. BurstCounted(s)' /\ Leaf' = 4
      BY <1>4, <3>1, <3>2 DEF BurstCounted, Leaf
    <3> QED BY <1>5, <2>4, <3>3, SMTT(30) DEF CountedFor
  <2> QED BY <2>3, <2>4
<1>21. Held'
  <2>1. Late(ev) /\ a.ev # "Pre"
    BY <1>10 DEF Late
  <2>2. ASSUME NEW h \in DOMAIN stk, NEW x \in {a, Nothing}, Len(h) = 2, x # Nothing, Under(x.stack, h)
        PROVE  Under(c, h)
    <3>1. Under(p, h)
      BY <1>10, <2>2
    <3>2. p = h \/ (Len(p) = 3 /\ Front(p) = h) \/ Len(p) = 4
      BY <1>5, <1>12, <2>2, <3>1, UnderIs
    <3>3. Len(p) # 4 /\ Len(p) # Len(h)
      BY <1>5, <2>2
    <3>4. Front(p) = h
      BY <3>2, <3>3
    <3> QED BY <1>0, <3>4 DEF Under
  <2>3. \A s \in DOMAIN stk : s # c => s \in DOMAIN stk' /\ stk'[s] = stk[s]
    BY <1>9
  <2>4. \A s \in DOMAIN stk : Count(memoplist', {s}) > 0 => Waiting(s) > 0
    BY DEF Waiting
  <2> QED BY <1>0, <1>1, <1>3, <1>11, <2>1, <2>2, <2>3, <2>4, HeldLate, NothingEv
<1>22. Continues'
  <2>1. ASSUME NEW i \in 1..Len(events), events[i].ev = "Beats"
        PROVE  Untouched(events[i].stack, 1) \/ BeatHandled(events[i].stack, 1, {a, Nothing} \ {Nothing})
    <3>1. events[i].stack \in DOMAIN stk /\ events[i].stack # c
      <4>1. "Beats" \in Kinds(Len(events[i].stack)) /\ events[i].stack \in DOMAIN stk
        BY <1>1, <2>1 DEF Queued
      <4>2. Len(events[i].stack) = 3
        BY <1>1, <4>1, Level DEF Typed, Closed
      <4>3. Len(events[i].stack) # Len(c)
        BY <1>4, <4>2
      <4> QED BY <4>1, <4>3
    <3>2. CASE events[i].stack = p
      <4>1. \A k \in 2..Len(events) : ~(events[k].ev = "Words" /\ events[k].stack = c)
        <5>1. SUFFICES ASSUME NEW k \in 2..Len(events), events[k].ev = "Words", events[k].stack = c PROVE FALSE
          OBVIOUS
        <5>2. k \in 1..Len(events) /\ k # 1
          OBVIOUS
        <5>3. N("Words", c) # 0
          BY <1>3, <5>1, <5>2, CountIs DEF N, IsQueue
        <5>4. ev = "Words"
          BY <1>8, <5>3
        <5>5. events[1] \in Of("Words", c) /\ events[k] \in Of("Words", c)
          BY <1>0, <1>3, <5>1, <5>2, <5>4, QueueRec, InOf
        <5>6. Count(events, Of("Words", c)) <= 1
          BY <1>8, <5>4 DEF N
        <5>7. k = 1
          BY <1>3, <5>2, <5>5, <5>6, CountOne DEF IsQueue
        <5> QED BY <5>2, <5>7
      <4>2. Event("BeatFinish", p, 0) \in {a, Nothing} \ {Nothing}
        BY <1>0, <1>10, NothingIs
      <4>3. BeatHandled(p, 1, {a, Nothing} \ {Nothing})
        BY <1>0, <1>3, <1>9, <4>1, <4>2 DEF BeatHandled
      <4> QED BY <3>2, <4>3
    <3>3. CASE events[i].stack # p
      <4>1. KidsIn(DOMAIN stk', events[i].stack) = Kids(events[i].stack)
        BY <1>9, <3>3
      <4>2. c \notin Kids(events[i].stack)
        BY <1>0, <3>3 DEF Kids, KidsIn
      <4>3. \A k \in 1..Len(events) : k <= 1 => ~(events[k].ev = "Words" /\ events[k].stack \in Kids(events[i].stack))
        BY <1>0, <1>3, <4>2
      <4>4. Count(events', Of("BeatFinish", events[i].stack)) = N("BeatFinish", events[i].stack)
        BY <1>17, <3>1, <3>3 DEF SameCounts
      <4> QED BY <4>1, <4>3, <4>4 DEF Untouched
    <3> QED BY <3>2, <3>3
  <2> QED BY <1>1, <1>10, <1>11, <2>1, ContinuesStep, NothingEv
<1>23. Bytes'
  <2>1. ASSUME NEW s \in DOMAIN stk, s # c
        PROVE  SizedSame(s)
    <3>1. CASE s = p
      <4>1. stk'[s] = stk[s] /\ Len(s) # 2
        BY <1>5, <1>9, <2>1, <3>1
      <4> QED BY <4>1 DEF SizedSame
    <3>2. CASE s # p
      BY <1>17, <2>1, <3>2, SizedAside
    <3> QED BY <3>1, <3>2
  <2> QED BY <1>1, <1>2, <1>3, <1>7, <1>9, <2>1, BytesFreed DEF Typed
<1> QED BY <1>18, <1>19, <1>20, <1>21, <1>22, <1>23 DEF TransferInv

-----------------------------------------------------------------------------
(* Words.                                                                  *)

LEMMA CounterSet ==
  ASSUME Typed, NEW c \in DOMAIN stk, NEW n \in Nat, stk' = [stk EXCEPT ![c].count = n]
  PROVE  /\ DOMAIN stk' = DOMAIN stk /\ stk' \in [DOMAIN stk' -> StackRec]
         /\ \A s \in DOMAIN stk : s # c => stk'[s] = stk[s]
         /\ stk'[c].count = n /\ stk'[c].left = stk[c].left /\ stk'[c].addr = stk[c].addr /\ stk'[c].buf = stk[c].buf
         /\ stk'[c].size = stk[c].size /\ stk'[c].offset = stk[c].offset
         /\ \A s : Kids(s)' = Kids(s) /\ Below(s)' = Below(s)
<1>1. stk \in [DOMAIN stk -> StackRec] /\ stk[c] \in StackRec
  BY DEF Typed
<1>2. DOMAIN stk' = DOMAIN stk /\ (\A s \in DOMAIN stk : s # c => stk'[s] = stk[s]) /\ stk'[c] = [stk[c] EXCEPT !.count = n]
  OBVIOUS
<1>3. /\ stk'[c] \in StackRec
      /\ stk'[c].count = n /\ stk'[c].left = stk[c].left /\ stk'[c].addr = stk[c].addr /\ stk'[c].buf = stk[c].buf
      /\ stk'[c].size = stk[c].size /\ stk'[c].offset = stk[c].offset
  BY <1>1, <1>2 DEF StackRec
<1>4. stk' \in [DOMAIN stk' -> StackRec]
  <2>1. stk' = [s \in DOMAIN stk' |-> stk'[s]]
    OBVIOUS
  <2> QED BY <1>1, <1>2, <1>3, <2>1
<1>5. \A s : Kids(s)' = Kids(s) /\ Below(s)' = Below(s)
  BY <1>2 DEF Kids, Below
<1> QED BY <1>2, <1>3, <1>4, <1>5

LEMMA WordsNat ==
  ASSUME NEW b \in StackRec, path = "large" \/ ~IsEmpty(b)
  PROVE  Words(b) \in Nat
<1>1. b.size \in Int /\ Gran \in Nat /\ Width \in Nat
  BY TransferAssumption DEF StackRec
<1>2. Gran \div 4 \in Nat /\ Width \div 4 \in Nat
  BY <1>1
<1>3. CASE path = "large"
  BY <1>2, <1>3 DEF Words, Word
<1>4. CASE path # "large"
  <2> DEFINE x == Width \div 4
             y == b.size \div 4
  <2>1. x \in Nat /\ y \in Nat
    BY <1>1, <1>2, <1>4 DEF IsEmpty
  <2>2. Words(b) = Min({x, y})
    BY <1>4 DEF Words, Word
  <2> HIDE DEF x, y
  <2>3. Min({x, y}) = Least(x, y)
    BY <2>1, MinTwo
  <2> QED BY <2>1, <2>2, <2>3 DEF Least
<1> QED BY <1>3, <1>4

LEMMA AccessWordsBegins ==
  ASSUME TransferInv, Handles("Words"), path = "large" \/ ~IsEmpty(S), NEW c, c = Cur, NEW n, n = Words(S),
         stk' = [stk EXCEPT ![c].count = n],
         events' = IF n = 0 THEN Tail(events) ELSE Scheduled(Tail(events), Event("Memory", c, MemoryLatency)),
         UNCHANGED <<path, access, portuse, memoplist, memory, image, told>>
  PROVE  TransferInv'
<1>0. PICK e, a : e = events[1] /\ a = IF n = 0 THEN Nothing ELSE Event("Memory", c, MemoryLatency)
  OBVIOUS
<1>1. Typed /\ Queued /\ Counted /\ Held /\ Continues /\ Bytes
  BY DEF TransferInv
<1>3. /\ IsQueue(events, EventRec) /\ events # <<>> /\ e.ev = "Words" /\ e.left = 0 /\ e.stack = c
      /\ c \in DOMAIN stk /\ c \in Name /\ "Words" \in Kinds(Len(c)) /\ Len(c) <= Leaf
      /\ N("Words", c) > 0 /\ stk[c] \in StackRec /\ S = stk[c] /\ CountedFor(c) /\ 1 \in 1..Len(events)
  BY <1>0, Due
<1>4. Len(c) = Leaf /\ Leaf \in {2, 4} /\ (path = "burst" <=> Leaf = 4) /\ path \in {"burst", "large"}
  BY <1>1, <1>3, Level DEF Typed
<1>5. n \in Nat /\ MemoryLatency \in Nat
  BY <1>3, WordsNat, TransferAssumption
<1>6. /\ DOMAIN stk' = DOMAIN stk /\ stk' \in [DOMAIN stk' -> StackRec]
      /\ \A s \in DOMAIN stk : s # c => stk'[s] = stk[s]
      /\ stk'[c].count = n /\ stk'[c].left = stk[c].left /\ stk'[c].addr = stk[c].addr /\ stk'[c].buf = stk[c].buf
      /\ stk'[c].size = stk[c].size /\ stk'[c].offset = stk[c].offset
      /\ \A s : Kids(s)' = Kids(s) /\ Below(s)' = Below(s)
  BY <1>1, <1>3, <1>5, CounterSet
<1>7. /\ N("Chunk", c) = 0 /\ Waiting(c) = 0 /\ N("Words", c) = 1 /\ N("Memory", c) = 0
      /\ N("WordFinish", c) = 0 /\ Unanswered(c) = 0
  <2>1. LeafCounted(c) /\ stk[c].count \in Nat
    BY <1>3, <1>4 DEF CountedFor, StackRec
  <2> QED BY <1>1, <1>3, <2>1, LeafOnly
<1>8. n # 0 => a \in EventRec /\ a.ev = "Memory" /\ a.stack = c /\ a.left = MemoryLatency
  <2>1. "Memory" \in EventName
    BY DEF EventName
  <2> QED BY <1>0, <1>3, <1>5, <2>1, EventIsRec
<1>9. Becomes(events, events', 1, e, a, Nothing)
  BY <1>0, <1>3, <1>8, HandledNone, HandledOne
<1>10. a \in EventRec \union {Nothing} /\ a.ev # "Pre" /\ a.ev # "Beats" /\ (a # Nothing => a.ev = "Memory" /\ a.stack = c /\ n # 0)
  BY <1>0, <1>8, NothingEv
<1>11. \A s \in DOMAIN stk : s \in Name /\ Nothing.stack # s
  BY <1>1, NothingAside DEF Typed, Closed
<1>12. /\ Count(events', Of("Words", c)) = 0 /\ Count(events', Of("WordFinish", c)) = 0
       /\ Count(events', Of("Memory", c)) = (IF n = 0 THEN 0 ELSE 1)
       /\ \A x : x # "Words" /\ x # "Memory" => Count(events', Of(x, c)) = N(x, c)
  <2>1. CASE n = 0
    <3>1. c \in Name /\ e.stack = c /\ a.stack # c /\ Nothing.stack # c
      BY <1>0, <1>3, <1>11, <2>1
    <3>2. /\ Count(events', Of(e.ev, c)) = N(e.ev, c) - 1
          /\ \A x : x # e.ev => Count(events', Of(x, c)) = N(x, c)
      BY <1>9, <3>1, Leaves
    <3> QED BY <1>3, <1>7, <2>1, <3>2
  <2>2. CASE n # 0
    <3>1. c \in Name /\ e.stack = c /\ a.stack = c /\ Nothing.stack # c /\ e.ev # a.ev
      BY <1>3, <1>8, <1>11, <2>2
    <3>2. /\ Count(events', Of(e.ev, c)) = N(e.ev, c) - 1
          /\ Count(events', Of(a.ev, c)) = N(a.ev, c) + 1
          /\ \A x : x # e.ev /\ x # a.ev => Count(events', Of(x, c)) = N(x, c)
      BY <1>9, <3>1, Turns
    <3> QED BY <1>3, <1>7, <1>8, <2>2, <3>2
  <2> QED BY <2>1, <2>2
<1>13. ASSUME NEW s \in DOMAIN stk, s # c
       PROVE  SameCounts(s)
  <2>0. a.stack # s
    BY <1>10, <1>11, <1>13
  <2>1. \A x : Count(events', Of(x, s)) = N(x, s)
    BY <1>3, <1>9, <1>11, <1>13, <2>0, Aside
  <2> QED BY <1>6, <1>13, <2>1 DEF SameCounts, Waiting, Unanswered, Below, Kids
<1>14. Typed'
  <2>1. Leaf' = Leaf
    BY DEF Leaf
  <2> QED BY <1>1, <1>6, <2>1 DEF Typed
<1>15. Queued'
  <2>1. a # Nothing => a.stack \in DOMAIN stk' /\ a.ev \in Kinds(Len(a.stack))
    <3>1. "Memory" \in Kinds(Len(c))
      BY <1>4 DEF Kinds
    <3> QED BY <1>3, <1>6, <1>10, <3>1
  <2> QED BY <1>1, <1>6, <1>9, <1>10, <2>1, QueuedKept
<1>16. Counted'
  <2>1. SUFFICES ASSUME NEW s \in DOMAIN stk PROVE CountedFor(s)'
    BY <1>6 DEF Counted
  <2>2. CountedFor(s)
    BY <1>1 DEF Counted
  <2>3. CASE s # c
    BY <1>13, <2>2, <2>3, CountedSame
  <2>4. CASE s = c
    <3>1. /\ N("Chunk", s)' = 0 /\ Waiting(s)' = 0 /\ N("Words", s)' = 0 /\ N("Memory", s)' = (IF n = 0 THEN 0 ELSE 1)
          /\ N("WordFinish", s)' = 0 /\ Unanswered(s)' = 0 /\ stk'[s].count = n
      BY <1>6, <1>7, <1>12, <2>4 DEF N, Waiting, Unanswered
    <3>2. LeafCounted(s)'
      BY <1>5, <3>1 DEF LeafCounted
    <3>3. Len(s) = 2 => ChunkCounted(s)'
      <4>1. /\ N("Chunk", s)' = N("Chunk", s) /\ Waiting(s)' = Waiting(s) /\ N("Bursts", s)' = N("Bursts", s)
            /\ N("Finish", s)' = N("Finish", s) /\ Below(s)' = Below(s)
        BY <1>6, <1>12, <2>4 DEF N, Waiting
      <4> QED BY <2>2, <4>1 DEF CountedFor, ChunkCounted
    <3>4. Len(s) # 1 /\ Len(s) # 3
      <4>1. Len(c) # 1 /\ Len(c) # 3
        BY <1>4
      <4> QED BY <2>4, <4>1, Zenon
    <3> QED BY <3>2, <3>3, <3>4 DEF CountedFor
  <2> QED BY <2>3, <2>4
<1>17. Held'
  <2>1. CASE path = "burst"
    <3>1. Late("Words")
      BY <2>1 DEF Late
    <3>2. \A x \in {a, Nothing} : x # Nothing => x.stack = c
      BY <1>10
    <3>3. \A s \in DOMAIN stk : Count(memoplist', {s}) > 0 => Waiting(s) > 0
      BY DEF Waiting
    <3> QED BY <1>0, <1>1, <1>3, <1>6, <1>9, <1>10, <3>1, <3>2, <3>3, HeldLate, NothingEv
  <2>2. CASE path = "large"
    <3>1. ASSUME NEW i \in 1..Len(events), NEW h \in DOMAIN stk, HeldBy(i, h)
          PROVE  StaysHeld(i, h, 1, a, Nothing)
      <4>1. h \in DOMAIN stk' /\ IsLoad(h)' = IsLoad(h) /\ stk'[h].left = stk[h].left
        BY <1>6 DEF IsLoad
      <4>2. AddedInTime(i, a, h)
        <5>1. SUFFICES ASSUME a # Nothing, Under(a.stack, h)
                       PROVE  /\ events[i].left <= a.left + Slack(a.ev, IsLoad(h))
                              /\ events[i].left <= a.left /\ a.ev # "Bursts"
          BY DEF AddedInTime
        <5>2. a.ev = "Memory" /\ a.left = MemoryLatency /\ a.stack = c
          BY <1>8, <1>10, <5>1
        <5>3. InTime(events[i], events[1], h, i < 1)
          BY <1>0, <1>3, <3>1, <5>1, <5>2 DEF HeldBy
        <5>4. events[i].left <= 0 + Slack("Words", IsLoad(h))
          BY <1>0, <1>3, <5>3 DEF InTime
        <5>5. Slack("Words", IsLoad(h)) = MemoryLatency /\ Slack("Memory", IsLoad(h)) = 0
          BY <2>2 DEF Slack
        <5>6. events[i].left \in Nat
          BY <1>3, QueueRec
        <5> QED BY <1>5, <5>2, <5>4, <5>5, <5>6
      <4>3. \A k \in 1..Len(events) : Under(events[k].stack, h) /\ events[k].ev = "Bursts" => stk'[h].left > 0
        BY <3>1, <4>1 DEF HeldBy, InTime
      <4>4. AddedInTime(i, Nothing, h)
        BY DEF AddedInTime
      <4> QED BY <3>1, <4>1, <4>2, <4>3, <4>4 DEF StaysHeld, HeldBy, Waiting
    <3> QED BY <1>1, <1>9, <1>10, <3>1, HeldStep, NothingEv
  <2> QED BY <1>4, <2>1, <2>2
<1>18. Continues'
  <2>1. ASSUME NEW i \in 1..Len(events), events[i].ev = "Beats"
        PROVE  Untouched(events[i].stack, 1) \/ BeatHandled(events[i].stack, 1, {a, Nothing} \ {Nothing})
    <3>1. events[i].stack \in DOMAIN stk /\ events[i].stack # c
      <4>1. "Beats" \in Kinds(Len(events[i].stack)) /\ events[i].stack \in DOMAIN stk
        BY <1>1, <2>1 DEF Queued
      <4>2. Len(events[i].stack) = 3
        BY <1>1, <4>1, Level DEF Typed, Closed
      <4>3. Len(c) # 3
        BY <1>4
      <4> QED BY <4>1, <4>2, <4>3
    <3>2. KidsIn(DOMAIN stk', events[i].stack) = Kids(events[i].stack)
      BY <1>6 DEF Kids
    <3>3. CASE c \in Kids(events[i].stack)
      <4>1. \A k \in 2..Len(events) : ~(events[k].ev = "Words" /\ events[k].stack = c)
        <5>1. SUFFICES ASSUME NEW k \in 2..Len(events), events[k].ev = "Words", events[k].stack = c PROVE FALSE
          OBVIOUS
        <5>2. k \in 1..Len(events) /\ k # 1
          OBVIOUS
        <5>3. events[1] \in Of("Words", c) /\ events[k] \in Of("Words", c)
          BY <1>0, <1>3, <5>1, <5>2, QueueRec, InOf
        <5>4. Count(events, Of("Words", c)) <= 1
          BY <1>7 DEF N
        <5>5. k = 1
          BY <1>3, <5>2, <5>3, <5>4, CountOne DEF IsQueue
        <5> QED BY <5>2, <5>5
      <4> QED BY <1>0, <1>3, <3>2, <3>3, <4>1 DEF BeatHandled
    <3>4. CASE c \notin Kids(events[i].stack)
      <4>1. \A k \in 1..Len(events) : k <= 1 => ~(events[k].ev = "Words" /\ events[k].stack \in Kids(events[i].stack))
        BY <1>0, <1>3, <3>4
      <4>2. Count(events', Of("BeatFinish", events[i].stack)) = N("BeatFinish", events[i].stack)
        BY <1>13, <3>1 DEF SameCounts
      <4> QED BY <3>2, <4>1, <4>2 DEF Untouched
    <3> QED BY <3>3, <3>4
  <2> QED BY <1>1, <1>9, <1>10, <2>1, ContinuesStep, NothingEv
<1>19. Bytes'
  <2>1. ASSUME NEW s \in DOMAIN stk
        PROVE  SizedSame(s) /\ stk'[s].offset = stk[s].offset
    <3>1. CASE s = c
      <4>1. /\ Count(events', Of("Chunk", s)) = N("Chunk", s) /\ Count(events', Of("Bursts", s)) = N("Bursts", s)
            /\ Count(events', Of("Finish", s)) = N("Finish", s) /\ Cardinality(KidsIn(DOMAIN stk', s)) = Below(s)
        BY <1>6, <1>12, <3>1 DEF Below, Kids
      <4> QED BY <1>6, <3>1, <4>1 DEF SizedSame, Waiting
    <3>2. CASE s # c
      BY <1>6, <1>13, <3>2, SizedAside
    <3> QED BY <3>1, <3>2
  <2> QED BY <1>1, <1>6, <2>1, BytesSame DEF Typed
<1> QED BY <1>14, <1>15, <1>16, <1>17, <1>18, <1>19 DEF TransferInv

LEMMA AccessWordsKeeps ==
  ASSUME TransferInv, AccessWords
  PROVE  TransferInv'
<1>1. CASE path = "burst" /\ IsEmpty(S) /\ stk' = Freed(stk, Cur) /\ events' = Scheduled(Tail(events), Return(Cur, "BeatFinish"))
  <2>1. PICK c : c = Cur
    OBVIOUS
  <2>2. Handles("Words") /\ UNCHANGED <<path, access, portuse, memoplist, memory, image, told>>
    BY DEF AccessWords
  <2>3. Typed
    BY DEF TransferInv
  <2>4. image' = [t \in Tasks |-> image'[t]] /\ \A t \in Tasks : DOMAIN image'[t] = DOMAIN image[t]
    BY <2>2, <2>3 DEF Typed
  <2>5. \A t, o : Exchanged(t, o) => Exchanged(t, o)'
    BY <2>2 DEF Exchanged
  <2>6. ASSUME NEW o, Owed(c, o), InBuffer(c[1], o) PROVE FALSE
    <3>1. c \in DOMAIN stk /\ c \in Name /\ "Words" \in Kinds(Len(c)) /\ Len(c) <= Leaf /\ S = stk[c] /\ stk[c] \in StackRec
      BY <2>1, <2>2, Due
    <3>2. Len(c) = 4
      <4>1. Len(c) = Leaf /\ Leaf = 4
        BY <1>1, <2>3, <3>1, Level DEF Typed
      <4> QED BY <4>1
    <3>3. stk[c].size <= 0 /\ stk[c].size \in Int /\ stk[c].buf \in Nat /\ Width \in Nat
      BY <1>1, <3>1, TransferAssumption DEF IsEmpty, StackRec
    <3>4. stk[c].buf <= o /\ o < stk[c].buf + Least(Width, stk[c].size)
      BY <2>6, <3>2 DEF Owed
    <3>5. o \in Nat
      <4>1. c[1] \in Tasks /\ access[c[1]].size \in Nat
        BY <3>1, Asked DEF TransferInv
      <4> QED BY <2>6, <4>1 DEF InBuffer
    <3> QED BY <3>3, <3>4, <3>5 DEF Least
  <2> QED BY <1>1, <2>1, <2>2, <2>4, <2>5, <2>6, BeatReturns
<1>2. CASE /\ path = "large" \/ ~IsEmpty(S)
           /\ stk' = [stk EXCEPT ![Cur].count = Words(S)]
           /\ events' = IF Words(S) = 0 THEN Tail(events)
                        ELSE Scheduled(Tail(events), Event("Memory", Cur, MemoryLatency))
  <2>1. Handles("Words") /\ UNCHANGED <<path, access, portuse, memoplist, memory, image, told>>
    BY DEF AccessWords
  <2>2. PICK c, n : c = Cur /\ n = Words(S)
    OBVIOUS
  <2> QED BY <1>2, <2>1, <2>2, AccessWordsBegins
<1> QED BY <1>1, <1>2 DEF AccessWords

\* The bytes of the buffer after a copy.
LEMMA CopiedIs ==
  ASSUME Typed, Bytes, NEW c \in DOMAIN stk, c = Cur, NEW n \in Int, image' = Copied(stk[c], n), UNCHANGED access,
         c[1] \in Tasks, access[c[1]] \in Accesses
  PROVE  /\ image' = [t \in Tasks |-> image'[t]] /\ \A t \in Tasks : DOMAIN image'[t] = DOMAIN image[t]
         /\ \A t, o : InBuffer(t, o) /\ Exchanged(t, o) => Exchanged(t, o)'
         /\ \A o : InBuffer(c[1], o) /\ stk[c].buf <= o /\ o < stk[c].buf + n => Exchanged(c[1], o)'
<1> DEFINE u == c[1]
           b == stk[c]
<1>1. b \in StackRec /\ b.addr \in Nat /\ b.buf \in Nat /\ b.addr = access[u].addr + b.buf
  BY DEF Typed, StackRec, Bytes, Sized
<1>2. access[u].addr \in Nat /\ access[u].size \in Nat
  BY TransferAssumption
<1>3. image' = [image EXCEPT ![u] = [o \in DOMAIN image[u] |-> IF o \in b.buf..(b.buf + n - 1) THEN b.addr + o - b.buf ELSE image[u][o]]]
  BY DEF Copied
<1>4. image = [t \in Tasks |-> image[t]] /\ \A t \in Tasks : access[t] # None => DOMAIN image[t] = 0..(access[t].size - 1)
  BY DEF Typed
<1> HIDE DEF u, b
<1>5. /\ u \in Tasks /\ DOMAIN image' = Tasks /\ image' = [t \in Tasks |-> image'[t]]
      /\ \A t \in Tasks : t # u => image'[t] = image[t]
      /\ image'[u] = [o \in DOMAIN image[u] |-> IF o \in b.buf..(b.buf + n - 1) THEN b.addr + o - b.buf ELSE image[u][o]]
  BY <1>3, <1>4 DEF u
<1>6. \A t \in Tasks : DOMAIN image'[t] = DOMAIN image[t]
  BY <1>5
<1>7. ASSUME NEW o, InBuffer(u, o)
      PROVE  o \in DOMAIN image[u] /\ o \in Nat
  BY <1>2, <1>4, <1>7 DEF InBuffer
<1>8. ASSUME NEW o, InBuffer(u, o), b.buf <= o, o < b.buf + n
      PROVE  image'[u][o] = access[u].addr + o
  <2>1. o \in DOMAIN image[u] /\ o \in Nat
    BY <1>7, <1>8
  <2>2. o \in b.buf..(b.buf + n - 1)
    BY <1>1, <1>8, <2>1
  <2>3. image'[u][o] = b.addr + o - b.buf
    BY <1>5, <2>1, <2>2
  <2> QED BY <1>1, <1>2, <2>1, <2>3
<1>9. ASSUME NEW t, NEW o, InBuffer(t, o), Exchanged(t, o)
      PROVE  image'[t][o] = access[t].addr + o
  <2>1. CASE t # u
    BY <1>5, <1>9, <2>1 DEF InBuffer, Exchanged
  <2>2. CASE t = u
    <3>1. o \in DOMAIN image[u] /\ o \in Nat
      BY <1>7, <1>9, <2>2
    <3>2. CASE o \in b.buf..(b.buf + n - 1)
      <4>1. b.buf <= o /\ o < b.buf + n
        BY <1>1, <3>1, <3>2
      <4> QED BY <1>8, <1>9, <2>2, <4>1
    <3>3. CASE o \notin b.buf..(b.buf + n - 1)
      BY <1>5, <1>9, <2>2, <3>1, <3>3 DEF Exchanged
    <3> QED BY <3>2, <3>3
  <2> QED BY <2>1, <2>2
<1> QED BY <1>5, <1>6, <1>8, <1>9, SMTT(30) DEF Exchanged, u, b

LEMMA WordFinishEndsBeat ==
  ASSUME TransferInv, Handles("WordFinish"), S.count = 1, path = "burst", NEW c, c = Cur,
         stk' = Freed(stk, c), image' = Copied(S, Min({Width, S.size})),
         events' = Scheduled(Tail(events), Return(c, "BeatFinish")),
         UNCHANGED <<path, access, portuse, memoplist, memory, told>>
  PROVE  TransferInv'
<1>1. /\ Typed /\ Queued /\ Counted /\ Bytes
      /\ c \in DOMAIN stk /\ c \in Name /\ "WordFinish" \in Kinds(Len(c)) /\ Len(c) <= Leaf /\ S = stk[c] /\ stk[c] \in StackRec
  BY Due
<1>2. Len(c) = 4
  <2>1. Len(c) = Leaf /\ Leaf = 4
    BY <1>1, Level DEF Typed
  <2> QED BY <2>1
<1> DEFINE n == Least(Width, stk[c].size)
<1>3. n \in Int /\ Min({Width, S.size}) = n
  <2>1. Width \in Int /\ S.size \in Int
    BY <1>1, TransferAssumption DEF StackRec
  <2> QED BY <1>1, <2>1, MinTwo DEF Least
<1>4. \A o : Owed(c, o) => stk[c].buf <= o /\ o < stk[c].buf + n
  BY <1>2 DEF Owed
<1> HIDE DEF n
<1>5. c[1] \in Tasks /\ access[c[1]] \in Accesses
  BY <1>1, Asked
<1>6. /\ image' = [t \in Tasks |-> image'[t]] /\ \A t \in Tasks : DOMAIN image'[t] = DOMAIN image[t]
      /\ \A t, o : InBuffer(t, o) /\ Exchanged(t, o) => Exchanged(t, o)'
      /\ \A o : InBuffer(c[1], o) /\ stk[c].buf <= o /\ o < stk[c].buf + n => Exchanged(c[1], o)'
  BY <1>1, <1>3, <1>5, CopiedIs
<1>7. \A o : Owed(c, o) /\ InBuffer(c[1], o) => Exchanged(c[1], o)'
  BY <1>4, <1>6
<1> QED BY <1>6, <1>7, BeatReturns

\* One of several that a stack waits for has returned.
LEMMA CountsDown ==
  ASSUME TransferInv, NEW ev \in {"BeatFinish", "WordFinish", "PreFinish"}, Handles(ev), S.count > 1, NEW c, c = Cur,
         stk' = [stk EXCEPT ![c].count = @ - 1], events' = Tail(events),
         UNCHANGED <<path, access, portuse, memoplist, memory, image, told>>
  PROVE  TransferInv'
<1>0. PICK e, n : e = events[1] /\ n = stk[c].count - 1
  OBVIOUS
<1>1. Typed /\ Queued /\ Counted /\ Held /\ Continues /\ Bytes
  BY DEF TransferInv
<1>3. /\ IsQueue(events, EventRec) /\ events # <<>> /\ e.ev = ev /\ e.left = 0 /\ e.stack = c
      /\ c \in DOMAIN stk /\ c \in Name /\ ev \in Kinds(Len(c)) /\ Len(c) <= Leaf
      /\ N(ev, c) > 0 /\ stk[c] \in StackRec /\ S = stk[c] /\ CountedFor(c) /\ 1 \in 1..Len(events)
  BY <1>0, Due
<1>4. /\ ev = "PreFinish" => Len(c) = 1
      /\ ev = "BeatFinish" => Len(c) = 3
      /\ ev = "WordFinish" => Len(c) = Leaf
      /\ ev = "BeatFinish" => path = "burst"
      /\ Leaf \in {2, 4} /\ (path = "burst" <=> Leaf = 4)
  BY <1>1, <1>3, Level DEF Typed
<1>5. n \in Nat /\ stk[c].count \in Nat /\ stk[c].count = n + 1 /\ stk' = [stk EXCEPT ![c].count = n]
  BY <1>0, <1>3, SMTT(30) DEF StackRec
<1>6. /\ DOMAIN stk' = DOMAIN stk /\ stk' \in [DOMAIN stk' -> StackRec]
      /\ \A s \in DOMAIN stk : s # c => stk'[s] = stk[s]
      /\ stk'[c].count = n /\ stk'[c].left = stk[c].left /\ stk'[c].addr = stk[c].addr /\ stk'[c].buf = stk[c].buf
      /\ stk'[c].size = stk[c].size /\ stk'[c].offset = stk[c].offset
      /\ \A s : Kids(s)' = Kids(s) /\ Below(s)' = Below(s)
  BY <1>1, <1>3, <1>5, CounterSet
<1>9. Becomes(events, events', 1, e, Nothing, Nothing)
  BY <1>0, <1>3, HandledNone
<1>11. \A s \in DOMAIN stk : s \in Name /\ Nothing.stack # s
  BY <1>1, NothingAside DEF Typed, Closed
<1>12. /\ Count(events', Of(ev, c)) = N(ev, c) - 1
       /\ \A x : x # ev => Count(events', Of(x, c)) = N(x, c)
  <2>1. c \in Name /\ e.stack = c /\ Nothing.stack # c
    BY <1>3, <1>11
  <2>2. /\ Count(events', Of(e.ev, c)) = N(e.ev, c) - 1
        /\ \A x : x # e.ev => Count(events', Of(x, c)) = N(x, c)
    BY <1>9, <2>1, Leaves
  <2> QED BY <1>3, <2>2
<1>13. ASSUME NEW s \in DOMAIN stk, s # c
       PROVE  SameCounts(s)
  <2>1. \A x : Count(events', Of(x, s)) = N(x, s)
    BY <1>3, <1>9, <1>11, <1>13, Aside
  <2> QED BY <1>6, <1>13, <2>1 DEF SameCounts, Waiting, Unanswered, Below, Kids
<1>14. Typed'
  <2>1. Leaf' = Leaf
    BY DEF Leaf
  <2> QED BY <1>1, <1>6, <2>1 DEF Typed
<1>15. Queued'
  BY <1>1, <1>6, <1>9, QueuedKept
<1>16. Counted'
  <2>1. SUFFICES ASSUME NEW s \in DOMAIN stk PROVE CountedFor(s)'
    BY <1>6 DEF Counted
  <2>2. CountedFor(s)
    BY <1>1 DEF Counted
  <2>3. CASE s # c
    BY <1>13, <2>2, <2>3, CountedSame
  <2>4. CASE s = c
    <3>0. /\ N(ev, s) \in Nat /\ Below(s) \in Nat /\ N("Words", s) \in Nat /\ N("Memory", s) \in Nat /\ N("Chunk", s) \in Nat
          /\ Waiting(s) \in Nat /\ Unanswered(s) \in Nat
      BY <1>1, Numbers
    <3>1. /\ N(ev, s)' = N(ev, s) - 1 /\ \A x : x # ev => N(x, s)' = N(x, s)
          /\ Below(s)' = Below(s) /\ Waiting(s)' = Waiting(s) /\ Unanswered(s)' = Unanswered(s)
          /\ stk[s].count = n + 1 /\ stk'[s].count = n /\ stk'[s].left = stk[s].left /\ stk'[s].size = stk[s].size
      BY <1>5, <1>6, <1>12, <2>4 DEF N, Waiting, Unanswered
    <3>2. CASE ev = "PreFinish"
      <4>1. TransferCounted(s) /\ Len(s) = 1
        BY <1>4, <2>2, <2>4, <3>2 DEF CountedFor
      <4>2. /\ access[s[1]] # None /\ told[s[1]] = 0
            /\ N("Pre", s) <= 1 /\ (stk[s].size > 0 => N("Pre", s) = 1)
            /\ Below(s) + N("PreFinish", s) <= stk[s].count
        BY <4>1 DEF TransferCounted
      <4>3. Below(s)' + N("PreFinish", s)' <= stk'[s].count
        BY <1>5, <3>0, <3>1, <3>2, <4>2
      <4>4. N("Pre", s)' = N("Pre", s)
        BY <3>1, <3>2
      <4>5. TransferCounted(s)'
        BY <3>1, <4>2, <4>3, <4>4 DEF TransferCounted
      <4>6. Len(s) # Leaf'
        BY <1>4, <4>1 DEF Leaf
      <4> QED BY <4>1, <4>5, <4>6 DEF CountedFor
    <3>3. CASE ev = "BeatFinish"
      <4>1. BurstCounted(s) /\ Len(s) = 3
        BY <1>4, <2>2, <2>4, <3>3 DEF CountedFor
      <4>2. /\ N("Beats", s) <= 1 /\ (stk[s].left > 0 => N("Beats", s) = 1)
            /\ Below(s) + N("BeatFinish", s) <= stk[s].count
        BY <4>1 DEF BurstCounted
      <4>3. Below(s)' + N("BeatFinish", s)' <= stk'[s].count
        BY <1>5, <3>0, <3>1, <3>3, <4>2
      <4>4. N("Beats", s)' = N("Beats", s)
        BY <3>1, <3>3
      <4>5. BurstCounted(s)'
        BY <3>1, <4>2, <4>3, <4>4 DEF BurstCounted
      <4>6. Len(s) # Leaf'
        BY <1>4, <4>1 DEF Leaf
      <4> QED BY <4>1, <4>5, <4>6 DEF CountedFor
    <3>4. CASE ev = "WordFinish"
      <4>1. LeafCounted(s) /\ Len(s) # 1 /\ Len(s) # 3
        <5>1. Leaf # 1 /\ Leaf # 3
          BY <1>4
        <5>2. Len(c) = Leaf
          BY <1>4, <3>4
        <5> QED BY <2>2, <2>4, <5>1, <5>2 DEF CountedFor
      <4>2. N("Chunk", s) = 0 /\ Waiting(s) = 0 /\ N("Words", s) = 0 /\ N("Memory", s) = 0
        BY <1>1, <1>3, <1>5, <2>4, <3>4, <4>1, LeafOnly
      <4>3. N("WordFinish", s) + Unanswered(s) <= stk[s].count
        BY <4>1 DEF LeafCounted
      <4>4. /\ N("Chunk", s)' = 0 /\ Waiting(s)' = 0 /\ N("Words", s)' = 0 /\ N("Memory", s)' = 0
            /\ N("WordFinish", s)' = N("WordFinish", s) - 1
        BY <3>1, <3>4, <4>2
      <4>5. N("WordFinish", s)' + Unanswered(s)' <= stk'[s].count
        BY <1>5, <3>0, <3>1, <3>4, <4>3
      <4>6. LeafCounted(s)'
        BY <4>4, <4>5 DEF LeafCounted
      <4>7. Len(s) = 2 => ChunkCounted(s)'
        <5>1. /\ N("Chunk", s)' = N("Chunk", s) /\ N("Bursts", s)' = N("Bursts", s) /\ N("Finish", s)' = N("Finish", s)
          BY <3>1, <3>4
        <5> QED BY <2>2, <3>1, <5>1 DEF CountedFor, ChunkCounted
      <4> QED BY <4>1, <4>6, <4>7 DEF CountedFor
    <3> QED BY <3>2, <3>3, <3>4
  <2> QED BY <2>3, <2>4
<1>17. Held'
  <2>1. Late(ev) \/ Len(c) = 1
    BY <1>4 DEF Late
  <2>2. \A s \in DOMAIN stk : Count(memoplist', {s}) > 0 => Waiting(s) > 0
    BY DEF Waiting
  <2> QED BY <1>0, <1>1, <1>3, <1>6, <1>9, <2>1, <2>2, HeldLate, NothingEv
<1>18. Continues'
  <2>1. ASSUME NEW i \in 1..Len(events)
        PROVE  Untouched(events[i].stack, 1)
    <3>1. events[i].stack \in DOMAIN stk
      BY <1>1 DEF Queued
    <3>2. \A k \in 1..Len(events) : k <= 1 => events[k].ev # "Words"
      BY <1>0, <1>3
    <3>3. N("BeatFinish", events[i].stack) = 0 => Count(events', Of("BeatFinish", events[i].stack)) = 0
      <4>1. CASE events[i].stack = c
        BY <1>3, <1>12, <4>1
      <4>2. CASE events[i].stack # c
        BY <1>13, <3>1, <4>2 DEF SameCounts
      <4> QED BY <4>1, <4>2
    <3> QED BY <1>6, <3>2, <3>3 DEF Untouched, Kids
  <2> QED BY <1>1, <1>9, <2>1, ContinuesStep, NothingEv
<1>19. Bytes'
  <2>1. ASSUME NEW s \in DOMAIN stk
        PROVE  SizedSame(s) /\ stk'[s].offset = stk[s].offset
    <3>1. CASE s = c
      <4>1. /\ Count(events', Of("Chunk", s)) = N("Chunk", s) /\ Count(events', Of("Bursts", s)) = N("Bursts", s)
            /\ Count(events', Of("Finish", s)) = N("Finish", s) /\ Cardinality(KidsIn(DOMAIN stk', s)) = Below(s)
        BY <1>6, <1>12, <3>1 DEF Below, Kids
      <4> QED BY <1>6, <3>1, <4>1 DEF SizedSame, Waiting
    <3>2. CASE s # c
      BY <1>6, <1>13, <3>2, SizedAside
    <3> QED BY <3>1, <3>2
  <2> QED BY <1>1, <1>6, <2>1, BytesSame DEF Typed
<1> QED BY <1>14, <1>15, <1>16, <1>17, <1>18, <1>19 DEF TransferInv

LEMMA AnswerKeeps ==
  ASSUME TransferInv, NEW c \in DOMAIN memory, Answer(c)
  PROVE  TransferInv'
<1>0. PICK a : a = Event("WordFinish", c, 0)
  OBVIOUS
<1>1. Typed /\ Queued /\ Counted /\ Held /\ Continues /\ Bytes
  BY DEF TransferInv
<1>2. /\ memory' = IF memory[c] > 1 THEN [memory EXCEPT ![c] = @ - 1] ELSE Freed(memory, c)
      /\ events' = Scheduled(events, a)
      /\ UNCHANGED <<path, access, stk, portuse, memoplist, image, told>>
  BY <1>0 DEF Answer
<1>3. c \in DOMAIN stk /\ c \in Name /\ Len(c) = Leaf /\ IsQueue(events, EventRec) /\ stk[c] \in StackRec
  BY <1>1 DEF Typed, Closed, Queued
<1>4. Leaf \in {2, 4}
  BY DEF Leaf
<1>5. memory[c] \in Nat \ {0} /\ memory \in [DOMAIN memory -> Nat \ {0}]
  BY <1>1 DEF Typed
<1>6. /\ memory' \in [DOMAIN memory' -> Nat \ {0}] /\ \A s \in DOMAIN memory' : s \in DOMAIN memory
      /\ Unanswered(c)' = Unanswered(c) - 1 /\ Unanswered(c) \in Nat
      /\ \A s : s # c => Unanswered(s)' = Unanswered(s)
  <2>1. CASE memory[c] > 1
    <3>1. memory' = [memory EXCEPT ![c] = memory[c] - 1] /\ memory[c] - 1 \in Nat \ {0}
      BY <1>2, <1>5, <2>1
    <3>2. DOMAIN memory' = DOMAIN memory /\ memory'[c] = memory[c] - 1 /\ \A s \in DOMAIN memory : s # c => memory'[s] = memory[s]
      BY <3>1
    <3> QED BY <1>5, <3>1, <3>2 DEF Unanswered
  <2>2. CASE ~(memory[c] > 1)
    <3>1. memory' = Freed(memory, c) /\ memory[c] = 1
      BY <1>2, <1>5, <2>2
    <3>2. DOMAIN memory' = DOMAIN memory \ {c} /\ \A s \in DOMAIN memory : s # c => memory'[s] = memory[s]
      BY <3>1 DEF Freed, Restrict
    <3>3. memory' \in [DOMAIN memory' -> Nat \ {0}]
      BY <1>5, <3>1, FreedIn
    <3> QED BY <1>5, <3>1, <3>2, <3>3 DEF Unanswered
  <2> QED BY <2>1, <2>2
<1>7. 0 \in Nat
  OBVIOUS
<1>8. a \in EventRec /\ a.ev = "WordFinish" /\ a.stack = c /\ a.left = 0
  <2>1. "WordFinish" \in EventName /\ 0 \in Nat
    BY DEF EventName
  <2> QED BY <1>0, <1>3, <2>1, EventIsRec
<1>9. Becomes(events, events', 0, Nothing, a, Nothing)
  BY <1>2, <1>3, <1>8, AddedOne
<1>11. \A s \in DOMAIN stk : s \in Name /\ Nothing.stack # s
  BY <1>1, NothingAside DEF Typed, Closed
<1>12. /\ Count(events', Of("WordFinish", c)) = N("WordFinish", c) + 1
       /\ \A x : x # "WordFinish" => Count(events', Of(x, c)) = N(x, c)
  <2>1. c \in Name /\ Nothing.stack # c /\ a.stack = c
    BY <1>3, <1>8, <1>11
  <2>2. /\ Count(events', Of(a.ev, c)) = N(a.ev, c) + 1
        /\ \A x : x # a.ev => Count(events', Of(x, c)) = N(x, c)
    BY <1>9, <2>1, Arrives
  <2> QED BY <1>8, <2>2
<1>13. ASSUME NEW s \in DOMAIN stk, s # c
       PROVE  SameCounts(s)
  <2>1. \A x : Count(events', Of(x, s)) = N(x, s)
    BY <1>8, <1>9, <1>11, <1>13, Aside
  <2> QED BY <1>2, <1>6, <1>13, <2>1 DEF SameCounts, Waiting, Below, Kids
<1>14. Typed'
  <2>1. Leaf' = Leaf
    BY <1>2 DEF Leaf
  <2>2. \A s \in DOMAIN memory' : s \in DOMAIN stk /\ Len(s) = Leaf
    BY <1>1, <1>6 DEF Typed
  <2> QED BY <1>1, <1>2, <1>6, <2>1, <2>2 DEF Typed
<1>15. Queued'
  <2>1. "WordFinish" \in Kinds(Len(c))
    BY <1>3 DEF Kinds, Leaf
  <2> QED BY <1>1, <1>2, <1>3, <1>7, <1>8, <1>9, <2>1, QueuedKept
<1>16. Counted'
  <2>1. SUFFICES ASSUME NEW s \in DOMAIN stk PROVE CountedFor(s)'
    BY <1>2 DEF Counted
  <2>2. CountedFor(s)
    BY <1>1 DEF Counted
  <2>3. CASE s # c
    BY <1>2, <1>13, <2>2, <2>3, CountedSame
  <2>4. CASE s = c
    <3>1. /\ N("WordFinish", s)' = N("WordFinish", s) + 1 /\ \A x : x # "WordFinish" => N(x, s)' = N(x, s)
          /\ Below(s)' = Below(s) /\ Waiting(s)' = Waiting(s) /\ Unanswered(s)' = Unanswered(s) - 1
          /\ N("WordFinish", s) \in Nat /\ Unanswered(s) \in Nat
      <4>1. N("WordFinish", s) \in Nat
        BY <1>1, Numbers
      <4> QED BY <1>2, <1>6, <1>12, <2>4, <4>1 DEF N, Waiting, Below, Kids
    <3>2. LeafCounted(s) /\ Len(s) # 1 /\ Len(s) # 3
      <4>1. Leaf # 1 /\ Leaf # 3
        BY <1>4
      <4> QED BY <1>3, <2>2, <2>4, <4>1 DEF CountedFor
    <3>3. /\ N("WordFinish", s)' + Unanswered(s)' = N("WordFinish", s) + Unanswered(s)
          /\ N("Chunk", s)' = N("Chunk", s) /\ N("Words", s)' = N("Words", s) /\ N("Memory", s)' = N("Memory", s)
          /\ N("Bursts", s)' = N("Bursts", s) /\ N("Finish", s)' = N("Finish", s)
      BY <3>1
    <3>4. LeafCounted(s)'
      BY <1>2, <3>1, <3>2, <3>3 DEF LeafCounted
    <3>5. Len(s) = 2 => ChunkCounted(s)'
      BY <2>2, <3>1, <3>3 DEF CountedFor, ChunkCounted
    <3> QED BY <3>2, <3>4, <3>5 DEF CountedFor
  <2> QED BY <2>3, <2>4
<1>17. Held'
  <2>1. ASSUME NEW i \in 1..Len(events), NEW h \in DOMAIN stk, HeldBy(i, h)
        PROVE  StaysHeld(i, h, 0, a, Nothing)
    <3>1. h \in DOMAIN stk' /\ IsLoad(h)' = IsLoad(h) /\ stk'[h].left = stk[h].left
      BY <1>2 DEF IsLoad
    <3>2. AddedInTime(i, a, h) /\ AddedInTime(i, Nothing, h)
      BY <1>8, <2>1 DEF AddedInTime, HeldBy
    <3>3. \A k \in 1..Len(events) : Under(events[k].stack, h) /\ events[k].ev = "Bursts" => stk'[h].left > 0
      BY <2>1, <3>1 DEF HeldBy, InTime
    <3> QED BY <1>2, <1>6, <2>1, <3>1, <3>2, <3>3 DEF StaysHeld, HeldBy, Waiting
  <2> QED BY <1>1, <1>2, <1>7, <1>8, <1>9, <2>1, HeldStep, NothingEv
<1>18. Continues'
  <2>1. ASSUME NEW i \in 1..Len(events)
        PROVE  Untouched(events[i].stack, 0)
    <3>1. events[i].stack \in DOMAIN stk
      BY <1>1 DEF Queued
    <3>2. Count(events', Of("BeatFinish", events[i].stack)) = N("BeatFinish", events[i].stack)
      <4>1. CASE events[i].stack = c
        BY <1>12, <4>1
      <4>2. CASE events[i].stack # c
        BY <1>13, <3>1, <4>2 DEF SameCounts
      <4> QED BY <4>1, <4>2
    <3> QED BY <1>2, <3>2 DEF Untouched, Kids
  <2> QED BY <1>1, <1>7, <1>8, <1>9, <2>1, ContinuesStep, NothingEv
<1>19. Bytes'
  <2>1. ASSUME NEW s \in DOMAIN stk
        PROVE  SizedSame(s) /\ stk'[s].offset = stk[s].offset
    <3>1. CASE s = c
      BY <1>2, <1>12, <3>1 DEF SizedSame, Waiting, Below, Kids
    <3>2. CASE s # c
      BY <1>2, <1>13, <3>2, SizedAside
    <3> QED BY <3>1, <3>2
  <2> QED BY <1>1, <1>2, <2>1, BytesSame DEF Typed
<1> QED BY <1>14, <1>15, <1>16, <1>17, <1>18, <1>19 DEF TransferInv

-----------------------------------------------------------------------------
(* The end.                                                                *)

\* The stacks of a task are below its transfer.
LEMMA LastStack ==
  ASSUME NEW D, Closed(D), NEW c \in D, Len(c) = 1, KidsIn(D, c) = {}
  PROVE  \A s \in D : s[1] = c[1] => s = c
<1>1. D \subseteq Name /\ c \in Name /\ \A x \in D : Len(x) > 1 => Front(x) \in D
  BY DEF Closed
<1>2. c[1] \in Tasks /\ \A x \in Name : x[1] \in Tasks
  BY <1>1 DEF Name
<1>3. \A x \in D : Len(x) = 1 /\ x[1] = c[1] => x = c
  <2>1. \A x \in Name : Len(x) = 1 => x = <<x[1]>>
    BY <1>2, TaskName
  <2> QED BY <1>1, <2>1
<1>4. \A x \in D : Len(x) = 2 => x[1] # c[1]
  <2>1. SUFFICES ASSUME NEW x \in D, Len(x) = 2, x[1] = c[1] PROVE FALSE
    OBVIOUS
  <2>2. Front(x) \in D /\ Len(Front(x)) = 1 /\ Front(x)[1] = x[1] /\ Len(x) > 1
    BY <1>1, <2>1, ParentLevel
  <2>3. Front(x) = c
    BY <1>3, <2>1, <2>2
  <2> QED BY <2>2, <2>3 DEF KidsIn
<1>5. \A x \in D : Len(x) = 3 => x[1] # c[1]
  <2>1. \A x \in D : Len(x) = 3 => Front(x) \in D /\ Len(Front(x)) = 2 /\ Front(x)[1] = x[1]
    BY <1>1, ParentLevel
  <2> QED BY <1>4, <2>1
<1>6. \A x \in D : Len(x) = 4 => x[1] # c[1]
  <2>1. \A x \in D : Len(x) = 4 => Front(x) \in D /\ Len(Front(x)) = 3 /\ Front(x)[1] = x[1]
    BY <1>1, ParentLevel
  <2> QED BY <1>5, <2>1
<1> QED BY <1>1, <1>3, <1>4, <1>5, <1>6, Lengths

LEMMA PreFinishTells ==
  ASSUME TransferInv, Handles("PreFinish"), S.count = 1, NEW c, c = Cur,
         stk' = Freed(stk, c), told' = [told EXCEPT ![c[1]] = @ + 1], events' = Tail(events),
         UNCHANGED <<path, access, portuse, memoplist, memory, image>>
  PROVE  TransferInv'
<1>0. PICK e : e = events[1]
  OBVIOUS
<1>1. Typed /\ Queued /\ Counted /\ Held /\ Continues /\ Bytes
  BY DEF TransferInv
<1>3. /\ IsQueue(events, EventRec) /\ events # <<>> /\ e.ev = "PreFinish" /\ e.left = 0 /\ e.stack = c
      /\ c \in DOMAIN stk /\ c \in Name /\ "PreFinish" \in Kinds(Len(c)) /\ Len(c) <= Leaf
      /\ N("PreFinish", c) > 0 /\ stk[c] \in StackRec /\ S = stk[c] /\ CountedFor(c) /\ 1 \in 1..Len(events)
  BY <1>0, Due
<1>4. Len(c) = 1 /\ stk[c].count = 1
  BY <1>1, <1>3, Level DEF Typed
<1>5. TransferCounted(c) /\ Sized(c)
  BY <1>1, <1>3, <1>4 DEF CountedFor, Bytes
<1>6. /\ \A s, x : N(x, s) \in Nat
      /\ \A s : Below(s) \in Nat /\ Waiting(s) \in Nat /\ Unanswered(s) \in Nat
      /\ \A s : Below(s) = 0 <=> Kids(s) = {}
  BY <1>1, Numbers
<1>7. Kids(c) = {} /\ N("PreFinish", c) = 1
  <2>1. Below(c) + N("PreFinish", c) <= 1
    BY <1>4, <1>5 DEF TransferCounted
  <2>2. N("PreFinish", c) \in Nat /\ N("PreFinish", c) > 0 /\ Below(c) \in Nat
    BY <1>3, <1>6
  <2>3. Below(c) = 0 /\ N("PreFinish", c) = 1
    BY <2>1, <2>2
  <2> QED BY <1>6, <2>3
<1>8. N("Pre", c) = 0
  <2>1. ASSUME N("Pre", c) # 0 PROVE FALSE
    <3>1. PICK i \in 1..Len(events) : events[i].ev = "Pre" /\ events[i].stack = c
      BY <1>3, <2>1, CountIs DEF N, IsQueue
    <3>2. PICK h \in DOMAIN stk : Len(h) = 2 /\ Front(h) = c
      BY <1>1, <3>1 DEF Held, HeldBy
    <3>3. h \in Kids(c)
      <4>1. Len(h) > 1
        BY <3>2
      <4> QED BY <3>2, <4>1 DEF Kids, KidsIn
    <3> QED BY <1>7, <3>3
  <2> QED BY <2>1
<1>9. stk[c].size = 0
  <2>1. stk[c].size \in Int /\ stk[c].size >= 0 /\ ~(stk[c].size > 0)
    BY <1>3, <1>4, <1>5, <1>8 DEF TransferCounted, Sized, StackRec
  <2> QED BY <2>1
<1>10. \A s \in DOMAIN stk : s \in Name /\ Nothing.stack # s /\ s[1] \in Tasks /\ (s # c => s[1] # c[1])
  <2>1. \A s \in DOMAIN stk : s[1] = c[1] => s = c
    BY <1>1, <1>3, <1>4, <1>7, LastStack DEF Typed, Kids
  <2>2. \A s \in DOMAIN stk : s \in Name /\ Nothing.stack # s
    BY <1>1, NothingAside DEF Typed, Closed
  <2> QED BY <2>1, <2>2 DEF Name
<1>11. Becomes(events, events', 1, e, Nothing, Nothing)
  BY <1>0, <1>3, HandledNone
<1>12. /\ DOMAIN stk' = DOMAIN stk \ {c} /\ \A s \in DOMAIN stk : s # c => stk'[s] = stk[s]
       /\ \A s : KidsIn(DOMAIN stk', s) = Kids(s) /\ Cardinality(KidsIn(DOMAIN stk', s)) = Below(s)
  <2>1. ~(Len(c) > 1)
    BY <1>4
  <2> QED BY <1>1, <1>3, <1>7, <2>1, StackFreed
<1>13. /\ told[c[1]] = 0 /\ c[1] \in Tasks /\ told \in [Tasks -> 0..1] /\ told' \in [Tasks -> 0..1]
       /\ \A t : t # c[1] => told'[t] = told[t]
  <2>1. told[c[1]] = 0 /\ c[1] \in Tasks /\ told \in [Tasks -> 0..1]
    BY <1>1, <1>3, <1>5, <1>10 DEF TransferCounted, Typed
  <2>2. told' = [told EXCEPT ![c[1]] = 1]
    BY <2>1
  <2>3. told' \in [Tasks -> 0..1]
    BY <2>1, <2>2
  <2> QED BY <2>1, <2>2, <2>3
<1>14. Count(events', Of("Pre", c)) = 0 /\ Count(events', Of("PreFinish", c)) = 0
  <2>1. c \in Name /\ e.stack = c /\ Nothing.stack # c
    BY <1>3, <1>10
  <2>2. /\ Count(events', Of(e.ev, c)) = N(e.ev, c) - 1
        /\ \A x : x # e.ev => Count(events', Of(x, c)) = N(x, c)
    BY <1>11, <2>1, Leaves
  <2> QED BY <1>3, <1>7, <1>8, <2>2
<1>15. ASSUME NEW s \in DOMAIN stk, s # c
       PROVE  SameCounts(s)
  <2>1. \A x : Count(events', Of(x, s)) = N(x, s)
    BY <1>3, <1>10, <1>11, <1>15, Aside
  <2> QED BY <1>10, <1>12, <1>13, <1>15, <2>1 DEF SameCounts, Waiting, Unanswered
<1>16. Typed'
  <2>0. Len(c) # 2 /\ Len(c) # Leaf
    BY <1>4 DEF Leaf
  <2>1. \A i \in 1..Len(memoplist) : memoplist[i] # c
    <3>1. \A i \in 1..Len(memoplist) : Len(memoplist[i]) = 2
      BY <1>1 DEF Typed
    <3> QED BY <2>0, <3>1
  <2>2. c \notin DOMAIN memory
    <3>1. \A s \in DOMAIN memory : Len(s) = Leaf
      BY <1>1 DEF Typed
    <3> QED BY <2>0, <3>1
  <2>3. \A t \in Tasks : access[t] = None => told'[t] = 0
    <3>1. access[c[1]] # None
      BY <1>4, <1>5 DEF TransferCounted
    <3> QED BY <1>1, <1>13, <3>1 DEF Typed
  <2> QED BY <1>1, <1>3, <1>7, <1>13, <2>1, <2>2, <2>3, TypedFreed DEF Typed
<1>17. Queued'
  <2>1. \A x \in Kinds(Len(c)) : Count(events', Of(x, c)) = 0
    <3>1. Kinds(Len(c)) = {"Pre", "PreFinish"}
      BY <1>4 DEF Kinds
    <3> QED BY <1>14, <3>1
  <2>2. \A s \in DOMAIN stk \ DOMAIN stk' : s = c
    BY <1>12
  <2> QED BY <1>1, <1>11, <2>1, <2>2, QueuedKept
<1>18. Counted'
  <2>1. SUFFICES ASSUME NEW s \in DOMAIN stk' PROVE CountedFor(s)'
    BY DEF Counted
  <2>2. CountedFor(s) /\ s \in DOMAIN stk /\ s # c
    BY <1>1, <1>12 DEF Counted
  <2> QED BY <1>15, <2>2, CountedSame
<1>19. Held'
  <2>1. \A s \in DOMAIN stk : s # c => s \in DOMAIN stk' /\ stk'[s] = stk[s]
    BY <1>12
  <2>2. \A s \in DOMAIN stk : Count(memoplist', {s}) > 0 => Waiting(s) > 0
    BY DEF Waiting
  <2> QED BY <1>0, <1>1, <1>3, <1>4, <1>11, <2>1, <2>2, HeldLate, NothingEv
<1>20. Continues'
  <2>1. ASSUME NEW i \in 1..Len(events), events[i].ev = "Beats"
        PROVE  Untouched(events[i].stack, 1)
    <3>1. events[i].stack \in DOMAIN stk /\ events[i].stack # c
      <4>1. "Beats" \in Kinds(Len(events[i].stack)) /\ events[i].stack \in DOMAIN stk
        BY <1>1, <2>1 DEF Queued
      <4>2. Len(events[i].stack) = 3
        BY <1>1, <4>1, Level DEF Typed, Closed
      <4>3. Len(c) # 3
        BY <1>4
      <4> QED BY <4>1, <4>2, <4>3
    <3>2. \A k \in 1..Len(events) : k <= 1 => events[k].ev # "Words"
      BY <1>0, <1>3
    <3>3. Count(events', Of("BeatFinish", events[i].stack)) = N("BeatFinish", events[i].stack)
      BY <1>15, <3>1 DEF SameCounts
    <3> QED BY <1>12, <3>2, <3>3 DEF Untouched
  <2> QED BY <1>1, <1>11, <2>1, ContinuesStep, NothingEv
<1>21. Bytes'
  <2>1. ASSUME NEW s \in DOMAIN stk'
        PROVE  Passed(s)' /\ Sized(s)'
    <3>1. s \in DOMAIN stk /\ s # c /\ stk'[s] = stk[s]
      BY <1>12
    <3>2. Sized(s)'
      BY <1>1, <1>15, <3>1, SizedAside, SizedKept DEF Bytes
    <3>3. Len(s) > 1 => Front(s) \in DOMAIN stk /\ Front(s) # c
      BY <1>1, <1>7, <3>1 DEF Typed, Closed, Kids, KidsIn
    <3>4. Passed(s) /\ (Len(s) > 1 => stk'[Front(s)] = stk[Front(s)])
      BY <1>1, <1>12, <3>1, <3>3 DEF Bytes
    <3>5. Passed(s)'
      BY <3>4 DEF Passed
    <3> QED BY <3>2, <3>5
  <2>2. Covered'
    <3>1. SUFFICES ASSUME NEW t \in Tasks, access[t] # None, NEW o \in 0..(access[t].size - 1), ~Exchanged(t, o)
                   PROVE  told'[t] = 0 /\ \E s \in DOMAIN stk' : s[1] = t /\ Owed(s, o)'
      BY DEF Covered, Exchanged
    <3>2. PICK s \in DOMAIN stk : told[t] = 0 /\ s[1] = t /\ Owed(s, o)
      BY <1>1, <3>1 DEF Bytes, Covered
    <3>3. s # c
      <4>1. ASSUME s = c PROVE FALSE
        <5>1. stk[c].buf <= o
          <6>1. Owed(c, o)
            BY <3>2, <4>1
          <6> QED BY <1>4, <6>1 DEF Owed
        <5>2. stk[c].buf + 0 = access[c[1]].size /\ stk[c].buf \in Nat
          BY <1>3, <1>4, <1>5, <1>9 DEF Sized, StackRec
        <5>3. o \in 0..(access[c[1]].size - 1)
          BY <3>1, <3>2, <4>1
        <5> QED BY <5>1, <5>2, <5>3
      <4> QED BY <4>1
    <3>4. s \in DOMAIN stk' /\ stk'[s] = stk[s] /\ told'[t] = told[t]
      BY <1>10, <1>12, <1>13, <3>2, <3>3
    <3>5. Owed(s, o)'
      BY <3>2, <3>4 DEF Owed
    <3> QED BY <3>2, <3>4, <3>5
  <2> QED BY <2>1, <2>2 DEF Bytes
<1> QED BY <1>16, <1>17, <1>18, <1>19, <1>20, <1>21 DEF TransferInv

-----------------------------------------------------------------------------
(* Chunks and ports.                                                       *)

LEMMA PortFreed ==
  ASSUME memoplist \in Seq(Name), FreePort
  PROVE  /\ portuse' = portuse - 1 /\ memoplist' \in Seq(Name)
         /\ memoplist = <<>> => Woken = <<>> /\ memoplist' = memoplist
         /\ memoplist # <<>> => Woken = <<Event("Chunk", memoplist[1], 0)>> /\ memoplist' = Tail(memoplist)
         /\ \A i \in 1..Len(memoplist') : \E j \in 1..Len(memoplist) : memoplist'[i] = memoplist[j]
         /\ memoplist # <<>> => memoplist[1] \in Name /\ 1 \in 1..Len(memoplist) /\ Waiting(memoplist[1]) > 0
                                /\ Count(memoplist', {memoplist[1]}) = Waiting(memoplist[1]) - 1
         /\ \A s : memoplist = <<>> \/ memoplist[1] # s => Count(memoplist', {s}) = Waiting(s)
<1> DEFINE m == memoplist
<1>1. portuse' = portuse - 1 /\ memoplist' = SubSeq(m, Len(Woken) + 1, Len(m))
  BY DEF FreePort
<1>2. CASE m = <<>>
  <2>1. Woken = <<>> /\ Len(Woken) = 0 /\ Len(m) = 0
    BY <1>2 DEF Woken
  <2>2. memoplist' = m
    BY <1>1, <1>2, <2>1
  <2> QED BY <1>1, <1>2, <2>1, <2>2 DEF Waiting
<1>3. CASE m # <<>>
  <2>1. m \in Seq(Name) /\ Len(m) \in Nat \ {0} /\ Head(m) = m[1] /\ m[1] \in Name /\ 1 \in 1..Len(m)
    BY <1>3
  <2>2. Woken = <<Event("Chunk", m[1], 0)>> /\ Len(Woken) = 1
    BY <1>3, <2>1 DEF Woken
  <2>3. memoplist' = SubSeq(m, 2, Len(m))
    BY <1>1, <2>2
  <2>4. SubSeq(m, 2, Len(m)) = Tail(m)
    BY <2>1
  <2>5. Tail(m) \in Seq(Name) /\ Len(Tail(m)) = Len(m) - 1 /\ \A i \in 1..(Len(m) - 1) : Tail(m)[i] = m[i + 1]
    BY <2>1
  <2>6. \A i \in 1..Len(memoplist') : \E j \in 1..Len(m) : memoplist'[i] = m[j]
    <3>1. SUFFICES ASSUME NEW i \in 1..(Len(m) - 1) PROVE \E j \in 1..Len(m) : Tail(m)[i] = m[j]
      BY <2>3, <2>4, <2>5
    <3>2. i + 1 \in 1..Len(m)
      BY <2>1
    <3> QED BY <2>5, <3>2
  <2>7. \A s : /\ Waiting(s) = IF m[1] \in {s} THEN Count(memoplist', {s}) + 1 ELSE Count(memoplist', {s})
               /\ Count(memoplist', {s}) \in Nat
    <3>1. \A s : Count(m, {s}) = IF m[1] \in {s} THEN Count(Tail(m), {s}) + 1 ELSE Count(Tail(m), {s})
      BY <1>3, <2>1, TailCount
    <3>2. \A s : Count(Tail(m), {s}) \in Nat
      BY <2>5, PlacesFinite
    <3>3. memoplist' = Tail(m)
      BY <2>3, <2>4
    <3> QED BY <3>1, <3>2, <3>3 DEF Waiting
  <2>8. Waiting(m[1]) = Count(memoplist', {m[1]}) + 1 /\ Count(memoplist', {m[1]}) \in Nat
    BY <2>7
  <2>9. Waiting(m[1]) > 0 /\ Count(memoplist', {m[1]}) = Waiting(m[1]) - 1
    BY <2>8
  <2>10. \A s : m[1] # s => Count(memoplist', {s}) = Waiting(s)
    BY <2>7
  <2> QED BY <1>1, <1>3, <2>1, <2>2, <2>3, <2>4, <2>5, <2>6, <2>9, <2>10
<1> QED BY <1>2, <1>3

\* The chunk c ends at its event ev: a is the event for its transfer, w that for the chunk that
\* gets the port, if there is one.
ChunkEnds(ev, c, a, w) ==
  /\ Handles(ev) /\ (ev = "Finish" \/ (ev = "WordFinish" /\ path = "large" /\ S.count = 1)) /\ c = Cur
  /\ a = Return(c, "PreFinish")
  /\ w = IF memoplist = <<>> THEN Nothing ELSE Event("Chunk", memoplist[1], 0)
  /\ a \in EventRec /\ w \in EventRec \union {Nothing} => Becomes(events, events', 1, events[1], a, w)
  /\ stk' = Freed(stk, c) /\ FreePort
  /\ UNCHANGED <<path, access, memory, told>>
  /\ image' = [t \in Tasks |-> image'[t]] /\ \A t \in Tasks : DOMAIN image'[t] = DOMAIN image[t]
  /\ \A t, o : InBuffer(t, o) /\ Exchanged(t, o) => Exchanged(t, o)'
  /\ \A o : Owed(c, o) /\ InBuffer(c[1], o) => Exchanged(c[1], o)'

LEMMA ChunkReturns ==
  ASSUME TransferInv, NEW ev, NEW c, NEW a, NEW w, ChunkEnds(ev, c, a, w)
  PROVE  TransferInv'
<1>0. PICK e, p, h : e = events[1] /\ p = Front(c) /\ h = w.stack
  OBVIOUS
<1>1. Typed /\ Queued /\ Counted /\ Held /\ Continues /\ Bytes
  BY DEF TransferInv
<1>2. /\ Handles(ev) /\ c = Cur /\ stk' = Freed(stk, c) /\ FreePort
      /\ UNCHANGED <<path, access, memory, told>>
  BY DEF ChunkEnds
<1>30. /\ ev = "Finish" \/ (ev = "WordFinish" /\ path = "large" /\ S.count = 1)
       /\ a = Event("PreFinish", Front(c), 0)
       /\ w = IF memoplist = <<>> THEN Nothing ELSE Event("Chunk", memoplist[1], 0)
       /\ a \in EventRec /\ w \in EventRec \union {Nothing} => Becomes(events, events', 1, events[1], a, w)
  BY DEF ChunkEnds, Return
<1>31. /\ image' = [t \in Tasks |-> image'[t]] /\ \A t \in Tasks : DOMAIN image'[t] = DOMAIN image[t]
       /\ \A t, o : InBuffer(t, o) /\ Exchanged(t, o) => Exchanged(t, o)'
       /\ \A o : Owed(c, o) /\ InBuffer(c[1], o) => Exchanged(c[1], o)'
  BY DEF ChunkEnds
<1>3. /\ IsQueue(events, EventRec) /\ events # <<>> /\ e.ev = ev /\ e.left = 0 /\ e.stack = c
      /\ c \in DOMAIN stk /\ c \in Name /\ ev \in Kinds(Len(c)) /\ Len(c) <= Leaf
      /\ N(ev, c) > 0 /\ stk[c] \in StackRec /\ S = stk[c] /\ CountedFor(c) /\ 1 \in 1..Len(events)
  BY <1>0, <1>2, Due
<1>4. /\ Len(c) = 2 /\ (ev = "Finish" => path = "burst" /\ Leaf = 4) /\ (ev = "WordFinish" => path = "large" /\ Leaf = 2)
      /\ (ev = "Finish" \/ ev = "WordFinish") /\ stk[c].count \in Nat /\ (ev = "WordFinish" => stk[c].count = 1)
  <2>1. CASE ev = "Finish"
    BY <1>1, <1>3, <2>1, Level DEF Typed, StackRec
  <2>2. CASE ev = "WordFinish" /\ path = "large" /\ S.count = 1
    <3>1. Leaf = 2 /\ Len(c) = Leaf
      BY <1>1, <1>3, <2>2, Level DEF Typed, Leaf
    <3> QED BY <1>3, <2>2, <3>1 DEF StackRec
  <2> QED BY <1>30, <2>1, <2>2
<1>5. p \in Name /\ Len(p) = 1 /\ p[1] = c[1]
  BY <1>0, <1>3, <1>4, ParentLevel
<1>6. /\ \A s, x : N(x, s) \in Nat
      /\ \A s : Below(s) \in Nat /\ Waiting(s) \in Nat /\ Unanswered(s) \in Nat
      /\ \A s : Below(s) = 0 <=> Kids(s) = {}
  BY <1>1, Numbers
<1>7. ChunkCounted(c) /\ (ev = "WordFinish" => LeafCounted(c))
  <2>1. CASE ev = "Finish"
    BY <1>3, <1>4, <2>1 DEF CountedFor
  <2>2. CASE ev = "WordFinish"
    BY <1>3, <1>4, <2>2 DEF CountedFor
  <2> QED BY <1>4, <2>1, <2>2
<1>8. /\ Kids(c) = {} /\ Waiting(c) = 0 /\ c \notin DOMAIN memory
      /\ N(ev, c) = 1 /\ \A x \in Kinds(2) : x # ev => N(x, c) = 0
  <2>1. CASE ev = "Finish"
    <3>1. N("Chunk", c) = 0 /\ Waiting(c) = 0 /\ N("Bursts", c) = 0 /\ N("Finish", c) = 1 /\ Below(c) = 0
      BY <1>1, <1>3, <1>7, <2>1, ChunkOnly
    <3>2. Kinds(2) = {"Chunk", "Bursts", "Finish"}
      BY <1>4, <2>1 DEF Kinds
    <3>3. c \notin DOMAIN memory
      <4>1. Len(c) # Leaf
        BY <1>4, <2>1
      <4> QED BY <1>1, <4>1 DEF Typed
    <3> QED BY <1>6, <2>1, <3>1, <3>2, <3>3
  <2>2. CASE ev = "WordFinish"
    <3>1. N("Chunk", c) = 0 /\ Waiting(c) = 0 /\ N("Words", c) = 0 /\ N("Memory", c) = 0 /\ N("WordFinish", c) = 1 /\ Unanswered(c) = 0
      BY <1>1, <1>3, <1>4, <1>7, <2>2, LeafOnly
    <3>2. Kinds(2) = {"Chunk", "Words", "Memory", "WordFinish"}
      BY <1>4, <2>2 DEF Kinds
    <3>3. c \notin DOMAIN memory
      BY <1>1, <3>1 DEF Typed, Unanswered
    <3>4. Kids(c) = {}
      BY <1>1, <1>3, <1>4, <2>2, LeafKids
    <3> QED BY <2>2, <3>1, <3>2, <3>3, <3>4
  <2> QED BY <1>4, <2>1, <2>2
<1>9. /\ DOMAIN stk' = DOMAIN stk \ {c} /\ \A s \in DOMAIN stk : s # c => stk'[s] = stk[s]
      /\ \A s : s # p => KidsIn(DOMAIN stk', s) = Kids(s) /\ Cardinality(KidsIn(DOMAIN stk', s)) = Below(s)
      /\ Cardinality(KidsIn(DOMAIN stk', p)) = Below(p) - 1
      /\ p \in DOMAIN stk /\ p # c /\ c \in Kids(p) /\ Below(p) > 0
  <2>1. Len(c) > 1
    BY <1>4
  <2> QED BY <1>0, <1>1, <1>2, <1>3, <1>8, <2>1, StackFreed
<1>10. /\ portuse' = portuse - 1 /\ memoplist' \in Seq(Name)
       /\ \A i \in 1..Len(memoplist') : \E j \in 1..Len(memoplist) : memoplist'[i] = memoplist[j]
       /\ memoplist # <<>> => memoplist[1] \in Name /\ 1 \in 1..Len(memoplist) /\ Waiting(memoplist[1]) > 0
                              /\ Count(memoplist', {memoplist[1]}) = Waiting(memoplist[1]) - 1
       /\ \A s : memoplist = <<>> \/ memoplist[1] # s => Count(memoplist', {s}) = Waiting(s)
  BY <1>1, <1>2, PortFreed DEF Typed
<1>11. \A s \in DOMAIN stk : s \in Name /\ Nothing.stack # s
  BY <1>1, NothingAside DEF Typed, Closed
<1>12. a \in EventRec /\ a.ev = "PreFinish" /\ a.stack = p /\ a.left = 0
  <2>1. "PreFinish" \in EventName /\ 0 \in Nat
    BY DEF EventName
  <2> QED BY <1>0, <1>5, <1>30, <2>1, EventIsRec
<1>13. /\ memoplist = <<>> => w = Nothing
       /\ memoplist # <<>> => w \in EventRec /\ w.ev = "Chunk" /\ w.stack = memoplist[1] /\ w.left = 0
       /\ w \in EventRec \union {Nothing} /\ w.ev # "Pre" /\ w.ev # "Beats"
  <2>1. "Chunk" \in EventName /\ 0 \in Nat
    BY DEF EventName
  <2>2. memoplist # <<>> => w \in EventRec /\ w.ev = "Chunk" /\ w.stack = memoplist[1] /\ w.left = 0
    BY <1>10, <1>30, <2>1, EventIsRec
  <2> QED BY <1>30, <2>2, NothingEv
<1>14. Becomes(events, events', 1, e, a, w)
  BY <1>0, <1>12, <1>13, <1>30
<1>15. w # Nothing => /\ memoplist # <<>> /\ h = memoplist[1] /\ w.ev = "Chunk" /\ w.left = 0
                      /\ h \in DOMAIN stk /\ Len(h) = 2 /\ h # c /\ h # p /\ Waiting(h) > 0
  <2>1. SUFFICES ASSUME w # Nothing
                 PROVE  /\ memoplist # <<>> /\ h = memoplist[1] /\ w.ev = "Chunk" /\ w.left = 0
                        /\ h \in DOMAIN stk /\ Len(h) = 2 /\ h # c /\ h # p /\ Waiting(h) > 0
    OBVIOUS
  <2>2. memoplist # <<>> /\ h = memoplist[1] /\ w.ev = "Chunk" /\ w.left = 0
    BY <1>0, <1>13, <2>1
  <2>3. h \in DOMAIN stk /\ Len(h) = 2 /\ Waiting(h) > 0
    BY <1>1, <1>10, <2>2 DEF Typed
  <2>4. h # c
    BY <1>8, <2>3
  <2>5. h # p
    BY <1>5, <2>3
  <2> QED BY <2>2, <2>3, <2>4, <2>5
<1>16. w = Nothing \/ w.stack = h
  BY <1>0

\* The events of c, of p, of the chunk that gets the port, and of the others.
<1>17. \A x \in Kinds(2) : Count(events', Of(x, c)) = 0
  <2>1. c \in Name /\ e.stack = c /\ a.stack # c /\ w.stack # c
    BY <1>3, <1>9, <1>11, <1>12, <1>15, <1>16
  <2>2. /\ Count(events', Of(e.ev, c)) = N(e.ev, c) - 1
        /\ \A x : x # e.ev => Count(events', Of(x, c)) = N(x, c)
    BY <1>14, <2>1, Leaves
  <2> QED BY <1>3, <1>8, <2>2
<1>18. /\ Count(events', Of("PreFinish", p)) = N("PreFinish", p) + 1
       /\ \A x : x # "PreFinish" => Count(events', Of(x, p)) = N(x, p)
  <2>1. p \in Name /\ e.stack # p /\ a.stack = p /\ w.stack # p
    BY <1>3, <1>5, <1>9, <1>11, <1>12, <1>15, <1>16
  <2>2. /\ Count(events', Of(a.ev, p)) = N(a.ev, p) + 1
        /\ \A x : x # a.ev => Count(events', Of(x, p)) = N(x, p)
    BY <1>14, <2>1, Arrives
  <2> QED BY <1>12, <2>2
<1>19. w # Nothing => /\ Count(events', Of("Chunk", h)) = N("Chunk", h) + 1
                      /\ \A x : x # "Chunk" => Count(events', Of(x, h)) = N(x, h)
  <2>0. SUFFICES ASSUME w # Nothing
                 PROVE  /\ Count(events', Of("Chunk", h)) = N("Chunk", h) + 1
                        /\ \A x : x # "Chunk" => Count(events', Of(x, h)) = N(x, h)
    OBVIOUS
  <2>1. h \in Name /\ e.stack # h /\ a.stack # h /\ w.stack = h
    BY <1>3, <1>11, <1>12, <1>15, <1>16, <2>0
  <2>2. /\ Count(events', Of(w.ev, h)) = N(w.ev, h) + 1
        /\ \A x : x # w.ev => Count(events', Of(x, h)) = N(x, h)
    BY <1>14, <2>1, ArrivesToo
  <2> QED BY <1>15, <2>0, <2>2
<1>20. ASSUME NEW s \in DOMAIN stk, s # c, s # p, w = Nothing \/ s # h
       PROVE  SameCounts(s)
  <2>1. \A x : Count(events', Of(x, s)) = N(x, s)
    <3>1. s \in Name /\ e.stack # s /\ a.stack # s /\ w.stack # s
      BY <1>3, <1>11, <1>12, <1>16, <1>20
    <3> QED BY <1>14, <3>1, Aside
  <2>2. Count(memoplist', {s}) = Waiting(s)
    <3>1. memoplist # <<>> => w # Nothing /\ h = memoplist[1]
      BY <1>13, <1>16, NothingIs
    <3> QED BY <1>10, <1>20, <3>1
  <2> QED BY <1>2, <1>9, <1>20, <2>1, <2>2 DEF SameCounts, Unanswered
<1>21. Typed'
  <2>1. \A i \in 1..Len(memoplist') : memoplist'[i] # c
    <3>1. memoplist' \in Seq(Name) /\ Count(memoplist', {c}) = 0
      <4>1. memoplist # <<>> => memoplist[1] # c
        BY <1>8, <1>10
      <4> QED BY <1>8, <1>10, <4>1
    <3>2. \A i \in 1..Len(memoplist') : memoplist'[i] \notin {c}
      BY <3>1, CountNone
    <3> QED BY <3>2
  <2>2. portuse' \in Int /\ told \in [Tasks -> 0..1] /\ \A t \in Tasks : access[t] = None => told[t] = 0
    BY <1>1, <1>10 DEF Typed
  <2> QED BY <1>1, <1>2, <1>3, <1>8, <1>10, <1>31, <2>1, <2>2, TypedFreed
<1>22. Queued'
  <2>1. a.stack \in DOMAIN stk' /\ a.ev \in Kinds(Len(a.stack))
    BY <1>5, <1>9, <1>12 DEF Kinds
  <2>2. w # Nothing => w.stack \in DOMAIN stk' /\ w.ev \in Kinds(Len(w.stack))
    <3>1. "Chunk" \in Kinds(2)
      BY DEF Kinds
    <3>2. SUFFICES ASSUME w # Nothing PROVE w.stack \in DOMAIN stk' /\ w.ev \in Kinds(Len(w.stack))
      OBVIOUS
    <3>3. w.stack = h /\ h \in DOMAIN stk'
      BY <1>9, <1>15, <1>16, <3>2
    <3>4. w.ev = "Chunk" /\ Len(h) = 2
      BY <1>15, <3>2
    <3> QED BY <3>1, <3>3, <3>4
  <2>3. \A s \in DOMAIN stk \ DOMAIN stk' : s = c
    BY <1>9
  <2> QED BY <1>1, <1>2, <1>4, <1>12, <1>13, <1>14, <1>17, <2>1, <2>2, <2>3, QueuedKept
<1>23. Counted'
  <2>1. SUFFICES ASSUME NEW s \in DOMAIN stk' PROVE CountedFor(s)'
    BY DEF Counted
  <2>2. CountedFor(s) /\ s \in DOMAIN stk /\ s # c /\ stk'[s] = stk[s]
    BY <1>1, <1>9 DEF Counted
  <2>3. CASE s # p /\ (w = Nothing \/ s # h)
    BY <1>2, <1>20, <2>2, <2>3, CountedSame
  <2>4. CASE s = p
    <3>1. /\ N("Pre", s)' = N("Pre", s) /\ N("PreFinish", s)' = N("PreFinish", s) + 1 /\ Below(s)' = Below(s) - 1
      BY <1>9, <1>18, <2>4 DEF N, Below, Kids
    <3>2. N("PreFinish", s) \in Nat /\ Below(s) \in Nat /\ TransferCounted(s) /\ Len(s) = 1
      BY <1>5, <1>6, <2>2, <2>4 DEF CountedFor
    <3>3. Below(s)' + N("PreFinish", s)' = Below(s) + N("PreFinish", s)
      BY <3>1, <3>2
    <3>4. TransferCounted(s)'
      BY <1>2, <2>2, <3>1, <3>2, <3>3 DEF TransferCounted
    <3>5. Len(s) # Leaf'
      BY <3>2 DEF Leaf
    <3> QED BY <3>2, <3>4, <3>5 DEF CountedFor
  <2>5. CASE w # Nothing /\ s = h
    <3>1. /\ N("Chunk", s)' = N("Chunk", s) + 1 /\ Waiting(s)' = Waiting(s) - 1 /\ Below(s)' = Below(s) /\ Unanswered(s)' = Unanswered(s)
          /\ \A x : x # "Chunk" => N(x, s)' = N(x, s)
      BY <1>2, <1>9, <1>10, <1>15, <1>19, <2>5 DEF N, Below, Kids, Waiting, Unanswered
    <3>2. N("Chunk", s) \in Nat /\ Waiting(s) \in Nat /\ Len(s) = 2
      BY <1>6, <1>15, <2>5
    <3>3. /\ N("Chunk", s)' + Waiting(s)' = N("Chunk", s) + Waiting(s)
          /\ N("Bursts", s)' = N("Bursts", s) /\ N("Finish", s)' = N("Finish", s)
          /\ N("Words", s)' = N("Words", s) /\ N("Memory", s)' = N("Memory", s) /\ N("WordFinish", s)' = N("WordFinish", s)
      BY <3>1, <3>2
    <3>4. ChunkCounted(s)'
      BY <2>2, <3>1, <3>2, <3>3 DEF CountedFor, ChunkCounted
    <3>5. Len(s) = Leaf => LeafCounted(s)'
      BY <2>2, <3>1, <3>3 DEF CountedFor, LeafCounted
    <3>6. Leaf' = Leaf
      BY <1>2 DEF Leaf
    <3> QED BY <3>2, <3>4, <3>5, <3>6 DEF CountedFor
  <2> QED BY <2>3, <2>4, <2>5
<1>24. Held'
  <2>1. Late(ev) /\ a.ev # "Pre" /\ w.ev # "Pre"
    BY <1>4, <1>12, <1>13 DEF Late
  <2>2. ASSUME NEW g \in DOMAIN stk, NEW x \in {a, w}, Len(g) = 2, x # Nothing, Under(x.stack, g)
        PROVE  Under(c, g) \/ (x.ev = "Chunk" /\ x.left = 0 /\ x.stack = g /\ Waiting(g) > 0)
    <3>1. x.stack \in Name /\ g \in Name
      BY <1>5, <1>11, <1>12, <1>15, <1>16, <2>2
    <3>2. x.stack = g \/ Len(x.stack) = 3 \/ Len(x.stack) = 4
      BY <2>2, <3>1, UnderIs
    <3>3. CASE x = a
      <4>1. Len(x.stack) = 1
        BY <1>5, <1>12, <3>3
      <4> QED BY <2>2, <3>2, <4>1
    <3>4. CASE x = w
      <4>1. Len(x.stack) = 2 /\ w # Nothing
        BY <1>15, <1>16, <2>2, <3>4
      <4>2. x.stack = g
        BY <3>2, <4>1
      <4> QED BY <1>15, <1>16, <3>4, <4>1, <4>2
    <3> QED BY <2>2, <3>3, <3>4
  <2>3. \A s \in DOMAIN stk : s # c => s \in DOMAIN stk' /\ stk'[s] = stk[s]
    BY <1>9
  <2>4. \A s \in DOMAIN stk : Count(memoplist', {s}) > 0 => Waiting(s) > 0
    BY <1>10
  <2> QED BY <1>0, <1>1, <1>2, <1>3, <1>14, <2>1, <2>2, <2>3, <2>4, HeldLate
<1>25. Continues'
  <2>1. ASSUME NEW i \in 1..Len(events), events[i].ev = "Beats"
        PROVE  Untouched(events[i].stack, 1)
    <3>1. events[i].stack \in DOMAIN stk /\ Len(events[i].stack) = 3
      <4>1. "Beats" \in Kinds(Len(events[i].stack)) /\ events[i].stack \in DOMAIN stk
        BY <1>1, <2>1 DEF Queued
      <4>2. Len(events[i].stack) = 3
        BY <1>1, <4>1, Level DEF Typed, Closed
      <4> QED BY <4>1, <4>2
    <3>2. events[i].stack # c /\ events[i].stack # p /\ (w = Nothing \/ events[i].stack # h)
      <4>1. Len(c) # 3
        BY <1>4
      <4>2. Len(p) # 3
        BY <1>5
      <4>3. w = Nothing \/ Len(h) # 3
        <5>1. w = Nothing \/ Len(h) = 2
          BY <1>15
        <5>2. 2 # 3
          OBVIOUS
        <5> QED BY <5>1, <5>2, Zenon
      <4>4. events[i].stack # c /\ events[i].stack # p
        BY <3>1, <4>1, <4>2
      <4>5. w = Nothing \/ events[i].stack # h
        BY <3>1, <4>3
      <4> QED BY <4>4, <4>5
    <3>3. \A k \in 1..Len(events) : k <= 1 => events[k].ev # "Words"
      BY <1>0, <1>3, <1>4
    <3>4. Count(events', Of("BeatFinish", events[i].stack)) = N("BeatFinish", events[i].stack)
      BY <1>20, <3>1, <3>2 DEF SameCounts
    <3> QED BY <1>9, <3>2, <3>3, <3>4 DEF Untouched
  <2> QED BY <1>1, <1>12, <1>13, <1>14, <2>1, ContinuesStep
<1>26. Bytes'
  <2>1. ASSUME NEW s \in DOMAIN stk, s # c
        PROVE  SizedSame(s)
    <3>1. CASE s = p
      <4>1. stk'[s] = stk[s] /\ Len(s) # 2
        BY <1>5, <1>9, <2>1, <3>1
      <4> QED BY <1>2, <4>1 DEF SizedSame
    <3>2. CASE w # Nothing /\ s = h
      <4>1. stk'[s] = stk[s] /\ s # p /\ Waiting(s) > 0 /\ Waiting(s) \in Nat /\ N("Chunk", s) \in Nat
        BY <1>6, <1>9, <1>15, <2>1, <3>2
      <4>2. Cardinality(KidsIn(DOMAIN stk', s)) = Below(s)
            /\ Count(events', Of("Bursts", s)) = N("Bursts", s) /\ Count(events', Of("Finish", s)) = N("Finish", s)
        BY <1>9, <1>19, <3>2, <4>1
      <4>3. N("Chunk", s) + Waiting(s) > 0
        BY <4>1
      <4> QED BY <1>2, <4>1, <4>2, <4>3 DEF SizedSame
    <3>3. CASE s # p /\ (w = Nothing \/ s # h)
      BY <1>20, <2>1, <3>3, SizedAside
    <3> QED BY <3>1, <3>2, <3>3
  <2> QED BY <1>1, <1>2, <1>3, <1>8, <1>9, <1>31, <2>1, BytesFreed DEF Typed
<1> QED BY <1>21, <1>22, <1>23, <1>24, <1>25, <1>26 DEF TransferInv

LEMMA BecomesSwapped ==
  ASSUME NEW es, NEW r, NEW n, NEW o, NEW a, NEW b, Becomes(es, r, n, o, b, a)
  PROVE  Becomes(es, r, n, o, a, b)
<1>1. {a, b} = {b, a}
  OBVIOUS
<1>2. \A s \in Name : \A ev : Count(r, Of(ev, s)) = Count(es, Of(ev, s)) - Is(o, ev, s) + Is(a, ev, s) + Is(b, ev, s)
  <2>1. \A s \in Name : \A ev : /\ Count(r, Of(ev, s)) = Count(es, Of(ev, s)) - Is(o, ev, s) + Is(b, ev, s) + Is(a, ev, s)
                            /\ Count(es, Of(ev, s)) \in Nat
    BY DEF Becomes
  <2>2. \A s, ev : Is(o, ev, s) \in Nat /\ Is(a, ev, s) \in Nat /\ Is(b, ev, s) \in Nat
    BY DEF Is
  <2> QED BY <2>1, <2>2
<1> QED BY <1>1, <1>2 DEF Becomes

\* The event for the chunk that gets the port, with the one for the transfer whose chunk ends.
LEMMA Paired ==
  ASSUME NEW w, NEW a
  PROVE  Append(<<w>>, a) = <<w, a>> /\ <<a>> \o <<w>> = <<a, w>>
<1> DEFINE E == {a, w}
<1>1. <<a>> \in Seq(E) /\ <<w>> \in Seq(E) /\ Len(<<a>>) = 1 /\ Len(<<w>>) = 1 /\ a \in E
  OBVIOUS
<1> HIDE DEF E
<1>2. Append(<<w>>, a) = <<w, a>>
  <2> DEFINE r == Append(<<w>>, a)
  <2>1. r \in Seq(E) /\ Len(r) = 2 /\ r[1] = w /\ r[2] = a
    BY <1>1
  <2> HIDE DEF r
  <2>2. r = <<w, a>>
    BY <2>1
  <2> QED BY <2>2 DEF r
<1>3. <<a>> \o <<w>> = <<a, w>>
  <2> DEFINE q == <<a>> \o <<w>>
  <2>1. q \in Seq(E) /\ Len(q) = 2 /\ q[1] = a /\ q[2] = w
    BY <1>1, Concatenated
  <2> HIDE DEF q
  <2>2. q = <<a, w>>
    BY <2>1
  <2> QED BY <2>2 DEF q
<1> QED BY <1>2, <1>3

LEMMA PortHandsOn ==
  ASSUME IsQueue(events, EventRec), events # <<>>, memoplist \in Seq(Name), FreePort, NEW a, NEW w,
         w = IF memoplist = <<>> THEN Nothing ELSE Event("Chunk", memoplist[1], 0),
         a \in EventRec, w \in EventRec \union {Nothing},
         \/ events' = ScheduledAll(Tail(events), Append(Woken, a))
         \/ events' = ScheduledAll(Tail(events), <<a>> \o Woken)
  PROVE  Becomes(events, events', 1, events[1], a, w)
<1>1. CASE memoplist = <<>>
  <2>1. Woken = <<>> /\ w = Nothing
    BY <1>1, PortFreed
  <2>2. Append(<<>>, a) = <<a>> /\ <<a>> \o <<>> = <<a>>
    OBVIOUS
  <2>3. events' = Scheduled(Tail(events), a)
    BY <2>1, <2>2, ScheduledOne
  <2> QED BY <2>1, <2>3, HandledOne
<1>2. CASE memoplist # <<>>
  <2>1. Woken = <<w>>
    BY <1>2, PortFreed
  <2>2. w \in EventRec
    <3>1. w = Event("Chunk", memoplist[1], 0) /\ memoplist[1] \in Name
      BY <1>2
    <3>2. "Chunk" \in EventName /\ 0 \in Nat
      BY DEF EventName
    <3> QED BY <3>1, <3>2, EventIsRec
  <2>3. Append(<<w>>, a) = <<w, a>> /\ <<a>> \o <<w>> = <<a, w>>
    BY Paired
  <2>4. CASE events' = ScheduledAll(Tail(events), <<w, a>>)
    BY <2>2, <2>4, HandledTwo, BecomesSwapped
  <2>5. CASE events' = ScheduledAll(Tail(events), <<a, w>>)
    BY <2>2, <2>5, HandledTwo
  <2> QED BY <2>1, <2>3, <2>4, <2>5
<1> QED BY <1>1, <1>2

LEMMA ChunkFinishKeeps ==
  ASSUME TransferInv, ChunkFinish
  PROVE  TransferInv'
<1>0. PICK c, a, w : /\ c = Cur /\ a = Return(c, "PreFinish")
                     /\ w = IF memoplist = <<>> THEN Nothing ELSE Event("Chunk", memoplist[1], 0)
  OBVIOUS
<1>1. /\ Handles("Finish") /\ FreePort /\ stk' = Freed(stk, c) /\ events' = ScheduledAll(Tail(events), Append(Woken, a))
      /\ UNCHANGED <<path, access, memory, image, told>>
  BY <1>0 DEF ChunkFinish
<1>2. /\ Typed /\ Bytes /\ IsQueue(events, EventRec) /\ events # <<>> /\ N("Finish", c) > 0
      /\ c \in DOMAIN stk /\ c \in Name /\ "Finish" \in Kinds(Len(c)) /\ Len(c) <= Leaf /\ stk[c] \in StackRec
  BY <1>0, <1>1, Due
<1>3. Len(c) = 2 /\ path = "burst"
  BY <1>2, Level DEF Typed
<1>4. stk[c].size <= 0 /\ stk[c].size \in Int /\ stk[c].buf \in Nat /\ stk[c].offset \in Nat
  BY <1>2, <1>3 DEF Bytes, Sized, StackRec
<1>5. ASSUME NEW o, Owed(c, o), InBuffer(c[1], o) PROVE FALSE
  <2>1. stk[c].buf + stk[c].offset <= o /\ o < stk[c].buf + stk[c].offset + stk[c].size
    BY <1>3, <1>5 DEF Owed
  <2>2. o \in Int
    BY <1>5 DEF InBuffer
  <2> QED BY <1>4, <2>1, <2>2
<1>6. \A t, o : Exchanged(t, o) => Exchanged(t, o)'
  BY <1>1 DEF Exchanged
<1>7. a \in EventRec /\ w \in EventRec \union {Nothing} => Becomes(events, events', 1, events[1], a, w)
  BY <1>0, <1>1, <1>2, PortHandsOn DEF Typed
<1>8. image' = [t \in Tasks |-> image'[t]] /\ \A t \in Tasks : DOMAIN image'[t] = DOMAIN image[t]
  BY <1>1, <1>2 DEF Typed
<1>9. ChunkEnds("Finish", c, a, w)
  BY <1>0, <1>1, <1>5, <1>6, <1>7, <1>8 DEF ChunkEnds
<1> QED BY <1>9, ChunkReturns

LEMMA WordFinishEndsChunk ==
  ASSUME TransferInv, Handles("WordFinish"), S.count = 1, path = "large", NEW c, c = Cur,
         stk' = Freed(stk, c), image' = Copied(S, S.size), FreePort,
         events' = ScheduledAll(Tail(events), <<Return(c, "PreFinish")>> \o Woken),
         UNCHANGED <<path, access, memory, told>>
  PROVE  TransferInv'
<1>0. PICK a, w : /\ a = Return(c, "PreFinish")
                  /\ w = IF memoplist = <<>> THEN Nothing ELSE Event("Chunk", memoplist[1], 0)
  OBVIOUS
<1>1. /\ Typed /\ Counted /\ Bytes /\ IsQueue(events, EventRec) /\ events # <<>> /\ S = stk[c]
      /\ c \in DOMAIN stk /\ c \in Name /\ "WordFinish" \in Kinds(Len(c)) /\ Len(c) <= Leaf /\ stk[c] \in StackRec
  BY Due
<1>2. Len(c) = 2
  <2>1. Len(c) = Leaf /\ Leaf = 2
    BY <1>1, Level DEF Typed, Leaf
  <2> QED BY <2>1
<1>3. c[1] \in Tasks /\ access[c[1]] \in Accesses /\ stk[c].size \in Int
  BY <1>1, Asked DEF StackRec
<1>4. /\ image' = [t \in Tasks |-> image'[t]] /\ \A t \in Tasks : DOMAIN image'[t] = DOMAIN image[t]
      /\ \A t, o : InBuffer(t, o) /\ Exchanged(t, o) => Exchanged(t, o)'
      /\ \A o : InBuffer(c[1], o) /\ stk[c].buf <= o /\ o < stk[c].buf + stk[c].size => Exchanged(c[1], o)'
  BY <1>1, <1>3, CopiedIs
<1>5. \A o : Owed(c, o) => stk[c].buf <= o /\ o < stk[c].buf + stk[c].size
  BY <1>2 DEF Owed
<1>6. a \in EventRec /\ w \in EventRec \union {Nothing} => Becomes(events, events', 1, events[1], a, w)
  BY <1>0, <1>1, PortHandsOn DEF Typed
<1>7. \A o : Owed(c, o) /\ InBuffer(c[1], o) => Exchanged(c[1], o)'
  BY <1>4, <1>5
<1>8. ChunkEnds("WordFinish", c, a, w)
  BY <1>0, <1>4, <1>6, <1>7 DEF ChunkEnds
<1> QED BY <1>8, ChunkReturns

LEMMA BeatFinishKeeps ==
  ASSUME TransferInv, BeatFinish
  PROVE  TransferInv'
<1>1. CASE S.count > 1 /\ stk' = [stk EXCEPT ![Cur].count = @ - 1] /\ events' = Tail(events)
  BY <1>1, CountsDown DEF BeatFinish
<1>2. CASE S.count = 1
  BY <1>2, BeatFinishFrees
<1> QED BY <1>1, <1>2 DEF BeatFinish

LEMMA WordFinishKeeps ==
  ASSUME TransferInv, WordFinish
  PROVE  TransferInv'
<1>1. CASE S.count > 1 /\ stk' = [stk EXCEPT ![Cur].count = @ - 1] /\ events' = Tail(events) /\ UNCHANGED <<image, portuse, memoplist>>
  BY <1>1, CountsDown DEF WordFinish
<1>2. CASE S.count = 1 /\ path = "burst" /\ stk' = Freed(stk, Cur) /\ image' = Copied(S, Min({Width, S.size}))
           /\ events' = Scheduled(Tail(events), Return(Cur, "BeatFinish")) /\ UNCHANGED <<portuse, memoplist>>
  BY <1>2, WordFinishEndsBeat DEF WordFinish
<1>3. CASE S.count = 1 /\ path = "large" /\ stk' = Freed(stk, Cur) /\ image' = Copied(S, S.size) /\ FreePort
           /\ events' = ScheduledAll(Tail(events), <<Return(Cur, "PreFinish")>> \o Woken)
  BY <1>3, WordFinishEndsChunk DEF WordFinish
<1> QED BY <1>1, <1>2, <1>3 DEF WordFinish

LEMMA PreFinishKeeps ==
  ASSUME TransferInv, PreFinish
  PROVE  TransferInv'
<1>1. CASE S.count > 1 /\ stk' = [stk EXCEPT ![Cur].count = @ - 1] /\ UNCHANGED told
  BY <1>1, CountsDown DEF PreFinish
<1>2. CASE S.count = 1 /\ stk' = Freed(stk, Cur) /\ told' = [told EXCEPT ![Cur[1]] = @ + 1]
  BY <1>2, PreFinishTells DEF PreFinish
<1> QED BY <1>1, <1>2 DEF PreFinish

LEMMA BeatsAt ==
  ASSUME Typed, Queued, NEW i \in 1..Len(events), events[i].ev = "Beats"
  PROVE  events[i].stack \in DOMAIN stk /\ events[i].stack \in Name /\ Len(events[i].stack) = 3
<1>1. "Beats" \in Kinds(Len(events[i].stack)) /\ events[i].stack \in DOMAIN stk
  BY DEF Queued
<1>2. events[i].stack \in Name /\ Len(events[i].stack) <= Leaf /\ path \in {"burst", "large"}
  BY <1>1 DEF Typed, Closed
<1> QED BY <1>1, <1>2, Level

WaitsForPort(c) ==
  /\ Handles("Chunk") /\ c = Cur
  /\ memoplist' = Append(memoplist, c) /\ events' = Tail(events)
  /\ UNCHANGED <<path, access, stk, portuse, memory, image, told>>

LEMMA TakePortWaits ==
  ASSUME TransferInv, NEW c, WaitsForPort(c)
  PROVE  TransferInv'
<1>0. PICK e : e = events[1]
  OBVIOUS
<1>2. /\ Handles("Chunk") /\ c = Cur /\ events' = Tail(events)
      /\ UNCHANGED <<path, access, stk, portuse, memory, image, told>>
  BY DEF WaitsForPort
<1>1. Typed /\ Queued /\ Counted /\ Held /\ Continues /\ Bytes
  BY DEF TransferInv
<1>3. /\ IsQueue(events, EventRec) /\ events # <<>> /\ e.ev = "Chunk" /\ e.left = 0 /\ e.stack = c
      /\ c \in DOMAIN stk /\ c \in Name /\ "Chunk" \in Kinds(Len(c)) /\ Len(c) <= Leaf
      /\ N("Chunk", c) > 0 /\ stk[c] \in StackRec /\ CountedFor(c) /\ 1 \in 1..Len(events)
  BY <1>0, <1>2, Due
<1>4. Len(c) = 2
  BY <1>1, <1>3, Level DEF Typed
<1>5. /\ N("Chunk", c) = 1 /\ Waiting(c) = 0 /\ N("Bursts", c) = 0 /\ N("Finish", c) = 0 /\ Below(c) = 0
  BY <1>1, <1>3, <1>4, ChunkOnly DEF CountedFor
<1>6. Becomes(events, events', 1, e, Nothing, Nothing)
  BY <1>0, <1>2, <1>3, HandledNone
<1>7. \A s \in DOMAIN stk : s \in Name /\ Nothing.stack # s
  BY <1>1, NothingAside DEF Typed, Closed
<1>8. Count(events', Of("Chunk", c)) = 0 /\ \A x : x # "Chunk" => Count(events', Of(x, c)) = N(x, c)
  <2>1. c \in Name /\ e.stack = c /\ Nothing.stack # c
    BY <1>3, <1>7
  <2>2. /\ Count(events', Of(e.ev, c)) = N(e.ev, c) - 1
        /\ \A x : x # e.ev => Count(events', Of(x, c)) = N(x, c)
    BY <1>6, <2>1, Leaves
  <2>3. e.ev = "Chunk"
    BY <1>3
  <2>4. Count(events', Of("Chunk", c)) = N("Chunk", c) - 1
    BY <2>2, <2>3, Zenon
  <2>5. \A x : x # "Chunk" => Count(events', Of(x, c)) = N(x, c)
    BY <2>2, <2>3, Zenon
  <2>6. Count(events', Of("Chunk", c)) = 0
    BY <1>5, <2>4
  <2> QED BY <2>5, <2>6
<1>9. /\ memoplist' \in Seq(Name) /\ \A i \in 1..Len(memoplist') : memoplist'[i] = c \/ \E j \in 1..Len(memoplist) : memoplist'[i] = memoplist[j]
      /\ Count(memoplist', {c}) = 1 /\ \A s : s # c => Count(memoplist', {s}) = Waiting(s)
  <2>1. memoplist \in Seq(Name)
    BY <1>1 DEF Typed
  <2>2. memoplist' \in Seq(Name) /\ \A i \in 1..Len(memoplist') : memoplist'[i] = c \/ \E j \in 1..Len(memoplist) : memoplist'[i] = memoplist[j]
    BY <1>3, <2>1 DEF WaitsForPort
  <2>3. \A s : Count(memoplist', {s}) = IF c \in {s} THEN Waiting(s) + 1 ELSE Waiting(s)
    BY <1>3, <2>1, AppendCount DEF Waiting, WaitsForPort
  <2>4. Count(memoplist', {c}) = 1
    <3>1. c \in {c}
      OBVIOUS
    <3>2. Count(memoplist', {c}) = Waiting(c) + 1
      BY <2>3, <3>1
    <3> QED BY <1>5, <3>2
  <2>5. \A s : s # c => Count(memoplist', {s}) = Waiting(s)
    BY <2>3
  <2> QED BY <2>2, <2>4, <2>5
<1>10. ASSUME NEW s \in DOMAIN stk, s # c
       PROVE  SameCounts(s)
  <2>1. \A x : Count(events', Of(x, s)) = N(x, s)
    BY <1>3, <1>6, <1>7, <1>10, Aside
  <2>2. Count(memoplist', {s}) = Waiting(s)
    BY <1>9, <1>10
  <2> QED BY <1>2, <2>1, <2>2 DEF SameCounts, Unanswered, Below, Kids
<1>11. Typed'
  <2>1. Leaf' = Leaf
    BY <1>2 DEF Leaf
  <2>2. \A i \in 1..Len(memoplist') : memoplist'[i] \in DOMAIN stk /\ Len(memoplist'[i]) = 2
    BY <1>1, <1>3, <1>4, <1>9, SMTT(30) DEF Typed
  <2> QED BY <1>1, <1>2, <1>9, <2>1, <2>2 DEF Typed
<1>12. Queued'
  <2>1. DOMAIN stk \ DOMAIN stk' = {}
    BY <1>2
  <2> QED BY <1>1, <1>2, <1>6, <2>1, QueuedKept
<1>13. Counted'
  <2>1. SUFFICES ASSUME NEW s \in DOMAIN stk PROVE CountedFor(s)'
    BY <1>2 DEF Counted
  <2>2. CountedFor(s)
    BY <1>1 DEF Counted
  <2>3. CASE s # c
    BY <1>2, <1>10, <2>2, <2>3, CountedSame
  <2>4. CASE s = c
    <3>1. /\ N("Chunk", s)' = 0 /\ Waiting(s)' = 1 /\ Below(s)' = Below(s) /\ Unanswered(s)' = Unanswered(s)
          /\ \A x : x # "Chunk" => N(x, s)' = N(x, s)
      BY <1>2, <1>8, <1>9, <2>4 DEF N, Waiting, Below, Kids, Unanswered
    <3>2. ChunkCounted(s)'
      BY <1>5, <2>4, <3>1 DEF ChunkCounted
    <3>3. Len(s) = Leaf => LeafCounted(s)'
      <4>1. SUFFICES ASSUME Len(s) = Leaf PROVE LeafCounted(s)'
        OBVIOUS
      <4>2. LeafCounted(s) /\ stk[s].count \in Nat
        BY <1>3, <2>2, <2>4, <4>1 DEF CountedFor, StackRec
      <4>3. N("Words", s) = 0 /\ N("Memory", s) = 0 /\ N("WordFinish", s) = 0 /\ Unanswered(s) = 0
        BY <1>1, <1>3, <2>4, <4>2, LeafOnly
      <4> QED BY <1>2, <3>1, <4>2, <4>3 DEF LeafCounted
    <3>4. Leaf' = Leaf
      BY <1>2 DEF Leaf
    <3>5. Len(s) # 1 /\ Len(s) # 3
      <4>1. Len(c) # 1 /\ Len(c) # 3
        BY <1>4
      <4> QED BY <2>4, <4>1, Zenon
    <3> QED BY <3>2, <3>3, <3>4, <3>5 DEF CountedFor
  <2> QED BY <2>3, <2>4
<1>14. Held'
  <2>1. ASSUME NEW i \in 1..Len(events), NEW h \in DOMAIN stk, HeldBy(i, h)
        PROVE  StaysHeld(i, h, 1, Nothing, Nothing)
    <3>1. Count(memoplist', {h}) > 0 => events[i].left <= Slack("Chunk", IsLoad(h))
      <4>1. CASE h = c
        <5>1. Under(events[1].stack, h)
          BY <1>0, <1>3, <4>1 DEF Under
        <5>2. events[i].left <= 0 + Slack("Chunk", IsLoad(h))
          BY <1>0, <1>3, <2>1, <5>1 DEF HeldBy, InTime
        <5> QED BY <1>1, <5>2, SlackNat
      <4>2. CASE h # c
        BY <1>9, <2>1, <4>2 DEF HeldBy
      <4> QED BY <4>1, <4>2
    <3>2. \A k \in 1..Len(events) : Under(events[k].stack, h) /\ events[k].ev = "Bursts" => stk[h].left > 0
      BY <2>1 DEF HeldBy, InTime
    <3>3. AddedInTime(i, Nothing, h) /\ IsLoad(h)' = IsLoad(h)
      BY <1>2 DEF AddedInTime, IsLoad
    <3> QED BY <1>2, <2>1, <3>1, <3>2, <3>3 DEF StaysHeld, HeldBy
  <2> QED BY <1>1, <1>2, <1>6, <2>1, HeldStep, NothingEv
<1>15. Continues'
  <2>1. ASSUME NEW i \in 1..Len(events), events[i].ev = "Beats"
        PROVE  Untouched(events[i].stack, 1)
    <3>1. events[i].stack \in DOMAIN stk /\ Len(events[i].stack) = 3
      BY <1>1, <2>1, BeatsAt
    <3>2. events[i].stack # c
      <4>1. Len(c) # 3
        BY <1>4
      <4> QED BY <3>1, <4>1
    <3>3. \A k \in 1..Len(events) : k <= 1 => events[k].ev # "Words"
      BY <1>0, <1>3
    <3> QED BY <1>2, <1>10, <3>1, <3>2, <3>3 DEF Untouched, SameCounts, Kids
  <2> QED BY <1>1, <1>6, <2>1, ContinuesStep, NothingEv
<1>16. Bytes'
  <2>1. ASSUME NEW s \in DOMAIN stk
        PROVE  SizedSame(s)
    <3>1. CASE s = c
      <4>1. /\ Count(events', Of("Bursts", s)) = N("Bursts", s)
            /\ Count(events', Of("Finish", s)) = N("Finish", s) /\ Cardinality(KidsIn(DOMAIN stk', s)) = Below(s)
        BY <1>2, <1>8, <3>1 DEF Below, Kids
      <4>2. N("Chunk", s) + Waiting(s) > 0
        BY <1>5, <3>1
      <4> QED BY <1>2, <4>1, <4>2 DEF SizedSame
    <3>2. CASE s # c
      BY <1>10, <3>2, SizedAside
    <3> QED BY <3>1, <3>2
  <2> QED BY <1>1, <1>2, <2>1, BytesSame DEF Typed
<1> QED BY <1>11, <1>12, <1>13, <1>14, <1>15, <1>16 DEF TransferInv

LEMMA LeftSet ==
  ASSUME Typed, NEW c \in DOMAIN stk, NEW n \in Nat, stk' = [stk EXCEPT ![c].left = n]
  PROVE  /\ DOMAIN stk' = DOMAIN stk /\ stk' \in [DOMAIN stk' -> StackRec]
         /\ \A s \in DOMAIN stk : s # c => stk'[s] = stk[s]
         /\ stk'[c].left = n /\ stk'[c].count = stk[c].count /\ stk'[c].addr = stk[c].addr /\ stk'[c].buf = stk[c].buf
         /\ stk'[c].size = stk[c].size /\ stk'[c].offset = stk[c].offset
         /\ \A s : Kids(s)' = Kids(s) /\ Below(s)' = Below(s)
<1>1. stk \in [DOMAIN stk -> StackRec] /\ stk[c] \in StackRec
  BY DEF Typed
<1>2. DOMAIN stk' = DOMAIN stk /\ (\A s \in DOMAIN stk : s # c => stk'[s] = stk[s]) /\ stk'[c] = [stk[c] EXCEPT !.left = n]
  OBVIOUS
<1>3. /\ stk'[c] \in StackRec
      /\ stk'[c].left = n /\ stk'[c].count = stk[c].count /\ stk'[c].addr = stk[c].addr /\ stk'[c].buf = stk[c].buf
      /\ stk'[c].size = stk[c].size /\ stk'[c].offset = stk[c].offset
  BY <1>1, <1>2 DEF StackRec
<1>4. stk' \in [DOMAIN stk' -> StackRec]
  <2>1. stk' = [s \in DOMAIN stk' |-> stk'[s]]
    OBVIOUS
  <2> QED BY <1>1, <1>2, <1>3, <2>1
<1>5. \A s : Kids(s)' = Kids(s) /\ Below(s)' = Below(s)
  BY <1>2 DEF Kids, Below
<1> QED BY <1>2, <1>3, <1>4, <1>5

LEMMA Divided ==
  ASSUME NEW x \in Nat, NEW m \in Nat \ {0}
  PROVE  x \div m \in Nat /\ x < (x \div m + 1) * m
<1> DEFINE q == x \div m
<1>1. q \in Int
  OBVIOUS
<1>2. q >= 0
  OBVIOUS
<1>3. x < m * q + m
  OBVIOUS
<1> HIDE DEF q
<1>4. (q + 1) * m = m * q + m
  BY <1>1
<1>5. q \in Nat /\ x < (q + 1) * m
  BY <1>1, <1>2, <1>3, <1>4
<1> QED BY <1>5 DEF q

\* There are bursts enough for a chunk.
LEMMA BurstsEnough ==
  ASSUME NEW size \in Int, size > 0
  PROVE  Bursts(size) \in Nat /\ Bursts(size) > 0 /\ size <= Bursts(size) * (Length * Width)
<1> DEFINE m == Length * Width
           x == size - 1
<1>1. m \in Nat \ {0}
  BY TransferAssumption
<1>2. x \in Nat
  OBVIOUS
<1>3. Bursts(size) = x \div m + 1
  BY DEF Bursts
<1>4. size = x + 1
  OBVIOUS
<1> HIDE DEF m, x
<1>5. x \div m \in Nat /\ x < (x \div m + 1) * m
  BY <1>1, <1>2, Divided
<1> DEFINE b == x \div m + 1
<1>6. b \in Nat /\ b > 0 /\ x < b * m
  BY <1>5
<1>7. Bursts(size) = b
  BY <1>3
<1> HIDE DEF b
<1>8. b * m \in Nat
  BY <1>1, <1>6
<1>9. size <= b * m
  BY <1>2, <1>4, <1>6, <1>8
<1> QED BY <1>6, <1>7, <1>9 DEF m

TakesPort(c, n, a) ==
  /\ Handles("Chunk") /\ c = Cur
  /\ n = IF path = "burst" THEN Bursts(S.size) ELSE S.left
  /\ a = Event(IF path = "burst" THEN "Bursts" ELSE "Words", c, 0)
  /\ portuse' = portuse + 1 /\ stk' = [stk EXCEPT ![c].left = n] /\ events' = Scheduled(Tail(events), a)
  /\ UNCHANGED <<path, access, memoplist, memory, image, told>>

LEMMA TakePortTakes ==
  ASSUME TransferInv, NEW c, NEW n, NEW a, TakesPort(c, n, a)
  PROVE  TransferInv'
<1>0. PICK e : e = events[1]
  OBVIOUS
<1>1. Typed /\ Queued /\ Counted /\ Held /\ Continues /\ Bytes
  BY DEF TransferInv
<1>2. /\ Handles("Chunk") /\ c = Cur /\ portuse' = portuse + 1 /\ events' = Scheduled(Tail(events), a)
      /\ UNCHANGED <<path, access, memoplist, memory, image, told>>
  BY DEF TakesPort
<1>3. /\ IsQueue(events, EventRec) /\ events # <<>> /\ e.ev = "Chunk" /\ e.left = 0 /\ e.stack = c
      /\ c \in DOMAIN stk /\ c \in Name /\ "Chunk" \in Kinds(Len(c)) /\ Len(c) <= Leaf
      /\ N("Chunk", c) > 0 /\ stk[c] \in StackRec /\ S = stk[c] /\ CountedFor(c) /\ 1 \in 1..Len(events)
  BY <1>0, <1>2, Due
<1>4. Len(c) = 2 /\ Leaf \in {2, 4} /\ (path = "burst" <=> Leaf = 4) /\ path \in {"burst", "large"}
  BY <1>1, <1>3, Level DEF Typed
<1>5. /\ N("Chunk", c) = 1 /\ Waiting(c) = 0 /\ N("Bursts", c) = 0 /\ N("Finish", c) = 0 /\ Below(c) = 0
  BY <1>1, <1>3, <1>4, ChunkOnly DEF CountedFor
<1>6. stk[c].size \in Int /\ stk[c].size > 0 /\ stk[c].left \in Nat
  <2>1. N("Chunk", c) + Waiting(c) > 0
    BY <1>5
  <2> QED BY <1>1, <1>3, <1>4, <2>1 DEF Bytes, Sized, StackRec
<1>7. /\ n \in Nat
      /\ path = "burst" => n > 0 /\ stk[c].size <= n * (Length * Width)
      /\ path = "large" => n = stk[c].left
  <2>1. /\ path = "burst" => n = Bursts(stk[c].size)
        /\ path = "large" => n = stk[c].left
    BY <1>3 DEF TakesPort
  <2> QED BY <1>4, <1>6, <2>1, BurstsEnough
<1>8. /\ DOMAIN stk' = DOMAIN stk /\ stk' \in [DOMAIN stk' -> StackRec]
      /\ \A s \in DOMAIN stk : s # c => stk'[s] = stk[s]
      /\ stk'[c].left = n /\ stk'[c].count = stk[c].count /\ stk'[c].addr = stk[c].addr /\ stk'[c].buf = stk[c].buf
      /\ stk'[c].size = stk[c].size /\ stk'[c].offset = stk[c].offset
      /\ \A s : Kids(s)' = Kids(s) /\ Below(s)' = Below(s)
  <2>1. stk' = [stk EXCEPT ![c].left = n]
    BY DEF TakesPort
  <2> QED BY <1>1, <1>3, <1>7, <2>1, LeftSet
<1>9. a \in EventRec /\ a.ev = (IF path = "burst" THEN "Bursts" ELSE "Words") /\ a.stack = c /\ a.left = 0
  <2>1. (IF path = "burst" THEN "Bursts" ELSE "Words") \in EventName /\ 0 \in Nat
    BY DEF EventName
  <2>2. a = Event(IF path = "burst" THEN "Bursts" ELSE "Words", c, 0)
    BY DEF TakesPort
  <2> QED BY <1>3, <2>1, <2>2, EventIsRec
<1>10. a.ev \notin {"Pre", "Beats", "Chunk"} /\ a.ev \in {"Bursts", "Words"}
  BY <1>9
<1>11. Becomes(events, events', 1, e, a, Nothing)
  BY <1>0, <1>2, <1>3, <1>9, HandledOne
<1>12. \A s \in DOMAIN stk : s \in Name /\ Nothing.stack # s
  BY <1>1, NothingAside DEF Typed, Closed
<1>13. /\ Count(events', Of("Chunk", c)) = 0 /\ Count(events', Of(a.ev, c)) = N(a.ev, c) + 1
       /\ \A x : x # "Chunk" /\ x # a.ev => Count(events', Of(x, c)) = N(x, c)
  <2>1. c \in Name /\ e.stack = c /\ a.stack = c /\ Nothing.stack # c /\ e.ev # a.ev
    BY <1>3, <1>9, <1>10, <1>12
  <2>2. /\ Count(events', Of(e.ev, c)) = N(e.ev, c) - 1
        /\ Count(events', Of(a.ev, c)) = N(a.ev, c) + 1
        /\ \A x : x # e.ev /\ x # a.ev => Count(events', Of(x, c)) = N(x, c)
    BY <1>11, <2>1, Turns
  <2> QED BY <1>3, <1>5, <2>2
<1>14. ASSUME NEW s \in DOMAIN stk, s # c
       PROVE  SameCounts(s)
  <2>1. a.stack # s
    BY <1>9, <1>14
  <2>2. \A x : Count(events', Of(x, s)) = N(x, s)
    BY <1>3, <1>11, <1>12, <1>14, <2>1, Aside
  <2> QED BY <1>2, <1>8, <1>14, <2>2 DEF SameCounts, Waiting, Unanswered, Below, Kids
<1>15. Typed'
  <2>1. Leaf' = Leaf /\ portuse' \in Int
    BY <1>1, <1>2 DEF Leaf, Typed
  <2> QED BY <1>1, <1>2, <1>8, <2>1 DEF Typed
<1>16. Queued'
  <2>1. a.stack \in DOMAIN stk' /\ a.ev \in Kinds(Len(a.stack))
    <3>1. a.ev \in Kinds(2)
      BY <1>9 DEF Kinds
    <3> QED BY <1>3, <1>4, <1>8, <1>9, <3>1
  <2> QED BY <1>1, <1>2, <1>8, <1>9, <1>11, <2>1, QueuedKept
<1>17. Counted'
  <2>1. SUFFICES ASSUME NEW s \in DOMAIN stk PROVE CountedFor(s)'
    BY <1>8 DEF Counted
  <2>2. CountedFor(s)
    BY <1>1 DEF Counted
  <2>3. CASE s # c
    BY <1>2, <1>14, <2>2, <2>3, CountedSame
  <2>4. CASE s = c
    <3>1. /\ N("Chunk", s)' = 0 /\ Waiting(s)' = 0 /\ Below(s)' = 0 /\ Unanswered(s)' = Unanswered(s)
          /\ N("Finish", s)' = 0 /\ N(a.ev, s)' = N(a.ev, s) + 1 /\ \A x : x # "Chunk" /\ x # a.ev => N(x, s)' = N(x, s)
      BY <1>2, <1>5, <1>8, <1>10, <1>13, <2>4 DEF N, Waiting, Unanswered
    <3>2. N("Bursts", s)' = 0 \/ N("Bursts", s)' = 1
      BY <1>5, <1>10, <2>4, <3>1
    <3>3. ChunkCounted(s)'
      BY <3>1, <3>2 DEF ChunkCounted
    <3>4. Len(s) = Leaf => LeafCounted(s)'
      <4>1. SUFFICES ASSUME Len(s) = Leaf PROVE LeafCounted(s)'
        OBVIOUS
      <4>2. LeafCounted(s) /\ stk[s].count \in Nat
        BY <1>3, <2>2, <2>4, <4>1 DEF CountedFor, StackRec
      <4>3. N("Words", s) = 0 /\ N("Memory", s) = 0 /\ N("WordFinish", s) = 0 /\ Unanswered(s) = 0
        BY <1>1, <1>3, <2>4, <4>2, LeafOnly
      <4>4. Len(c) = Leaf
        BY <2>4, <4>1
      <4>5. a.ev = "Words"
        <5>1. Leaf = 2
          BY <1>4, <4>4
        <5>2. path # "burst"
          BY <1>4, <5>1
        <5> QED BY <1>9, <5>2
      <4>6. N("Words", s)' = 1 /\ N("Memory", s)' = 0 /\ N("WordFinish", s)' = 0
        BY <3>1, <4>3, <4>5
      <4> QED BY <1>8, <2>4, <3>1, <4>2, <4>3, <4>6 DEF LeafCounted
    <3>5. Leaf' = Leaf
      BY <1>2 DEF Leaf
    <3>6. Len(s) # 1 /\ Len(s) # 3
      <4>1. Len(c) # 1 /\ Len(c) # 3
        BY <1>4
      <4> QED BY <2>4, <4>1, Zenon
    <3> QED BY <3>3, <3>4, <3>5, <3>6 DEF CountedFor
  <2> QED BY <2>3, <2>4
<1>18. Held'
  <2>1. ASSUME NEW i \in 1..Len(events), NEW h \in DOMAIN stk, HeldBy(i, h)
        PROVE  StaysHeld(i, h, 1, a, Nothing)
    <3>1. Len(h) = 2 /\ h \in Name
      BY <1>12, <2>1 DEF HeldBy
    <3>2. stk[h].left > 0 => stk'[h].left > 0
      BY <1>4, <1>7, <1>8
    <3>3. \A k \in 1..Len(events) : Under(events[k].stack, h) /\ events[k].ev = "Bursts" => stk'[h].left > 0
      BY <2>1, <3>2 DEF HeldBy, InTime
    <3>4. AddedInTime(i, a, h)
      <4>1. SUFFICES ASSUME Under(a.stack, h)
                     PROVE  /\ events[i].left <= a.left + Slack(a.ev, IsLoad(h))
                            /\ ~Late(a.ev) /\ (a.ev = "Bursts" => stk'[h].left > 0)
        BY DEF AddedInTime
      <4>2. h = c
        <5>1. c = h \/ Len(c) = 3 \/ Len(c) = 4
          BY <1>3, <1>9, <3>1, <4>1, UnderIs
        <5> QED BY <1>4, <5>1
      <4>3. events[i].left <= 0 + Slack("Chunk", IsLoad(h))
        BY <1>0, <1>3, <1>9, <2>1, <4>1 DEF HeldBy, InTime
      <4>4. Slack(a.ev, IsLoad(h)) = Slack("Chunk", IsLoad(h)) /\ ~Late(a.ev)
        BY <1>9 DEF Slack, Late
      <4>5. a.ev = "Bursts" => stk'[h].left > 0
        BY <1>7, <1>8, <1>9, <4>2
      <4> QED BY <1>9, <4>3, <4>4, <4>5
    <3>5. AddedInTime(i, Nothing, h) /\ IsLoad(h)' = IsLoad(h)
      BY <1>2 DEF AddedInTime, IsLoad
    <3> QED BY <1>2, <1>8, <2>1, <3>3, <3>4, <3>5 DEF StaysHeld, HeldBy, Waiting
  <2> QED BY <1>1, <1>2, <1>10, <1>11, <2>1, HeldStep, NothingEv
<1>19. Continues'
  <2>1. ASSUME NEW i \in 1..Len(events), events[i].ev = "Beats"
        PROVE  Untouched(events[i].stack, 1)
    <3>1. events[i].stack \in DOMAIN stk /\ Len(events[i].stack) = 3
      BY <1>1, <2>1, BeatsAt
    <3>2. events[i].stack # c
      <4>1. Len(c) # 3
        BY <1>4
      <4> QED BY <3>1, <4>1
    <3>3. \A k \in 1..Len(events) : k <= 1 => events[k].ev # "Words"
      BY <1>0, <1>3
    <3> QED BY <1>8, <1>14, <3>1, <3>2, <3>3 DEF Untouched, SameCounts, Kids
  <2> QED BY <1>1, <1>10, <1>11, <2>1, ContinuesStep, NothingEv
<1>20. Bytes'
  <2>1. ASSUME NEW s \in DOMAIN stk
        PROVE  Passed(s)' /\ Sized(s)'
    <3>1. Sized(s) /\ Passed(s)
      BY <1>1 DEF Bytes
    <3>2. ASSUME s # c PROVE Sized(s)'
      BY <1>14, <3>1, <3>2, SizedAside, SizedKept
    <3>3. ASSUME s = c PROVE Sized(s)'
      <4>1. N("Chunk", s)' + Waiting(s)' = 0 /\ N("Finish", s)' = 0
        BY <1>2, <1>5, <1>10, <1>13, <3>3 DEF N, Waiting
      <4>2. N("Bursts", s)' + Below(s)' > 0 => stk'[s].size <= stk'[s].left * (Length * Width)
        <5>1. CASE path = "burst"
          BY <1>7, <1>8, <3>3, <5>1
        <5>2. CASE path = "large"
          <6>1. N("Bursts", s)' = 0 /\ Below(s)' = 0
            BY <1>5, <1>8, <1>9, <1>13, <3>3, <5>2 DEF N
          <6> QED BY <6>1
        <5> QED BY <1>4, <5>1, <5>2
      <4>3. Len(s) # 1
        <5>1. Len(c) # 1
          BY <1>4
        <5> QED BY <3>3, <5>1, Zenon
      <4> QED BY <1>2, <1>8, <3>1, <3>3, <4>1, <4>2, <4>3 DEF Sized
    <3>4. Passed(s)'
      <4>1. Len(s) > 1 => Front(s) \in DOMAIN stk
        BY <1>1 DEF Typed, Closed
      <4>2. Len(s) > 1 => stk'[Front(s)].buf = stk[Front(s)].buf /\ stk'[Front(s)].offset = stk[Front(s)].offset
        BY <1>8, <4>1
      <4> QED BY <3>1, <4>2 DEF Passed
    <3> QED BY <3>2, <3>3, <3>4
  <2>2. Covered'
    <3>1. \A t, o : Exchanged(t, o) => Exchanged(t, o)'
      BY <1>2 DEF Exchanged
    <3>2. \A o : Owed(c, o) => Owed(c, o)'
      BY <1>2, <1>4, <1>8 DEF Owed
    <3>3. \A s \in DOMAIN stk : \A o : s \in DOMAIN stk' /\ (stk'[s] = stk[s] \/ s = c)
      BY <1>8
    <3> QED BY <1>1, <1>2, <3>1, <3>2, <3>3, CoveredKept DEF Bytes
  <2> QED BY <1>8, <2>1, <2>2 DEF Bytes
<1> QED BY <1>15, <1>16, <1>17, <1>18, <1>19, <1>20 DEF TransferInv

LEMMA TakePortKeeps ==
  ASSUME TransferInv, TakePort
  PROVE  TransferInv'
<1>0. PICK c, n, a : /\ c = Cur /\ n = (IF path = "burst" THEN Bursts(S.size) ELSE S.left)
                     /\ a = Event(IF path = "burst" THEN "Bursts" ELSE "Words", c, 0)
  OBVIOUS
<1>1. CASE Full /\ memoplist' = Append(memoplist, Cur) /\ events' = Tail(events) /\ UNCHANGED <<stk, portuse>>
  <2>1. WaitsForPort(c)
    BY <1>0, <1>1 DEF TakePort, WaitsForPort
  <2> QED BY <2>1, TakePortWaits
<1>2. CASE /\ portuse' = portuse + 1
           /\ stk' = IF path = "burst" THEN [stk EXCEPT ![Cur].left = Bursts(S.size)] ELSE stk
           /\ events' = Scheduled(Tail(events), Event(IF path = "burst" THEN "Bursts" ELSE "Words", Cur, 0))
           /\ UNCHANGED memoplist
  <2>1. stk' = [stk EXCEPT ![c].left = n]
    <3>1. CASE path = "burst"
      BY <1>0, <1>2, <3>1
    <3>2. CASE path # "burst"
      <4>1. /\ Typed /\ Handles("Chunk")
        BY DEF TransferInv, TakePort
      <4>2. c \in DOMAIN stk /\ S = stk[c]
        BY <1>0, <4>1, Due
      <4>3. stk[c] \in StackRec /\ stk = [s \in DOMAIN stk |-> stk[s]]
        BY <4>1, <4>2 DEF Typed
      <4>4. [stk[c] EXCEPT !.left = stk[c].left] = stk[c]
        BY <4>3 DEF StackRec
      <4>5. [stk EXCEPT ![c].left = stk[c].left] = stk
        BY <4>2, <4>3, <4>4
      <4> QED BY <1>0, <1>2, <3>2, <4>2, <4>5
    <3> QED BY <3>1, <3>2
  <2>2. TakesPort(c, n, a)
    BY <1>0, <1>2, <2>1 DEF TakePort, TakesPort
  <2> QED BY <2>2, TakePortTakes
<1> QED BY <1>1, <1>2 DEF TakePort

-----------------------------------------------------------------------------
(* Stacks that are created.                                                *)

\* The stack c creates id below it and goes on as b.
StackCreated(c, b, id, r) ==
  /\ c \in DOMAIN stk /\ b \in StackRec /\ r \in StackRec
  /\ id \in Name /\ id \notin DOMAIN stk /\ Len(id) > 1 /\ Front(id) = c /\ Len(id) <= Leaf
  /\ stk' = Put([stk EXCEPT ![c] = b], id, r)

LEMMA Created ==
  ASSUME Typed, NEW c, NEW b, NEW id, NEW r, StackCreated(c, b, id, r)
  PROVE  /\ DOMAIN stk' = DOMAIN stk \union {id} /\ stk' \in [DOMAIN stk' -> StackRec] /\ Closed(DOMAIN stk')
         /\ \A s \in DOMAIN stk' : Len(s) <= Leaf
         /\ stk'[c] = b /\ stk'[id] = r /\ \A s \in DOMAIN stk : s # c => stk'[s] = stk[s]
         /\ \A s : s # c => KidsIn(DOMAIN stk', s) = Kids(s) /\ Cardinality(KidsIn(DOMAIN stk', s)) = Below(s)
         /\ KidsIn(DOMAIN stk', c) = Kids(c) \union {id} /\ Cardinality(KidsIn(DOMAIN stk', c)) = Below(c) + 1
         /\ KidsIn(DOMAIN stk', id) = {} /\ Cardinality(KidsIn(DOMAIN stk', id)) = 0 /\ Kids(id) = {}
         /\ c # id
<1>1. /\ c \in DOMAIN stk /\ b \in StackRec /\ r \in StackRec
      /\ id \in Name /\ id \notin DOMAIN stk /\ Len(id) > 1 /\ Front(id) = c /\ Len(id) <= Leaf /\ c # id
  BY DEF StackCreated
<1> DEFINE f == [stk EXCEPT ![c] = b]
           D == DOMAIN stk
<1>2. stk \in [DOMAIN stk -> StackRec] /\ Closed(D) /\ \A s \in DOMAIN stk : Len(s) <= Leaf
  BY DEF Typed
<1>3. DOMAIN f = DOMAIN stk /\ f \in [DOMAIN f -> StackRec] /\ f[c] = b /\ \A s \in DOMAIN stk : s # c => f[s] = stk[s]
  BY <1>1, <1>2
<1>4. stk' = Put(f, id, r)
  BY DEF StackCreated
<1> HIDE DEF f
<1>5. stk' \in [DOMAIN f \union {id} -> StackRec] /\ stk' \in [DOMAIN stk' -> StackRec]
  BY <1>1, <1>3, <1>4, PutIn
<1>6. DOMAIN stk' = DOMAIN stk \union {id}
  BY <1>3, <1>5
<1>7. stk'[c] = b /\ stk'[id] = r /\ \A s \in DOMAIN stk : s # c => stk'[s] = stk[s]
  BY <1>1, <1>3, <1>4 DEF Put
<1>8. /\ IsFiniteSet(D \union {id})
      /\ \A s : KidsIn(D \union {id}, s) = IF Len(id) > 1 /\ s = Front(id) THEN KidsIn(D, s) \union {id} ELSE KidsIn(D, s)
      /\ \A s : Cardinality(KidsIn(D \union {id}, s)) =
                  IF Len(id) > 1 /\ s = Front(id) THEN Cardinality(KidsIn(D, s)) + 1 ELSE Cardinality(KidsIn(D, s))
      /\ KidsIn(D, id) = {} /\ KidsIn(D \union {id}, id) = {} /\ Cardinality(KidsIn(D \union {id}, id)) = 0
  <2> HIDE DEF D
  <2>1. id \notin D
    BY <1>1 DEF D
  <2> QED BY <1>1, <1>2, <2>1, KidsAdded
<1>9. Closed(D \union {id})
  BY <1>1, <1>2, <1>8 DEF Closed
<1>10. /\ \A s : s # c => KidsIn(D \union {id}, s) = KidsIn(D, s) /\ Cardinality(KidsIn(D \union {id}, s)) = Cardinality(KidsIn(D, s))
       /\ KidsIn(D \union {id}, c) = KidsIn(D, c) \union {id} /\ Cardinality(KidsIn(D \union {id}, c)) = Cardinality(KidsIn(D, c)) + 1
  BY <1>1, <1>8
<1> QED BY <1>1, <1>2, <1>5, <1>6, <1>7, <1>8, <1>9, <1>10 DEF Kids, Below

\* Nothing is pending for a stack before it is created.
LEMMA NoneYet ==
  ASSUME Typed, Queued, NEW s, s \notin DOMAIN stk
  PROVE  (\A x : N(x, s) = 0) /\ Waiting(s) = 0 /\ Unanswered(s) = 0 /\ s \notin DOMAIN memory
<1>1. events \in Seq(EventRec) /\ \A i \in 1..Len(events) : events[i].stack \in DOMAIN stk
  BY DEF Queued, IsQueue
<1>2. \A x : N(x, s) = 0
  BY <1>1, CountIs DEF N
<1>3. \A i \in 1..Len(memoplist) : memoplist[i] # s
  BY DEF Typed
<1>4. Waiting(s) = 0
  BY <1>3, Numbers
<1>5. s \notin DOMAIN memory
  BY DEF Typed
<1> QED BY <1>2, <1>4, <1>5 DEF Unanswered

LEMMA TypedCreated ==
  ASSUME Typed, NEW c, NEW b, NEW id, NEW r, StackCreated(c, b, id, r),
         UNCHANGED <<path, access, portuse, memoplist, memory, image, told>>
  PROVE  Typed'
<1>1. /\ DOMAIN stk' = DOMAIN stk \union {id} /\ stk' \in [DOMAIN stk' -> StackRec] /\ Closed(DOMAIN stk')
      /\ \A s \in DOMAIN stk' : Len(s) <= Leaf
  BY Created
<1>2. Leaf' = Leaf
  BY DEF Leaf
<1> QED BY <1>1, <1>2 DEF Typed

BurstsEnd(c, a) ==
  /\ Handles("Bursts") /\ c = Cur /\ S.left = 0
  /\ a = Event("Finish", c, 0) /\ events' = Scheduled(Tail(events), a)
  /\ UNCHANGED <<path, access, stk, portuse, memoplist, memory, image, told>>

LEMMA NextBurstEnds ==
  ASSUME TransferInv, NEW c, NEW a, BurstsEnd(c, a)
  PROVE  TransferInv'
<1>0. PICK e : e = events[1]
  OBVIOUS
<1>1. Typed /\ Queued /\ Counted /\ Held /\ Continues /\ Bytes
  BY DEF TransferInv
<1>2. /\ Handles("Bursts") /\ c = Cur /\ events' = Scheduled(Tail(events), a) /\ a = Event("Finish", c, 0)
      /\ UNCHANGED <<path, access, stk, portuse, memoplist, memory, image, told>>
  BY DEF BurstsEnd
<1>3. /\ IsQueue(events, EventRec) /\ events # <<>> /\ e.ev = "Bursts" /\ e.left = 0 /\ e.stack = c
      /\ c \in DOMAIN stk /\ c \in Name /\ "Bursts" \in Kinds(Len(c)) /\ Len(c) <= Leaf
      /\ N("Bursts", c) > 0 /\ stk[c] \in StackRec /\ S = stk[c] /\ CountedFor(c) /\ 1 \in 1..Len(events)
  BY <1>0, <1>2, Due
<1>4. Len(c) = 2 /\ path = "burst" /\ Leaf = 4 /\ stk[c].left = 0
  BY <1>1, <1>3, Level DEF Typed, BurstsEnd
<1>5. N("Chunk", c) = 0 /\ Waiting(c) = 0 /\ N("Bursts", c) = 1 /\ N("Finish", c) = 0 /\ Below(c) = 0
  BY <1>1, <1>3, <1>4, ChunkOnly DEF CountedFor
<1>6. stk[c].size <= 0
  <2>1. N("Bursts", c) + Below(c) > 0
    BY <1>5
  <2>2. stk[c].size <= stk[c].left * (Length * Width)
    BY <1>1, <1>3, <1>4, <2>1 DEF Bytes, Sized
  <2>3. Length * Width \in Nat
    BY TransferAssumption
  <2>4. stk[c].left * (Length * Width) = 0
    BY <1>4, <2>3
  <2> QED BY <2>2, <2>4
<1>7. a \in EventRec /\ a.ev = "Finish" /\ a.stack = c /\ a.left = 0
  <2>1. "Finish" \in EventName /\ 0 \in Nat
    BY DEF EventName
  <2> QED BY <1>2, <1>3, <2>1, EventIsRec
<1>8. Becomes(events, events', 1, e, a, Nothing)
  BY <1>0, <1>2, <1>3, <1>7, HandledOne
<1>9. \A s \in DOMAIN stk : s \in Name /\ Nothing.stack # s
  BY <1>1, NothingAside DEF Typed, Closed
<1>10. /\ Count(events', Of("Bursts", c)) = 0 /\ Count(events', Of("Finish", c)) = 1
       /\ \A x : x # "Bursts" /\ x # "Finish" => Count(events', Of(x, c)) = N(x, c)
  <2>1. c \in Name /\ e.stack = c /\ a.stack = c /\ Nothing.stack # c /\ e.ev # a.ev
    BY <1>3, <1>7, <1>9
  <2>2. /\ Count(events', Of(e.ev, c)) = N(e.ev, c) - 1
        /\ Count(events', Of(a.ev, c)) = N(a.ev, c) + 1
        /\ \A x : x # e.ev /\ x # a.ev => Count(events', Of(x, c)) = N(x, c)
    BY <1>8, <2>1, Turns
  <2> QED BY <1>3, <1>5, <1>7, <2>2
<1>11. ASSUME NEW s \in DOMAIN stk, s # c
       PROVE  SameCounts(s)
  <2>1. a.stack # s
    BY <1>7, <1>11
  <2>2. \A x : Count(events', Of(x, s)) = N(x, s)
    BY <1>3, <1>8, <1>9, <1>11, <2>1, Aside
  <2> QED BY <1>2, <2>2 DEF SameCounts, Waiting, Unanswered, Below, Kids
<1>12. Typed'
  <2>1. Leaf' = Leaf
    BY <1>2 DEF Leaf
  <2> QED BY <1>1, <1>2, <2>1 DEF Typed
<1>13. Queued'
  <2>1. a.stack \in DOMAIN stk' /\ a.ev \in Kinds(Len(a.stack))
    <3>1. "Finish" \in Kinds(2)
      BY <1>4 DEF Kinds
    <3> QED BY <1>2, <1>3, <1>4, <1>7, <3>1
  <2>2. DOMAIN stk \ DOMAIN stk' = {}
    BY <1>2
  <2> QED BY <1>1, <1>2, <1>7, <1>8, <2>1, <2>2, QueuedKept
<1>14. Counted'
  <2>1. SUFFICES ASSUME NEW s \in DOMAIN stk PROVE CountedFor(s)'
    BY <1>2 DEF Counted
  <2>2. CountedFor(s)
    BY <1>1 DEF Counted
  <2>3. CASE s # c
    BY <1>2, <1>11, <2>2, <2>3, CountedSame
  <2>4. CASE s = c
    <3>1. N("Chunk", s)' = 0 /\ Waiting(s)' = 0 /\ Below(s)' = 0 /\ N("Finish", s)' = 1 /\ N("Bursts", s)' = 0
      BY <1>2, <1>5, <1>10, <2>4 DEF N, Waiting, Below, Kids
    <3>2. ChunkCounted(s)'
      BY <3>1 DEF ChunkCounted
    <3>3. Leaf' = Leaf
      BY <1>2 DEF Leaf
    <3>4. Len(c) # 1 /\ Len(c) # 3 /\ Len(c) # Leaf'
      BY <1>4, <3>3
    <3>5. Len(s) # 1 /\ Len(s) # 3 /\ Len(s) # Leaf'
      BY <2>4, <3>4, Zenon
    <3> QED BY <3>2, <3>5 DEF CountedFor
  <2> QED BY <2>3, <2>4
<1>15. Held'
  <2>1. ASSUME NEW i \in 1..Len(events), NEW h \in DOMAIN stk, HeldBy(i, h)
        PROVE  StaysHeld(i, h, 1, a, Nothing)
    <3>1. Len(h) = 2 /\ h \in Name
      BY <1>9, <2>1 DEF HeldBy
    <3>2. \A k \in 1..Len(events) : Under(events[k].stack, h) /\ events[k].ev = "Bursts" => stk[h].left > 0
      BY <2>1 DEF HeldBy, InTime
    <3>3. ~Under(a.stack, h)
      <4>1. SUFFICES ASSUME Under(a.stack, h) PROVE FALSE
        OBVIOUS
      <4>2. h = c
        <5>1. c = h \/ Len(c) = 3 \/ Len(c) = 4
          BY <1>3, <1>7, <3>1, <4>1, UnderIs
        <5> QED BY <1>4, <5>1
      <4>3. stk[h].left > 0
        BY <1>0, <1>3, <1>7, <3>2, <4>1
      <4> QED BY <1>4, <4>2, <4>3
    <3>4. AddedInTime(i, a, h) /\ AddedInTime(i, Nothing, h) /\ IsLoad(h)' = IsLoad(h)
      BY <1>2, <3>3 DEF AddedInTime, IsLoad
    <3> QED BY <1>2, <2>1, <3>2, <3>4 DEF StaysHeld, HeldBy, Waiting
  <2>2. a.ev # "Pre"
    BY <1>7
  <2> QED BY <1>1, <1>2, <1>8, <2>1, <2>2, HeldStep, NothingEv
<1>16. Continues'
  <2>1. ASSUME NEW i \in 1..Len(events), events[i].ev = "Beats"
        PROVE  Untouched(events[i].stack, 1)
    <3>1. events[i].stack \in DOMAIN stk /\ Len(events[i].stack) = 3
      BY <1>1, <2>1, BeatsAt
    <3>2. events[i].stack # c
      <4>1. Len(c) # 3
        BY <1>4
      <4> QED BY <3>1, <4>1
    <3>3. \A k \in 1..Len(events) : k <= 1 => events[k].ev # "Words"
      BY <1>0, <1>3
    <3> QED BY <1>2, <1>11, <3>1, <3>2, <3>3 DEF Untouched, SameCounts, Kids
  <2>2. a.ev # "Beats"
    BY <1>7
  <2> QED BY <1>1, <1>8, <2>1, <2>2, ContinuesStep, NothingEv
<1>17. Bytes'
  <2>1. ASSUME NEW s \in DOMAIN stk
        PROVE  SizedSame(s)
    <3>1. CASE s = c
      <4>1. Count(events', Of("Chunk", s)) = 0 /\ Count(memoplist', {s}) = 0
            /\ Count(events', Of("Bursts", s)) = 0 /\ Cardinality(KidsIn(DOMAIN stk', s)) = 0
        BY <1>2, <1>5, <1>10, <3>1 DEF Waiting, Below, Kids
      <4> QED BY <1>2, <1>6, <3>1, <4>1 DEF SizedSame
    <3>2. CASE s # c
      BY <1>11, <3>2, SizedAside
    <3> QED BY <3>1, <3>2
  <2> QED BY <1>1, <1>2, <2>1, BytesSame DEF Typed
<1> QED BY <1>12, <1>13, <1>14, <1>15, <1>16, <1>17 DEF TransferInv

BurstBegins(c, b, id, r, a) ==
  /\ Handles("Bursts") /\ c = Cur /\ S.left > 0
  /\ b = [S EXCEPT !.offset = @ + Length * Width, !.left = @ - 1, !.size = @ - Length * Width]
  /\ id = Append(c, S.buf + S.offset) /\ r = Stack(S, S.offset, S.size, Length)
  /\ a = Event("Beats", id, Extra[IsLoad(c)])
  /\ stk' = Put([stk EXCEPT ![c] = b], id, r) /\ events' = Scheduled(Tail(events), a)
  /\ UNCHANGED <<path, access, portuse, memoplist, memory, image, told>>

LEMMA NextBurstBegins ==
  ASSUME TransferInv, NEW c, NEW b, NEW id, NEW r, NEW a, BurstBegins(c, b, id, r, a)
  PROVE  TransferInv'
<1>0. PICK e : e = events[1]
  OBVIOUS
<1>1. Typed /\ Queued /\ Counted /\ Held /\ Continues /\ Bytes
  BY DEF TransferInv
<1>2. /\ Handles("Bursts") /\ c = Cur /\ events' = Scheduled(Tail(events), a)
      /\ UNCHANGED <<path, access, portuse, memoplist, memory, image, told>>
  BY DEF BurstBegins
<1>3. /\ IsQueue(events, EventRec) /\ events # <<>> /\ e.ev = "Bursts" /\ e.left = 0 /\ e.stack = c
      /\ c \in DOMAIN stk /\ c \in Name /\ "Bursts" \in Kinds(Len(c)) /\ Len(c) <= Leaf
      /\ N("Bursts", c) > 0 /\ stk[c] \in StackRec /\ S = stk[c] /\ CountedFor(c) /\ 1 \in 1..Len(events)
  BY <1>0, <1>2, Due
<1>4. Len(c) = 2 /\ path = "burst" /\ Leaf = 4
  BY <1>1, <1>3, Level DEF Typed
<1>5. N("Chunk", c) = 0 /\ Waiting(c) = 0 /\ N("Bursts", c) = 1 /\ N("Finish", c) = 0 /\ Below(c) = 0
  BY <1>1, <1>3, <1>4, ChunkOnly DEF CountedFor
<1> DEFINE m == Length * Width
           x == stk[c].buf + stk[c].offset
<1>6. /\ m \in Nat /\ stk[c].left \in Nat /\ stk[c].left > 0 /\ stk[c].size \in Int /\ stk[c].offset \in Nat /\ stk[c].buf \in Nat
      /\ stk[c].addr \in Nat /\ stk[c].count \in Nat /\ Length \in Nat /\ Width \in Nat
  <2>1. /\ stk[c].left \in Nat /\ stk[c].size \in Int /\ stk[c].offset \in Nat /\ stk[c].buf \in Nat
        /\ stk[c].addr \in Nat /\ stk[c].count \in Nat
    BY <1>3 DEF StackRec
  <2>2. Length \in Nat /\ Width \in Nat
    BY TransferAssumption
  <2>3. stk[c].left > 0
    BY <1>3 DEF BurstBegins
  <2> QED BY <2>1, <2>2, <2>3
<1>7. /\ b.addr = stk[c].addr /\ b.buf = stk[c].buf /\ b.offset = stk[c].offset + m /\ b.left = stk[c].left - 1
      /\ b.size = stk[c].size - m /\ b.count = stk[c].count /\ b \in StackRec
  <2>1. b = [stk[c] EXCEPT !.offset = stk[c].offset + m, !.left = stk[c].left - 1, !.size = stk[c].size - m]
    BY <1>3 DEF BurstBegins
  <2> HIDE DEF m
  <2>2. /\ b.addr = stk[c].addr /\ b.buf = stk[c].buf /\ b.offset = stk[c].offset + m /\ b.left = stk[c].left - 1
        /\ b.size = stk[c].size - m /\ b.count = stk[c].count
    BY <1>3, <2>1 DEF StackRec
  <2>3. b \in StackRec
    <3>1. stk[c].offset + m \in Nat /\ stk[c].left - 1 \in Nat /\ stk[c].size - m \in Int
      BY <1>6
    <3> QED BY <1>3, <2>1, <3>1 DEF StackRec
  <2> QED BY <2>2, <2>3
<1>8. /\ r.addr = stk[c].addr + stk[c].offset /\ r.buf = x /\ r.size = stk[c].size /\ r.offset = 0 /\ r.left = Length
      /\ r.count = 0 /\ r \in StackRec
  <2>1. r = [addr |-> stk[c].addr + stk[c].offset, buf |-> x, size |-> stk[c].size, offset |-> 0, left |-> Length, count |-> 0]
    BY <1>3 DEF BurstBegins, Stack
  <2>2. stk[c].addr + stk[c].offset \in Nat /\ x \in Nat
    BY <1>6
  <2> HIDE DEF x
  <2> QED BY <1>6, <2>1, <2>2 DEF StackRec
<1> HIDE DEF m
<1>9. id \in Name /\ Len(id) = 3 /\ Front(id) = c /\ id[1] = c[1]
  <2>1. x \in Nat /\ id = Append(c, x)
    BY <1>3, <1>6 DEF BurstBegins
  <2>2. Len(c) < 4
    BY <1>4
  <2> HIDE DEF x
  <2>3. id \in Name /\ Len(id) = Len(c) + 1 /\ Front(id) = c /\ id[1] = c[1]
    BY <1>3, <2>1, <2>2, ChildName
  <2> QED BY <1>4, <2>3
<1>10. id \notin DOMAIN stk
  <2>1. Kids(c) = {}
    BY <1>1, <1>5, Numbers
  <2>2. Len(id) > 1
    BY <1>9
  <2> QED BY <1>9, <2>1, <2>2 DEF Kids, KidsIn
<1>11. StackCreated(c, b, id, r)
  <2>1. Len(id) > 1 /\ Len(id) <= Leaf
    BY <1>4, <1>9
  <2>2. stk' = Put([stk EXCEPT ![c] = b], id, r)
    BY DEF BurstBegins
  <2> QED BY <1>3, <1>7, <1>8, <1>9, <1>10, <2>1, <2>2 DEF StackCreated
<1>12. /\ DOMAIN stk' = DOMAIN stk \union {id} /\ stk'[c] = b /\ stk'[id] = r
       /\ \A s \in DOMAIN stk : s # c => stk'[s] = stk[s]
       /\ \A s : s # c => KidsIn(DOMAIN stk', s) = Kids(s) /\ Cardinality(KidsIn(DOMAIN stk', s)) = Below(s)
       /\ KidsIn(DOMAIN stk', c) = Kids(c) \union {id} /\ Cardinality(KidsIn(DOMAIN stk', c)) = Below(c) + 1
       /\ KidsIn(DOMAIN stk', id) = {} /\ Cardinality(KidsIn(DOMAIN stk', id)) = 0 /\ Kids(id) = {} /\ c # id
  BY <1>1, <1>11, Created
<1>13. (\A y : N(y, id) = 0) /\ Waiting(id) = 0 /\ id \notin DOMAIN memory
  BY <1>1, <1>10, NoneYet
<1>14. IsLoad(c) \in BOOLEAN /\ Extra[IsLoad(c)] \in Nat
  BY <1>1, <1>3, Asked, TransferAssumption DEF IsLoad
<1>15. a \in EventRec /\ a.ev = "Beats" /\ a.stack = id /\ a.left = Extra[IsLoad(c)]
  <2>1. "Beats" \in EventName /\ a = Event("Beats", id, Extra[IsLoad(c)])
    BY DEF EventName, BurstBegins
  <2> QED BY <1>9, <1>14, <2>1, EventIsRec
<1>16. Becomes(events, events', 1, e, a, Nothing)
  BY <1>0, <1>2, <1>3, <1>15, HandledOne
<1>17. \A s \in DOMAIN stk : s \in Name /\ Nothing.stack # s
  BY <1>1, NothingAside DEF Typed, Closed
<1>18. Count(events', Of("Bursts", c)) = 0 /\ \A y : y # "Bursts" => Count(events', Of(y, c)) = N(y, c)
  <2>1. c \in Name /\ e.stack = c /\ a.stack # c /\ Nothing.stack # c
    BY <1>3, <1>12, <1>15, <1>17
  <2>2. /\ Count(events', Of(e.ev, c)) = N(e.ev, c) - 1
        /\ \A y : y # e.ev => Count(events', Of(y, c)) = N(y, c)
    BY <1>16, <2>1, Leaves
  <2> QED BY <1>3, <1>5, <2>2
<1>19. Count(events', Of("Beats", id)) = 1 /\ \A y : y # "Beats" => Count(events', Of(y, id)) = 0
  <2>1. id \in Name /\ e.stack # id /\ a.stack = id /\ Nothing.stack # id
    BY <1>3, <1>9, <1>12, <1>15, NothingAside
  <2>2. /\ Count(events', Of(a.ev, id)) = N(a.ev, id) + 1
        /\ \A y : y # a.ev => Count(events', Of(y, id)) = N(y, id)
    BY <1>16, <2>1, Arrives
  <2> QED BY <1>13, <1>15, <2>2
<1>20. ASSUME NEW s \in DOMAIN stk, s # c
       PROVE  SameCounts(s)
  <2>1. a.stack # s
    BY <1>10, <1>15, <1>20
  <2>2. \A y : Count(events', Of(y, s)) = N(y, s)
    BY <1>3, <1>16, <1>17, <1>20, <2>1, Aside
  <2> QED BY <1>2, <1>12, <1>20, <2>2 DEF SameCounts, Waiting, Unanswered
<1>21. Typed'
  BY <1>1, <1>2, <1>11, TypedCreated
<1>22. Queued'
  <2>1. a.stack \in DOMAIN stk' /\ a.ev \in Kinds(Len(a.stack))
    <3>1. "Beats" \in Kinds(3)
      BY DEF Kinds
    <3> QED BY <1>9, <1>12, <1>15, <3>1
  <2>2. DOMAIN stk \ DOMAIN stk' = {}
    BY <1>12
  <2> QED BY <1>1, <1>2, <1>15, <1>16, <2>1, <2>2, QueuedKept
<1>23. Counted'
  <2>1. SUFFICES ASSUME NEW s \in DOMAIN stk' PROVE CountedFor(s)'
    BY DEF Counted
  <2>0. Leaf' = Leaf
    BY <1>2 DEF Leaf
  <2>2. CASE s \in DOMAIN stk /\ s # c
    <3>1. CountedFor(s)
      BY <1>1, <2>2 DEF Counted
    <3> QED BY <1>2, <1>20, <2>2, <3>1, CountedSame
  <2>3. CASE s = c
    <3>1. N("Chunk", s)' = 0 /\ Waiting(s)' = 0 /\ Below(s)' = 1 /\ N("Finish", s)' = 0 /\ N("Bursts", s)' = 0
      BY <1>2, <1>5, <1>12, <1>18, <2>3 DEF N, Waiting, Below, Kids
    <3>2. ChunkCounted(s)'
      BY <3>1 DEF ChunkCounted
    <3>4. Len(c) # 1 /\ Len(c) # 3 /\ Len(c) # Leaf'
      BY <1>4, <2>0
    <3>5. Len(s) # 1 /\ Len(s) # 3 /\ Len(s) # Leaf'
      BY <2>3, <3>4, Zenon
    <3> QED BY <3>2, <3>5 DEF CountedFor
  <2>4. CASE s = id
    <3>1. N("Beats", s)' = 1 /\ N("BeatFinish", s)' = 0 /\ Below(s)' = 0 /\ stk'[s].count = 0
      BY <1>8, <1>12, <1>19, <2>4 DEF N, Below, Kids
    <3>2. BurstCounted(s)'
      BY <3>1 DEF BurstCounted
    <3>4. Len(id) # 1 /\ Len(id) # 2 /\ Len(id) # Leaf'
      BY <1>4, <1>9, <2>0
    <3>5. Len(s) # 1 /\ Len(s) # 2 /\ Len(s) # Leaf'
      BY <2>4, <3>4, Zenon
    <3> QED BY <3>2, <3>5 DEF CountedFor
  <2> QED BY <1>12, <2>2, <2>3, <2>4
<1>24. Held'
  <2>1. ASSUME NEW i \in 1..Len(events), NEW h \in DOMAIN stk, HeldBy(i, h)
        PROVE  StaysHeld(i, h, 1, a, Nothing)
    <3>1. Len(h) = 2 /\ h \in Name /\ h # id
      BY <1>10, <1>17, <2>1 DEF HeldBy
    <3>2. \A k \in 1..Len(events) : k > 1 /\ Under(events[k].stack, h) /\ events[k].ev = "Bursts" => stk'[h].left > 0
      <4>1. SUFFICES ASSUME NEW k \in 1..Len(events), k > 1, Under(events[k].stack, h), events[k].ev = "Bursts"
                     PROVE  stk'[h].left > 0
        OBVIOUS
      <4>2. stk[h].left > 0
        BY <2>1, <4>1 DEF HeldBy, InTime
      <4>3. events[k].stack = h
        <5>1. "Bursts" \in Kinds(Len(events[k].stack)) /\ events[k].stack \in DOMAIN stk
          BY <1>1, <4>1 DEF Queued
        <5>2. Len(events[k].stack) = 2 /\ events[k].stack \in Name
          BY <1>1, <5>1, Level DEF Typed, Closed
        <5>3. events[k].stack = h \/ Len(events[k].stack) = 3 \/ Len(events[k].stack) = 4
          BY <3>1, <4>1, <5>2, UnderIs
        <5> QED BY <5>2, <5>3
      <4>4. h # c
        <5>1. SUFFICES ASSUME h = c PROVE FALSE
          OBVIOUS
        <5>2. events[1] \in Of("Bursts", c) /\ events[k] \in Of("Bursts", c)
          BY <1>0, <1>3, <4>1, <4>3, <5>1, QueueRec, InOf
        <5>3. Count(events, Of("Bursts", c)) <= 1
          BY <1>5 DEF N
        <5>4. k = 1
          BY <1>3, <5>2, <5>3, CountOne DEF IsQueue
        <5> QED BY <4>1, <5>4
      <4> QED BY <1>12, <4>2, <4>4
    <3>3. AddedInTime(i, a, h)
      <4>1. SUFFICES ASSUME Under(a.stack, h)
                     PROVE  events[i].left <= a.left + Slack(a.ev, IsLoad(h)) /\ ~Late(a.ev) /\ a.ev # "Bursts"
        BY DEF AddedInTime
      <4>2. h = c
        <5>1. id = h \/ (Len(id) = 3 /\ Front(id) = h) \/ Len(id) = 4
          BY <1>9, <1>15, <3>1, <4>1, UnderIs
        <5>2. Len(id) # 4
          BY <1>9
        <5> QED BY <1>9, <3>1, <5>1, <5>2
      <4>3. Under(c, h)
        BY <4>2 DEF Under
      <4>4. events[i].left <= 0 + Slack("Bursts", IsLoad(h))
        BY <1>0, <1>3, <2>1, <4>3 DEF HeldBy, InTime
      <4>5. Slack("Bursts", IsLoad(h)) = Extra[IsLoad(c)] + 1 /\ Slack("Beats", IsLoad(h)) = 1 /\ ~Late("Beats")
        BY <1>4, <4>2 DEF Slack, Late
      <4>6. events[i].left <= a.left + Slack("Beats", IsLoad(h))
        <5>1. events[i].left \in Nat
          BY <1>3, QueueRec
        <5> QED BY <1>14, <1>15, <4>4, <4>5, <5>1
      <4> QED BY <1>15, <4>5, <4>6
    <3>4. AddedInTime(i, Nothing, h) /\ IsLoad(h)' = IsLoad(h) /\ h \in DOMAIN stk'
      BY <1>2, <1>12 DEF AddedInTime, IsLoad
    <3> QED BY <1>2, <2>1, <3>2, <3>3, <3>4 DEF StaysHeld, HeldBy, Waiting
  <2>2. a.ev # "Pre"
    BY <1>15
  <2> QED BY <1>1, <1>2, <1>16, <2>1, <2>2, HeldStep, NothingEv
<1>25. Continues'
  <2>1. ASSUME NEW i \in 1..Len(events), events[i].ev = "Beats"
        PROVE  Untouched(events[i].stack, 1)
    <3>1. events[i].stack \in DOMAIN stk /\ Len(events[i].stack) = 3
      BY <1>1, <2>1, BeatsAt
    <3>2. events[i].stack # c
      <4>1. Len(c) # 3
        BY <1>4
      <4> QED BY <3>1, <4>1
    <3>3. \A k \in 1..Len(events) : k <= 1 => events[k].ev # "Words"
      BY <1>0, <1>3
    <3> QED BY <1>12, <1>20, <3>1, <3>2, <3>3, ZenonT(60) DEF Untouched, SameCounts
  <2>2. ASSUME NEW j \in 1..Len(events'), events'[j] \in {a, Nothing} \ {Nothing}
        PROVE  Continued(j)'
    <3>1. events'[j].stack = id
      BY <1>15, <2>2
    <3>2. Kids(id)' = {} /\ N("BeatFinish", id)' = 0
      BY <1>12, <1>19 DEF Kids, N
    <3> QED BY <3>1, <3>2 DEF Continued
  <2> QED BY <1>1, <1>16, <2>1, <2>2, ContinuesWith
<1>26. ASSUME NEW s \in DOMAIN stk'
       PROVE  Passed(s)' /\ Sized(s)'
  <2>1. CASE s \in DOMAIN stk /\ s # c
    <3>1. Sized(s) /\ Passed(s)
      BY <1>1, <2>1 DEF Bytes
    <3>2. Sized(s)'
      BY <1>20, <2>1, <3>1, SizedAside, SizedKept
    <3>3. Passed(s)'
      <4>1. Len(s) > 1 => Front(s) \in DOMAIN stk
        BY <1>1, <2>1 DEF Typed, Closed
      <4>2. Len(s) = 2 => Len(Front(s)) = 1
        BY <1>17, <2>1, ParentLevel
      <4>3. Len(s) = 4 => Len(Front(s)) = 3
        BY <1>17, <2>1, ParentLevel
      <4>4. Len(c) # 1 /\ Len(c) # 3
        BY <1>4
      <4>5. Len(s) = 2 \/ Len(s) = 4 => Front(s) # c
        <5>1. Len(s) = 2 => Front(s) # c
          BY <4>2, <4>4, Zenon
        <5>2. Len(s) = 4 => Front(s) # c
          BY <4>3, <4>4, Zenon
        <5> QED BY <5>1, <5>2
      <4>6. Len(s) = 2 \/ Len(s) = 4 => stk'[Front(s)] = stk[Front(s)]
        <5>1. Len(s) = 2 \/ Len(s) = 4 => Front(s) \in DOMAIN stk
          <6>1. 2 > 1 /\ 4 > 1
            OBVIOUS
          <6> QED BY <4>1, <6>1, Zenon
        <5>2. \A q \in DOMAIN stk : q # c => stk'[q] = stk[q]
          BY <1>12
        <5> QED BY <4>5, <5>1, <5>2
      <4> QED BY <1>12, <2>1, <3>1, <4>6 DEF Passed
    <3> QED BY <3>2, <3>3
  <2>2. CASE s = c
    <3>1. Sized(c) /\ Passed(c)
      BY <1>1, <1>3 DEF Bytes
    <3>2. Front(c) # c /\ Front(c) \in DOMAIN stk
      <4>1. Len(c) > 1
        BY <1>4
      <4> QED BY <1>1, <1>3, <4>1, ParentName DEF Typed, Closed
    <3>3. Len(c) # 1 /\ Len(c) # 4
      BY <1>4
    <3>4. Passed(c)'
      BY <1>12, <3>1, <3>2, <3>3 DEF Passed
    <3>5. N("Chunk", c)' + Waiting(c)' = 0 /\ N("Finish", c)' = 0
      BY <1>2, <1>5, <1>18 DEF N, Waiting
    <3>6. stk[c].size <= stk[c].left * m
      <4>1. N("Bursts", c) + Below(c) > 0
        BY <1>5
      <4> QED BY <1>4, <3>1, <4>1 DEF Sized, m
    <3>7. b.size <= b.left * m
      <4>1. (stk[c].left - 1) * m = stk[c].left * m - m
        BY <1>6
      <4>2. stk[c].left * m \in Int
        BY <1>6
      <4>3. stk[c].size - m <= stk[c].left * m - m
        BY <1>6, <3>6, <4>2
      <4>4. stk[c].size - m <= (stk[c].left - 1) * m
        BY <4>1, <4>3
      <4> QED BY <1>7, <4>4
    <3>8. Sized(c)'
      <4>1. stk'[c].addr = access'[c[1]].addr + stk'[c].buf
        BY <1>2, <1>7, <1>12, <3>1 DEF Sized
      <4>2. stk'[c].size <= stk'[c].left * (Length * Width)
        BY <1>12, <3>7 DEF m
      <4> QED BY <3>3, <3>5, <4>1, <4>2 DEF Sized
    <3> QED BY <2>2, <3>4, <3>8
  <2>3. CASE s = id
    <3>1. Len(id) # 1 /\ Len(id) # 2 /\ Len(id) # 4
      BY <1>9
    <3>2. Passed(id)'
      BY <3>1 DEF Passed
    <3>3. stk'[id].addr = access'[id[1]].addr + stk'[id].buf
      <4>1. stk[c].addr = access[c[1]].addr + stk[c].buf /\ access[c[1]].addr \in Nat
        BY <1>1, <1>3, Asked DEF Bytes, Sized
      <4> DEFINE z == access[c[1]].addr
      <4>2. z \in Nat /\ stk[c].addr + stk[c].offset = z + x /\ access' = access
        BY <1>2, <1>6, <4>1
      <4> HIDE DEF z, x
      <4>3. r.addr = z + r.buf
        BY <1>8, <4>2
      <4> QED BY <1>9, <1>12, <4>2, <4>3 DEF z
    <3>4. Sized(id)'
      BY <3>1, <3>3 DEF Sized
    <3> QED BY <2>3, <3>2, <3>4
  <2> QED BY <1>12, <2>1, <2>2, <2>3
<1>27. Covered'
  <2>1. \A t, o : Exchanged(t, o) => Exchanged(t, o)'
    BY <1>2 DEF Exchanged
  <2>2. ASSUME NEW o \in Int, Owed(c, o)
        PROVE  Owed(c, o)' \/ Owed(id, o)'
    <3>1. x <= o /\ o < x + stk[c].size
      BY <1>4, <2>2 DEF Owed
    <3>2. x \in Nat
      BY <1>6
    <3>3. Owed(c, o)' <=> x + m <= o /\ o < x + stk[c].size
      <4>1. Owed(c, o)' <=> b.buf + b.offset <= o /\ o < b.buf + b.offset + b.size
        BY <1>2, <1>4, <1>12 DEF Owed
      <4>2. b.buf + b.offset = x + m /\ b.buf + b.offset + b.size = x + stk[c].size
        BY <1>6, <1>7
      <4> QED BY <4>1, <4>2
    <3>4. Owed(id, o)' <=> x <= o /\ o < x + Least(m, stk[c].size)
      <4>1. Owed(id, o)' <=> r.buf + r.offset <= o /\ o < r.buf + r.offset + Least(r.left * Width, r.size)
        <5>1. Len(id) = 3 /\ stk'[id] = r
          BY <1>9, <1>12
        <5> QED BY <5>1 DEF Owed
      <4>2. r.buf + r.offset = x /\ r.left * Width = m /\ r.size = stk[c].size
        <5>1. r.left * Width = m
          BY <1>8 DEF m
        <5> QED BY <1>8, <3>2, <5>1
      <4> QED BY <4>1, <4>2, Zenon
    <3> HIDE DEF x
    <3> QED BY <1>6, <3>1, <3>2, <3>3, <3>4 DEF Least
  <2>3. ASSUME NEW s \in DOMAIN stk, NEW o
        PROVE  (s \in DOMAIN stk' /\ stk'[s] = stk[s])
               \/ (Owed(s, o) /\ InBuffer(s[1], o) =>
                     Exchanged(s[1], o)' \/ \E q \in DOMAIN stk' : q[1] = s[1] /\ Owed(q, o)')
    <3>1. CASE s # c
      BY <1>12, <3>1
    <3>2. CASE s = c
      <4>1. SUFFICES ASSUME Owed(c, o), InBuffer(c[1], o) PROVE \E q \in DOMAIN stk' : q[1] = c[1] /\ Owed(q, o)'
        BY <3>2
      <4>2. o \in Int
        BY <4>1 DEF InBuffer
      <4>3. Owed(c, o)' \/ Owed(id, o)'
        BY <2>2, <4>1, <4>2
      <4> QED BY <1>3, <1>9, <1>12, <4>3
    <3> QED BY <3>1, <3>2
  <2> QED BY <1>1, <1>2, <2>1, <2>3, CoveredKept DEF Bytes
<1> QED BY <1>21, <1>22, <1>23, <1>24, <1>25, <1>26, <1>27 DEF TransferInv, Bytes

LEMMA NextBurstKeeps ==
  ASSUME TransferInv, NextBurst
  PROVE  TransferInv'
<1>0. PICK c, a, b, id, r, w : /\ c = Cur /\ a = Event("Finish", c, 0)
                               /\ b = [S EXCEPT !.offset = @ + Length * Width, !.left = @ - 1, !.size = @ - Length * Width]
                               /\ id = Append(c, S.buf + S.offset) /\ r = Stack(S, S.offset, S.size, Length)
                               /\ w = Event("Beats", id, Extra[IsLoad(c)])
  OBVIOUS
<1>1. CASE S.left = 0 /\ events' = Scheduled(Tail(events), Event("Finish", Cur, 0)) /\ UNCHANGED stk
  <2>1. BurstsEnd(c, a)
    BY <1>0, <1>1 DEF NextBurst, BurstsEnd
  <2> QED BY <2>1, NextBurstEnds
<1>2. CASE /\ S.left > 0
           /\ stk' = Put([stk EXCEPT ![Cur].offset = @ + Length * Width, ![Cur].left = @ - 1, ![Cur].size = @ - Length * Width],
                         Append(Cur, S.buf + S.offset), Stack(S, S.offset, S.size, Length))
           /\ events' = Scheduled(Tail(events), Event("Beats", Append(Cur, S.buf + S.offset), Extra[IsLoad(Cur)]))
  <2>1. Typed /\ c \in DOMAIN stk /\ S = stk[c]
    BY <1>0, Due DEF NextBurst
  <2>2. [stk EXCEPT ![c].offset = @ + Length * Width, ![c].left = @ - 1, ![c].size = @ - Length * Width] = [stk EXCEPT ![c] = b]
    <3>1. stk[c] \in StackRec /\ stk \in [DOMAIN stk -> StackRec]
      BY <2>1 DEF Typed
    <3>2. b = [stk[c] EXCEPT !.offset = @ + Length * Width, !.left = @ - 1, !.size = @ - Length * Width]
      BY <1>0, <2>1
    <3> QED BY <2>1, <3>1, <3>2 DEF StackRec
  <2>3. BurstBegins(c, b, id, r, w)
    BY <1>0, <1>2, <2>2 DEF NextBurst, BurstBegins
  <2> QED BY <2>3, NextBurstBegins
<1> QED BY <1>1, <1>2 DEF NextBurst

\* A new event is there.
LEMMA IsThere ==
  ASSUME NEW es, NEW r, NEW n, NEW o, NEW a, NEW b, Becomes(es, r, n, o, a, b), NEW x \in {a, b} \ {Nothing}
  PROVE  \E i \in 1..Len(r) : r[i] = x
<1>1. PICK from : Follows(es, r, n, {a, b} \ {Nothing}, from)
  BY DEF Becomes, Grown
<1> QED BY <1>1 DEF Follows

BeatsEnd(c) ==
  /\ Handles("Beats") /\ c = Cur /\ S.left = 0 /\ events' = Tail(events)
  /\ UNCHANGED <<path, access, stk, portuse, memoplist, memory, image, told>>

LEMMA NextBeatEnds ==
  ASSUME TransferInv, NEW c, BeatsEnd(c)
  PROVE  TransferInv'
<1>0. PICK e : e = events[1]
  OBVIOUS
<1>1. Typed /\ Queued /\ Counted /\ Held /\ Continues /\ Bytes
  BY DEF TransferInv
<1>2. /\ Handles("Beats") /\ c = Cur /\ events' = Tail(events)
      /\ UNCHANGED <<path, access, stk, portuse, memoplist, memory, image, told>>
  BY DEF BeatsEnd
<1>3. /\ IsQueue(events, EventRec) /\ events # <<>> /\ e.ev = "Beats" /\ e.left = 0 /\ e.stack = c
      /\ c \in DOMAIN stk /\ c \in Name /\ "Beats" \in Kinds(Len(c)) /\ Len(c) <= Leaf
      /\ N("Beats", c) > 0 /\ stk[c] \in StackRec /\ S = stk[c] /\ CountedFor(c) /\ 1 \in 1..Len(events)
  BY <1>0, <1>2, Due
<1>4. Len(c) = 3 /\ path = "burst" /\ Leaf = 4 /\ stk[c].left = 0
  BY <1>1, <1>3, Level DEF Typed, BeatsEnd
<1>5. Becomes(events, events', 1, e, Nothing, Nothing)
  BY <1>0, <1>2, <1>3, HandledNone
<1>6. \A s \in DOMAIN stk : s \in Name /\ Nothing.stack # s
  BY <1>1, NothingAside DEF Typed, Closed
<1>7. Count(events', Of("Beats", c)) = N("Beats", c) - 1 /\ \A x : x # "Beats" => Count(events', Of(x, c)) = N(x, c)
  <2>1. c \in Name /\ e.stack = c /\ Nothing.stack # c
    BY <1>3, <1>6
  <2>2. /\ Count(events', Of(e.ev, c)) = N(e.ev, c) - 1
        /\ \A x : x # e.ev => Count(events', Of(x, c)) = N(x, c)
    BY <1>5, <2>1, Leaves
  <2> QED BY <1>3, <2>2
<1>8. ASSUME NEW s \in DOMAIN stk, s # c
      PROVE  SameCounts(s)
  <2>1. \A x : Count(events', Of(x, s)) = N(x, s)
    BY <1>3, <1>5, <1>6, <1>8, Aside
  <2> QED BY <1>2, <2>1 DEF SameCounts, Waiting, Unanswered, Below, Kids
<1>9. Typed'
  <2>1. Leaf' = Leaf
    BY <1>2 DEF Leaf
  <2> QED BY <1>1, <1>2, <2>1 DEF Typed
<1>10. Queued'
  <2>1. DOMAIN stk \ DOMAIN stk' = {} /\ 1 \in Nat
    BY <1>2
  <2> QED BY <1>1, <1>2, <1>5, <2>1, QueuedKept
<1>11. Counted'
  <2>1. SUFFICES ASSUME NEW s \in DOMAIN stk PROVE CountedFor(s)'
    BY <1>2 DEF Counted
  <2>2. CountedFor(s)
    BY <1>1 DEF Counted
  <2>3. CASE s # c
    BY <1>2, <1>8, <2>2, <2>3, CountedSame
  <2>4. CASE s = c
    <3>1. BurstCounted(c)
      BY <1>3, <1>4 DEF CountedFor
    <3>2. N("Beats", c)' <= 1 /\ ~(stk'[c].left > 0)
      <4>1. N("Beats", c) \in Nat /\ N("Beats", c) <= 1
        BY <1>1, <3>1, Numbers DEF BurstCounted
      <4>2. N("Beats", c)' = N("Beats", c) - 1
        BY <1>7 DEF N
      <4> QED BY <1>2, <1>4, <4>1, <4>2
    <3>3. Below(c)' + N("BeatFinish", c)' <= stk'[c].count
      BY <1>2, <1>7, <3>1 DEF BurstCounted, N, Below, Kids
    <3>4. BurstCounted(c)'
      BY <3>2, <3>3 DEF BurstCounted
    <3>5. Leaf' = Leaf
      BY <1>2 DEF Leaf
    <3>6. Len(c) # 1 /\ Len(c) # 2 /\ Len(c) # Leaf'
      BY <1>4, <3>5
    <3>7. CountedFor(c)'
      BY <3>4, <3>6 DEF CountedFor
    <3> QED BY <2>4, <3>7
  <2> QED BY <2>3, <2>4
<1>12. Held'
  <2>1. ASSUME NEW i \in 1..Len(events), NEW h \in DOMAIN stk, HeldBy(i, h)
        PROVE  StaysHeld(i, h, 1, Nothing, Nothing)
    <3>1. \A k \in 1..Len(events) : Under(events[k].stack, h) /\ events[k].ev = "Bursts" => stk[h].left > 0
      BY <2>1 DEF HeldBy, InTime
    <3>2. AddedInTime(i, Nothing, h) /\ IsLoad(h)' = IsLoad(h)
      BY <1>2 DEF AddedInTime, IsLoad
    <3> QED BY <1>2, <2>1, <3>1, <3>2 DEF StaysHeld, HeldBy, Waiting
  <2> QED BY <1>1, <1>2, <1>5, <2>1, HeldStep, NothingEv
<1>13. Continues'
  <2>1. ASSUME NEW i \in 1..Len(events), events[i].ev = "Beats"
        PROVE  Untouched(events[i].stack, 1)
    <3>1. events[i].stack \in DOMAIN stk
      BY <1>1, <2>1, BeatsAt
    <3>2. Count(events', Of("BeatFinish", events[i].stack)) = N("BeatFinish", events[i].stack)
      <4>1. "BeatFinish" # "Beats"
        OBVIOUS
      <4> QED BY <1>7, <1>8, <3>1, <4>1 DEF SameCounts
    <3>3. \A k \in 1..Len(events) : k <= 1 => events[k].ev # "Words"
      BY <1>0, <1>3
    <3> QED BY <1>2, <3>2, <3>3 DEF Untouched, Kids
  <2> QED BY <1>1, <1>5, <2>1, ContinuesStep, NothingEv
<1>14. Bytes'
  <2>1. ASSUME NEW s \in DOMAIN stk
        PROVE  SizedSame(s)
    <3>1. CASE s = c
      <4>1. Len(s) # 2
        BY <1>4, <3>1
      <4> QED BY <1>2, <4>1 DEF SizedSame
    <3>2. CASE s # c
      BY <1>8, <3>2, SizedAside
    <3> QED BY <3>1, <3>2
  <2> QED BY <1>1, <1>2, <2>1, BytesSame DEF Typed
<1> QED BY <1>9, <1>10, <1>11, <1>12, <1>13, <1>14 DEF TransferInv

BeatBegins(c, b, id, r, a, d) ==
  /\ Handles("Beats") /\ c = Cur /\ S.left > 0
  /\ b = [S EXCEPT !.offset = @ + Width, !.left = @ - 1, !.size = @ - Width, !.count = @ + 1]
  /\ id = Append(c, S.buf + S.offset) /\ r = Stack(S, S.offset, S.size, 0)
  /\ a = Event("Words", id, 1) /\ d = Event("Beats", c, 1)
  /\ stk' = Put([stk EXCEPT ![c] = b], id, r) /\ events' = ScheduledAll(Tail(events), <<a, d>>)
  /\ UNCHANGED <<path, access, portuse, memoplist, memory, image, told>>

LEMMA NextBeatBegins ==
  ASSUME TransferInv, NEW c, NEW b, NEW id, NEW r, NEW a, NEW d, BeatBegins(c, b, id, r, a, d)
  PROVE  TransferInv'
<1>0. PICK e : e = events[1]
  OBVIOUS
<1>1. Typed /\ Queued /\ Counted /\ Held /\ Continues /\ Bytes
  BY DEF TransferInv
<1>2. /\ Handles("Beats") /\ c = Cur /\ events' = ScheduledAll(Tail(events), <<a, d>>)
      /\ UNCHANGED <<path, access, portuse, memoplist, memory, image, told>>
  BY DEF BeatBegins
<1>3. /\ IsQueue(events, EventRec) /\ events # <<>> /\ e.ev = "Beats" /\ e.left = 0 /\ e.stack = c
      /\ c \in DOMAIN stk /\ c \in Name /\ "Beats" \in Kinds(Len(c)) /\ Len(c) <= Leaf
      /\ N("Beats", c) > 0 /\ stk[c] \in StackRec /\ S = stk[c] /\ CountedFor(c) /\ 1 \in 1..Len(events)
  BY <1>0, <1>2, Due
<1>4. Len(c) = 3 /\ path = "burst" /\ Leaf = 4
  BY <1>1, <1>3, Level DEF Typed
<1>5. BurstCounted(c) /\ N("Beats", c) = 1 /\ Below(c) \in Nat /\ N("BeatFinish", c) \in Nat
  <2>1. BurstCounted(c)
    BY <1>3, <1>4 DEF CountedFor
  <2>2. N("Beats", c) \in Nat /\ N("Beats", c) <= 1
    BY <1>1, <2>1, Numbers DEF BurstCounted
  <2>3. Below(c) \in Nat /\ N("BeatFinish", c) \in Nat
    BY <1>1, Numbers
  <2> QED BY <1>3, <2>1, <2>2, <2>3
<1> DEFINE x == stk[c].buf + stk[c].offset
<1>6. /\ stk[c].left \in Nat /\ stk[c].left > 0 /\ stk[c].size \in Int /\ stk[c].offset \in Nat /\ stk[c].buf \in Nat
      /\ stk[c].addr \in Nat /\ stk[c].count \in Nat /\ Width \in Nat /\ Width > 0
  <2>1. /\ stk[c].left \in Nat /\ stk[c].size \in Int /\ stk[c].offset \in Nat /\ stk[c].buf \in Nat
        /\ stk[c].addr \in Nat /\ stk[c].count \in Nat
    BY <1>3 DEF StackRec
  <2>2. Width \in Nat /\ Width > 0
    BY TransferAssumption
  <2>3. stk[c].left > 0
    BY <1>3 DEF BeatBegins
  <2> QED BY <2>1, <2>2, <2>3
<1>7. /\ b.addr = stk[c].addr /\ b.buf = stk[c].buf /\ b.offset = stk[c].offset + Width /\ b.left = stk[c].left - 1
      /\ b.size = stk[c].size - Width /\ b.count = stk[c].count + 1 /\ b \in StackRec
  <2>1. b = [stk[c] EXCEPT !.offset = stk[c].offset + Width, !.left = stk[c].left - 1, !.size = stk[c].size - Width,
                           !.count = stk[c].count + 1]
    BY <1>3 DEF BeatBegins
  <2>2. /\ b.addr = stk[c].addr /\ b.buf = stk[c].buf /\ b.offset = stk[c].offset + Width /\ b.left = stk[c].left - 1
        /\ b.size = stk[c].size - Width /\ b.count = stk[c].count + 1
    BY <1>3, <2>1 DEF StackRec
  <2>3. b \in StackRec
    <3>1. stk[c].offset + Width \in Nat /\ stk[c].left - 1 \in Nat /\ stk[c].size - Width \in Int /\ stk[c].count + 1 \in Nat
      BY <1>6
    <3> QED BY <1>3, <2>1, <3>1, ZenonT(60) DEF StackRec
  <2> QED BY <2>2, <2>3
<1>8. /\ r.addr = stk[c].addr + stk[c].offset /\ r.buf = x /\ r.size = stk[c].size /\ r.offset = 0 /\ r.left = 0
      /\ r.count = 0 /\ r \in StackRec
  <2>1. r = [addr |-> stk[c].addr + stk[c].offset, buf |-> x, size |-> stk[c].size, offset |-> 0, left |-> 0, count |-> 0]
    BY <1>3 DEF BeatBegins, Stack
  <2>2. stk[c].addr + stk[c].offset \in Nat /\ x \in Nat
    BY <1>6
  <2> HIDE DEF x
  <2> QED BY <1>6, <2>1, <2>2 DEF StackRec
<1>9. id \in Name /\ Len(id) = 4 /\ Front(id) = c /\ id[1] = c[1] /\ id[4] = x
  <2>1. x \in Nat /\ id = Append(c, x)
    <3>1. x \in Nat
      BY <1>6
    <3>2. id = Append(c, S.buf + S.offset)
      BY DEF BeatBegins
    <3> QED BY <1>3, <3>1, <3>2
  <2>2. Len(c) < 4
    BY <1>4
  <2> HIDE DEF x
  <2>3. id \in Name /\ Len(id) = Len(c) + 1 /\ Front(id) = c /\ id[1] = c[1] /\ id[Len(c) + 1] = x
    BY <1>3, <2>1, <2>2, ChildName
  <2> QED BY <1>4, <2>3
<1>10. id \notin DOMAIN stk
  <2>1. SUFFICES ASSUME id \in DOMAIN stk PROVE FALSE
    OBVIOUS
  <2>2. id[4] < x
    BY <1>1, <1>9, <2>1 DEF Bytes, Passed
  <2>3. x \in Nat
    BY <1>6
  <2> QED BY <1>9, <2>2, <2>3
<1>11. StackCreated(c, b, id, r)
  <2>1. Len(id) > 1 /\ Len(id) <= Leaf
    BY <1>4, <1>9
  <2>2. stk' = Put([stk EXCEPT ![c] = b], id, r)
    BY DEF BeatBegins
  <2> QED BY <1>3, <1>7, <1>8, <1>9, <1>10, <2>1, <2>2 DEF StackCreated
<1>12. /\ DOMAIN stk' = DOMAIN stk \union {id} /\ stk'[c] = b /\ stk'[id] = r
       /\ \A s \in DOMAIN stk : s # c => stk'[s] = stk[s]
       /\ \A s : s # c => KidsIn(DOMAIN stk', s) = Kids(s) /\ Cardinality(KidsIn(DOMAIN stk', s)) = Below(s)
       /\ KidsIn(DOMAIN stk', c) = Kids(c) \union {id} /\ Cardinality(KidsIn(DOMAIN stk', c)) = Below(c) + 1
       /\ KidsIn(DOMAIN stk', id) = {} /\ Cardinality(KidsIn(DOMAIN stk', id)) = 0 /\ Kids(id) = {} /\ c # id
  BY <1>1, <1>11, Created, ZenonT(60)
<1>13. (\A y : N(y, id) = 0) /\ Waiting(id) = 0 /\ Unanswered(id) = 0 /\ id \notin DOMAIN memory
  BY <1>1, <1>10, NoneYet
<1>14. /\ a \in EventRec /\ a.ev = "Words" /\ a.stack = id /\ a.left = 1
       /\ d \in EventRec /\ d.ev = "Beats" /\ d.stack = c /\ d.left = 1
  <2>1. "Words" \in EventName /\ "Beats" \in EventName /\ a = Event("Words", id, 1) /\ d = Event("Beats", c, 1) /\ 1 \in Nat
    BY DEF EventName, BeatBegins
  <2> QED BY <1>3, <1>9, <2>1, EventIsRec
<1>15. Becomes(events, events', 1, e, a, d)
  BY <1>0, <1>2, <1>3, <1>14, HandledTwo
<1>16. \A s \in DOMAIN stk : s \in Name /\ Nothing.stack # s
  BY <1>1, NothingAside DEF Typed, Closed
<1>17. \A y : Count(events', Of(y, c)) = N(y, c)
  <2>1. c \in Name /\ e.stack = c /\ a.stack # c /\ d.stack = c /\ e.ev = d.ev
    BY <1>3, <1>12, <1>14
  <2> QED BY <1>15, <2>1, ComesAgain
<1>18. Count(events', Of("Words", id)) = 1 /\ \A y : y # "Words" => Count(events', Of(y, id)) = 0
  <2>1. id \in Name /\ e.stack # id /\ a.stack = id /\ d.stack # id
    BY <1>3, <1>9, <1>12, <1>14
  <2>2. /\ Count(events', Of(a.ev, id)) = N(a.ev, id) + 1
        /\ \A y : y # a.ev => Count(events', Of(y, id)) = N(y, id)
    BY <1>15, <2>1, Arrives
  <2> QED BY <1>13, <1>14, <2>2
<1>19. ASSUME NEW s \in DOMAIN stk, s # c
       PROVE  SameCounts(s)
  <2>1. a.stack # s /\ d.stack # s /\ e.stack # s
    BY <1>3, <1>10, <1>14, <1>19
  <2>2. \A y : Count(events', Of(y, s)) = N(y, s)
    BY <1>15, <1>16, <1>19, <2>1, Aside
  <2> QED BY <1>2, <1>12, <1>19, <2>2 DEF SameCounts, Waiting, Unanswered
<1>20. Typed'
  BY <1>1, <1>2, <1>11, TypedCreated
<1>21. Queued'
  <2>1. a.stack \in DOMAIN stk' /\ a.ev \in Kinds(Len(a.stack))
    <3>1. "Words" \in Kinds(4)
      BY DEF Kinds
    <3> QED BY <1>9, <1>12, <1>14, <3>1
  <2>2. d.stack \in DOMAIN stk' /\ d.ev \in Kinds(Len(d.stack))
    BY <1>3, <1>12, <1>14
  <2>3. DOMAIN stk \ DOMAIN stk' = {}
    BY <1>12
  <2> QED BY <1>1, <1>2, <1>14, <1>15, <2>1, <2>2, <2>3, QueuedKept
<1>22. Counted'
  <2>1. SUFFICES ASSUME NEW s \in DOMAIN stk' PROVE CountedFor(s)'
    BY DEF Counted
  <2>0. Leaf' = Leaf
    BY <1>2 DEF Leaf
  <2>2. CASE s \in DOMAIN stk /\ s # c
    <3>1. CountedFor(s)
      BY <1>1, <2>2 DEF Counted
    <3> QED BY <1>2, <1>19, <2>2, <3>1, CountedSame
  <2>3. CASE s = c
    <3>1. /\ N("Beats", c)' = 1 /\ Below(c)' = Below(c) + 1 /\ N("BeatFinish", c)' = N("BeatFinish", c)
          /\ stk'[c].count = stk[c].count + 1
      BY <1>5, <1>7, <1>12, <1>17 DEF N, Below, Kids
    <3>2. BurstCounted(c)'
      <4>1. Below(c) + N("BeatFinish", c) <= stk[c].count
        BY <1>5 DEF BurstCounted
      <4>2. Below(c)' + N("BeatFinish", c)' <= stk'[c].count
        BY <1>5, <1>6, <3>1, <4>1
      <4> QED BY <3>1, <4>2 DEF BurstCounted
    <3>4. Len(c) # 1 /\ Len(c) # 2 /\ Len(c) # Leaf'
      BY <1>4, <2>0
    <3>5. CountedFor(c)'
      BY <3>2, <3>4 DEF CountedFor
    <3> QED BY <2>3, <3>5
  <2>4. CASE s = id
    <3>1. /\ N("Chunk", id)' = 0 /\ N("Words", id)' = 1 /\ N("Memory", id)' = 0 /\ N("WordFinish", id)' = 0
          /\ Waiting(id)' = 0 /\ Unanswered(id)' = 0 /\ stk'[id].count = 0
      BY <1>2, <1>8, <1>12, <1>13, <1>18 DEF N, Waiting, Unanswered
    <3>2. LeafCounted(id)'
      BY <3>1 DEF LeafCounted
    <3>4. Len(id) # 1 /\ Len(id) # 2 /\ Len(id) # 3
      BY <1>9
    <3>5. CountedFor(id)'
      BY <3>2, <3>4 DEF CountedFor
    <3> QED BY <2>4, <3>5
  <2> QED BY <1>12, <2>2, <2>3, <2>4
<1>23. Held'
  <2>1. ASSUME NEW i \in 1..Len(events), NEW h \in DOMAIN stk, HeldBy(i, h)
        PROVE  StaysHeld(i, h, 1, a, d)
    <3>1. Len(h) = 2 /\ h \in Name /\ h # c
      <4>1. Len(h) = 2 /\ h \in Name
        BY <1>16, <2>1 DEF HeldBy
      <4>2. Len(c) # 2
        BY <1>4
      <4> QED BY <4>1, <4>2
    <3>2. \A k \in 1..Len(events) : k > 1 /\ Under(events[k].stack, h) /\ events[k].ev = "Bursts" => stk'[h].left > 0
      BY <1>12, <2>1, <3>1 DEF HeldBy, InTime
    <3>3. Under(c, h) => events[i].left <= 1
      <4>1. SUFFICES ASSUME Under(c, h) PROVE events[i].left <= 1
        OBVIOUS
      <4>2. events[i].left <= 0 + Slack("Beats", IsLoad(h))
        BY <1>0, <1>3, <2>1, <4>1 DEF HeldBy, InTime
      <4>3. Slack("Beats", IsLoad(h)) = 1
        BY <1>4 DEF Slack
      <4> QED BY <4>2, <4>3
    <3>4. events[i].left \in Nat
      BY <1>3, QueueRec
    <3>5. AddedInTime(i, d, h)
      <4>1. Slack("Beats", IsLoad(h)) = 1 /\ ~Late("Beats")
        BY <1>4 DEF Slack, Late
      <4>2. Under(c, h) => events[i].left <= 1 + 1
        BY <3>3, <3>4
      <4> QED BY <1>14, <4>1, <4>2 DEF AddedInTime
    <3>6. AddedInTime(i, a, h)
      <4>1. SUFFICES ASSUME Under(id, h) PROVE events[i].left <= 1 + Slack("Words", IsLoad(h)) /\ events[i].left <= 1
        BY <1>14 DEF AddedInTime
      <4>2. Front(c) = h
        <5>1. id = h \/ Len(id) = 3 \/ Front(Front(id)) = h
          BY <1>9, <3>1, <4>1, UnderIs
        <5>2. Len(id) # 2 /\ Len(id) # 3
          BY <1>9
        <5>3. id # h
          BY <3>1, <5>2
        <5> QED BY <1>9, <5>1, <5>2, <5>3
      <4>3. events[i].left <= 1
        BY <3>3, <4>2 DEF Under
      <4>4. Slack("Words", IsLoad(h)) = 0
        BY <1>4 DEF Slack
      <4> QED BY <3>4, <4>3, <4>4
    <3>7. IsLoad(h)' = IsLoad(h) /\ h \in DOMAIN stk'
      BY <1>2, <1>12 DEF IsLoad
    <3> QED BY <1>2, <2>1, <3>2, <3>5, <3>6, <3>7 DEF StaysHeld, HeldBy, Waiting
  <2>2. a.ev # "Pre" /\ d.ev # "Pre"
    BY <1>14
  <2> QED BY <1>1, <1>2, <1>15, <2>1, <2>2, HeldStep
<1>24. Continues'
  <2>1. ASSUME NEW i \in 1..Len(events), i > 1, events[i].ev = "Beats"
        PROVE  Untouched(events[i].stack, 1)
    <3>1. events[i].stack \in DOMAIN stk
      BY <1>1, <2>1, BeatsAt
    <3>2. events[i].stack # c
      <4>1. SUFFICES ASSUME events[i].stack = c PROVE FALSE
        OBVIOUS
      <4>2. events[1] \in Of("Beats", c) /\ events[i] \in Of("Beats", c)
        BY <1>0, <1>3, <2>1, <4>1, QueueRec, InOf
      <4>3. Count(events, Of("Beats", c)) <= 1
        BY <1>5 DEF N
      <4>4. i = 1
        BY <1>3, <4>2, <4>3, CountOne DEF IsQueue
      <4> QED BY <2>1, <4>4
    <3>3. \A k \in 1..Len(events) : k <= 1 => events[k].ev # "Words"
      BY <1>0, <1>3
    <3> QED BY <1>12, <1>19, <3>1, <3>2, <3>3 DEF Untouched, SameCounts
  <2>2. ASSUME NEW j \in 1..Len(events'), events'[j] \in {a, d} \ {Nothing}, events'[j].ev = "Beats"
        PROVE  Continued(j)'
    <3>1. events'[j].stack = c /\ events'[j].left = 1
      BY <1>14, <2>2
    <3>2. a \in {a, d} \ {Nothing}
      BY <1>14, NothingIs
    <3>3. PICK k \in 1..Len(events') : events'[k] = a
      BY <1>15, <3>2, IsThere
    <3>4. id \in Kids(c)'
      BY <1>12 DEF Kids
    <3>5. events'[k].ev = "Words" /\ events'[k].stack \in Kids(c)' /\ events'[j].left <= events'[k].left
      BY <1>14, <3>1, <3>3, <3>4
    <3> QED BY <3>1, <3>5 DEF Continued
  <2> QED BY <1>1, <1>15, <2>1, <2>2, ContinuesWith
<1>25. ASSUME NEW s \in DOMAIN stk'
       PROVE  Passed(s)' /\ Sized(s)'
  <2>1. CASE s \in DOMAIN stk /\ s # c
    <3>1. Sized(s) /\ Passed(s)
      BY <1>1, <2>1 DEF Bytes
    <3>2. Sized(s)'
      BY <1>19, <2>1, <3>1, SizedAside, SizedKept
    <3>3. Passed(s)'
      <4>1. Len(s) = 2 => s[2] \in Nat /\ s[2] < stk'[Front(s)].buf
        <5>1. SUFFICES ASSUME Len(s) = 2 PROVE s[2] \in Nat /\ s[2] < stk'[Front(s)].buf
          OBVIOUS
        <5>2. Len(s) > 1 /\ Len(Front(s)) = 1 /\ Len(c) # 1
          BY <1>4, <1>16, <2>1, <5>1, ParentLevel
        <5>3. Front(s) \in DOMAIN stk /\ Front(s) # c
          BY <1>1, <2>1, <5>2 DEF Typed, Closed
        <5> QED BY <1>12, <3>1, <5>1, <5>3 DEF Passed
      <4>2. Len(s) = 4 => s[4] \in Nat /\ s[4] < stk'[Front(s)].buf + stk'[Front(s)].offset
        <5>1. SUFFICES ASSUME Len(s) = 4 PROVE s[4] \in Nat /\ s[4] < stk'[Front(s)].buf + stk'[Front(s)].offset
          OBVIOUS
        <5>2. s[4] \in Nat /\ s[4] < stk[Front(s)].buf + stk[Front(s)].offset
          BY <3>1, <5>1 DEF Passed
        <5>3. CASE Front(s) # c
          <6>1. Len(s) > 1
            BY <5>1
          <6>2. Front(s) \in DOMAIN stk
            BY <1>1, <2>1, <6>1 DEF Typed, Closed
          <6> QED BY <1>12, <5>2, <5>3, <6>2
        <5>4. CASE Front(s) = c
          <6>1. s[4] < x
            BY <5>2, <5>4
          <6>2. s[4] < x + Width /\ b.buf + b.offset = x + Width
            BY <1>6, <1>7, <5>2, <6>1
          <6> QED BY <1>12, <5>2, <5>4, <6>2
        <5> QED BY <5>3, <5>4
      <4> QED BY <4>1, <4>2 DEF Passed
    <3> QED BY <3>2, <3>3
  <2>2. CASE s = c
    <3>1. Sized(c) /\ Passed(c)
      BY <1>1, <1>3 DEF Bytes
    <3>3. Len(c) # 1 /\ Len(c) # 2 /\ Len(c) # 4
      BY <1>4
    <3>4. Passed(c)'
      BY <3>3 DEF Passed
    <3>5. stk'[c].addr = access'[c[1]].addr + stk'[c].buf
      BY <1>2, <1>7, <1>12, <3>1 DEF Sized
    <3>8. Sized(c)'
      BY <3>3, <3>5 DEF Sized
    <3> QED BY <2>2, <3>4, <3>8
  <2>3. CASE s = id
    <3>1. Len(id) # 1 /\ Len(id) # 2
      BY <1>9
    <3>2. Passed(id)'
      <4>1. x \in Nat /\ b.buf + b.offset = x + Width
        BY <1>6, <1>7
      <4> HIDE DEF x
      <4>2. id[4] < stk'[Front(id)].buf + stk'[Front(id)].offset
        BY <1>6, <1>9, <1>12, <4>1
      <4>3. id[4] \in Nat
        BY <1>9, <4>1
      <4> QED BY <3>1, <4>2, <4>3 DEF Passed
    <3>3. stk'[id].addr = access'[id[1]].addr + stk'[id].buf
      <4>1. stk[c].addr = access[c[1]].addr + stk[c].buf /\ access[c[1]].addr \in Nat
        BY <1>1, <1>3, Asked DEF Bytes, Sized
      <4> DEFINE z == access[c[1]].addr
      <4>2. z \in Nat /\ stk[c].addr + stk[c].offset = z + x /\ access' = access
        BY <1>2, <1>6, <4>1
      <4> HIDE DEF z, x
      <4>3. r.addr = z + r.buf
        BY <1>8, <4>2
      <4> QED BY <1>9, <1>12, <4>2, <4>3 DEF z
    <3>4. Sized(id)'
      BY <3>1, <3>3 DEF Sized
    <3> QED BY <2>3, <3>2, <3>4
  <2> QED BY <1>12, <2>1, <2>2, <2>3
<1>26. Covered'
  <2>1. \A t, o : Exchanged(t, o) => Exchanged(t, o)'
    BY <1>2 DEF Exchanged
  <2>2. ASSUME NEW o \in Int, Owed(c, o)
        PROVE  Owed(c, o)' \/ Owed(id, o)'
    <3> DEFINE w == stk[c].left * Width
               v == (stk[c].left - 1) * Width
               z == stk[c].size
    <3>1. x <= o /\ o < x + Least(w, z)
      BY <1>4, <2>2 DEF Owed
    <3>2. x \in Nat /\ w \in Int /\ v \in Int /\ v = w - Width /\ z \in Int
      BY <1>6
    <3>3. Owed(c, o)' <=> x + Width <= o /\ o < x + Width + Least(v, z - Width)
      <4>1. Owed(c, o)' <=> b.buf + b.offset <= o /\ o < b.buf + b.offset + Least(b.left * Width, b.size)
        BY <1>4, <1>12 DEF Owed
      <4>2. b.buf + b.offset = x + Width /\ b.left * Width = v /\ b.size = z - Width
        BY <1>6, <1>7
      <4> HIDE DEF x, v, z
      <4> QED BY <4>1, <4>2
    <3>4. Owed(id, o)' <=> x <= o /\ o < x + Least(Width, z)
      <4>1. Owed(id, o)' <=> r.buf <= o /\ o < r.buf + Least(Width, r.size)
        BY <1>9, <1>12 DEF Owed
      <4> HIDE DEF x
      <4> QED BY <1>8, <4>1
    <3> HIDE DEF x, v, w, z
    <3> QED BY <1>6, <3>1, <3>2, <3>3, <3>4 DEF Least
  <2>3. ASSUME NEW s \in DOMAIN stk, NEW o
        PROVE  (s \in DOMAIN stk' /\ stk'[s] = stk[s])
               \/ (Owed(s, o) /\ InBuffer(s[1], o) =>
                     Exchanged(s[1], o)' \/ \E q \in DOMAIN stk' : q[1] = s[1] /\ Owed(q, o)')
    <3>1. CASE s # c
      BY <1>12, <3>1
    <3>2. CASE s = c
      <4>1. SUFFICES ASSUME Owed(c, o), InBuffer(c[1], o) PROVE \E q \in DOMAIN stk' : q[1] = c[1] /\ Owed(q, o)'
        BY <3>2
      <4>2. o \in Int
        BY <4>1 DEF InBuffer
      <4>3. Owed(c, o)' \/ Owed(id, o)'
        BY <2>2, <4>1, <4>2
      <4> QED BY <1>3, <1>9, <1>12, <4>3
    <3> QED BY <3>1, <3>2
  <2> QED BY <1>1, <1>2, <2>1, <2>3, CoveredKept DEF Bytes
<1> QED BY <1>20, <1>21, <1>22, <1>23, <1>24, <1>25, <1>26 DEF TransferInv, Bytes

LEMMA NextBeatKeeps ==
  ASSUME TransferInv, NextBeat
  PROVE  TransferInv'
<1>0. PICK c, b, id, r, a, d : /\ c = Cur
                               /\ b = [S EXCEPT !.offset = @ + Width, !.left = @ - 1, !.size = @ - Width, !.count = @ + 1]
                               /\ id = Append(c, S.buf + S.offset) /\ r = Stack(S, S.offset, S.size, 0)
                               /\ a = Event("Words", id, 1) /\ d = Event("Beats", c, 1)
  OBVIOUS
<1>1. CASE S.left = 0 /\ events' = Tail(events) /\ UNCHANGED stk
  <2>1. BeatsEnd(c)
    BY <1>0, <1>1 DEF NextBeat, BeatsEnd
  <2> QED BY <2>1, NextBeatEnds
<1>2. CASE /\ S.left > 0
           /\ stk' = Put([stk EXCEPT ![Cur].offset = @ + Width, ![Cur].left = @ - 1, ![Cur].size = @ - Width, ![Cur].count = @ + 1],
                         Append(Cur, S.buf + S.offset), Stack(S, S.offset, S.size, 0))
           /\ events' = ScheduledAll(Tail(events), BeatEvents(Cur, Append(Cur, S.buf + S.offset)))
  <2>1. Typed /\ c \in DOMAIN stk /\ S = stk[c]
    BY <1>0, Due DEF NextBeat
  <2>2. [stk EXCEPT ![c].offset = @ + Width, ![c].left = @ - 1, ![c].size = @ - Width, ![c].count = @ + 1] = [stk EXCEPT ![c] = b]
    <3>1. stk[c] \in StackRec /\ stk \in [DOMAIN stk -> StackRec]
      BY <2>1 DEF Typed
    <3>2. b = [stk[c] EXCEPT !.offset = @ + Width, !.left = @ - 1, !.size = @ - Width, !.count = @ + 1]
      BY <1>0, <2>1
    <3> QED BY <2>1, <3>1, <3>2 DEF StackRec
  <2>3. BeatEvents(c, id) = <<a, d>>
    BY <1>0 DEF BeatEvents
  <2>4. BeatBegins(c, b, id, r, a, d)
    BY <1>0, <1>2, <2>2, <2>3 DEF NextBeat, BeatBegins
  <2> QED BY <2>4, NextBeatBegins
<1> QED BY <1>1, <1>2 DEF NextBeat

-----------------------------------------------------------------------------
(* The chunks of a transfer.                                               *)

LEMMA ChunkSize ==
  ASSUME NEW x \in StackRec, x.size > 0
  PROVE  Chunk(x) \in Nat /\ Chunk(x) > 0 /\ Chunk(x) <= x.size
<1> DEFINE g == Gran - (x.addr % Gran)
<1>1. Gran \in Nat /\ Gran > 0 /\ x.addr \in Nat /\ x.size \in Int
  BY TransferAssumption DEF StackRec
<1>2. x.addr % Gran \in 0..(Gran - 1)
  BY <1>1
<1>3. g \in Nat /\ g > 0
  BY <1>1, <1>2
<1> HIDE DEF g
<1>4. Min({x.size, g}) = Least(x.size, g)
  BY <1>1, <1>3, MinTwo
<1>5. Chunk(x) = Least(x.size, g)
  BY <1>4 DEF Chunk, g
<1> QED BY <1>1, <1>3, <1>5 DEF Least

\* The transfer c, which was or would be x, creates its next chunk id and goes on as b.
ChunkOf(c, x, b, id, r, a, d) ==
  /\ c \in Name /\ Len(c) = 1 /\ x \in StackRec /\ x.size > 0
  /\ id = Append(c, x.buf) /\ id \notin DOMAIN stk
  /\ b = [Stack(x, Chunk(x), x.size - Chunk(x), 0) EXCEPT !.count = x.count + 1] /\ r = Stack(x, 0, Chunk(x), 0)
  /\ a = Event("Chunk", id, Latency) /\ d = Event("Pre", c, Inter)
  /\ stk' = Put(Put(stk, c, b), id, r)
  /\ UNCHANGED <<path, portuse, memoplist, memory, told>>

LEMMA ChunkFields ==
  ASSUME NEW c, NEW x, NEW b, NEW id, NEW r, NEW a, NEW d, ChunkOf(c, x, b, id, r, a, d), NEW m, m = Chunk(x)
  PROVE  /\ c \in Name /\ Len(c) = 1 /\ x.buf \in Nat /\ x.addr \in Nat /\ x.size \in Int /\ x.count \in Nat
         /\ m \in Nat /\ m > 0 /\ m <= x.size
         /\ id \in Name /\ Len(id) = 2 /\ Front(id) = c /\ id[1] = c[1] /\ id[2] = x.buf /\ id \notin DOMAIN stk /\ id # c
         /\ b \in StackRec /\ b.addr = x.addr + m /\ b.buf = x.buf + m /\ b.size = x.size - m /\ b.count = x.count + 1
         /\ r \in StackRec /\ r.addr = x.addr /\ r.buf = x.buf /\ r.size = m /\ r.offset = 0 /\ r.count = 0
         /\ a \in EventRec /\ a.ev = "Chunk" /\ a.stack = id /\ a.left = Latency
         /\ d \in EventRec /\ d.ev = "Pre" /\ d.stack = c /\ d.left = Inter
<1>1. /\ c \in Name /\ Len(c) = 1 /\ x \in StackRec /\ x.size > 0 /\ id = Append(c, x.buf) /\ id \notin DOMAIN stk
      /\ a = Event("Chunk", id, Latency) /\ d = Event("Pre", c, Inter)
  BY DEF ChunkOf
<1>2. x.buf \in Nat /\ x.addr \in Nat /\ x.size \in Int /\ x.count \in Nat
  BY <1>1 DEF StackRec
<1>3. m \in Nat /\ m > 0 /\ m <= x.size
  BY <1>1, ChunkSize
<1>4. /\ b = [addr |-> x.addr + m, buf |-> x.buf + m, size |-> x.size - m, offset |-> 0, left |-> 0, count |-> x.count + 1]
      /\ r = [addr |-> x.addr + 0, buf |-> x.buf + 0, size |-> m, offset |-> 0, left |-> 0, count |-> 0]
  BY DEF ChunkOf, Stack
<1>5. x.addr + m \in Nat /\ x.buf + m \in Nat /\ x.size - m \in Int /\ x.count + 1 \in Nat /\ x.addr + 0 = x.addr /\ x.buf + 0 = x.buf
      /\ m \in Int /\ 0 \in Nat
  BY <1>2, <1>3
<1>6. b \in StackRec /\ r \in StackRec
  BY <1>2, <1>4, <1>5 DEF StackRec
<1>7. b.addr = x.addr + m /\ b.buf = x.buf + m /\ b.size = x.size - m /\ b.count = x.count + 1
  BY <1>4
<1>8. r.addr = x.addr /\ r.buf = x.buf /\ r.size = m /\ r.offset = 0 /\ r.count = 0
  BY <1>4, <1>5
<1>9. id \in Name /\ Len(id) = 2 /\ Front(id) = c /\ id[1] = c[1] /\ id[2] = x.buf /\ id # c
  <2>1. Len(c) < 4
    BY <1>1
  <2>2. id \in Name /\ Len(id) = Len(c) + 1 /\ Front(id) = c /\ id[1] = c[1] /\ id[Len(c) + 1] = x.buf /\ id # c
    BY <1>1, <1>2, <2>1, ChildName
  <2> QED BY <1>1, <2>2
<1>10. "Chunk" \in EventName /\ "Pre" \in EventName /\ Latency \in Nat /\ Inter \in Nat
  BY TransferAssumption DEF EventName
<1>11. a \in EventRec /\ a.ev = "Chunk" /\ a.stack = id /\ a.left = Latency
  <2>1. a = Event("Chunk", id, Latency) /\ id \in Name
    BY <1>1, <1>9
  <2> QED BY <1>10, <2>1, EventIsRec
<1>12. d \in EventRec /\ d.ev = "Pre" /\ d.stack = c /\ d.left = Inter
  <2>1. d = Event("Pre", c, Inter) /\ c \in Name
    BY <1>1
  <2> QED BY <1>10, <2>1, EventIsRec
<1> QED BY <1>1, <1>2, <1>3, <1>6, <1>7, <1>8, <1>9, <1>11, <1>12

ChunkMade(c, b, id, r) ==
  /\ DOMAIN stk' = DOMAIN stk \union {c, id} /\ stk' \in [DOMAIN stk' -> StackRec] /\ Closed(DOMAIN stk')
  /\ \A s \in DOMAIN stk' : Len(s) <= Leaf
  /\ stk'[c] = b /\ stk'[id] = r /\ \A s \in DOMAIN stk : s # c => stk'[s] = stk[s]
  /\ \A s : s # c => KidsIn(DOMAIN stk', s) = Kids(s) /\ Cardinality(KidsIn(DOMAIN stk', s)) = Below(s)
  /\ KidsIn(DOMAIN stk', c) = Kids(c) \union {id} /\ Cardinality(KidsIn(DOMAIN stk', c)) = Below(c) + 1
  /\ Kids(id) = {} /\ Below(id) = 0

LEMMA ChunkCreated ==
  ASSUME Typed, NEW c, NEW x, NEW b, NEW id, NEW r, NEW a, NEW d, ChunkOf(c, x, b, id, r, a, d)
  PROVE  ChunkMade(c, b, id, r)
<1>1. /\ c \in Name /\ Len(c) = 1 /\ id \in Name /\ Len(id) = 2 /\ Front(id) = c /\ id \notin DOMAIN stk /\ id # c
      /\ b \in StackRec /\ r \in StackRec
  BY ChunkFields
<1>2. stk \in [DOMAIN stk -> StackRec] /\ Closed(DOMAIN stk) /\ \A s \in DOMAIN stk : Len(s) <= Leaf
  BY DEF Typed
<1> DEFINE f == Put(stk, c, b)
           D == DOMAIN stk
           E == DOMAIN stk \union {c}
<1>3. stk' = Put(f, id, r)
  BY DEF ChunkOf
<1>4. f \in [DOMAIN stk \union {c} -> StackRec] /\ f \in [DOMAIN f -> StackRec]
  BY <1>1, <1>2, PutIn
<1>5. DOMAIN f = DOMAIN stk \union {c}
  BY <1>4
<1>6. f[c] = b /\ \A s \in DOMAIN stk : s # c => f[s] = stk[s]
  BY DEF Put
<1> HIDE DEF f
<1>7. stk' \in [DOMAIN f \union {id} -> StackRec] /\ stk' \in [DOMAIN stk' -> StackRec]
  BY <1>1, <1>3, <1>4, PutIn
<1>8. DOMAIN stk' = DOMAIN f \union {id}
  BY <1>7
<1>9. stk'[c] = b /\ stk'[id] = r /\ \A s \in DOMAIN stk : s # c => stk'[s] = stk[s]
  BY <1>1, <1>3, <1>5, <1>6 DEF Put
<1>10. ~(Len(c) > 1) /\ Len(id) > 1
  BY <1>1
<1>11. Closed(E) /\ \A s : KidsIn(E, s) = KidsIn(D, s)
  <2>1. IsFiniteSet(E)
    BY <1>2, FS_AddElement DEF Closed
  <2> QED BY <1>1, <1>2, <1>10, <2>1 DEF Closed, KidsIn
<1> HIDE DEF D, E
<1>12. id \notin E
  BY <1>1 DEF E
<1>13. /\ IsFiniteSet(E \union {id})
       /\ \A s : KidsIn(E \union {id}, s) = IF Len(id) > 1 /\ s = Front(id) THEN KidsIn(E, s) \union {id} ELSE KidsIn(E, s)
       /\ \A s : Cardinality(KidsIn(E \union {id}, s)) =
                   IF Len(id) > 1 /\ s = Front(id) THEN Cardinality(KidsIn(E, s)) + 1 ELSE Cardinality(KidsIn(E, s))
       /\ KidsIn(E, id) = {} /\ KidsIn(E \union {id}, id) = {} /\ Cardinality(KidsIn(E \union {id}, id)) = 0
  <2>1. id \in Name /\ Closed(E)
    BY <1>1, <1>11
  <2> QED BY <1>12, <2>1, KidsAdded
<1>14. Closed(E \union {id})
  <2>1. Front(id) \in E
    BY <1>1 DEF E
  <2> QED BY <1>1, <1>11, <1>13, <2>1 DEF Closed
<1>15. DOMAIN stk' = E \union {id}
  BY <1>5, <1>8 DEF E
<1>16. /\ \A s : s # c => KidsIn(DOMAIN stk', s) = Kids(s) /\ Cardinality(KidsIn(DOMAIN stk', s)) = Below(s)
       /\ KidsIn(DOMAIN stk', c) = Kids(c) \union {id} /\ Cardinality(KidsIn(DOMAIN stk', c)) = Below(c) + 1
       /\ Kids(id) = {}
  BY <1>1, <1>10, <1>11, <1>13, <1>15 DEF Kids, Below, D
<1>17. Below(id) = 0
  BY <1>16, FS_EmptySet DEF Below
<1>18. \A s \in DOMAIN stk' : Len(s) <= Leaf
  <2>1. Len(c) <= Leaf /\ Len(id) <= Leaf
    <3>1. Leaf = 2 \/ Leaf = 4
      BY DEF Leaf
    <3> QED BY <1>1, <3>1
  <2> QED BY <1>2, <1>15, <2>1 DEF E
<1>19. DOMAIN stk' = DOMAIN stk \union {c, id}
  BY <1>15 DEF E
<1>20. Closed(DOMAIN stk')
  BY <1>14, <1>15
<1> QED BY <1>7, <1>9, <1>16, <1>17, <1>18, <1>19, <1>20 DEF ChunkMade

\* What the step does to the events of c, of which it handles the first n, and why x agrees with the
\* task's access.
ChunkFits(c, x, n) ==
  /\ n \in Nat /\ \A i \in 1..Len(events) : i > n => ~(events[i].ev = "Pre" /\ events[i].stack = c)
  /\ \A i \in 1..Len(events) : i <= n => events[i].ev = "Pre"
  /\ Count(events', Of("Pre", c)) = 1 /\ \A y : y # "Pre" => Count(events', Of(y, c)) = N(y, c)
  /\ access'[c[1]] \in Accesses /\ told[c[1]] = 0
  /\ x.addr = access'[c[1]].addr + x.buf /\ x.buf + x.size = access'[c[1]].size
  /\ Below(c) + N("PreFinish", c) <= x.count
  /\ \A s \in DOMAIN stk : access'[s[1]] = access[s[1]]
  /\ \A s \in DOMAIN stk : Len(s) = 2 /\ Front(s) = c => s[2] \in Nat /\ s[2] < x.buf

\* The counts of the stacks, for the next two lemmas.
LEMMA ChunkCounts ==
  ASSUME TransferInv, NEW c, NEW x, NEW b, NEW id, NEW r, NEW a, NEW d, ChunkOf(c, x, b, id, r, a, d),
         NEW n \in Nat, NEW o, \A s \in Name : s # c => o.stack # s, ChunkFits(c, x, n), Becomes(events, events', n, o, a, d)
  PROVE  /\ \A s \in DOMAIN stk : s # c => SameCounts(s)
         /\ Count(events', Of("Chunk", id)) = 1 /\ \A y : y # "Chunk" => Count(events', Of(y, id)) = 0
         /\ Count(memoplist', {id}) = 0 /\ Unanswered(id)' = 0 /\ Unanswered(id) = 0
<1>1. Typed /\ Queued
  BY DEF TransferInv
<1>2. /\ id \in Name /\ id \notin DOMAIN stk /\ id # c /\ a.ev = "Chunk" /\ a.stack = id /\ d.stack = c
  BY ChunkFields
<1>3. UNCHANGED <<path, portuse, memoplist, memory, told>>
  BY DEF ChunkOf
<1>4. (\A y : N(y, id) = 0) /\ Waiting(id) = 0 /\ Unanswered(id) = 0
  BY <1>1, <1>2, NoneYet
<1>5. Count(events', Of("Chunk", id)) = 1 /\ \A y : y # "Chunk" => Count(events', Of(y, id)) = 0
  <2>1. id \in Name /\ o.stack # id /\ a.stack = id /\ d.stack # id
    BY <1>2
  <2>2. /\ Count(events', Of(a.ev, id)) = N(a.ev, id) + 1
        /\ \A y : y # a.ev => Count(events', Of(y, id)) = N(y, id)
    BY <2>1, Arrives
  <2> QED BY <1>2, <1>4, <2>2
<1>6. ASSUME NEW s \in DOMAIN stk, s # c
      PROVE  SameCounts(s)
  <2>1. s \in Name
    BY <1>1, <1>6 DEF Typed, Closed
  <2>2. o.stack # s /\ a.stack # s /\ d.stack # s
    BY <1>2, <1>6, <2>1
  <2>3. \A y : Count(events', Of(y, s)) = N(y, s)
    BY <2>1, <2>2, Aside
  <2>4. stk'[s] = stk[s] /\ Cardinality(KidsIn(DOMAIN stk', s)) = Below(s)
    BY <1>1, <1>6, ChunkCreated DEF ChunkMade
  <2>5. access'[s[1]] = access[s[1]]
    BY <1>6 DEF ChunkFits
  <2> QED BY <1>3, <2>3, <2>4, <2>5 DEF SameCounts, Waiting, Unanswered
<1>7. Count(memoplist', {id}) = 0 /\ Unanswered(id)' = 0
  BY <1>3, <1>4 DEF Waiting, Unanswered
<1> QED BY <1>4, <1>5, <1>6, <1>7

\* The next chunk does not come after the end of the chunks before.
LEMMA InterHolds ==
  ASSUME NEW l \in BOOLEAN
  PROVE  Extra[l] \in Nat /\ Inter <= Latency + Extra[l] + 1
<1>1. PICK p, q, w : p = Extra[TRUE] /\ q = Extra[FALSE] /\ w = Extra[l]
  OBVIOUS
<1>2. Extra \in [BOOLEAN -> Nat] /\ TRUE \in BOOLEAN /\ FALSE \in BOOLEAN
  BY TransferAssumption
<1>3. \A k \in BOOLEAN : Extra[k] \in Nat
  BY <1>2
<1>4. p \in Nat /\ q \in Nat /\ w \in Nat
  BY <1>1, <1>2, <1>3, Zenon
<1>5. Inter <= Latency + Min({Extra[TRUE], Extra[FALSE]}) + 1 /\ Inter \in Nat /\ Latency \in Nat
  BY TransferAssumption
<1>6. Inter <= Latency + Min({p, q}) + 1
  BY <1>1, <1>5, Zenon
<1>7. Min({p, q}) = Least(p, q)
  BY <1>4, MinTwo
<1>8. Inter <= Latency + Least(p, q) + 1
  BY <1>6, <1>7, Zenon
<1>9. w = p \/ w = q
  <2>1. l = TRUE \/ l = FALSE
    OBVIOUS
  <2> QED BY <1>1, <2>1, Zenon
<1>10. Inter <= Latency + w + 1
  BY <1>4, <1>5, <1>8, <1>9 DEF Least
<1> QED BY <1>1, <1>4, <1>10, Zenon

LEMMA ChunkStarts ==
  ASSUME TransferInv, NEW c, NEW x, NEW b, NEW id, NEW r, NEW a, NEW d, ChunkOf(c, x, b, id, r, a, d),
         NEW n \in Nat, NEW o, \A s \in Name : s # c => o.stack # s, ChunkFits(c, x, n), Becomes(events, events', n, o, a, d)
  PROVE  Queued' /\ Counted' /\ Held' /\ Continues'
<1>1. Typed /\ Queued /\ Counted /\ Held /\ Continues /\ Bytes
  BY DEF TransferInv
<1>2. UNCHANGED <<path, portuse, memoplist, memory, told>>
  BY DEF ChunkOf
<1>3. /\ c \in Name /\ Len(c) = 1 /\ id \in Name /\ Len(id) = 2 /\ Front(id) = c /\ id \notin DOMAIN stk /\ id # c
      /\ a \in EventRec /\ a.ev = "Chunk" /\ a.stack = id /\ a.left = Latency
      /\ d \in EventRec /\ d.ev = "Pre" /\ d.stack = c /\ d.left = Inter
      /\ b.count = x.count + 1 /\ r.count = 0 /\ id[1] = c[1] /\ x.count \in Nat /\ x.size \in Int
  <2>1. PICK m : m = Chunk(x)
    OBVIOUS
  <2> QED BY <2>1, ChunkFields
<1>4. /\ DOMAIN stk' = DOMAIN stk \union {c, id} /\ stk' \in [DOMAIN stk' -> StackRec] /\ Closed(DOMAIN stk')
      /\ \A s \in DOMAIN stk' : Len(s) <= Leaf
      /\ stk'[c] = b /\ stk'[id] = r /\ \A s \in DOMAIN stk : s # c => stk'[s] = stk[s]
      /\ \A s : s # c => KidsIn(DOMAIN stk', s) = Kids(s) /\ Cardinality(KidsIn(DOMAIN stk', s)) = Below(s)
      /\ KidsIn(DOMAIN stk', c) = Kids(c) \union {id} /\ Cardinality(KidsIn(DOMAIN stk', c)) = Below(c) + 1
      /\ Kids(id) = {} /\ Below(id) = 0
  <2>1. ChunkMade(c, b, id, r)
    BY <1>1, ChunkCreated
  <2> QED BY <2>1 DEF ChunkMade
<1>5. Closed(DOMAIN stk')
  BY <1>4
<1>6. /\ \A s \in DOMAIN stk : s # c => SameCounts(s)
      /\ Count(events', Of("Chunk", id)) = 1 /\ \A y : y # "Chunk" => Count(events', Of(y, id)) = 0
      /\ Count(memoplist', {id}) = 0 /\ Unanswered(id)' = 0
  BY ChunkCounts
<1>7. /\ \A i \in 1..Len(events) : i > n => ~(events[i].ev = "Pre" /\ events[i].stack = c)
      /\ \A i \in 1..Len(events) : i <= n => events[i].ev = "Pre"
      /\ Count(events', Of("Pre", c)) = 1 /\ \A y : y # "Pre" => Count(events', Of(y, c)) = N(y, c)
      /\ access'[c[1]] \in Accesses /\ told[c[1]] = 0
      /\ Below(c) + N("PreFinish", c) <= x.count
      /\ \A s \in DOMAIN stk : access'[s[1]] = access[s[1]]
  BY DEF ChunkFits
<1>8. \A s \in DOMAIN stk : s \in Name
  BY <1>1 DEF Typed, Closed
<1>9. Leaf' = Leaf /\ (Leaf = 2 \/ Leaf = 4)
  BY <1>2 DEF Leaf
<1>10. Queued'
  <2>1. "Chunk" \in Kinds(2) /\ "Pre" \in Kinds(1)
    BY DEF Kinds
  <2>2. a.stack \in DOMAIN stk' /\ a.ev \in Kinds(Len(a.stack))
    BY <1>3, <1>4, <2>1
  <2>3. d.stack \in DOMAIN stk' /\ d.ev \in Kinds(Len(d.stack))
    BY <1>3, <1>4, <2>1
  <2>4. DOMAIN stk \ DOMAIN stk' = {}
    BY <1>4
  <2> QED BY <1>1, <1>2, <1>3, <2>2, <2>3, <2>4, QueuedKept
<1>11. Counted'
  <2>1. SUFFICES ASSUME NEW s \in DOMAIN stk' PROVE CountedFor(s)'
    BY DEF Counted
  <2>2. CASE s \in DOMAIN stk /\ s # c
    <3>1. CountedFor(s) /\ SameCounts(s)
      BY <1>1, <1>6, <2>2 DEF Counted
    <3> QED BY <1>2, <3>1, CountedSame
  <2>3. CASE s = c
    <3>1. /\ N("Pre", c)' = 1 /\ Below(c)' = Below(c) + 1 /\ N("PreFinish", c)' = N("PreFinish", c)
          /\ stk'[c].count = x.count + 1
      BY <1>3, <1>4, <1>7 DEF N, Below, Kids
    <3>2. Below(c)' + N("PreFinish", c)' <= stk'[c].count
      <4>1. Below(c) \in Nat /\ N("PreFinish", c) \in Nat
        BY <1>1, NumbersAt
      <4> QED BY <1>3, <1>7, <3>1, <4>1
    <3>3. access'[c[1]] # None /\ told'[c[1]] = 0
      BY <1>2, <1>7, TransferAssumption
    <3>4. TransferCounted(c)'
      BY <3>1, <3>2, <3>3 DEF TransferCounted
    <3>5. Len(c) # 2 /\ Len(c) # 3 /\ Len(c) # Leaf'
      BY <1>3, <1>9
    <3>6. CountedFor(c)'
      BY <3>4, <3>5 DEF CountedFor
    <3> QED BY <2>3, <3>6
  <2>4. CASE s = id
    <3>1. /\ N("Chunk", id)' = 1 /\ N("Words", id)' = 0 /\ N("Memory", id)' = 0 /\ N("WordFinish", id)' = 0
          /\ N("Bursts", id)' = 0 /\ N("Finish", id)' = 0 /\ Below(id)' = 0
          /\ Waiting(id)' = 0 /\ Unanswered(id)' = 0 /\ stk'[id].count = 0
      BY <1>3, <1>4, <1>6 DEF N, Waiting, Below, Kids
    <3>2. LeafCounted(id)'
      BY <3>1 DEF LeafCounted
    <3>3. ChunkCounted(id)'
      BY <3>1 DEF ChunkCounted
    <3>4. Len(id) # 1 /\ Len(id) # 3
      BY <1>3
    <3>5. CountedFor(id)'
      BY <3>2, <3>3, <3>4 DEF CountedFor
    <3> QED BY <2>4, <3>5
  <2> QED BY <1>4, <2>2, <2>3, <2>4
<1>12. \A s \in DOMAIN stk : ~Under(s, id)
  <2>1. SUFFICES ASSUME NEW s \in DOMAIN stk, Under(s, id) PROVE FALSE
    OBVIOUS
  <2>2. s \in Name
    BY <1>8
  <2>3. s = id \/ (Len(s) = 3 /\ Front(s) = id) \/ (Len(s) = 4 /\ Len(Front(s)) = 3 /\ Front(Front(s)) = id)
    BY <1>3, <2>1, <2>2, UnderIs
  <2>4. \A y \in DOMAIN stk : Len(y) > 1 => Front(y) \in DOMAIN stk
    BY <1>1 DEF Typed, Closed
  <2>5. CASE Len(s) = 3 /\ Front(s) = id
    <3>1. Len(s) > 1
      BY <2>5
    <3> QED BY <1>3, <2>4, <2>5, <3>1
  <2>6. CASE Len(s) = 4 /\ Len(Front(s)) = 3 /\ Front(Front(s)) = id
    <3>1. Len(s) > 1 /\ Len(Front(s)) > 1
      BY <2>6
    <3> QED BY <1>3, <2>4, <2>6, <3>1
  <2> QED BY <1>3, <2>3, <2>5, <2>6
<1>13. Held'
  <2>1. ASSUME NEW j \in 1..Len(events'), events'[j] \in {a, d} \ {Nothing}, events'[j].ev = "Pre"
        PROVE  HeldBy(j, id)'
    <3>1. events'[j].stack = c /\ events'[j].left = Inter
      BY <1>3, <2>1
    <3>2. ASSUME NEW k \in 1..Len(events'), Under(events'[k].stack, id)
          PROVE  InTime(events[j], events[k], id, j < k)'
      <4>1. PICK from : Follows(events, events', n, {a, d} \ {Nothing}, from)
        BY DEF Becomes, Grown
      <4>2. from[k] = 0
        <5>1. SUFFICES ASSUME from[k] # 0 PROVE FALSE
          OBVIOUS
        <5>2. from[k] \in 1..Len(events) /\ events'[k] = events[from[k]]
          BY <3>2, <4>1, <5>1 DEF Follows
        <5>3. events[from[k]].stack \in DOMAIN stk
          BY <1>1, <5>2 DEF Queued
        <5> QED BY <1>12, <3>2, <5>2, <5>3
      <4>3. events'[k] = a \/ events'[k] = d
        BY <3>2, <4>1, <4>2 DEF Follows
      <4>4. events'[k] # d
        <5>1. SUFFICES ASSUME events'[k] = d PROVE FALSE
          OBVIOUS
        <5>2. Under(c, id)
          BY <1>3, <3>2, <5>1
        <5>3. c = id \/ Len(c) = 3 \/ Len(c) = 4
          BY <1>3, <5>2, UnderIs
        <5> QED BY <1>3, <5>3
      <4>5. events'[k].ev = "Chunk" /\ events'[k].left = Latency
        BY <1>3, <4>3, <4>4
      <4>6. Inter <= Latency + Slack("Chunk", IsLoad(id))'
        <5>1. IsLoad(id)' \in BOOLEAN
          BY <1>3, <1>7, TransferAssumption DEF IsLoad
        <5> DEFINE l == IsLoad(id)'
        <5>2. Slack("Chunk", IsLoad(id))' = IF path = "burst" THEN Extra[l] + 1 ELSE MemoryLatency
          BY <1>2 DEF Slack
        <5> HIDE DEF l
        <5>3. Extra[l] \in Nat /\ Inter <= Latency + Extra[l] + 1
          BY <5>1, InterHolds DEF l
        <5>4. Inter <= Latency + MemoryLatency /\ Latency \in Nat /\ Inter \in Nat /\ MemoryLatency \in Nat
          BY TransferAssumption
        <5> QED BY <5>2, <5>3, <5>4
      <4>7. ~Late("Chunk")'
        BY DEF Late
      <4> QED BY <3>1, <4>5, <4>6, <4>7 DEF InTime
    <3>3. \A s \in DOMAIN memory' : ~Under(s, id)
      BY <1>1, <1>2, <1>12 DEF Typed
    <3> QED BY <1>3, <1>6, <3>1, <3>2, <3>3 DEF HeldBy, Waiting
  <2>2. ASSUME NEW i \in 1..Len(events), NEW h \in DOMAIN stk, i > n, events[i].ev = "Pre", HeldBy(i, h)
        PROVE  StaysHeld(i, h, n, a, d)
    <3>1. Len(h) = 2 /\ h \in Name /\ h # id /\ h # c
      <4>1. Len(h) = 2 /\ h \in Name /\ h # id
        BY <1>3, <1>8, <2>2 DEF HeldBy
      <4>2. Len(c) # 2
        BY <1>3
      <4> QED BY <4>1, <4>2
    <3>2. ~Under(id, h)
      <4>1. Len(id) # 3 /\ Len(id) # 4
        BY <1>3
      <4> QED BY <1>3, <3>1, <4>1, UnderIs
    <3>3. ~Under(c, h)
      <4>1. Len(c) # 3 /\ Len(c) # 4
        BY <1>3
      <4> QED BY <1>3, <3>1, <4>1, UnderIs
    <3>4. AddedInTime(i, a, h) /\ AddedInTime(i, d, h)
      BY <1>3, <3>2, <3>3 DEF AddedInTime
    <3>5. \A k \in 1..Len(events) : Under(events[k].stack, h) /\ events[k].ev = "Bursts" => stk'[h].left > 0
      BY <1>4, <2>2, <3>1 DEF HeldBy, InTime
    <3>6. IsLoad(h)' = IsLoad(h) /\ h \in DOMAIN stk'
      BY <1>4, <1>7, <2>2 DEF IsLoad
    <3> QED BY <1>2, <2>2, <3>4, <3>5, <3>6 DEF StaysHeld, HeldBy, Waiting
  <2>3. id \in DOMAIN stk'
    BY <1>4
  <2>4. \A j \in 1..Len(events') :
          events'[j] \in {a, d} \ {Nothing} /\ events'[j].ev = "Pre" => \E h \in DOMAIN stk' : HeldBy(j, h)'
    BY <2>1, <2>3
  <2> QED BY <1>1, <1>2, <2>2, <2>4, HeldWith
<1>14. Continues'
  <2>1. ASSUME NEW i \in 1..Len(events), events[i].ev = "Beats"
        PROVE  Untouched(events[i].stack, n)
    <3>1. events[i].stack \in DOMAIN stk /\ Len(events[i].stack) = 3
      BY <1>1, <2>1, BeatsAt
    <3>2. events[i].stack # c
      <4>1. Len(c) # 3
        BY <1>3
      <4> QED BY <3>1, <4>1
    <3>3. \A k \in 1..Len(events) : k <= n => events[k].ev # "Words"
      BY <1>7
    <3>4. SameCounts(events[i].stack) /\ KidsIn(DOMAIN stk', events[i].stack) = Kids(events[i].stack)
      BY <1>4, <1>6, <3>1, <3>2
    <3> QED BY <3>3, <3>4 DEF Untouched, SameCounts
  <2>2. a.ev # "Beats" /\ d.ev # "Beats"
    BY <1>3
  <2> QED BY <1>1, <2>1, <2>2, ContinuesStep
<1> QED BY <1>10, <1>11, <1>13, <1>14

LEMMA ChunkBytes ==
  ASSUME TransferInv, NEW c, NEW x, NEW b, NEW id, NEW r, NEW a, NEW d, ChunkOf(c, x, b, id, r, a, d),
         NEW n \in Nat, NEW o, \A s \in Name : s # c => o.stack # s, ChunkFits(c, x, n), Becomes(events, events', n, o, a, d)
  PROVE  /\ \A s \in DOMAIN stk' : Passed(s)' /\ Sized(s)'
         /\ \A y \in Int : x.buf <= y => Owed(c, y)' \/ Owed(id, y)'
<1>0. PICK m : m = Chunk(x)
  OBVIOUS
<1>1. Typed /\ Queued /\ Counted /\ Bytes
  BY DEF TransferInv
<1>2. UNCHANGED <<path, portuse, memoplist, memory, told>>
  BY DEF ChunkOf
<1>3. /\ c \in Name /\ Len(c) = 1 /\ x.buf \in Nat /\ x.addr \in Nat /\ x.size \in Int
      /\ m \in Nat /\ m > 0 /\ m <= x.size
      /\ id \in Name /\ Len(id) = 2 /\ Front(id) = c /\ id[1] = c[1] /\ id[2] = x.buf /\ id \notin DOMAIN stk /\ id # c
      /\ b.addr = x.addr + m /\ b.buf = x.buf + m /\ b.size = x.size - m
      /\ r.addr = x.addr /\ r.buf = x.buf /\ r.size = m /\ r.offset = 0
  BY <1>0, ChunkFields
<1>4. ChunkMade(c, b, id, r)
  BY <1>1, ChunkCreated
<1>5. /\ DOMAIN stk' = DOMAIN stk \union {c, id} /\ stk'[c] = b /\ stk'[id] = r
      /\ \A s \in DOMAIN stk : s # c => stk'[s] = stk[s]
      /\ \A s : s # c => Cardinality(KidsIn(DOMAIN stk', s)) = Below(s)
      /\ Below(id) = 0
  BY <1>4 DEF ChunkMade
<1>6. /\ \A s \in DOMAIN stk : s # c => SameCounts(s)
      /\ Count(events', Of("Chunk", id)) = 1 /\ \A y : y # "Chunk" => Count(events', Of(y, id)) = 0
      /\ Count(memoplist', {id}) = 0
  BY ChunkCounts
<1>7. /\ access'[c[1]] \in Accesses
      /\ x.addr = access'[c[1]].addr + x.buf /\ x.buf + x.size = access'[c[1]].size
      /\ \A s \in DOMAIN stk : Len(s) = 2 /\ Front(s) = c => s[2] \in Nat /\ s[2] < x.buf
  BY DEF ChunkFits
<1>8. access'[c[1]].addr \in Nat /\ access'[c[1]].size \in Nat
  BY <1>7, TransferAssumption
<1>9. ASSUME NEW s \in DOMAIN stk'
      PROVE  Passed(s)' /\ Sized(s)'
  <2>1. CASE s \in DOMAIN stk /\ s # c
    <3>0. s \in Name /\ \A y \in DOMAIN stk : Len(y) > 1 => Front(y) \in DOMAIN stk
      BY <1>1, <2>1 DEF Typed, Closed
    <3>1. Sized(s) /\ Passed(s)
      BY <1>1, <2>1 DEF Bytes
    <3>2. Sized(s)'
      BY <1>6, <2>1, <3>1, SizedAside, SizedKept
    <3>3. Len(s) = 2 => s[2] \in Nat /\ s[2] < stk'[Front(s)].buf
      <4>1. SUFFICES ASSUME Len(s) = 2 PROVE s[2] \in Nat /\ s[2] < stk'[Front(s)].buf
        OBVIOUS
      <4>2. CASE Front(s) = c
        <5>1. s[2] \in Nat /\ s[2] < x.buf
          BY <1>7, <2>1, <4>1, <4>2
        <5>2. s[2] < x.buf + m
          BY <1>3, <5>1
        <5> QED BY <1>3, <1>5, <4>2, <5>1, <5>2
      <4>3. CASE Front(s) # c
        <5>1. Len(s) > 1
          BY <4>1
        <5>2. stk'[Front(s)] = stk[Front(s)]
          BY <1>5, <2>1, <3>0, <4>3, <5>1
        <5> QED BY <3>1, <4>1, <5>2 DEF Passed
      <4> QED BY <4>2, <4>3
    <3>4. Len(s) = 4 => s[4] \in Nat /\ s[4] < stk'[Front(s)].buf + stk'[Front(s)].offset
      <4>1. SUFFICES ASSUME Len(s) = 4 PROVE s[4] \in Nat /\ s[4] < stk'[Front(s)].buf + stk'[Front(s)].offset
        OBVIOUS
      <4>2. Len(Front(s)) = 3 /\ Len(c) # 3 /\ Len(s) > 1
        BY <1>3, <3>0, <4>1, ParentLevel
      <4>3. Front(s) # c
        BY <4>2
      <4>4. stk'[Front(s)] = stk[Front(s)]
        BY <1>5, <2>1, <3>0, <4>2, <4>3
      <4> QED BY <3>1, <4>1, <4>4 DEF Passed
    <3> QED BY <3>2, <3>3, <3>4 DEF Passed
  <2>2. CASE s = c
    <3>1. Len(c) # 2 /\ Len(c) # 4
      BY <1>3
    <3>2. Passed(c)'
      BY <3>1 DEF Passed
    <3>3. stk'[c].addr = access'[c[1]].addr + stk'[c].buf
      <4> DEFINE z == access'[c[1]].addr
      <4>1. z \in Nat /\ x.addr = z + x.buf
        BY <1>7, <1>8
      <4> HIDE DEF z
      <4>2. b.addr = z + b.buf
        BY <1>3, <4>1
      <4> QED BY <1>5, <4>2 DEF z
    <3>4. stk'[c].size >= 0 /\ stk'[c].buf + stk'[c].size = access'[c[1]].size
      <4> DEFINE z == access'[c[1]].size
      <4>1. z \in Nat /\ x.buf + x.size = z
        BY <1>7, <1>8
      <4> HIDE DEF z
      <4>2. b.size >= 0 /\ b.buf + b.size = z
        BY <1>3, <4>1
      <4> QED BY <1>5, <4>2 DEF z
    <3>5. Sized(c)'
      BY <3>1, <3>3, <3>4 DEF Sized
    <3> QED BY <2>2, <3>2, <3>5
  <2>3. CASE s = id
    <3>1. Len(id) # 1 /\ Len(id) # 4
      BY <1>3
    <3>2. Passed(id)'
      <4>1. id[2] \in Nat /\ id[2] < b.buf
        BY <1>3
      <4>2. id[2] \in Nat /\ id[2] < stk'[Front(id)].buf
        BY <1>3, <1>5, <4>1
      <4> QED BY <3>1, <4>2 DEF Passed
    <3>3. stk'[id].addr = access'[id[1]].addr + stk'[id].buf /\ stk'[id].size > 0
      <4>1. r.addr = access'[c[1]].addr + r.buf
        BY <1>3, <1>7
      <4>2. access'[id[1]] = access'[c[1]]
        BY <1>3
      <4>3. stk'[id] = r /\ r.size > 0
        BY <1>3, <1>5
      <4> QED BY <4>1, <4>2, <4>3, Zenon
    <3>4. N("Bursts", id)' + Below(id)' = 0 /\ N("Finish", id)' = 0
      <4>1. Count(events', Of("Bursts", id)) = 0 /\ Count(events', Of("Finish", id)) = 0
        BY <1>6
      <4>2. Cardinality(KidsIn(DOMAIN stk', id)) = 0
        BY <1>3, <1>5
      <4>3. N("Bursts", id)' = 0 /\ Below(id)' = 0 /\ N("Finish", id)' = 0
        BY <4>1, <4>2 DEF N, Below, Kids
      <4> QED BY <4>3
    <3>5. Sized(id)'
      BY <3>1, <3>3, <3>4 DEF Sized
    <3> QED BY <2>3, <3>2, <3>5
  <2> QED BY <1>5, <2>1, <2>2, <2>3
<1>10. ASSUME NEW y \in Int, x.buf <= y
       PROVE  Owed(c, y)' \/ Owed(id, y)'
  <2>1. Owed(c, y)' <=> b.buf <= y
    BY <1>3, <1>5 DEF Owed
  <2>2. r.buf <= y /\ y < r.buf + r.size => Owed(id, y)'
    <3>1. SUFFICES ASSUME r.buf <= y, y < r.buf + r.size PROVE Owed(id, y)'
      OBVIOUS
    <3>2. r.buf + r.offset <= y /\ y < r.buf + r.offset + r.size
      BY <1>3, <3>1
    <3>3. Len(id) # 1 /\ Len(id) = 2 /\ stk'[id] = r
      BY <1>3, <1>5
    <3> QED BY <3>1, <3>2, <3>3 DEF Owed
  <2> QED BY <1>3, <1>10, <2>1, <2>2
<1> QED BY <1>9, <1>10

ChunksEnd(c) ==
  /\ Handles("Pre") /\ c = Cur /\ S.size <= 0 /\ events' = Tail(events)
  /\ UNCHANGED <<path, access, stk, portuse, memoplist, memory, image, told>>

LEMMA NextChunkEnds ==
  ASSUME TransferInv, NEW c, ChunksEnd(c)
  PROVE  TransferInv'
<1>0. PICK e : e = events[1]
  OBVIOUS
<1>1. Typed /\ Queued /\ Counted /\ Held /\ Continues /\ Bytes
  BY DEF TransferInv
<1>2. /\ Handles("Pre") /\ c = Cur /\ events' = Tail(events)
      /\ UNCHANGED <<path, access, stk, portuse, memoplist, memory, image, told>>
  BY DEF ChunksEnd
<1>3. /\ IsQueue(events, EventRec) /\ events # <<>> /\ e.ev = "Pre" /\ e.left = 0 /\ e.stack = c
      /\ c \in DOMAIN stk /\ c \in Name /\ "Pre" \in Kinds(Len(c)) /\ Len(c) <= Leaf
      /\ N("Pre", c) > 0 /\ stk[c] \in StackRec /\ S = stk[c] /\ CountedFor(c) /\ 1 \in 1..Len(events)
  BY <1>0, <1>2, Due
<1>4. Len(c) = 1 /\ Leaf \in {2, 4} /\ stk[c].size <= 0 /\ stk[c].size \in Int
  BY <1>1, <1>3, Level DEF Typed, ChunksEnd, StackRec
<1>5. Becomes(events, events', 1, e, Nothing, Nothing)
  BY <1>0, <1>2, <1>3, HandledNone
<1>6. \A s \in DOMAIN stk : s \in Name /\ Nothing.stack # s
  BY <1>1, NothingAside DEF Typed, Closed
<1>7. Count(events', Of("Pre", c)) = N("Pre", c) - 1 /\ \A x : x # "Pre" => Count(events', Of(x, c)) = N(x, c)
  <2>1. c \in Name /\ e.stack = c /\ Nothing.stack # c
    BY <1>3, <1>6
  <2>2. /\ Count(events', Of(e.ev, c)) = N(e.ev, c) - 1
        /\ \A x : x # e.ev => Count(events', Of(x, c)) = N(x, c)
    BY <1>5, <2>1, Leaves
  <2> QED BY <1>3, <2>2
<1>8. ASSUME NEW s \in DOMAIN stk, s # c
      PROVE  SameCounts(s)
  <2>1. \A x : Count(events', Of(x, s)) = N(x, s)
    BY <1>3, <1>5, <1>6, <1>8, Aside
  <2> QED BY <1>2, <2>1 DEF SameCounts, Waiting, Unanswered, Below, Kids
<1>9. Leaf' = Leaf
  BY <1>2 DEF Leaf
<1>10. Typed'
  BY <1>1, <1>2, <1>9 DEF Typed
<1>11. Queued'
  <2>1. DOMAIN stk \ DOMAIN stk' = {} /\ 1 \in Nat
    BY <1>2
  <2> QED BY <1>1, <1>2, <1>5, <2>1, QueuedKept
<1>12. Counted'
  <2>1. SUFFICES ASSUME NEW s \in DOMAIN stk PROVE CountedFor(s)'
    BY <1>2 DEF Counted
  <2>2. CountedFor(s)
    BY <1>1 DEF Counted
  <2>3. CASE s # c
    BY <1>2, <1>8, <2>2, <2>3, CountedSame
  <2>4. CASE s = c
    <3>1. TransferCounted(c)
      BY <1>3, <1>4 DEF CountedFor
    <3>2. N("Pre", c)' <= 1 /\ ~(stk'[c].size > 0)
      <4>1. N("Pre", c) \in Nat /\ N("Pre", c) <= 1
        BY <1>1, <3>1, Numbers DEF TransferCounted
      <4>2. N("Pre", c)' = N("Pre", c) - 1
        BY <1>7 DEF N
      <4> QED BY <1>2, <1>4, <4>1, <4>2
    <3>3. Below(c)' + N("PreFinish", c)' <= stk'[c].count
      BY <1>2, <1>7, <3>1 DEF TransferCounted, N, Below, Kids
    <3>4. TransferCounted(c)'
      BY <1>2, <3>1, <3>2, <3>3 DEF TransferCounted
    <3>5. Len(c) # 2 /\ Len(c) # 3 /\ Len(c) # Leaf'
      BY <1>4, <1>9
    <3>6. CountedFor(c)'
      BY <3>4, <3>5 DEF CountedFor
    <3> QED BY <2>4, <3>6
  <2> QED BY <2>3, <2>4
<1>13. Held'
  <2>1. ASSUME NEW i \in 1..Len(events), NEW h \in DOMAIN stk, HeldBy(i, h)
        PROVE  StaysHeld(i, h, 1, Nothing, Nothing)
    <3>1. \A k \in 1..Len(events) : Under(events[k].stack, h) /\ events[k].ev = "Bursts" => stk[h].left > 0
      BY <2>1 DEF HeldBy, InTime
    <3>2. AddedInTime(i, Nothing, h) /\ IsLoad(h)' = IsLoad(h)
      BY <1>2 DEF AddedInTime, IsLoad
    <3> QED BY <1>2, <2>1, <3>1, <3>2 DEF StaysHeld, HeldBy, Waiting
  <2> QED BY <1>1, <1>2, <1>5, <2>1, HeldStep, NothingEv
<1>14. Continues'
  <2>1. ASSUME NEW i \in 1..Len(events), events[i].ev = "Beats"
        PROVE  Untouched(events[i].stack, 1)
    <3>1. events[i].stack \in DOMAIN stk
      BY <1>1, <2>1, BeatsAt
    <3>2. Count(events', Of("BeatFinish", events[i].stack)) = N("BeatFinish", events[i].stack)
      <4>1. "BeatFinish" # "Pre"
        OBVIOUS
      <4> QED BY <1>7, <1>8, <3>1, <4>1 DEF SameCounts
    <3>3. \A k \in 1..Len(events) : k <= 1 => events[k].ev # "Words"
      BY <1>0, <1>3
    <3> QED BY <1>2, <3>2, <3>3 DEF Untouched, Kids
  <2> QED BY <1>1, <1>5, <2>1, ContinuesStep, NothingEv
<1>15. Bytes'
  <2>1. ASSUME NEW s \in DOMAIN stk
        PROVE  SizedSame(s)
    <3>1. CASE s = c
      <4>1. Len(s) # 2
        BY <1>4, <3>1
      <4> QED BY <1>2, <4>1 DEF SizedSame
    <3>2. CASE s # c
      BY <1>8, <3>2, SizedAside
    <3> QED BY <3>1, <3>2
  <2> QED BY <1>1, <1>2, <2>1, BytesSame DEF Typed
<1> QED BY <1>10, <1>11, <1>12, <1>13, <1>14, <1>15 DEF TransferInv

ChunkBegins(c, b, id, r, a, d) ==
  /\ Handles("Pre") /\ c = Cur /\ S.size > 0
  /\ ChunkOf(c, S, b, id, r, a, d) /\ events' = ScheduledAll(Tail(events), <<a, d>>)
  /\ UNCHANGED <<access, image>>

LEMMA NextChunkBegins ==
  ASSUME TransferInv, NEW c, NEW b, NEW id, NEW r, NEW a, NEW d, ChunkBegins(c, b, id, r, a, d)
  PROVE  TransferInv'
<1>0. PICK e, x : e = events[1] /\ x = S
  OBVIOUS
<1>1. Typed /\ Queued /\ Counted /\ Held /\ Continues /\ Bytes
  BY DEF TransferInv
<1>2. /\ Handles("Pre") /\ c = Cur /\ events' = ScheduledAll(Tail(events), <<a, d>>) /\ UNCHANGED <<access, image>>
      /\ ChunkOf(c, x, b, id, r, a, d)
  BY <1>0 DEF ChunkBegins
<1>3. /\ IsQueue(events, EventRec) /\ events # <<>> /\ e.ev = "Pre" /\ e.left = 0 /\ e.stack = c
      /\ c \in DOMAIN stk /\ c \in Name /\ "Pre" \in Kinds(Len(c)) /\ Len(c) <= Leaf
      /\ N("Pre", c) > 0 /\ stk[c] \in StackRec /\ S = stk[c] /\ CountedFor(c) /\ 1 \in 1..Len(events)
  BY <1>0, <1>2, Due
<1>4. Len(c) = 1 /\ x = stk[c]
  BY <1>0, <1>1, <1>3, Level DEF Typed
<1>5. UNCHANGED <<path, portuse, memoplist, memory, told>>
  BY <1>2 DEF ChunkOf
<1>6. a \in EventRec /\ d \in EventRec /\ d.ev = "Pre" /\ d.stack = c /\ a.stack = id /\ id # c /\ id[1] = c[1]
  <2>1. PICK m : m = Chunk(x)
    OBVIOUS
  <2> QED BY <1>2, <2>1, ChunkFields
<1>7. Becomes(events, events', 1, e, a, d)
  BY <1>0, <1>2, <1>3, <1>6, HandledTwo
<1>8. TransferCounted(c) /\ N("Pre", c) = 1
  <2>1. TransferCounted(c)
    BY <1>3, <1>4 DEF CountedFor
  <2>2. N("Pre", c) \in Nat /\ N("Pre", c) <= 1
    BY <1>1, <2>1, Numbers DEF TransferCounted
  <2> QED BY <1>3, <2>1, <2>2
<1>9. \A s \in DOMAIN stk : s \in Name
  BY <1>1 DEF Typed, Closed
<1>10. ChunkFits(c, x, 1)
  <2>1. \A i \in 1..Len(events) : i > 1 => ~(events[i].ev = "Pre" /\ events[i].stack = c)
    <3>1. SUFFICES ASSUME NEW i \in 1..Len(events), i > 1, events[i].ev = "Pre", events[i].stack = c PROVE FALSE
      OBVIOUS
    <3>2. events[1] \in Of("Pre", c) /\ events[i] \in Of("Pre", c)
      BY <1>0, <1>3, <3>1, QueueRec, InOf
    <3>3. Count(events, Of("Pre", c)) <= 1
      BY <1>8 DEF N
    <3>4. i = 1
      BY <1>3, <3>2, <3>3, CountOne DEF IsQueue
    <3> QED BY <3>1, <3>4
  <2>2. \A i \in 1..Len(events) : i <= 1 => events[i].ev = "Pre"
    BY <1>0, <1>3
  <2>3. \A y : Count(events', Of(y, c)) = N(y, c)
    <3>1. c \in Name /\ e.stack = c /\ a.stack # c /\ d.stack = c /\ e.ev = d.ev
      BY <1>3, <1>6
    <3> QED BY <1>7, <3>1, ComesAgain
  <2>4. access'[c[1]] \in Accesses /\ told[c[1]] = 0
    BY <1>1, <1>2, <1>3, Asked
  <2>5. x.addr = access'[c[1]].addr + x.buf /\ x.buf + x.size = access'[c[1]].size
    BY <1>1, <1>2, <1>3, <1>4 DEF Bytes, Sized
  <2>6. Below(c) + N("PreFinish", c) <= x.count
    BY <1>4, <1>8 DEF TransferCounted
  <2>7. \A s \in DOMAIN stk : Len(s) = 2 /\ Front(s) = c => s[2] \in Nat /\ s[2] < x.buf
    BY <1>1, <1>4 DEF Bytes, Passed
  <2>8. Count(events', Of("Pre", c)) = 1 /\ 1 \in Nat
    BY <1>8, <2>3
  <2> QED BY <1>2, <2>1, <2>2, <2>3, <2>4, <2>5, <2>6, <2>7, <2>8 DEF ChunkFits
<1>11. \A s \in Name : s # c => e.stack # s
  BY <1>3
<1>12. Queued' /\ Counted' /\ Held' /\ Continues'
  <2>1. 1 \in Nat
    OBVIOUS
  <2> QED BY <1>2, <1>7, <1>10, <1>11, <2>1, ChunkStarts
<1>13. /\ \A s \in DOMAIN stk' : Passed(s)' /\ Sized(s)'
       /\ \A y \in Int : x.buf <= y => Owed(c, y)' \/ Owed(id, y)'
  <2>1. 1 \in Nat
    OBVIOUS
  <2> QED BY <1>2, <1>7, <1>10, <1>11, <2>1, ChunkBytes
<1>14. ChunkMade(c, b, id, r)
  BY <1>1, <1>2, ChunkCreated
<1>15. Typed'
  <2>1. Leaf' = Leaf
    BY <1>5 DEF Leaf
  <2> QED BY <1>1, <1>2, <1>5, <1>14, <2>1 DEF Typed, ChunkMade
<1>16. Covered'
  <2>1. \A t, o : Exchanged(t, o) => Exchanged(t, o)'
    BY <1>2 DEF Exchanged
  <2>2. ASSUME NEW s \in DOMAIN stk, NEW o
        PROVE  (s \in DOMAIN stk' /\ stk'[s] = stk[s])
               \/ (Owed(s, o) /\ InBuffer(s[1], o) =>
                     Exchanged(s[1], o)' \/ \E q \in DOMAIN stk' : q[1] = s[1] /\ Owed(q, o)')
    <3>1. CASE s # c
      BY <1>14, <3>1 DEF ChunkMade
    <3>2. CASE s = c
      <4>1. SUFFICES ASSUME Owed(c, o), InBuffer(c[1], o) PROVE \E q \in DOMAIN stk' : q[1] = c[1] /\ Owed(q, o)'
        BY <3>2
      <4>2. o \in Int
        BY <4>1 DEF InBuffer
      <4>3. x.buf <= o
        BY <1>4, <4>1 DEF Owed
      <4>4. Owed(c, o)' \/ Owed(id, o)'
        BY <1>13, <4>2, <4>3
      <4>5. c \in DOMAIN stk' /\ id \in DOMAIN stk'
        BY <1>14 DEF ChunkMade
      <4> QED BY <1>6, <4>4, <4>5
    <3> QED BY <3>1, <3>2
  <2> QED BY <1>1, <1>2, <1>5, <2>1, <2>2, CoveredKept DEF Bytes
<1> QED BY <1>12, <1>13, <1>15, <1>16 DEF TransferInv, Bytes

LEMMA NextChunkKeeps ==
  ASSUME TransferInv, NextChunk
  PROVE  TransferInv'
<1>0. PICK c, b, id, r, a, d :
           /\ c = Cur
           /\ b = [Stack(S, Chunk(S), S.size - Chunk(S), 0) EXCEPT !.count = S.count + 1]
           /\ id = Append(c, S.buf) /\ r = Stack(S, 0, Chunk(S), 0)
           /\ a = Event("Chunk", id, Latency) /\ d = Event("Pre", c, Inter)
  OBVIOUS
<1>1. /\ Handles("Pre") /\ Pre(c[1], S, Tail(events))
      /\ UNCHANGED <<path, access, portuse, memoplist, memory, image, told>>
  BY <1>0 DEF NextChunk
<1>2. /\ c \in DOMAIN stk /\ c \in Name /\ "Pre" \in Kinds(Len(c)) /\ Len(c) <= Leaf
      /\ stk[c] \in StackRec /\ S = stk[c] /\ Typed /\ Bytes
  BY <1>0, <1>1, Due
<1>3. Len(c) = 1 /\ c[1] \in Tasks
  BY <1>2, Level DEF Typed, Name
<1>4. c = <<c[1]>> /\ S.buf \in Nat /\ S.size \in Int
  BY <1>2, <1>3, TaskName DEF StackRec
<1>5. <<c[1], S.buf>> = id
  <2>1. <<c[1], S.buf>> = Append(<<c[1]>>, S.buf)
    BY <1>3, <1>4, TaskName
  <2> QED BY <1>0, <1>4, <2>1, Zenon
<1>6. CASE S.size <= 0
  <2>1. events' = Tail(events) /\ stk' = Put(stk, c, S)
    BY <1>1, <1>4, <1>6 DEF Pre
  <2>2. Put(stk, c, S) = stk
    <3>1. stk \in [DOMAIN stk -> StackRec]
      BY <1>2 DEF Typed
    <3>2. DOMAIN stk \union {c} = DOMAIN stk
      BY <1>2
    <3> QED BY <1>2, <3>1, <3>2 DEF Put
  <2>3. ChunksEnd(c)
    BY <1>0, <1>1, <1>6, <2>1, <2>2 DEF ChunksEnd
  <2> QED BY <2>3, NextChunkEnds
<1>7. CASE S.size > 0
  <2>1. ~(S.size <= 0)
    BY <1>4, <1>7
  <2>2. /\ stk' = Put(Put(stk, <<c[1]>>, [Stack(S, Chunk(S), S.size - Chunk(S), 0) EXCEPT !.count = S.count + 1]),
                      <<c[1], S.buf>>, Stack(S, 0, Chunk(S), 0))
        /\ events' = ScheduledAll(Tail(events), <<Event("Chunk", <<c[1], S.buf>>, Latency), Event("Pre", <<c[1]>>, Inter)>>)
    BY <1>1, <2>1 DEF Pre
  <2>3. stk' = Put(Put(stk, c, b), id, r) /\ events' = ScheduledAll(Tail(events), <<a, d>>)
    BY <1>0, <1>4, <1>5, <2>2
  <2>4. id \notin DOMAIN stk
    <3>1. SUFFICES ASSUME id \in DOMAIN stk PROVE FALSE
      OBVIOUS
    <3>2. id = Append(c, S.buf) /\ Len(c) < 4
      BY <1>0, <1>3
    <3>3. Len(id) = Len(c) + 1 /\ Front(id) = c /\ id[Len(c) + 1] = S.buf
      BY <1>2, <1>4, <3>2, ChildName
    <3>4. Len(id) = 2 /\ id[2] = stk[c].buf
      BY <1>2, <1>3, <3>3
    <3>5. id[2] < stk[c].buf
      BY <1>2, <3>1, <3>3, <3>4 DEF Bytes, Passed
    <3> QED BY <1>2, <1>4, <3>4, <3>5
  <2>5. ChunkOf(c, S, b, id, r, a, d)
    BY <1>0, <1>1, <1>2, <1>3, <1>7, <2>3, <2>4 DEF ChunkOf
  <2>6. ChunkBegins(c, b, id, r, a, d)
    BY <1>0, <1>1, <1>7, <2>3, <2>5 DEF ChunkBegins
  <2> QED BY <2>6, NextChunkBegins
<1> QED BY <1>4, <1>6, <1>7

-----------------------------------------------------------------------------
(* A task's access.                                                        *)

Asks(t, q, c, x, b, id, r, a, d) ==
  /\ t \in Tasks /\ q \in Accesses /\ access[t] = None
  /\ c = <<t>> /\ x = Stack([addr |-> q.addr, buf |-> 0], 0, q.size, 0)
  /\ b = [Stack(x, Chunk(x), x.size - Chunk(x), 0) EXCEPT !.count = x.count + 1] /\ r = Stack(x, 0, Chunk(x), 0)
  /\ id = Append(c, x.buf) /\ a = Event("Chunk", id, Latency) /\ d = Event("Pre", c, Inter)
  /\ access' = [access EXCEPT ![t] = q] /\ image' = [image EXCEPT ![t] = [o \in 0..(q.size - 1) |-> None]]
  /\ stk' = Put(Put(stk, c, b), id, r) /\ events' = ScheduledAll(events, <<a, d>>)
  /\ UNCHANGED <<path, portuse, memoplist, memory, told>>

LEMMA AccessBegins ==
  ASSUME TransferInv, NEW t, NEW q, NEW c, NEW x, NEW b, NEW id, NEW r, NEW a, NEW d, Asks(t, q, c, x, b, id, r, a, d)
  PROVE  TransferInv'
<1>1. Typed /\ Queued /\ Counted /\ Held /\ Continues /\ Bytes
  BY DEF TransferInv
<1>2. /\ t \in Tasks /\ q \in Accesses /\ access[t] = None
      /\ access' = [access EXCEPT ![t] = q] /\ image' = [image EXCEPT ![t] = [o \in 0..(q.size - 1) |-> None]]
      /\ events' = ScheduledAll(events, <<a, d>>) /\ UNCHANGED <<path, portuse, memoplist, memory, told>>
  BY DEF Asks
<1>3. c \in Name /\ Len(c) = 1 /\ c[1] = t
  BY <1>2, TaskName DEF Asks
<1>4. q \in [load : BOOLEAN, addr : Nat, size : Nat] /\ q.addr \in Nat /\ q.size \in Nat /\ q.size > 0 /\ q # None
  BY <1>2, TransferAssumption
<1>5. x \in StackRec /\ x.addr = q.addr /\ x.buf = 0 /\ x.size = q.size /\ x.count = 0
  <2>1. x = [addr |-> q.addr + 0, buf |-> 0 + 0, size |-> q.size, offset |-> 0, left |-> 0, count |-> 0]
    BY DEF Asks, Stack
  <2>2. q.addr + 0 = q.addr /\ 0 + 0 = 0 /\ 0 \in Nat /\ q.size \in Int
    BY <1>4
  <2> QED BY <1>4, <2>1, <2>2 DEF StackRec
<1>6. \A s \in DOMAIN stk : s \in Name /\ s[1] # t
  <2>1. \A s \in DOMAIN stk : access[s[1]] # None
    BY <1>1, Asked
  <2>2. \A s \in DOMAIN stk : s \in Name
    BY <1>1 DEF Typed, Closed
  <2> QED BY <1>2, <2>1, <2>2
<1>7. c \notin DOMAIN stk
  BY <1>3, <1>6
<1>8. id \in Name /\ Front(id) = c /\ id[1] = t /\ id # c /\ id \notin DOMAIN stk
  <2>1. id = Append(c, x.buf) /\ x.buf \in Nat /\ Len(c) < 4
    BY <1>3, <1>5 DEF Asks
  <2>2. id \in Name /\ Front(id) = c /\ id[1] = c[1] /\ id # c
    BY <1>3, <2>1, ChildName
  <2> QED BY <1>3, <1>6, <2>2
<1>9. ChunkOf(c, x, b, id, r, a, d)
  <2>1. x.size > 0
    BY <1>4, <1>5
  <2>2. /\ b = [Stack(x, Chunk(x), x.size - Chunk(x), 0) EXCEPT !.count = x.count + 1] /\ r = Stack(x, 0, Chunk(x), 0)
        /\ id = Append(c, x.buf) /\ a = Event("Chunk", id, Latency) /\ d = Event("Pre", c, Inter)
        /\ stk' = Put(Put(stk, c, b), id, r)
    BY DEF Asks
  <2> QED BY <1>2, <1>3, <1>5, <1>8, <2>1, <2>2 DEF ChunkOf
<1>10. a \in EventRec /\ d \in EventRec /\ d.ev = "Pre" /\ d.stack = c /\ a.stack = id
  <2>1. PICK m : m = Chunk(x)
    OBVIOUS
  <2> QED BY <1>9, <2>1, ChunkFields
<1>11. Becomes(events, events', 0, Nothing, a, d)
  <2>1. IsQueue(events, EventRec)
    BY <1>1 DEF Queued
  <2> QED BY <1>2, <1>10, <2>1, AddedTwo
<1>12. \A y : N(y, c) = 0
  BY <1>1, <1>7, NoneYet
<1>13. Below(c) = 0
  <2>1. Kids(c) = {}
    BY <1>1, <1>7 DEF Kids, KidsIn, Typed, Closed
  <2> QED BY <2>1, FS_EmptySet DEF Below
<1>14. ChunkFits(c, x, 0)
  <2>1. \A i \in 1..Len(events) : ~(events[i].ev = "Pre" /\ events[i].stack = c)
    BY <1>1, <1>7 DEF Queued
  <2>2. \A i \in 1..Len(events) : ~(i <= 0)
    OBVIOUS
  <2>3. Count(events', Of("Pre", c)) = 1 /\ \A y : y # "Pre" => Count(events', Of(y, c)) = N(y, c)
    <3>1. c \in Name /\ Nothing.stack # c /\ a.stack # c /\ d.stack = c
      BY <1>3, <1>8, <1>10, NothingAside
    <3>2. /\ Count(events', Of(d.ev, c)) = N(d.ev, c) + 1
          /\ \A y : y # d.ev => Count(events', Of(y, c)) = N(y, c)
      BY <1>11, <3>1, ArrivesToo
    <3> QED BY <1>10, <1>12, <3>2
  <2>4. access'[c[1]] = q
    BY <1>1, <1>2, <1>3 DEF Typed
  <2>5. told[c[1]] = 0
    BY <1>1, <1>2, <1>3 DEF Typed
  <2>6. x.addr = access'[c[1]].addr + x.buf /\ x.buf + x.size = access'[c[1]].size
    BY <1>4, <1>5, <2>4
  <2>7. Below(c) + N("PreFinish", c) <= x.count
    BY <1>5, <1>12, <1>13
  <2>8. \A s \in DOMAIN stk : access'[s[1]] = access[s[1]]
    BY <1>1, <1>2, <1>6 DEF Typed, Name
  <2>9. \A s \in DOMAIN stk : Len(s) = 2 => Front(s) # c
    <3>1. \A s \in DOMAIN stk : Len(s) > 1 => Front(s) \in DOMAIN stk
      BY <1>1 DEF Typed, Closed
    <3>2. 2 > 1
      OBVIOUS
    <3> QED BY <1>7, <3>1, <3>2, Zenon
  <2>10. 0 \in Nat
    OBVIOUS
  <2> QED BY <1>2, <2>1, <2>2, <2>3, <2>4, <2>5, <2>6, <2>7, <2>8, <2>9, <2>10 DEF ChunkFits
<1>15. \A s \in Name : s # c => Nothing.stack # s
  BY NothingAside
<1>16. 0 \in Nat
  OBVIOUS
<1>17. Queued' /\ Counted' /\ Held' /\ Continues'
  BY <1>9, <1>11, <1>14, <1>15, <1>16, ChunkStarts
<1>18. /\ \A s \in DOMAIN stk' : Passed(s)' /\ Sized(s)'
       /\ \A y \in Int : x.buf <= y => Owed(c, y)' \/ Owed(id, y)'
  BY <1>9, <1>11, <1>14, <1>15, <1>16, ChunkBytes
<1>19. ChunkMade(c, b, id, r)
  BY <1>1, <1>9, ChunkCreated
<1>20. /\ DOMAIN stk' = DOMAIN stk \union {c, id} /\ \A s \in DOMAIN stk : s # c => stk'[s] = stk[s]
       /\ stk' \in [DOMAIN stk' -> StackRec] /\ Closed(DOMAIN stk') /\ \A s \in DOMAIN stk' : Len(s) <= Leaf
  BY <1>19 DEF ChunkMade
<1>21. /\ access'[t] = q /\ DOMAIN image'[t] = 0..(q.size - 1)
       /\ \A u \in Tasks : u # t => access'[u] = access[u] /\ image'[u] = image[u]
       /\ access' \in [Tasks -> Accesses \union {None}] /\ image' = [u \in Tasks |-> image'[u]]
  BY <1>1, <1>2 DEF Typed
<1>22. told[t] = 0
  BY <1>1, <1>2 DEF Typed
<1>23. Typed'
  <2>1. Leaf' = Leaf
    BY <1>2 DEF Leaf
  <2>2. path' \in {"burst", "large"} /\ portuse' \in Int
    BY <1>1, <1>2 DEF Typed
  <2>3. /\ memoplist' \in Seq(Name)
        /\ \A i \in 1..Len(memoplist') : memoplist'[i] \in DOMAIN stk' /\ Len(memoplist'[i]) = 2
    BY <1>1, <1>2, <1>20 DEF Typed
  <2>4. memory' \in [DOMAIN memory' -> Nat \ {0}] /\ \A s \in DOMAIN memory' : s \in DOMAIN stk' /\ Len(s) = Leaf'
    BY <1>1, <1>2, <1>20, <2>1 DEF Typed
  <2>5. told' \in [Tasks -> 0..1] /\ \A u \in Tasks : access'[u] = None => told'[u] = 0
    BY <1>1, <1>2, <1>21, <1>22 DEF Typed
  <2>6. \A u \in Tasks : access'[u] # None => DOMAIN image'[u] = 0..(access'[u].size - 1)
    BY <1>1, <1>21 DEF Typed
  <2> QED BY <1>20, <1>21, <2>1, <2>2, <2>3, <2>4, <2>5, <2>6 DEF Typed
<1>24. Covered'
  <2>1. SUFFICES ASSUME NEW u \in Tasks, access'[u] # None, NEW o \in 0..(access'[u].size - 1)
                 PROVE  Exchanged(u, o)' \/ (told'[u] = 0 /\ \E s \in DOMAIN stk' : s[1] = u /\ Owed(s, o)')
    BY DEF Covered
  <2>2. CASE u = t
    <3>1. o \in Int /\ x.buf <= o
      BY <1>4, <1>5, <1>21, <2>1, <2>2
    <3>2. Owed(c, o)' \/ Owed(id, o)'
      BY <1>18, <3>1
    <3> QED BY <1>2, <1>3, <1>8, <1>20, <1>22, <2>2, <3>2
  <2>3. CASE u # t
    <3>1. access'[u] = access[u] /\ image'[u] = image[u] /\ told'[u] = told[u]
      BY <1>2, <1>21, <2>3
    <3>2. Exchanged(u, o) \/ (told[u] = 0 /\ \E s \in DOMAIN stk : s[1] = u /\ Owed(s, o))
      BY <1>1, <2>1, <3>1 DEF Bytes, Covered
    <3>3. Exchanged(u, o) => Exchanged(u, o)'
      BY <3>1 DEF Exchanged
    <3>4. ASSUME NEW s \in DOMAIN stk, s[1] = u, Owed(s, o)
          PROVE  s \in DOMAIN stk' /\ Owed(s, o)'
      <4>1. stk'[s] = stk[s] /\ s \in DOMAIN stk'
        BY <1>7, <1>20, <3>4
      <4> QED BY <1>2, <3>4, <4>1 DEF Owed
    <3> QED BY <3>1, <3>2, <3>3, <3>4
  <2> QED BY <2>2, <2>3
<1> QED BY <1>17, <1>18, <1>23, <1>24 DEF TransferInv, Bytes

LEMMA RequestKeeps ==
  ASSUME TransferInv, NEW t \in Tasks, NEW q \in Accesses, Request(t, q)
  PROVE  TransferInv'
<1>0. PICK c, x, b, id, r, a, d :
           /\ c = <<t>> /\ x = Stack([addr |-> q.addr, buf |-> 0], 0, q.size, 0)
           /\ b = [Stack(x, Chunk(x), x.size - Chunk(x), 0) EXCEPT !.count = x.count + 1]
           /\ id = Append(c, x.buf) /\ r = Stack(x, 0, Chunk(x), 0)
           /\ a = Event("Chunk", id, Latency) /\ d = Event("Pre", c, Inter)
  OBVIOUS
<1>1. /\ access[t] = None /\ access' = [access EXCEPT ![t] = q] /\ image' = [image EXCEPT ![t] = [o \in 0..(q.size - 1) |-> None]]
      /\ Pre(t, x, events) /\ UNCHANGED <<path, portuse, memoplist, memory, told>>
  BY <1>0 DEF Request
<1>2. ~(x.size <= 0) /\ x.buf \in Nat
  <2>1. x = [addr |-> q.addr + 0, buf |-> 0 + 0, size |-> q.size, offset |-> 0, left |-> 0, count |-> 0]
    BY <1>0 DEF Stack
  <2>2. q.size \in Nat /\ q.size > 0
    BY TransferAssumption
  <2>3. x.size = q.size /\ x.buf = 0 + 0
    BY <2>1
  <2> QED BY <2>2, <2>3
<1>3. <<t, x.buf>> = id
  <2>1. <<t, x.buf>> = Append(<<t>>, x.buf)
    BY <1>2, TaskName
  <2> QED BY <1>0, <2>1, Zenon
<1>4. /\ stk' = Put(Put(stk, <<t>>, [Stack(x, Chunk(x), x.size - Chunk(x), 0) EXCEPT !.count = x.count + 1]),
                    <<t, x.buf>>, Stack(x, 0, Chunk(x), 0))
      /\ events' = ScheduledAll(events, <<Event("Chunk", <<t, x.buf>>, Latency), Event("Pre", <<t>>, Inter)>>)
  BY <1>1, <1>2 DEF Pre
<1>5. stk' = Put(Put(stk, c, b), id, r) /\ events' = ScheduledAll(events, <<a, d>>)
  BY <1>0, <1>3, <1>4
<1>6. Asks(t, q, c, x, b, id, r, a, d)
  BY <1>0, <1>1, <1>5 DEF Asks
<1> QED BY <1>6, AccessBegins

-----------------------------------------------------------------------------
(* The time moves on.                                                      *)

LEMMA TickKeeps ==
  ASSUME TransferInv, Tick
  PROVE  TransferInv'
<1>1. Typed /\ Queued /\ Counted /\ Held /\ Continues /\ Bytes
  BY DEF TransferInv
<1>2. /\ events # <<>> /\ IsQuiet(events) /\ events' = Elapsed(events)
      /\ UNCHANGED <<path, access, stk, portuse, memoplist, memory, image, told>>
  BY DEF Tick
<1>3. IsQueue(events, EventRec)
  BY <1>1 DEF Queued
<1>4. /\ IsQueue(events', EventRec) /\ Len(events') = Len(events)
      /\ \A i \in 1..Len(events) :
           /\ events'[i] = [events[i] EXCEPT !.left = OneLess(events[i].left)]
           /\ events[i].left \in Nat \ {0} /\ events'[i].left = events[i].left - 1
  <2>1. \A x \in EventRec : x.left \in Nat /\ OneLess(x.left) \in Nat
    BY DEF EventRec, OneLess
  <2>2. \A x \in EventRec : [x EXCEPT !.left = OneLess(x.left)] \in EventRec
    BY <2>1 DEF EventRec
  <2>3. \A x \in EventRec : [x EXCEPT !.left = OneLess(x.left)].left = OneLess(x.left)
    BY DEF EventRec
  <2>4. Timed(EventRec)
    BY <2>1, <2>2, <2>3 DEF Timed
  <2>5. events # <<>> /\ IsQuiet(events)
    BY <1>2, Zenon
  <2>6. IsQueue(Elapsed(events), EventRec) /\ Len(Elapsed(events)) = Len(events) /\ Aged(events)
    BY <1>3, <2>4, <2>5, ElapsedQueue, Zenon
  <2>7. events' = Elapsed(events)
    BY <1>2, Zenon
  <2>8. \A i \in 1..Len(events) :
           /\ Elapsed(events)[i] = [events[i] EXCEPT !.left = OneLess(events[i].left)]
           /\ events[i].left \in Nat \ {0} /\ Elapsed(events)[i].left = events[i].left - 1
    BY <2>6, Zenon DEF Aged
  <2> QED BY <2>6, <2>7, <2>8, Zenon
<1>5. \A i \in 1..Len(events) : events[i] \in EventRec /\ events'[i] \in EventRec
  BY <1>3, <1>4, QueueRec
<1>6. ASSUME NEW i \in 1..Len(events)
      PROVE  /\ events'[i].ev = events[i].ev /\ events'[i].stack = events[i].stack
             /\ events'[i].left = events[i].left - 1 /\ events[i].left \in Nat /\ events[i].left # 0
  <2>1. events'[i] = [events[i] EXCEPT !.left = OneLess(events[i].left)]
    BY <1>4
  <2>2. events[i] \in EventRec
    BY <1>5
  <2>3. events'[i].ev = events[i].ev /\ events'[i].stack = events[i].stack
    BY <2>1, <2>2 DEF EventRec
  <2> QED BY <1>4, <2>3
<1>7. \A s, ev : Count(events', Of(ev, s)) = N(ev, s)
  <2>1. SUFFICES ASSUME NEW s, NEW ev PROVE Count(events', Of(ev, s)) = N(ev, s)
    OBVIOUS
  <2>2. \A i \in 1..Len(events) : events'[i] \in Of(ev, s) <=> events[i] \in Of(ev, s)
    BY <1>5, <1>6, InOf
  <2>3. Places(events', Of(ev, s)) = Places(events, Of(ev, s))
    BY <1>4, <2>2 DEF Places
  <2> QED BY <2>3 DEF Count, N
<1>8. \A s : SameCounts(s)
  BY <1>2, <1>7 DEF SameCounts, Waiting, Unanswered, Below, Kids
<1>9. Leaf' = Leaf
  BY <1>2 DEF Leaf
<1>10. Typed'
  BY <1>1, <1>2, <1>9 DEF Typed
<1>11. Queued'
  <2>1. ASSUME NEW i \in 1..Len(events')
        PROVE  events'[i].stack \in DOMAIN stk' /\ events'[i].ev \in Kinds(Len(events[i].stack))'
    <3>1. i \in 1..Len(events) /\ events'[i].ev = events[i].ev /\ events'[i].stack = events[i].stack
      BY <1>4, <1>6
    <3>2. path' = path
      BY <1>2
    <3>3. \A n : Kinds(n)' = Kinds(n)
      BY <3>2 DEF Kinds
    <3>4. events[i].stack \in DOMAIN stk /\ events[i].ev \in Kinds(Len(events[i].stack))
      BY <1>1, <3>1 DEF Queued
    <3> QED BY <1>2, <3>1, <3>3, <3>4
  <2> QED BY <1>4, <2>1 DEF Queued
<1>12. Counted'
  <2>1. SUFFICES ASSUME NEW s \in DOMAIN stk PROVE CountedFor(s)'
    BY <1>2 DEF Counted
  <2>2. CountedFor(s) /\ SameCounts(s)
    BY <1>1, <1>8 DEF Counted
  <2> QED BY <1>2, <2>2, CountedSame
<1>13. Held'
  <2>1. SUFFICES ASSUME NEW i \in 1..Len(events'), events'[i].ev = "Pre"
                 PROVE  \E c \in DOMAIN stk' : HeldBy(i, c)'
    BY DEF Held
  <2>2. i \in 1..Len(events) /\ events[i].ev = "Pre" /\ events'[i].stack = events[i].stack
        /\ events'[i].left = events[i].left - 1 /\ events[i].left \in Nat
    BY <1>4, <1>6, <2>1
  <2>3. PICK c \in DOMAIN stk : HeldBy(i, c)
    BY <1>1, <2>2 DEF Held
  <2>4. ASSUME NEW j \in 1..Len(events'), Under(events'[j].stack, c)
        PROVE  InTime(events[i], events[j], c, i < j)'
    <3>1. /\ j \in 1..Len(events) /\ events'[j].ev = events[j].ev /\ events'[j].stack = events[j].stack
          /\ events'[j].left = events[j].left - 1 /\ events[j].left \in Nat
      BY <1>4, <1>6, <2>4
    <3>2. InTime(events[i], events[j], c, i < j)
      BY <2>3, <2>4, <3>1 DEF HeldBy
    <3>3. Slack(events[j].ev, IsLoad(c)) \in Nat
      BY <1>1, SlackNat
    <3>4. Slack(events'[j].ev, IsLoad(c)') = Slack(events[j].ev, IsLoad(c))
      BY <3>1, <1>2 DEF IsLoad
    <3>5. events'[i].left <= events'[j].left + Slack(events[j].ev, IsLoad(c))
      <4>1. events[i].left <= events[j].left + Slack(events[j].ev, IsLoad(c))
        BY <3>2 DEF InTime
      <4> DEFINE k == Slack(events[j].ev, IsLoad(c))
                 m == events[i].left
                 n == events[j].left
      <4>2. k \in Nat /\ m \in Nat /\ n \in Nat /\ m <= n + k /\ events'[i].left = m - 1 /\ events'[j].left = n - 1
        BY <2>2, <3>1, <3>3, <4>1
      <4> HIDE DEF k, m, n
      <4>3. m - 1 <= (n - 1) + k
        BY <4>2
      <4>4. events'[i].left <= events'[j].left + k
        BY <4>2, <4>3
      <4> QED BY <4>4 DEF k
    <3>6. Slack(events[j].ev, IsLoad(c))' = Slack(events[j].ev, IsLoad(c))
      BY <1>2, <3>1 DEF Slack, IsLoad
    <3>7. Late(events[j].ev)' <=> Late(events[j].ev)
      BY <1>2, <3>1 DEF Late
    <3> QED BY <1>2, <3>1, <3>2, <3>5, <3>6, <3>7 DEF InTime
  <2>5. Waiting(c)' > 0 => events'[i].left <= Slack("Chunk", IsLoad(c))'
    <3>1. SUFFICES ASSUME Waiting(c)' > 0 PROVE events'[i].left <= Slack("Chunk", IsLoad(c))'
      OBVIOUS
    <3>2. events[i].left <= Slack("Chunk", IsLoad(c))
      BY <1>2, <2>3, <3>1 DEF HeldBy, Waiting
    <3>3. Slack("Chunk", IsLoad(c)) \in Nat
      BY <1>1, SlackNat
    <3>4. Slack("Chunk", IsLoad(c))' = Slack("Chunk", IsLoad(c))
      BY <1>2 DEF Slack, IsLoad
    <3> QED BY <2>2, <3>2, <3>3, <3>4
  <2>6. Len(c) = 2 /\ Front(c) = events'[i].stack /\ \A s \in DOMAIN memory' : ~Under(s, c)
    BY <1>2, <2>2, <2>3 DEF HeldBy
  <2>7. HeldBy(i, c)'
    BY <2>4, <2>5, <2>6 DEF HeldBy
  <2> QED BY <1>2, <2>7
<1>14. Continues'
  <2>1. SUFFICES ASSUME NEW i \in 1..Len(events'), events'[i].ev = "Beats"
                 PROVE  Continued(i)'
    BY DEF Continues
  <2>2. i \in 1..Len(events) /\ events[i].ev = "Beats" /\ events'[i].stack = events[i].stack
        /\ events'[i].left = events[i].left - 1 /\ events[i].left \in Nat /\ events[i].left # 0
    BY <1>4, <1>6, <2>1
  <2> DEFINE u == events[i].stack
  <2>3. Continued(i)
    BY <1>1, <2>2 DEF Continues
  <2>4. Kids(u)' = KidsIn(DOMAIN stk', u') /\ u' = u
    BY <2>2 DEF Kids
  <2>5. CASE Kids(u) = {} /\ N("BeatFinish", u) = 0
    <3>1. Kids(u)' = {} /\ N("BeatFinish", u)' = 0
      BY <1>2, <1>7, <2>4, <2>5 DEF Kids, N
    <3> QED BY <3>1 DEF Continued
  <2>6. CASE \E j \in 1..Len(events) :
               events[j].ev = "Words" /\ events[j].stack \in Kids(u) /\ events[i].left <= events[j].left
    <3>1. PICK j \in 1..Len(events) : events[j].ev = "Words" /\ events[j].stack \in Kids(u) /\ events[i].left <= events[j].left
      BY <2>6
    <3>2. /\ j \in 1..Len(events') /\ events'[j].ev = "Words" /\ events'[j].stack \in Kids(u)
          /\ events'[i].left <= events'[j].left
      <4>1. events'[j].left = events[j].left - 1 /\ events[j].left \in Nat
        BY <1>6
      <4> QED BY <1>4, <1>6, <2>2, <3>1, <4>1
    <3>3. Kids(u)' = Kids(u)
      BY <1>2, <2>4 DEF Kids
    <3> QED BY <3>2, <3>3 DEF Continued
  <2> QED BY <2>2, <2>3, <2>5, <2>6 DEF Continued
<1>15. Bytes'
  <2>1. \A s \in DOMAIN stk : SizedSame(s)
    BY <1>8, SizedAside
  <2> QED BY <1>1, <1>2, <2>1, BytesSame DEF Typed
<1> QED BY <1>10, <1>11, <1>12, <1>13, <1>14, <1>15 DEF TransferInv

-----------------------------------------------------------------------------
(* The theorems.                                                           *)

LEMMA TransferBegins ==
  ASSUME Init
  PROVE  TransferInv
<1>1. /\ path \in {"burst", "large"} /\ access = [t \in Tasks |-> None] /\ stk = <<>> /\ memory = <<>>
      /\ portuse = 0 /\ memoplist = <<>> /\ events = <<>> /\ image = [t \in Tasks |-> <<>>] /\ told = [t \in Tasks |-> 0]
  BY DEF Init
<1>2. DOMAIN stk = {} /\ DOMAIN memory = {} /\ Len(events) = 0 /\ Len(memoplist) = 0
  BY <1>1
<1>3. 1..Len(events) = {} /\ 1..Len(memoplist) = {}
  BY <1>2
<1>4. Typed
  <2>1. stk \in [DOMAIN stk -> StackRec] /\ memory \in [DOMAIN memory -> Nat \ {0}]
    BY <1>1
  <2>2. Closed(DOMAIN stk)
    BY <1>2, FS_EmptySet DEF Closed
  <2>3. /\ access \in [Tasks -> Accesses \union {None}] /\ \A t \in Tasks : access[t] = None /\ told[t] = 0
        /\ told \in [Tasks -> 0..1] /\ image = [t \in Tasks |-> image[t]] /\ portuse \in Int
    BY <1>1
  <2>4. memoplist \in Seq(Name)
    BY <1>1
  <2> QED BY <1>1, <1>2, <1>3, <2>1, <2>2, <2>3, <2>4 DEF Typed
<1>5. Queued
  <2>1. events \in Seq(EventRec)
    BY <1>1
  <2> QED BY <1>3, <2>1 DEF Queued, IsQueue
<1>6. Counted /\ Held /\ Continues /\ Bytes
  BY <1>1, <1>2, <1>3 DEF Counted, Held, Continues, Bytes, Covered
<1> QED BY <1>4, <1>5, <1>6 DEF TransferInv

LEMMA StuttersKeep ==
  ASSUME TransferInv, UNCHANGED <<path, access, stk, portuse, memoplist, memory, image, told, events>>
  PROVE  TransferInv'
<1>1. Typed /\ Queued /\ Counted /\ Held /\ Continues /\ Bytes
  BY DEF TransferInv
<1>2. \A s \in DOMAIN stk : SameCounts(s) /\ SizedSame(s)
  <2>1. SUFFICES ASSUME NEW s \in DOMAIN stk PROVE SameCounts(s)
    BY SizedAside
  <2>2. (path' = path /\ events' = events) /\ (stk' = stk /\ memoplist' = memoplist) /\ memory' = memory
    OBVIOUS
  <2>3. \A ev : Count(events', Of(ev, s)) = N(ev, s)
    BY <2>2, Zenon DEF N
  <2>4. Cardinality(KidsIn(DOMAIN stk', s)) = Below(s)
    BY <2>2, Zenon DEF Below, Kids
  <2>5. Count(memoplist', {s}) = Waiting(s)
    BY <2>2, Zenon DEF Waiting
  <2>6. Unanswered(s)' = Unanswered(s)
    BY <2>2 DEF Unanswered
  <2>7. access'[s[1]] = access[s[1]] /\ told'[s[1]] = told[s[1]] /\ stk'[s] = stk[s]
    OBVIOUS
  <2> QED BY <2>3, <2>4, <2>5, <2>6, <2>7 DEF SameCounts
<1>3. Typed'
  <2>1. Leaf' = Leaf
    BY DEF Leaf
  <2> QED BY <1>1, <2>1 DEF Typed
<1>4. Queued'
  <2>1. \A n : Kinds(n)' = Kinds(n)
    BY DEF Kinds
  <2> QED BY <1>1, <2>1 DEF Queued
<1>5. Counted'
  <2>1. SUFFICES ASSUME NEW s \in DOMAIN stk PROVE CountedFor(s)'
    BY DEF Counted
  <2>2. CountedFor(s) /\ SameCounts(s)
    BY <1>1, <1>2 DEF Counted
  <2> QED BY <2>2, CountedSame
<1>6. Held'
  <2>1. SUFFICES ASSUME NEW i \in 1..Len(events'), events'[i].ev = "Pre"
                 PROVE  \E c \in DOMAIN stk' : HeldBy(i, c)'
    BY DEF Held
  <2>2. i \in 1..Len(events) /\ events[i].ev = "Pre"
    BY <2>1
  <2>3. PICK c \in DOMAIN stk : HeldBy(i, c)
    BY <1>1, <2>2 DEF Held
  <2>4. \A ev : (Late(ev)' <=> Late(ev)) /\ Slack(ev, IsLoad(c))' = Slack(ev, IsLoad(c))
    BY DEF Late, Slack, IsLoad
  <2>5. ASSUME NEW j \in 1..Len(events'), Under(events'[j].stack, c)
        PROVE  InTime(events[i], events[j], c, i < j)'
    <3>1. InTime(events[i], events[j], c, i < j)
      BY <2>3, <2>5 DEF HeldBy
    <3> QED BY <2>4, <3>1 DEF InTime
  <2>6. Waiting(c)' > 0 => events'[i].left <= Slack("Chunk", IsLoad(c))'
    BY <2>3, <2>4 DEF HeldBy, Waiting
  <2>7. HeldBy(i, c)'
    BY <2>3, <2>5, <2>6 DEF HeldBy
  <2> QED BY <2>3, <2>7
<1>7. Continues'
  BY <1>1 DEF Continues, Continued, Kids, N
<1>8. Bytes'
  BY <1>1, <1>2, BytesSame DEF Typed
<1> QED BY <1>3, <1>4, <1>5, <1>6, <1>7, <1>8 DEF TransferInv

\* The inductive invariant: the types, what each stack waits for, the bytes that each still owes,
\* and why no transfer and no burst ends before its next chunk or beat has come.
THEOREM TransferInvariance == Spec => []TransferInv
<1>1. Init => TransferInv
  BY TransferBegins
<1>2. TransferInv /\ [Next]_vars => TransferInv'
  <2>1. SUFFICES ASSUME TransferInv, [Next]_vars PROVE TransferInv'
    OBVIOUS
  <2>2. CASE NextChunk
    BY <2>1, <2>2, NextChunkKeeps
  <2>3. CASE TakePort
    BY <2>1, <2>3, TakePortKeeps
  <2>4. CASE NextBurst
    BY <2>1, <2>4, NextBurstKeeps
  <2>5. CASE NextBeat
    BY <2>1, <2>5, NextBeatKeeps
  <2>6. CASE BeatFinish
    BY <2>1, <2>6, BeatFinishKeeps
  <2>7. CASE ChunkFinish
    BY <2>1, <2>7, ChunkFinishKeeps
  <2>8. CASE AccessWords
    BY <2>1, <2>8, AccessWordsKeeps
  <2>9. CASE Memory
    BY <2>1, <2>9, MemoryKeeps
  <2>10. CASE WordFinish
    BY <2>1, <2>10, WordFinishKeeps
  <2>11. CASE PreFinish
    BY <2>1, <2>11, PreFinishKeeps
  <2>12. CASE Tick
    BY <2>1, <2>12, TickKeeps
  <2>13. CASE \E s \in DOMAIN memory : Answer(s)
    BY <2>1, <2>13, AnswerKeeps
  <2>14. CASE \E t \in Tasks, a \in Accesses : Request(t, a)
    BY <2>1, <2>14, RequestKeeps
  <2>15. CASE UNCHANGED vars
    <3>1. UNCHANGED <<path, access, stk, portuse, memoplist, memory, image, told, events>>
      BY <2>15 DEF vars
    <3> QED BY <2>1, <3>1, StuttersKeep
  <2> QED BY <2>1, <2>2, <2>3, <2>4, <2>5, <2>6, <2>7, <2>8, <2>9, <2>10, <2>11, <2>12, <2>13, <2>14, <2>15 DEF Next, Step
<1> QED BY <1>1, <1>2, PTL DEF Spec

\* NoDangling, for every number of tasks and every size, width and time that TransferAssumption
\* admits: no handler of fpga_mod_access runs with a stack that was freed.
THEOREM NothingDangles == Spec => []NoDangling
<1>1. TransferInv => NoDangling
  <2>1. SUFFICES ASSUME TransferInv PROVE NoDangling
    OBVIOUS
  <2>2. Typed /\ Queued /\ events \in Seq(EventRec) /\ memoplist \in Seq(Name)
    <3>1. Typed /\ Queued
      BY <2>1 DEF TransferInv
    <3> QED BY <3>1 DEF Queued, IsQueue, Typed
  <2>3. DOMAIN events = 1..Len(events) /\ DOMAIN memoplist = 1..Len(memoplist)
    BY <2>2
  <2>4. \A i \in DOMAIN events : events[i].stack \in DOMAIN stk
    BY <2>2, <2>3 DEF Queued
  <2>5. ToSet(memoplist) \union DOMAIN memory \subseteq DOMAIN stk
    BY <2>2, <2>3 DEF Typed, ToSet
  <2>6. \A s \in DOMAIN stk : Len(s) > 1 => Front(s) \in DOMAIN stk
    BY <2>2 DEF Typed, Closed
  <2> QED BY <2>4, <2>5, <2>6 DEF NoDangling
<1> QED BY <1>1, TransferInvariance, PTL

\* AllCopied, likewise: what a task is told of has been copied to the last byte.
THEOREM EverythingCopied == Spec => []AllCopied
<1>1. TransferInv => AllCopied
  <2>1. SUFFICES ASSUME TransferInv, NEW t \in Tasks
                 PROVE  /\ told[t] <= 1
                        /\ told[t] = 1 => \A o \in DOMAIN image[t] : image[t][o] = access[t].addr + o
    BY DEF AllCopied
  <2>2. Typed /\ Covered
    BY <2>1 DEF TransferInv, Bytes
  <2>3. told[t] \in 0..1
    BY <2>2 DEF Typed
  <2>4. ASSUME told[t] = 1, NEW o \in DOMAIN image[t]
        PROVE  image[t][o] = access[t].addr + o
    <3>1. access[t] # None
      BY <2>2, <2>4 DEF Typed
    <3>2. DOMAIN image[t] = 0..(access[t].size - 1)
      BY <2>2, <3>1 DEF Typed
    <3>3. Exchanged(t, o)
      BY <2>2, <2>4, <3>1, <3>2 DEF Covered
    <3> QED BY <3>3 DEF Exchanged
  <2> QED BY <2>3, <2>4
<1> QED BY <1>1, TransferInvariance, PTL

-----------------------------------------------------------------------------
(* The ports.  A chunk holds one from the handling of its "Chunk" to its end. *)

ChunkDue  == [ev : {"Chunk"}, stack : Name, left : {0}]
DueChunks == Count(events, ChunkDue)
Taken     == {s \in DOMAIN stk : Len(s) = 2 /\ N("Chunk", s) = 0 /\ Waiting(s) = 0}

PortInv ==
  /\ portuse = Cardinality(Taken) /\ portuse <= Port
  /\ memoplist # <<>> => portuse + DueChunks >= Port

SameChunks == \A K : (\A e \in K : e.ev = "Chunk") => Count(events', K) = Count(events, K)

In(e, K) == IF e \in K THEN 1 ELSE 0

\* Counting the pending events needs no more of a new one than that its time is one.
LEMMA PendingOne ==
  ASSUME NEW es, IsQueue(es, EventRec), NEW a, a.left \in Nat, NEW K
  PROVE  Count(Scheduled(es, a), K) = Count(es, K) + In(a, K) /\ Count(es, K) \in Nat
<1> DEFINE E == EventRec \union {a}
<1>1. (\A x \in E : x.left \in Nat) /\ a \in E
  BY RecLeft
<1>2. IsQueue(es, E)
  <2>1. es \in Seq(EventRec) /\ EventRec \subseteq E
    BY DEF IsQueue
  <2>2. es \in Seq(E)
    BY <2>1
  <2> QED BY <2>2 DEF IsQueue
<1> HIDE DEF E
<1>3. Count(Scheduled(es, a), K) = IF a \in K THEN Count(es, K) + 1 ELSE Count(es, K)
  BY <1>1, <1>2, ScheduledCount
<1>4. Count(es, K) \in Nat
  BY <1>2, PlacesFinite DEF IsQueue
<1> QED BY <1>3, <1>4 DEF In

LEMMA PendingTwo ==
  ASSUME NEW es, IsQueue(es, EventRec), NEW a, a.left \in Nat, NEW b, b.left \in Nat, NEW K
  PROVE  Count(ScheduledAll(es, <<a, b>>), K) = Count(es, K) + In(a, K) + In(b, K) /\ Count(es, K) \in Nat
<1> DEFINE E == EventRec \union {a, b}
           q == Scheduled(es, a)
<1>1. (\A x \in E : x.left \in Nat) /\ a \in E /\ b \in E
  BY RecLeft
<1>2. IsQueue(es, E)
  <2>1. es \in Seq(EventRec) /\ EventRec \subseteq E
    BY DEF IsQueue
  <2>2. es \in Seq(E)
    BY <2>1
  <2> QED BY <2>2 DEF IsQueue
<1> HIDE DEF E
<1>3. IsQueue(q, E)
  BY <1>1, <1>2, ScheduledGrown
<1>4. Count(q, K) = Count(es, K) + In(a, K) /\ Count(es, K) \in Nat
  BY PendingOne
<1> HIDE DEF q
<1>5. Count(Scheduled(q, b), K) = IF b \in K THEN Count(q, K) + 1 ELSE Count(q, K)
  BY <1>1, <1>3, ScheduledCount
<1>6. ScheduledAll(es, <<a, b>>) = Scheduled(q, b)
  BY ScheduledTwo DEF q
<1> QED BY <1>4, <1>5, <1>6 DEF In

LEMMA PendingTail ==
  ASSUME NEW es, IsQueue(es, EventRec), es # <<>>
  PROVE  /\ IsQueue(Tail(es), EventRec) /\ es[1] = Head(es)
         /\ \A K : Count(es, K) = Count(Tail(es), K) + In(es[1], K) /\ Count(Tail(es), K) \in Nat
<1>1. IsQueue(Tail(es), EventRec) /\ es[1] = Head(es)
  BY AfterTail
<1>2. SUFFICES ASSUME NEW K
               PROVE  Count(es, K) = Count(Tail(es), K) + In(es[1], K) /\ Count(Tail(es), K) \in Nat
  BY <1>1
<1>3. Count(es, K) = IF es[1] \in K THEN Count(Tail(es), K) + 1 ELSE Count(Tail(es), K)
  BY TailCount DEF IsQueue
<1>4. Count(Tail(es), K) \in Nat
  BY <1>1, PlacesFinite DEF IsQueue
<1> QED BY <1>3, <1>4 DEF In

\* Most steps leave the events of chunks alone.
LEMMA Neutral ==
  ASSUME TransferInv, NEW ev, ev # "Chunk", Handles(ev),
         NEW a, a.left \in Nat, a.ev # "Chunk", NEW b, b.left \in Nat, b.ev # "Chunk",
         events' \in {Tail(events), Scheduled(Tail(events), a), ScheduledAll(Tail(events), <<a, b>>)}
  PROVE  SameChunks
<1>1. IsQueue(events, EventRec) /\ events # <<>> /\ events[1].ev = ev
  <2>1. PICK c, e : c = Cur /\ e = events[1]
    OBVIOUS
  <2> QED BY <2>1, Due
<1>2. SUFFICES ASSUME NEW K, \A e \in K : e.ev = "Chunk" PROVE Count(events', K) = Count(events, K)
  BY DEF SameChunks
<1>3. events[1] \notin K /\ a \notin K /\ b \notin K
  BY <1>1, <1>2
<1> DEFINE q == Tail(events)
<1>4. IsQueue(q, EventRec) /\ Count(events, K) = Count(q, K) + In(events[1], K) /\ Count(q, K) \in Nat
  BY <1>1, PendingTail
<1>5. Count(events, K) = Count(q, K)
  BY <1>3, <1>4 DEF In
<1> HIDE DEF q
<1>6. Count(Scheduled(q, a), K) = Count(q, K) + In(a, K)
  BY <1>4, PendingOne
<1>7. Count(ScheduledAll(q, <<a, b>>), K) = Count(q, K) + In(a, K) + In(b, K)
  BY <1>4, PendingTwo
<1>8. Count(Scheduled(q, a), K) = Count(q, K) /\ Count(ScheduledAll(q, <<a, b>>), K) = Count(q, K)
  BY <1>3, <1>4, <1>6, <1>7 DEF In
<1>9. events' \in {q, Scheduled(q, a), ScheduledAll(q, <<a, b>>)}
  BY DEF q
<1> QED BY <1>5, <1>8, <1>9

LEMMA PortsAside ==
  ASSUME PortInv, UNCHANGED <<portuse, memoplist>>, SameChunks,
         \A s : Len(s) = 2 => (s \in DOMAIN stk' <=> s \in DOMAIN stk)
  PROVE  PortInv'
<1>1. \A s : Count(events', Of("Chunk", s)) = N("Chunk", s)
  <2>1. SUFFICES ASSUME NEW s PROVE Count(events', Of("Chunk", s)) = N("Chunk", s)
    OBVIOUS
  <2>2. \A e \in Of("Chunk", s) : e.ev = "Chunk"
    BY DEF Of
  <2> QED BY <2>2 DEF SameChunks, N
<1>2. Taken' = Taken
  BY <1>1 DEF Taken, N, Waiting
<1>3. DueChunks' = DueChunks
  <2>1. \A e \in ChunkDue : e.ev = "Chunk"
    BY DEF ChunkDue
  <2> QED BY <2>1 DEF SameChunks, DueChunks
<1> QED BY <1>2, <1>3 DEF PortInv

\* The names that come and go with the stacks of other levels.
LEMMA OtherLevel ==
  ASSUME Typed, NEW c \in DOMAIN stk, Len(c) # 2, DOMAIN stk' = DOMAIN stk \/ stk' = Freed(stk, c)
  PROVE  \A s : Len(s) = 2 => (s \in DOMAIN stk' <=> s \in DOMAIN stk)
<1>1. CASE DOMAIN stk' = DOMAIN stk
  BY <1>1
<1>2. CASE stk' = Freed(stk, c)
  <2>1. DOMAIN stk' = DOMAIN stk \ {c}
    BY <1>2 DEF Freed, Restrict
  <2>2. \A s : Len(s) = 2 => s # c
    OBVIOUS
  <2> QED BY <2>1, <2>2, Zenon
<1> QED BY <1>1, <1>2

LEMMA NextBurstPorts ==
  ASSUME TransferInv, PortInv, NextBurst
  PROVE  PortInv'
<1>0. PICK c, e : c = Cur /\ e = events[1]
  OBVIOUS
<1>1. Handles("Bursts") /\ UNCHANGED <<portuse, memoplist>>
  BY DEF NextBurst
<1>2. /\ c \in DOMAIN stk /\ c \in Name /\ "Bursts" \in Kinds(Len(c)) /\ Len(c) <= Leaf /\ stk[c] \in StackRec /\ S = stk[c]
      /\ Typed /\ Counted
  BY <1>0, <1>1, Due
<1>3. Len(c) = 2
  BY <1>2, Level DEF Typed
<1>4. CASE events' = Scheduled(Tail(events), Event("Finish", Cur, 0)) /\ UNCHANGED stk
  <2>1. PICK a : a = Event("Finish", Cur, 0)
    OBVIOUS
  <2>2. a.left \in Nat /\ a.ev # "Chunk"
    BY <2>1 DEF Event
  <2>3. events' \in {Tail(events), Scheduled(Tail(events), a), ScheduledAll(Tail(events), <<a, a>>)}
    BY <1>4, <2>1
  <2>4. SameChunks
    BY <1>1, <2>2, <2>3, Neutral
  <2> QED BY <1>1, <1>4, <2>4, PortsAside
<1>5. CASE /\ stk' = Put([stk EXCEPT ![Cur].offset = @ + Length * Width, ![Cur].left = @ - 1, ![Cur].size = @ - Length * Width],
                         Append(Cur, S.buf + S.offset), Stack(S, S.offset, S.size, Length))
           /\ events' = Scheduled(Tail(events), Event("Beats", Append(Cur, S.buf + S.offset), Extra[IsLoad(Cur)]))
  <2>1. PICK a, id, l : /\ id = Append(Cur, S.buf + S.offset) /\ l = IsLoad(Cur)
                        /\ a = Event("Beats", id, Extra[l])
    OBVIOUS
  <2>2. l \in BOOLEAN
    BY <1>0, <1>2, <2>1, Asked DEF IsLoad
  <2>3. Extra[l] \in Nat
    BY <2>2, InterHolds
  <2>4. a.left \in Nat /\ a.ev # "Chunk"
    BY <2>1, <2>3 DEF Event
  <2>5. events' \in {Tail(events), Scheduled(Tail(events), a), ScheduledAll(Tail(events), <<a, a>>)}
    BY <1>5, <2>1
  <2>6. SameChunks
    BY <1>1, <2>4, <2>5, Neutral
  <2>7. DOMAIN stk' = DOMAIN stk \union {id}
    <3> DEFINE f == [stk EXCEPT ![Cur].offset = @ + Length * Width, ![Cur].left = @ - 1, ![Cur].size = @ - Length * Width]
    <3>1. DOMAIN f = DOMAIN stk
      OBVIOUS
    <3>2. stk' = Put(f, id, Stack(S, S.offset, S.size, Length))
      BY <1>5, <2>1
    <3> HIDE DEF f
    <3> QED BY <3>1, <3>2 DEF Put
  <2>8. Len(id) = 3
    <3>1. S.buf + S.offset \in Nat
      BY <1>2 DEF StackRec
    <3>2. id = Append(c, S.buf + S.offset) /\ Len(c) < 4
      BY <1>0, <1>3, <2>1
    <3>3. Len(id) = Len(c) + 1
      BY <1>2, <3>1, <3>2, ChildName, Zenon
    <3> QED BY <1>3, <3>3
  <2>9. \A s : Len(s) = 2 => (s \in DOMAIN stk' <=> s \in DOMAIN stk)
    <3>1. \A s : Len(s) = 2 => s # id
      BY <2>8
    <3> QED BY <2>7, <3>1, Zenon
  <2> QED BY <1>1, <2>6, <2>9, PortsAside
<1> QED BY <1>4, <1>5 DEF NextBurst

LEMMA NextBeatPorts ==
  ASSUME TransferInv, PortInv, NextBeat
  PROVE  PortInv'
<1>0. PICK c, e : c = Cur /\ e = events[1]
  OBVIOUS
<1>1. Handles("Beats") /\ UNCHANGED <<portuse, memoplist>>
  BY DEF NextBeat
<1>2. /\ c \in DOMAIN stk /\ c \in Name /\ "Beats" \in Kinds(Len(c)) /\ Len(c) <= Leaf /\ stk[c] \in StackRec /\ S = stk[c]
      /\ Typed
  BY <1>0, <1>1, Due
<1>3. Len(c) = 3
  BY <1>2, Level DEF Typed
<1>4. PICK a, b, id : /\ id = Append(Cur, S.buf + S.offset)
                      /\ a = Event("Words", id, 1) /\ b = Event("Beats", Cur, 1)
  OBVIOUS
<1>5. a.left \in Nat /\ a.ev # "Chunk" /\ b.left \in Nat /\ b.ev # "Chunk"
  BY <1>4 DEF Event
<1>6. CASE events' = Tail(events) /\ UNCHANGED stk
  <2>1. SameChunks
    BY <1>1, <1>5, <1>6, Neutral
  <2> QED BY <1>1, <1>6, <2>1, PortsAside
<1>7. CASE /\ stk' = Put([stk EXCEPT ![Cur].offset = @ + Width, ![Cur].left = @ - 1, ![Cur].size = @ - Width, ![Cur].count = @ + 1],
                         Append(Cur, S.buf + S.offset), Stack(S, S.offset, S.size, 0))
           /\ events' = ScheduledAll(Tail(events), BeatEvents(Cur, Append(Cur, S.buf + S.offset)))
  <2>1. events' = ScheduledAll(Tail(events), <<a, b>>)
    BY <1>4, <1>7 DEF BeatEvents
  <2>2. SameChunks
    BY <1>1, <1>5, <2>1, Neutral
  <2>3. DOMAIN stk' = DOMAIN stk \union {id}
    <3> DEFINE f == [stk EXCEPT ![Cur].offset = @ + Width, ![Cur].left = @ - 1, ![Cur].size = @ - Width, ![Cur].count = @ + 1]
    <3>1. DOMAIN f = DOMAIN stk
      OBVIOUS
    <3>2. stk' = Put(f, id, Stack(S, S.offset, S.size, 0))
      BY <1>4, <1>7
    <3> HIDE DEF f
    <3> QED BY <3>1, <3>2 DEF Put
  <2>4. Len(id) = 4
    <3>1. S.buf + S.offset \in Nat
      BY <1>2 DEF StackRec
    <3>2. id = Append(c, S.buf + S.offset) /\ Len(c) < 4
      BY <1>0, <1>3, <1>4
    <3>3. Len(id) = Len(c) + 1
      BY <1>2, <3>1, <3>2, ChildName, Zenon
    <3> QED BY <1>3, <3>3
  <2>5. \A s : Len(s) = 2 => (s \in DOMAIN stk' <=> s \in DOMAIN stk)
    <3>1. \A s : Len(s) = 2 => s # id
      BY <2>4
    <3> QED BY <2>3, <3>1, Zenon
  <2> QED BY <1>1, <2>2, <2>5, PortsAside
<1> QED BY <1>6, <1>7 DEF NextBeat

LEMMA BeatFinishPorts ==
  ASSUME TransferInv, PortInv, BeatFinish
  PROVE  PortInv'
<1>0. PICK c, e, a : c = Cur /\ e = events[1] /\ a = Return(Cur, "Bursts")
  OBVIOUS
<1>1. Handles("BeatFinish") /\ UNCHANGED <<portuse, memoplist>>
  BY DEF BeatFinish
<1>2. c \in DOMAIN stk /\ c \in Name /\ "BeatFinish" \in Kinds(Len(c)) /\ Len(c) <= Leaf /\ Typed
  BY <1>0, <1>1, Due
<1>3. Len(c) # 2
  <2>1. Len(c) = 3
    BY <1>2, Level DEF Typed
  <2> QED BY <2>1
<1>4. a.left \in Nat /\ a.ev # "Chunk"
  BY <1>0 DEF Return, Event
<1>5. events' \in {Tail(events), Scheduled(Tail(events), a), ScheduledAll(Tail(events), <<a, a>>)}
  BY <1>0 DEF BeatFinish
<1>6. SameChunks
  BY <1>1, <1>4, <1>5, Neutral
<1>7. DOMAIN stk' = DOMAIN stk \/ stk' = Freed(stk, c)
  <2>1. CASE stk' = [stk EXCEPT ![Cur].count = @ - 1]
    BY <2>1
  <2>2. CASE stk' = Freed(stk, Cur)
    BY <1>0, <2>2
  <2> QED BY <2>1, <2>2 DEF BeatFinish
<1>8. \A s : Len(s) = 2 => (s \in DOMAIN stk' <=> s \in DOMAIN stk)
  BY <1>2, <1>3, <1>7, OtherLevel
<1> QED BY <1>1, <1>6, <1>8, PortsAside

LEMMA AccessWordsPorts ==
  ASSUME TransferInv, PortInv, AccessWords
  PROVE  PortInv'
<1>0. PICK c, e, a, b : /\ c = Cur /\ e = events[1] /\ a = Return(Cur, "BeatFinish")
                        /\ b = Event("Memory", Cur, MemoryLatency)
  OBVIOUS
<1>1. Handles("Words") /\ UNCHANGED <<portuse, memoplist>>
  BY DEF AccessWords
<1>2. c \in DOMAIN stk /\ c \in Name /\ "Words" \in Kinds(Len(c)) /\ Len(c) <= Leaf /\ Typed
  BY <1>0, <1>1, Due
<1>3. Len(c) = Leaf /\ (path = "burst" => Leaf # 2)
  BY <1>2, Level DEF Typed
<1>4. a.left \in Nat /\ a.ev # "Chunk" /\ b.left \in Nat /\ b.ev # "Chunk"
  BY <1>0, TransferAssumption DEF Return, Event
<1>5. CASE events' = Scheduled(Tail(events), Return(Cur, "BeatFinish")) /\ path = "burst" /\ stk' = Freed(stk, Cur)
  <2>1. SameChunks
    BY <1>0, <1>1, <1>4, <1>5, Neutral
  <2>2. \A s : Len(s) = 2 => (s \in DOMAIN stk' <=> s \in DOMAIN stk)
    BY <1>0, <1>2, <1>3, <1>5, OtherLevel
  <2> QED BY <1>1, <2>1, <2>2, PortsAside
<1>6. CASE /\ stk' = [stk EXCEPT ![Cur].count = Words(S)]
           /\ events' = IF Words(S) = 0 THEN Tail(events) ELSE Scheduled(Tail(events), Event("Memory", Cur, MemoryLatency))
  <2>1. events' \in {Tail(events), Scheduled(Tail(events), b), ScheduledAll(Tail(events), <<b, b>>)}
    BY <1>0, <1>6
  <2>2. SameChunks
    BY <1>1, <1>4, <2>1, Neutral
  <2>3. DOMAIN stk' = DOMAIN stk
    BY <1>6
  <2> QED BY <1>1, <2>2, <2>3, PortsAside
<1> QED BY <1>5, <1>6 DEF AccessWords

LEMMA MemoryPorts ==
  ASSUME TransferInv, PortInv, Memory
  PROVE  PortInv'
<1>1. Handles("Memory") /\ events' = Tail(events) /\ UNCHANGED <<portuse, memoplist, stk>>
  BY DEF Memory
<1>2. PICK a : a = Event("Memory", Cur, 0)
  OBVIOUS
<1>3. a.left \in Nat /\ a.ev # "Chunk"
  BY <1>2 DEF Event
<1>4. SameChunks
  BY <1>1, <1>3, Neutral
<1> QED BY <1>1, <1>4, PortsAside

LEMMA AnswerPorts ==
  ASSUME TransferInv, PortInv, NEW s \in DOMAIN memory, Answer(s)
  PROVE  PortInv'
<1>1. events' = Scheduled(events, Event("WordFinish", s, 0)) /\ UNCHANGED <<portuse, memoplist, stk>>
  BY DEF Answer
<1>2. PICK a : a = Event("WordFinish", s, 0)
  OBVIOUS
<1>3. a.left \in Nat /\ a.ev # "Chunk"
  BY <1>2 DEF Event
<1>4. IsQueue(events, EventRec)
  BY DEF TransferInv, Queued
<1>5. ASSUME NEW K, \A e \in K : e.ev = "Chunk" PROVE Count(events', K) = Count(events, K)
  <2>1. Count(events', K) = Count(events, K) + In(a, K) /\ Count(events, K) \in Nat
    BY <1>1, <1>2, <1>3, <1>4, PendingOne
  <2>2. a \notin K
    BY <1>3, <1>5
  <2> QED BY <2>1, <2>2 DEF In
<1>6. SameChunks
  BY <1>5 DEF SameChunks
<1> QED BY <1>1, <1>6, PortsAside

LEMMA PreFinishPorts ==
  ASSUME TransferInv, PortInv, PreFinish
  PROVE  PortInv'
<1>0. PICK c, e, a : c = Cur /\ e = events[1] /\ a = Event("Pre", Cur, 0)
  OBVIOUS
<1>1. Handles("PreFinish") /\ events' = Tail(events) /\ UNCHANGED <<portuse, memoplist>>
  BY DEF PreFinish
<1>2. c \in DOMAIN stk /\ c \in Name /\ "PreFinish" \in Kinds(Len(c)) /\ Len(c) <= Leaf /\ Typed
  BY <1>0, <1>1, Due
<1>3. Len(c) # 2
  <2>1. Len(c) = 1
    BY <1>2, Level DEF Typed
  <2> QED BY <2>1
<1>4. a.left \in Nat /\ a.ev # "Chunk"
  BY <1>0 DEF Event
<1>5. SameChunks
  BY <1>1, <1>4, Neutral
<1>6. DOMAIN stk' = DOMAIN stk \/ stk' = Freed(stk, c)
  <2>1. CASE stk' = [stk EXCEPT ![Cur].count = @ - 1]
    BY <2>1
  <2>2. CASE stk' = Freed(stk, Cur)
    BY <1>0, <2>2
  <2> QED BY <2>1, <2>2 DEF PreFinish
<1>7. \A s : Len(s) = 2 => (s \in DOMAIN stk' <=> s \in DOMAIN stk)
  BY <1>2, <1>3, <1>6, OtherLevel
<1> QED BY <1>1, <1>5, <1>7, PortsAside

\* A new chunk takes no port yet.
NewChunk(es, c, id) ==
  /\ c \in Name /\ Len(c) = 1 /\ Len(id) = 2 /\ id \notin DOMAIN stk
  /\ DOMAIN stk' = DOMAIN stk \union {c, id}
  /\ events' = ScheduledAll(es, <<Event("Chunk", id, Latency), Event("Pre", c, Inter)>>)
  /\ UNCHANGED <<portuse, memoplist>>

LEMMA NewChunkPorts ==
  ASSUME TransferInv, PortInv, NEW es, IsQueue(es, EventRec), NEW c, NEW id, NewChunk(es, c, id),
         \A K : (\A e \in K : e.ev = "Chunk") => Count(es, K) = Count(events, K)
  PROVE  PortInv'
<1>0. PICK a, d : a = Event("Chunk", id, Latency) /\ d = Event("Pre", c, Inter)
  OBVIOUS
<1>1. /\ Len(c) = 1 /\ Len(id) = 2 /\ id \notin DOMAIN stk /\ DOMAIN stk' = DOMAIN stk \union {c, id}
      /\ UNCHANGED <<portuse, memoplist>> /\ events' = ScheduledAll(es, <<a, d>>)
  BY <1>0 DEF NewChunk
<1>2. a.left \in Nat /\ d.left \in Nat /\ a.ev = "Chunk" /\ a.stack = id /\ d.ev # "Chunk"
  BY <1>0, TransferAssumption DEF Event
<1>3. \A K : Count(events', K) = Count(es, K) + In(a, K) + In(d, K) /\ Count(es, K) \in Nat
  BY <1>1, <1>2, PendingTwo
<1>4. \A K : (\A e \in K : e.ev = "Chunk") =>
        Count(events', K) = Count(events, K) + In(a, K) /\ Count(events, K) \in Nat
  <2>1. SUFFICES ASSUME NEW K, \A e \in K : e.ev = "Chunk"
                 PROVE  Count(events', K) = Count(events, K) + In(a, K) /\ Count(events, K) \in Nat
    OBVIOUS
  <2>2. Count(events', K) = Count(es, K) + In(a, K) + In(d, K) /\ Count(es, K) \in Nat
    BY <1>3
  <2>3. Count(es, K) = Count(events, K)
    BY <2>1
  <2>4. In(d, K) = 0 /\ In(a, K) \in Nat
    BY <1>2, <2>1 DEF In
  <2> QED BY <2>2, <2>3, <2>4
<1>5. \A s : Count(events', Of("Chunk", s)) = N("Chunk", s) + In(a, Of("Chunk", s)) /\ N("Chunk", s) \in Nat
  <2>1. SUFFICES ASSUME NEW s PROVE Count(events', Of("Chunk", s)) = N("Chunk", s) + In(a, Of("Chunk", s)) /\ N("Chunk", s) \in Nat
    OBVIOUS
  <2>2. \A e \in Of("Chunk", s) : e.ev = "Chunk"
    BY DEF Of
  <2> QED BY <1>4, <2>2 DEF N
<1>6. \A s : s # id => In(a, Of("Chunk", s)) = 0
  BY <1>2 DEF In, Of
<1>7. In(a, Of("Chunk", id)) = 1
  <2>1. a \in Of("Chunk", id)
    BY <1>0, <1>2 DEF Event, Of
  <2> QED BY <2>1 DEF In
<1>8. \A s : s # id => Count(events', Of("Chunk", s)) = N("Chunk", s)
  <2>1. SUFFICES ASSUME NEW s, s # id PROVE Count(events', Of("Chunk", s)) = N("Chunk", s)
    OBVIOUS
  <2>2. Count(events', Of("Chunk", s)) = N("Chunk", s) + 0 /\ N("Chunk", s) \in Nat
    BY <1>5, <1>6, <2>1
  <2> QED BY <2>2
<1>9. Count(events', Of("Chunk", id)) # 0
  <2>1. Count(events', Of("Chunk", id)) = N("Chunk", id) + 1 /\ N("Chunk", id) \in Nat
    BY <1>5, <1>7
  <2> QED BY <2>1
<1>10. Taken' = Taken
  <2>1. \A s : s \in Taken' <=> s \in DOMAIN stk' /\ Len(s) = 2 /\ Count(events', Of("Chunk", s)) = 0 /\ Count(memoplist', {s}) = 0
    BY DEF Taken, N, Waiting
  <2>2. \A s : s \in Taken <=> s \in DOMAIN stk /\ Len(s) = 2 /\ N("Chunk", s) = 0 /\ Count(memoplist, {s}) = 0
    BY DEF Taken, Waiting
  <2>3. ASSUME NEW s PROVE s \in Taken' <=> s \in Taken
    <3>1. CASE s = id
      <4>1. s \notin Taken'
        BY <1>9, <2>1, <3>1
      <4>2. s \notin Taken
        BY <1>1, <2>2, <3>1
      <4> QED BY <4>1, <4>2
    <3>2. CASE s # id
      <4>1. Count(events', Of("Chunk", s)) = N("Chunk", s)
        BY <1>8, <3>2
      <4>2. Len(s) = 2 => s # c
        BY <1>1
      <4>3. Len(s) = 2 => (s \in DOMAIN stk' <=> s \in DOMAIN stk)
        BY <1>1, <3>2, <4>2
      <4>4. Count(memoplist', {s}) = Count(memoplist, {s})
        BY <1>1
      <4> QED BY <2>1, <2>2, <4>1, <4>3, <4>4
    <3> QED BY <3>1, <3>2
  <2> HIDE DEF Taken
  <2>4. \A s : s \in Taken' <=> s \in Taken
    BY <2>3
  <2>5. Taken' \subseteq Taken /\ Taken \subseteq Taken'
    BY <2>4
  <2> QED BY <2>5
<1>11. DueChunks' >= DueChunks /\ DueChunks' \in Nat /\ DueChunks \in Nat
  <2>1. \A e \in ChunkDue : e.ev = "Chunk"
    BY DEF ChunkDue
  <2>2. Count(events', ChunkDue) = Count(events, ChunkDue) + In(a, ChunkDue) /\ Count(events, ChunkDue) \in Nat
    BY <1>4, <2>1
  <2>3. In(a, ChunkDue) \in Nat
    BY DEF In
  <2> QED BY <2>2, <2>3 DEF DueChunks
<1>12. portuse \in Int /\ Port \in Nat
  BY TransferAssumption DEF TransferInv, Typed
<1>13. portuse' = Cardinality(Taken') /\ portuse' <= Port
  BY <1>1, <1>10 DEF PortInv
<1>14. memoplist' # <<>> => portuse' + DueChunks' >= Port
  <2>1. SUFFICES ASSUME memoplist' # <<>> PROVE portuse' + DueChunks' >= Port
    OBVIOUS
  <2>2. portuse + DueChunks >= Port
    BY <1>1, <2>1 DEF PortInv
  <2>3. portuse' = portuse
    BY <1>1
  <2>4. PICK x, y, p, q : x = DueChunks /\ y = DueChunks' /\ p = portuse /\ q = portuse'
    OBVIOUS
  <2>5. x \in Nat /\ y \in Nat /\ y >= x /\ p \in Int /\ q = p /\ p + x >= Port /\ Port \in Nat
    BY <1>11, <1>12, <2>2, <2>3, <2>4
  <2>6. q + y >= Port
    BY <2>5
  <2> QED BY <2>4, <2>6
<1> QED BY <1>13, <1>14 DEF PortInv

LEMMA NextChunkPorts ==
  ASSUME TransferInv, PortInv, NextChunk
  PROVE  PortInv'
<1>0. PICK c, id, e : c = Cur /\ id = Append(c, S.buf) /\ e = events[1]
  OBVIOUS
<1>1. /\ Handles("Pre") /\ Pre(c[1], S, Tail(events))
      /\ UNCHANGED <<portuse, memoplist>>
  BY <1>0 DEF NextChunk
<1>2. /\ c \in DOMAIN stk /\ c \in Name /\ "Pre" \in Kinds(Len(c)) /\ Len(c) <= Leaf /\ e.ev = "Pre"
      /\ stk[c] \in StackRec /\ S = stk[c] /\ Typed /\ Bytes /\ IsQueue(events, EventRec) /\ events # <<>>
  BY <1>0, <1>1, Due
<1>3. Len(c) = 1 /\ c[1] \in Tasks
  BY <1>2, Level DEF Typed, Name
<1>4. c = <<c[1]>> /\ S.buf \in Nat /\ S.size \in Int
  BY <1>2, <1>3, TaskName DEF StackRec
<1>5. <<c[1], S.buf>> = id
  <2>1. <<c[1], S.buf>> = Append(<<c[1]>>, S.buf)
    BY <1>3, <1>4, TaskName
  <2> QED BY <1>0, <1>4, <2>1, Zenon
<1>6. CASE S.size <= 0
  <2>1. events' = Tail(events) /\ stk' = Put(stk, c, S)
    BY <1>1, <1>4, <1>6 DEF Pre
  <2>2. DOMAIN stk' = DOMAIN stk
    BY <1>2, <2>1 DEF Put
  <2>3. PICK a : a = Event("Pre", Cur, 0)
    OBVIOUS
  <2>4. a.left \in Nat /\ a.ev # "Chunk"
    BY <2>3 DEF Event
  <2>5. SameChunks
    BY <1>1, <2>1, <2>4, Neutral
  <2> QED BY <1>1, <2>2, <2>5, PortsAside
<1>7. CASE S.size > 0
  <2>1. ~(S.size <= 0)
    BY <1>4, <1>7
  <2>2. /\ stk' = Put(Put(stk, <<c[1]>>, [Stack(S, Chunk(S), S.size - Chunk(S), 0) EXCEPT !.count = S.count + 1]),
                      <<c[1], S.buf>>, Stack(S, 0, Chunk(S), 0))
        /\ events' = ScheduledAll(Tail(events), <<Event("Chunk", <<c[1], S.buf>>, Latency), Event("Pre", <<c[1]>>, Inter)>>)
    BY <1>1, <2>1 DEF Pre
  <2>3. DOMAIN stk' = DOMAIN stk \union {<<c[1]>>, <<c[1], S.buf>>}
    BY <2>2 DEF Put
  <2>4. /\ events' = ScheduledAll(Tail(events), <<Event("Chunk", id, Latency), Event("Pre", c, Inter)>>)
        /\ DOMAIN stk' = DOMAIN stk \union {c, id}
    BY <1>4, <1>5, <2>2, <2>3
  <2>5. Len(id) = 2 /\ Front(id) = c /\ id[2] = S.buf
    <3>1. id = Append(c, S.buf) /\ Len(c) < 4 /\ Len(c) + 1 = 2
      BY <1>0, <1>3
    <3>2. Len(id) = Len(c) + 1 /\ Front(id) = c /\ id[Len(c) + 1] = S.buf
      BY <1>2, <1>4, <3>1, ChildName, Zenon
    <3> QED BY <3>1, <3>2
  <2>6. id \notin DOMAIN stk
    <3>1. SUFFICES ASSUME id \in DOMAIN stk PROVE FALSE
      OBVIOUS
    <3>2. id[2] < stk[Front(id)].buf
      BY <1>2, <2>5, <3>1 DEF Bytes, Passed
    <3>3. S.buf < S.buf
      BY <1>2, <2>5, <3>2
    <3> QED BY <1>4, <3>3
  <2>7. NewChunk(Tail(events), c, id)
    BY <1>1, <1>2, <1>3, <2>4, <2>5, <2>6 DEF NewChunk
  <2>8. ASSUME NEW K, \A x \in K : x.ev = "Chunk" PROVE Count(Tail(events), K) = Count(events, K)
    <3>1. Count(events, K) = Count(Tail(events), K) + In(events[1], K) /\ Count(Tail(events), K) \in Nat
      BY <1>2, PendingTail
    <3>2. events[1] \notin K
      BY <1>0, <1>2, <2>8
    <3>3. In(events[1], K) = 0
      BY <3>2 DEF In
    <3> QED BY <3>1, <3>3
  <2>9. IsQueue(Tail(events), EventRec)
    BY <1>2, PendingTail
  <2> QED BY <2>7, <2>8, <2>9, NewChunkPorts
<1> QED BY <1>4, <1>6, <1>7

LEMMA RequestPorts ==
  ASSUME TransferInv, PortInv, NEW t \in Tasks, NEW q \in Accesses, Request(t, q)
  PROVE  PortInv'
<1>0. PICK c, x, id : c = <<t>> /\ x = Stack([addr |-> q.addr, buf |-> 0], 0, q.size, 0) /\ id = Append(c, x.buf)
  OBVIOUS
<1>1. access[t] = None /\ Pre(t, x, events) /\ UNCHANGED <<portuse, memoplist>>
  BY <1>0 DEF Request
<1>2. ~(x.size <= 0) /\ x.buf \in Nat
  <2>1. x = [addr |-> q.addr + 0, buf |-> 0 + 0, size |-> q.size, offset |-> 0, left |-> 0, count |-> 0]
    BY <1>0 DEF Stack
  <2>2. q.size \in Nat /\ q.size > 0
    BY TransferAssumption
  <2>3. x.size = q.size /\ x.buf = 0 + 0
    BY <2>1
  <2> QED BY <2>2, <2>3
<1>3. <<t, x.buf>> = id
  <2>1. <<t, x.buf>> = Append(<<t>>, x.buf)
    BY <1>2, TaskName
  <2> QED BY <1>0, <2>1, Zenon
<1>4. /\ stk' = Put(Put(stk, <<t>>, [Stack(x, Chunk(x), x.size - Chunk(x), 0) EXCEPT !.count = x.count + 1]),
                    <<t, x.buf>>, Stack(x, 0, Chunk(x), 0))
      /\ events' = ScheduledAll(events, <<Event("Chunk", <<t, x.buf>>, Latency), Event("Pre", <<t>>, Inter)>>)
  BY <1>1, <1>2 DEF Pre
<1>5. DOMAIN stk' = DOMAIN stk \union {<<t>>, <<t, x.buf>>}
  BY <1>4 DEF Put
<1>6. /\ events' = ScheduledAll(events, <<Event("Chunk", id, Latency), Event("Pre", c, Inter)>>)
      /\ DOMAIN stk' = DOMAIN stk \union {c, id}
  BY <1>0, <1>3, <1>4, <1>5
<1>7. c \in Name /\ Len(c) = 1 /\ c[1] = t
  BY <1>0, TaskName
<1>8. Len(id) = 2 /\ Front(id) = c /\ id[1] = t
  <2>1. id = Append(c, x.buf) /\ Len(c) < 4 /\ Len(c) + 1 = 2
    BY <1>0, <1>7
  <2>2. Len(id) = Len(c) + 1 /\ Front(id) = c /\ id[1] = c[1]
    BY <1>2, <1>7, <2>1, ChildName, Zenon
  <2> QED BY <1>7, <2>1, <2>2
<1>9. id \notin DOMAIN stk
  <2>1. SUFFICES ASSUME id \in DOMAIN stk PROVE FALSE
    OBVIOUS
  <2>2. Typed /\ Counted
    BY DEF TransferInv
  <2>3. access[id[1]] # None
    BY <2>1, <2>2, Asked
  <2> QED BY <1>1, <1>8, <2>3
<1>10. NewChunk(events, c, id)
  BY <1>1, <1>6, <1>7, <1>8, <1>9 DEF NewChunk
<1>11. IsQueue(events, EventRec)
  BY DEF TransferInv, Queued
<1> QED BY <1>10, <1>11, NewChunkPorts

\* A chunk that must wait, and one that gets a port.
LEMMA TakePortPorts ==
  ASSUME TransferInv, PortInv, TakePort
  PROVE  PortInv'
<1>0. PICK c, e, q : c = Cur /\ e = events[1] /\ q = Tail(events)
  OBVIOUS
<1>1. Handles("Chunk")
  BY DEF TakePort
<1>2. /\ c \in DOMAIN stk /\ c \in Name /\ "Chunk" \in Kinds(Len(c)) /\ Len(c) <= Leaf /\ Typed /\ Queued
      /\ IsQueue(events, EventRec) /\ events # <<>> /\ e \in EventRec /\ e.ev = "Chunk" /\ e.left = 0 /\ e.stack = c
      /\ N("Chunk", c) > 0 /\ CountedFor(c)
  BY <1>0, <1>1, Due
<1>3. Len(c) = 2
  BY <1>2, Level DEF Typed
<1>4. N("Chunk", c) = 1 /\ Waiting(c) = 0
  BY <1>2, <1>3, ChunkOnly DEF CountedFor
<1>5. IsQueue(q, EventRec) /\ \A K : Count(events, K) = Count(q, K) + In(e, K) /\ Count(q, K) \in Nat
  BY <1>0, <1>2, PendingTail
<1>6. \A s : (s # c => Count(q, Of("Chunk", s)) = N("Chunk", s)) /\ (s = c => Count(q, Of("Chunk", s)) = 0)
  <2>1. SUFFICES ASSUME NEW s
                 PROVE  (s # c => Count(q, Of("Chunk", s)) = N("Chunk", s)) /\ (s = c => Count(q, Of("Chunk", s)) = 0)
    OBVIOUS
  <2>2. N("Chunk", s) = Count(q, Of("Chunk", s)) + In(e, Of("Chunk", s)) /\ Count(q, Of("Chunk", s)) \in Nat
    BY <1>5 DEF N
  <2>3. s # c => In(e, Of("Chunk", s)) = 0
    BY <1>2, InOf DEF In
  <2>4. s = c => In(e, Of("Chunk", s)) = 1
    BY <1>2, InOf DEF In
  <2> QED BY <1>4, <2>2, <2>3, <2>4
<1>7. DueChunks = Count(q, ChunkDue) + 1 /\ Count(q, ChunkDue) \in Nat
  <2>1. e \in ChunkDue
    BY <1>2 DEF EventRec, ChunkDue
  <2> QED BY <1>5, <2>1 DEF In, DueChunks
<1>8. portuse \in Int /\ Port \in Nat /\ portuse = Cardinality(Taken) /\ portuse <= Port
  BY <1>2, TransferAssumption DEF Typed, PortInv
<1>9. CASE Full /\ memoplist' = Append(memoplist, Cur) /\ events' = Tail(events) /\ UNCHANGED <<stk, portuse>>
  <2>1. memoplist \in Seq(Name)
    BY <1>2 DEF Typed
  <2>2. \A s : Count(memoplist', {s}) = IF s = c THEN Waiting(s) + 1 ELSE Waiting(s)
    BY <1>0, <1>2, <1>9, <2>1, AppendCount DEF Waiting
  <2>3. Taken' = Taken
    <3>1. \A s : s \in Taken' <=> s \in DOMAIN stk /\ Len(s) = 2 /\ Count(q, Of("Chunk", s)) = 0 /\ Count(memoplist', {s}) = 0
      BY <1>0, <1>9 DEF Taken, N, Waiting
    <3>2. \A s : s \in Taken <=> s \in DOMAIN stk /\ Len(s) = 2 /\ N("Chunk", s) = 0 /\ Waiting(s) = 0
      BY DEF Taken
    <3>3. Count(memoplist', {c}) # 0 /\ N("Chunk", c) # 0
      BY <1>4, <2>2
    <3>4. \A s : s \in Taken' <=> s \in Taken
      BY <1>6, <2>2, <3>1, <3>2, <3>3
    <3> HIDE DEF Taken
    <3>5. Taken' \subseteq Taken /\ Taken \subseteq Taken'
      BY <3>4
    <3> QED BY <3>5
  <2>4. portuse' = Cardinality(Taken') /\ portuse' = Port
    BY <1>8, <1>9, <2>3 DEF Full
  <2>5. DueChunks' = Count(q, ChunkDue)
    BY <1>0, <1>9 DEF DueChunks
  <2>6. portuse' + DueChunks' >= Port
    BY <1>7, <1>8, <2>4, <2>5
  <2> QED BY <1>8, <2>4, <2>6 DEF PortInv
<1>10. CASE /\ ~Full /\ portuse' = portuse + 1
            /\ stk' = IF path = "burst" THEN [stk EXCEPT ![Cur].left = Bursts(S.size)] ELSE stk
            /\ events' = Scheduled(Tail(events), Event(IF path = "burst" THEN "Bursts" ELSE "Words", Cur, 0))
            /\ UNCHANGED memoplist
  <2>1. PICK a : a = Event(IF path = "burst" THEN "Bursts" ELSE "Words", Cur, 0)
    OBVIOUS
  <2>2. a.left \in Nat /\ a.ev # "Chunk"
    BY <2>1 DEF Event
  <2>3. ASSUME NEW K, \A x \in K : x.ev = "Chunk" PROVE Count(events', K) = Count(q, K)
    <3>1. Count(events', K) = Count(q, K) + In(a, K) /\ Count(q, K) \in Nat
      BY <1>0, <1>5, <1>10, <2>1, <2>2, PendingOne
    <3>2. a \notin K
      BY <2>2, <2>3
    <3> QED BY <3>1, <3>2 DEF In
  <2>4. DOMAIN stk' = DOMAIN stk
    BY <1>10
  <2>5. \A s : Count(events', Of("Chunk", s)) = Count(q, Of("Chunk", s))
    <3>1. SUFFICES ASSUME NEW s PROVE Count(events', Of("Chunk", s)) = Count(q, Of("Chunk", s))
      OBVIOUS
    <3>2. \A x \in Of("Chunk", s) : x.ev = "Chunk"
      BY DEF Of
    <3> QED BY <2>3, <3>2
  <2>6. Taken' = Taken \union {c} /\ c \notin Taken
    <3>1. \A s : s \in Taken' <=> s \in DOMAIN stk /\ Len(s) = 2 /\ Count(q, Of("Chunk", s)) = 0 /\ Waiting(s) = 0
      BY <1>10, <2>4, <2>5 DEF Taken, N, Waiting
    <3>2. \A s : s \in Taken <=> s \in DOMAIN stk /\ Len(s) = 2 /\ N("Chunk", s) = 0 /\ Waiting(s) = 0
      BY DEF Taken
    <3>3. c \in Taken' /\ c \notin Taken
      BY <1>2, <1>3, <1>4, <1>6, <3>1, <3>2
    <3>4. \A s : s # c => (s \in Taken' <=> s \in Taken)
      BY <1>6, <3>1, <3>2
    <3> HIDE DEF Taken
    <3> QED BY <3>3, <3>4
  <2>7. IsFiniteSet(Taken)
    <3>1. IsFiniteSet(DOMAIN stk) /\ Taken \subseteq DOMAIN stk
      BY <1>2 DEF Typed, Closed, Taken
    <3> QED BY <3>1, FS_Subset
  <2>8. Cardinality(Taken') = Cardinality(Taken) + 1
    BY <2>6, <2>7, FS_AddElement
  <2>9. portuse' = Cardinality(Taken') /\ portuse' <= Port
    BY <1>8, <1>10, <2>8 DEF Full
  <2>10. DueChunks' = Count(q, ChunkDue)
    <3>1. \A x \in ChunkDue : x.ev = "Chunk"
      BY DEF ChunkDue
    <3> QED BY <2>3, <3>1 DEF DueChunks
  <2>11. memoplist' # <<>> => portuse' + DueChunks' >= Port
    <3>1. SUFFICES ASSUME memoplist' # <<>> PROVE portuse' + DueChunks' >= Port
      OBVIOUS
    <3>2. portuse + DueChunks >= Port
      BY <1>10, <3>1 DEF PortInv
    <3>3. PICK x, y, p : x = DueChunks /\ y = Count(q, ChunkDue) /\ p = portuse
      OBVIOUS
    <3>4. y \in Nat /\ x = y + 1 /\ p \in Int /\ p + x >= Port /\ Port \in Nat
      BY <1>7, <1>8, <3>2, <3>3
    <3>5. (p + 1) + y >= Port
      BY <3>4
    <3>6. portuse' = p + 1 /\ DueChunks' = y
      BY <1>10, <2>10, <3>3
    <3> QED BY <3>5, <3>6
  <2> QED BY <2>9, <2>11 DEF PortInv
<1> QED BY <1>9, <1>10 DEF TakePort

\* The end of a chunk: its port goes to the chunk that is woken, which takes it in its turn.
PortReturns(ev, c, a, w) ==
  /\ Handles(ev) /\ ev # "Chunk" /\ c = Cur /\ Len(c) = 2 /\ N("Chunk", c) = 0 /\ Waiting(c) = 0
  /\ FreePort /\ stk' = Freed(stk, c) /\ a.left = 0 /\ a.ev # "Chunk"
  /\ w = (IF memoplist = <<>> THEN Nothing ELSE Event("Chunk", memoplist[1], 0))
  /\ \/ events' = ScheduledAll(Tail(events), Append(Woken, a))
     \/ events' = ScheduledAll(Tail(events), <<a>> \o Woken)

LEMMA PortReturnsKeeps ==
  ASSUME TransferInv, PortInv, NEW ev, NEW c, NEW a, NEW w, PortReturns(ev, c, a, w)
  PROVE  PortInv'
<1>0. PICK e, q : e = events[1] /\ q = Tail(events)
  OBVIOUS
<1>1. /\ Handles(ev) /\ ev # "Chunk" /\ c = Cur /\ Len(c) = 2 /\ N("Chunk", c) = 0 /\ Waiting(c) = 0
      /\ FreePort /\ stk' = Freed(stk, c) /\ a.left = 0 /\ a.ev # "Chunk"
      /\ w = (IF memoplist = <<>> THEN Nothing ELSE Event("Chunk", memoplist[1], 0))
  BY DEF PortReturns
<1>2. events' = ScheduledAll(q, Append(Woken, a)) \/ events' = ScheduledAll(q, <<a>> \o Woken)
  BY <1>0 DEF PortReturns
<1>3. /\ c \in DOMAIN stk /\ Typed /\ IsQueue(events, EventRec) /\ events # <<>> /\ e.ev = ev
  BY <1>0, <1>1, Due
<1>4. IsQueue(q, EventRec) /\ \A K : Count(events, K) = Count(q, K) + In(e, K) /\ Count(q, K) \in Nat
  BY <1>0, <1>3, PendingTail
<1>5. memoplist \in Seq(Name)
  BY <1>3 DEF Typed
<1>6. /\ portuse' = portuse - 1
      /\ memoplist = <<>> => Woken = <<>> /\ memoplist' = memoplist
      /\ memoplist # <<>> => Woken = <<Event("Chunk", memoplist[1], 0)>>
      /\ memoplist # <<>> => memoplist[1] \in Name /\ Waiting(memoplist[1]) > 0
      /\ \A s : memoplist = <<>> \/ memoplist[1] # s => Count(memoplist', {s}) = Waiting(s)
  BY <1>1, <1>5, PortFreed
<1>7. ASSUME NEW K, \A x \in K : x.ev = "Chunk"
      PROVE  /\ Count(events', K) = Count(events, K) + (IF memoplist = <<>> THEN 0 ELSE In(w, K))
             /\ Count(events, K) \in Nat
  <2>1. e \notin K /\ a \notin K
    BY <1>1, <1>3, <1>7
  <2>2. Count(events, K) = Count(q, K) /\ Count(q, K) \in Nat
    BY <1>4, <2>1 DEF In
  <2>3. In(a, K) = 0
    BY <2>1 DEF In
  <2>4. CASE memoplist = <<>>
    <3>1. Append(Woken, a) = <<a>> /\ <<a>> \o Woken = <<a>>
      BY <1>6, <2>4
    <3>2. events' = Scheduled(q, a)
      BY <1>2, <3>1, ScheduledOne
    <3>3. a.left \in Nat
      BY <1>1
    <3>4. Count(events', K) = Count(q, K) + In(a, K)
      BY <1>4, <3>2, <3>3, PendingOne
    <3> QED BY <2>2, <2>3, <2>4, <3>4
  <2>5. CASE memoplist # <<>>
    <3>1. Append(Woken, a) = <<w, a>> /\ <<a>> \o Woken = <<a, w>>
      <4>1. Woken = <<w>>
        BY <1>1, <1>6, <2>5
      <4>2. Append(<<w>>, a) = <<w, a>> /\ <<a>> \o <<w>> = <<a, w>>
        BY Paired
      <4> QED BY <4>1, <4>2
    <3>2. events' = ScheduledAll(q, <<w, a>>) \/ events' = ScheduledAll(q, <<a, w>>)
      BY <1>2, <3>1
    <3>3. a.left \in Nat /\ w.left \in Nat
      BY <1>1, <2>5 DEF Event
    <3>4. /\ Count(ScheduledAll(q, <<w, a>>), K) = Count(q, K) + In(w, K) + In(a, K)
          /\ Count(ScheduledAll(q, <<a, w>>), K) = Count(q, K) + In(a, K) + In(w, K)
      BY <1>4, <3>3, PendingTwo
    <3>5. In(w, K) \in Nat
      BY DEF In
    <3>6. Count(events', K) = Count(q, K) + In(w, K)
      BY <2>2, <2>3, <3>2, <3>4, <3>5
    <3> QED BY <2>2, <2>5, <3>6
  <2> QED BY <2>4, <2>5
<1>8. \A s : /\ Count(events', Of("Chunk", s)) = N("Chunk", s) + (IF memoplist = <<>> THEN 0 ELSE In(w, Of("Chunk", s)))
             /\ N("Chunk", s) \in Nat
  <2>1. SUFFICES ASSUME NEW s
                 PROVE  /\ Count(events', Of("Chunk", s)) = N("Chunk", s) + (IF memoplist = <<>> THEN 0 ELSE In(w, Of("Chunk", s)))
                        /\ N("Chunk", s) \in Nat
    OBVIOUS
  <2>2. \A x \in Of("Chunk", s) : x.ev = "Chunk"
    BY DEF Of
  <2> QED BY <1>7, <2>2 DEF N
<1>9. \A s : memoplist = <<>> \/ memoplist[1] # s => Count(events', Of("Chunk", s)) = N("Chunk", s)
  <2>1. SUFFICES ASSUME NEW s, memoplist = <<>> \/ memoplist[1] # s PROVE Count(events', Of("Chunk", s)) = N("Chunk", s)
    OBVIOUS
  <2>2. /\ Count(events', Of("Chunk", s)) = N("Chunk", s) + (IF memoplist = <<>> THEN 0 ELSE In(w, Of("Chunk", s)))
        /\ N("Chunk", s) \in Nat
    BY <1>8
  <2>3. CASE memoplist = <<>>
    BY <2>2, <2>3
  <2>4. CASE memoplist # <<>>
    <3>1. w.stack # s
      BY <1>1, <2>1, <2>4 DEF Event
    <3>2. In(w, Of("Chunk", s)) = 0
      BY <3>1 DEF In, Of
    <3> QED BY <2>2, <2>4, <3>2
  <2> QED BY <2>3, <2>4
<1>10. memoplist # <<>> => Count(events', Of("Chunk", memoplist[1])) # 0
  <2>1. SUFFICES ASSUME memoplist # <<>> PROVE Count(events', Of("Chunk", memoplist[1])) # 0
    OBVIOUS
  <2>2. PICK s : s = memoplist[1]
    OBVIOUS
  <2>3. Count(events', Of("Chunk", s)) = N("Chunk", s) + In(w, Of("Chunk", s)) /\ N("Chunk", s) \in Nat
    BY <1>8, <2>1
  <2>4. w \in Of("Chunk", s)
    BY <1>1, <2>1, <2>2 DEF Event, Of
  <2>5. Count(events', Of("Chunk", s)) # 0
    BY <2>3, <2>4 DEF In
  <2> QED BY <2>2, <2>5
<1>11. DOMAIN stk' = DOMAIN stk \ {c}
  BY <1>1 DEF Freed, Restrict
<1>12. Taken' = Taken \ {c} /\ c \in Taken
  <2>1. \A s : s \in Taken' <=> s \in DOMAIN stk' /\ Len(s) = 2 /\ Count(events', Of("Chunk", s)) = 0 /\ Count(memoplist', {s}) = 0
    BY DEF Taken, N, Waiting
  <2>2. \A s : s \in Taken <=> s \in DOMAIN stk /\ Len(s) = 2 /\ N("Chunk", s) = 0 /\ Waiting(s) = 0
    BY DEF Taken
  <2>3. c \in Taken
    BY <1>1, <1>3, <2>2
  <2>4. c \notin Taken'
    BY <1>11, <2>1
  <2>5. ASSUME NEW s, s # c PROVE s \in Taken' <=> s \in Taken
    <3>1. s \in DOMAIN stk' <=> s \in DOMAIN stk
      BY <1>11, <2>5
    <3>2. CASE memoplist # <<>> /\ memoplist[1] = s
      <4>1. Waiting(s) > 0 /\ Count(events', Of("Chunk", s)) # 0
        BY <1>6, <1>10, <3>2
      <4>2. Waiting(s) # 0
        BY <4>1
      <4> QED BY <2>1, <2>2, <4>1, <4>2
    <3>3. CASE memoplist = <<>> \/ memoplist[1] # s
      <4>1. Count(events', Of("Chunk", s)) = N("Chunk", s) /\ Count(memoplist', {s}) = Waiting(s)
        BY <1>6, <1>9, <3>3
      <4> QED BY <2>1, <2>2, <3>1, <4>1
    <3> QED BY <3>2, <3>3
  <2> HIDE DEF Taken
  <2> QED BY <2>3, <2>4, <2>5
<1>13. IsFiniteSet(Taken)
  <2>1. IsFiniteSet(DOMAIN stk) /\ Taken \subseteq DOMAIN stk
    BY <1>3 DEF Typed, Closed, Taken
  <2> QED BY <2>1, FS_Subset
<1>14. Cardinality(Taken') = Cardinality(Taken) - 1
  BY <1>12, <1>13, FS_RemoveElement
<1>15. portuse \in Int /\ Port \in Nat /\ portuse = Cardinality(Taken) /\ portuse <= Port
  BY <1>3, TransferAssumption DEF Typed, PortInv
<1>16. portuse' = Cardinality(Taken') /\ portuse' <= Port
  BY <1>6, <1>14, <1>15
<1>17. memoplist' # <<>> => portuse' + DueChunks' >= Port
  <2>1. SUFFICES ASSUME memoplist' # <<>> PROVE portuse' + DueChunks' >= Port
    OBVIOUS
  <2>2. memoplist # <<>>
    BY <1>6, <2>1
  <2>3. portuse + DueChunks >= Port
    BY <2>2 DEF PortInv
  <2>4. w \in ChunkDue
    BY <1>1, <1>6, <2>2 DEF Event, ChunkDue
  <2>5. \A x \in ChunkDue : x.ev = "Chunk"
    BY DEF ChunkDue
  <2>6. DueChunks' = DueChunks + 1 /\ DueChunks \in Nat
    <3>1. /\ Count(events', ChunkDue) = Count(events, ChunkDue) + In(w, ChunkDue)
          /\ Count(events, ChunkDue) \in Nat
      BY <1>7, <2>2, <2>5
    <3> QED BY <2>4, <3>1 DEF In, DueChunks
  <2>7. PICK x, p : x = DueChunks /\ p = portuse
    OBVIOUS
  <2>8. x \in Nat /\ p \in Int /\ p + x >= Port /\ Port \in Nat /\ portuse' = p - 1 /\ DueChunks' = x + 1
    BY <1>6, <1>15, <2>3, <2>6, <2>7
  <2>9. (p - 1) + (x + 1) >= Port
    BY <2>8
  <2> QED BY <2>8, <2>9
<1> QED BY <1>16, <1>17 DEF PortInv

LEMMA ChunkFinishPorts ==
  ASSUME TransferInv, PortInv, ChunkFinish
  PROVE  PortInv'
<1>0. PICK c, e, a, w : /\ c = Cur /\ e = events[1] /\ a = Return(Cur, "PreFinish")
                        /\ w = (IF memoplist = <<>> THEN Nothing ELSE Event("Chunk", memoplist[1], 0))
  OBVIOUS
<1>1. /\ Handles("Finish") /\ FreePort /\ stk' = Freed(stk, c) /\ events' = ScheduledAll(Tail(events), Append(Woken, a))
  BY <1>0 DEF ChunkFinish
<1>2. /\ c \in DOMAIN stk /\ c \in Name /\ "Finish" \in Kinds(Len(c)) /\ Len(c) <= Leaf /\ Typed /\ Queued
      /\ N("Finish", c) > 0 /\ CountedFor(c)
  BY <1>0, <1>1, Due
<1>3. Len(c) = 2
  BY <1>2, Level DEF Typed
<1>4. N("Chunk", c) = 0 /\ Waiting(c) = 0
  BY <1>2, <1>3, ChunkOnly DEF CountedFor
<1>5. a.left = 0 /\ a.ev # "Chunk"
  BY <1>0 DEF Return, Event
<1>6. PortReturns("Finish", c, a, w)
  BY <1>0, <1>1, <1>3, <1>4, <1>5 DEF PortReturns
<1> QED BY <1>6, PortReturnsKeeps

LEMMA WordFinishPorts ==
  ASSUME TransferInv, PortInv, WordFinish
  PROVE  PortInv'
<1>0. PICK c, e, a, b, w : /\ c = Cur /\ e = events[1] /\ a = Return(Cur, "PreFinish") /\ b = Return(Cur, "BeatFinish")
                           /\ w = (IF memoplist = <<>> THEN Nothing ELSE Event("Chunk", memoplist[1], 0))
  OBVIOUS
<1>1. Handles("WordFinish")
  BY DEF WordFinish
<1>2. /\ c \in DOMAIN stk /\ c \in Name /\ "WordFinish" \in Kinds(Len(c)) /\ Len(c) <= Leaf /\ Typed /\ Queued
      /\ N("WordFinish", c) > 0 /\ CountedFor(c) /\ stk[c] \in StackRec
  BY <1>0, <1>1, Due
<1>3. Len(c) = Leaf /\ Leaf \in {2, 4} /\ (path = "burst" <=> Leaf = 4)
  BY <1>2, Level DEF Typed
<1>4. a.left = 0 /\ a.ev # "Chunk" /\ b.left \in Nat /\ b.ev # "Chunk"
  BY <1>0 DEF Return, Event
<1>5. CASE stk' = [stk EXCEPT ![Cur].count = @ - 1] /\ events' = Tail(events) /\ UNCHANGED <<portuse, memoplist>>
  <2>1. SameChunks
    BY <1>1, <1>4, <1>5, Neutral
  <2>2. DOMAIN stk' = DOMAIN stk
    BY <1>5
  <2> QED BY <1>5, <2>1, <2>2, PortsAside
<1>6. CASE /\ path = "burst" /\ stk' = Freed(stk, Cur) /\ events' = Scheduled(Tail(events), Return(Cur, "BeatFinish"))
           /\ UNCHANGED <<portuse, memoplist>>
  <2>1. SameChunks
    BY <1>0, <1>1, <1>4, <1>6, Neutral
  <2>2. Len(c) # 2
    BY <1>3, <1>6
  <2>3. \A s : Len(s) = 2 => (s \in DOMAIN stk' <=> s \in DOMAIN stk)
    BY <1>0, <1>2, <1>6, <2>2, OtherLevel
  <2> QED BY <1>6, <2>1, <2>3, PortsAside
<1>7. CASE /\ path = "large" /\ stk' = Freed(stk, Cur) /\ FreePort
           /\ events' = ScheduledAll(Tail(events), <<Return(Cur, "PreFinish")>> \o Woken)
  <2>1. Len(c) = 2
    BY <1>3, <1>7
  <2>2. stk[c].count \in Nat
    BY <1>2 DEF StackRec
  <2>3. N("Chunk", c) = 0 /\ Waiting(c) = 0
    BY <1>2, <1>3, <2>2, LeafOnly DEF CountedFor
  <2>4. PortReturns("WordFinish", c, a, w)
    BY <1>0, <1>1, <1>4, <1>7, <2>1, <2>3 DEF PortReturns
  <2> QED BY <2>4, PortReturnsKeeps
<1> QED BY <1>5, <1>6, <1>7 DEF WordFinish

LEMMA TickPorts ==
  ASSUME TransferInv, PortInv, Tick
  PROVE  PortInv'
<1>1. events # <<>> /\ IsQuiet(events)
  BY DEF Tick
<1>2. events' = Elapsed(events) /\ UNCHANGED <<stk, portuse, memoplist>>
  BY DEF Tick
<1>3. IsQueue(events, EventRec)
  BY DEF TransferInv, Queued
<1>4. IsQueue(events', EventRec)
  <2>1. TransferInv'
    BY TickKeeps
  <2> QED BY <2>1 DEF TransferInv, Queued
<1>5. Timed(EventRec)
  <2>1. \A x \in EventRec : x.left \in Nat /\ OneLess(x.left) \in Nat
    BY DEF EventRec, OneLess
  <2>2. \A x \in EventRec : [x EXCEPT !.left = OneLess(x.left)] \in EventRec
    BY <2>1 DEF EventRec
  <2>3. \A x \in EventRec : [x EXCEPT !.left = OneLess(x.left)].left = OneLess(x.left)
    BY DEF EventRec
  <2> QED BY <2>1, <2>2, <2>3 DEF Timed
<1>6. Len(Elapsed(events)) = Len(events) /\ Aged(events)
  BY <1>1, <1>3, <1>5, ElapsedQueue, Zenon
<1>7. \A i \in 1..Len(events) : events[i] \in EventRec /\ events'[i] \in EventRec
  BY <1>2, <1>3, <1>4, <1>6, QueueRec
<1>8. Len(events') = Len(events)
  BY <1>2, <1>6
<1>9. ASSUME NEW i \in 1..Len(events)
      PROVE  /\ events'[i].ev = events[i].ev /\ events'[i].stack = events[i].stack
             /\ events[i].left # 0
  <2>1. events'[i] = [events[i] EXCEPT !.left = OneLess(events[i].left)] /\ events[i].left \in Nat \ {0}
    BY <1>2, <1>6, Zenon DEF Aged
  <2>2. events[i] \in EventRec
    BY <1>7
  <2>3. events'[i].ev = events[i].ev /\ events'[i].stack = events[i].stack
    BY <2>1, <2>2 DEF EventRec
  <2> QED BY <2>1, <2>3
<1>10. \A s : Count(events', Of("Chunk", s)) = N("Chunk", s)
  <2>1. SUFFICES ASSUME NEW s PROVE Count(events', Of("Chunk", s)) = N("Chunk", s)
    OBVIOUS
  <2>2. \A i \in 1..Len(events) : events'[i] \in Of("Chunk", s) <=> events[i] \in Of("Chunk", s)
    BY <1>7, <1>9, InOf
  <2>3. Places(events', Of("Chunk", s)) = Places(events, Of("Chunk", s))
    BY <1>8, <2>2 DEF Places
  <2> QED BY <2>3 DEF Count, N
<1>11. Taken' = Taken
  BY <1>2, <1>10 DEF Taken, N, Waiting
<1>12. DueChunks = 0
  <2>1. \A i \in 1..Len(events) : events[i] \notin ChunkDue
    BY <1>9 DEF ChunkDue
  <2>2. events \in Seq(EventRec)
    BY <1>3 DEF IsQueue
  <2> QED BY <2>1, <2>2, CountNone DEF DueChunks
<1>13. DueChunks' \in Nat
  <2>1. events' \in Seq(EventRec)
    BY <1>4 DEF IsQueue
  <2>2. Count(events', ChunkDue) \in Nat
    BY <2>1, PlacesFinite
  <2> QED BY <2>2 DEF DueChunks
<1>14. portuse \in Int /\ Port \in Nat
  BY TransferAssumption DEF TransferInv, Typed
<1>15. memoplist' # <<>> => portuse' + DueChunks' >= Port
  <2>1. SUFFICES ASSUME memoplist' # <<>> PROVE portuse' + DueChunks' >= Port
    OBVIOUS
  <2>2. portuse + DueChunks >= Port
    BY <1>2, <2>1 DEF PortInv
  <2>3. portuse + 0 >= Port
    BY <1>12, <2>2
  <2>4. PICK y, p : y = DueChunks' /\ p = portuse
    OBVIOUS
  <2>5. y \in Nat /\ p \in Int /\ p + 0 >= Port /\ Port \in Nat /\ portuse' = p
    BY <1>2, <1>13, <1>14, <2>3, <2>4
  <2>6. p + y >= Port
    BY <2>5
  <2> QED BY <2>4, <2>5, <2>6
<1> QED BY <1>2, <1>11, <1>15 DEF PortInv

\* A chunk holds a port from its turn to its end, and as many chunks do as portuse says.
THEOREM PortInvariance == Spec => [](TransferInv /\ PortInv)
<1>1. Init => PortInv
  <2>1. SUFFICES ASSUME Init PROVE PortInv
    OBVIOUS
  <2>2. DOMAIN stk = {} /\ portuse = 0 /\ memoplist = <<>>
    BY <2>1 DEF Init
  <2>3. Cardinality(Taken) = 0
    <3>1. Taken = {}
      BY <2>2 DEF Taken
    <3> QED BY <3>1, FS_EmptySet
  <2>4. 0 <= Port
    BY TransferAssumption
  <2> QED BY <2>2, <2>3, <2>4 DEF PortInv
<1>2. TransferInv /\ PortInv /\ [Next]_vars => PortInv'
  <2>1. SUFFICES ASSUME TransferInv, PortInv, [Next]_vars PROVE PortInv'
    OBVIOUS
  <2>2. CASE NextChunk
    BY <2>1, <2>2, NextChunkPorts
  <2>3. CASE TakePort
    BY <2>1, <2>3, TakePortPorts
  <2>4. CASE NextBurst
    BY <2>1, <2>4, NextBurstPorts
  <2>5. CASE NextBeat
    BY <2>1, <2>5, NextBeatPorts
  <2>6. CASE BeatFinish
    BY <2>1, <2>6, BeatFinishPorts
  <2>7. CASE ChunkFinish
    BY <2>1, <2>7, ChunkFinishPorts
  <2>8. CASE AccessWords
    BY <2>1, <2>8, AccessWordsPorts
  <2>9. CASE Memory
    BY <2>1, <2>9, MemoryPorts
  <2>10. CASE WordFinish
    BY <2>1, <2>10, WordFinishPorts
  <2>11. CASE PreFinish
    BY <2>1, <2>11, PreFinishPorts
  <2>12. CASE Tick
    BY <2>1, <2>12, TickPorts
  <2>13. CASE \E s \in DOMAIN memory : Answer(s)
    BY <2>1, <2>13, AnswerPorts
  <2>14. CASE \E t \in Tasks, a \in Accesses : Request(t, a)
    BY <2>1, <2>14, RequestPorts
  <2>15. CASE UNCHANGED vars
    <3>1. UNCHANGED <<portuse, memoplist, stk, events>>
      BY <2>15 DEF vars
    <3>2. SameChunks
      BY <3>1 DEF SameChunks
    <3> QED BY <2>1, <3>1, <3>2, PortsAside
  <2> QED BY <2>1, <2>2, <2>3, <2>4, <2>5, <2>6, <2>7, <2>8, <2>9, <2>10, <2>11, <2>12, <2>13, <2>14, <2>15 DEF Next, Step
<1>3. Spec => []PortInv
  BY <1>1, <1>2, TransferInvariance, PTL DEF Spec
<1> QED BY <1>3, TransferInvariance, PTL

\* The events in the model's own words.
LEMMA HoldingIsTaken ==
  ASSUME TransferInv
  PROVE  Holding = Taken /\ Cardinality({i \in DOMAIN events : events[i].ev = "Chunk" /\ events[i].left = 0}) = DueChunks
<1>1. Typed /\ Queued /\ events \in Seq(EventRec)
  BY DEF TransferInv, Queued, IsQueue
<1>2. DOMAIN events = 1..Len(events) /\ \A i \in DOMAIN events : events[i] \in EventRec
  BY <1>1
<1>3. memoplist \in Seq(Name) /\ DOMAIN memoplist = 1..Len(memoplist)
  BY <1>1 DEF Typed
<1>4. \A s : N("Chunk", s) = 0 <=> s \notin Coming
  <2>1. \A s : N("Chunk", s) = 0 <=> \A i \in 1..Len(events) : ~(events[i].ev = "Chunk" /\ events[i].stack = s)
    BY <1>1, CountIs DEF N
  <2> QED BY <1>2, <2>1 DEF Coming
<1>5. \A s : Waiting(s) = 0 <=> s \notin ToSet(memoplist)
  <2>1. \A s : Waiting(s) = 0 <=> \A i \in 1..Len(memoplist) : memoplist[i] # s
    BY <1>1, Numbers
  <2> QED BY <1>3, <2>1 DEF ToSet
<1>6. Holding = Taken
  BY <1>4, <1>5 DEF Holding, Taken
<1>7. {i \in DOMAIN events : events[i].ev = "Chunk" /\ events[i].left = 0} = Places(events, ChunkDue)
  BY <1>2 DEF EventRec, ChunkDue, Places
<1> QED BY <1>6, <1>7 DEF DueChunks, Count

\* PortsHeld, for every number of tasks and ports and every size, width and time that
\* TransferAssumption admits: interconnect->portuse is the number of chunks that hold a port, and
\* is never more than there are ports.
THEOREM PortsAreHeld == Spec => []PortsHeld
<1>1. TransferInv /\ PortInv => PortsHeld
  BY HoldingIsTaken DEF PortInv, PortsHeld
<1> QED BY <1>1, PortInvariance, PTL

\* NoIdlePort, likewise: a chunk waits in interconnect->memoplist only while each port is held or
\* about to be taken.
THEOREM NoPortIdles == Spec => []NoIdlePort
<1>1. TransferInv /\ PortInv => NoIdlePort
  BY HoldingIsTaken DEF PortInv, NoIdlePort
<1> QED BY <1>1, PortInvariance, PTL

\* TypeOK, likewise.
THEOREM TransferTypeCorrect == Spec => []TypeOK
<1>1. TransferInv /\ PortInv => TypeOK
  <2>1. SUFFICES ASSUME TransferInv, PortInv PROVE TypeOK
    OBVIOUS
  <2>2. Typed /\ Queued /\ Counted
    BY <2>1 DEF TransferInv
  <2>3. /\ path \in {"burst", "large"} /\ access \in [Tasks -> Accesses \union {None}] /\ told \in [Tasks -> 0..1]
        /\ \A s \in DOMAIN stk : stk[s] \in StackRec
    BY <2>2 DEF Typed
  <2>4. DOMAIN stk \subseteq Seq(Tasks \union Nat)
    BY <2>2 DEF Typed, Closed, Name
  <2>5. portuse \in 0..Port
    <3>1. IsFiniteSet(Taken)
      <4>1. IsFiniteSet(DOMAIN stk) /\ Taken \subseteq DOMAIN stk
        BY <2>2 DEF Typed, Closed, Taken
      <4> QED BY <4>1, FS_Subset
    <3>2. Cardinality(Taken) \in Nat
      BY <3>1, FS_CardinalityType
    <3> QED BY <2>1, <3>2, TransferAssumption DEF PortInv
  <2>6. memoplist \in Seq(DOMAIN stk)
    <3>1. memoplist \in Seq(Name) /\ \A i \in 1..Len(memoplist) : memoplist[i] \in DOMAIN stk
      BY <2>2 DEF Typed
    <3> QED BY <3>1
  <2>7. ASSUME NEW s \in DOMAIN memory PROVE s \in DOMAIN stk /\ memory[s] <= stk[s].count
    <3>1. s \in DOMAIN stk /\ Len(s) = Leaf /\ memory[s] \in Nat \ {0} /\ stk[s].count \in Nat
      BY <2>2, <2>3 DEF Typed, StackRec
    <3>2. N("WordFinish", s) + Unanswered(s) <= stk[s].count
      BY <2>2, <3>1 DEF Counted, CountedFor, LeafCounted
    <3>3. Unanswered(s) = memory[s] /\ N("WordFinish", s) \in Nat
      BY <2>2, NumbersAt DEF Unanswered
    <3> QED BY <3>1, <3>2, <3>3
  <2> QED BY <2>3, <2>4, <2>5, <2>6, <2>7 DEF TypeOK, StackRec
<1> QED BY <1>1, PortInvariance, PTL

=============================================================================
