----------------------------- MODULE NmoesiProofs -----------------------------
(***************************************************************************)
(* Proofs about Nmoesi, for any tree of modules, any number of ways, blocks  *)
(* and threads: every handler keeps an invariant Inv, from which the types  *)
(* and the uniqueness of a block's way in a module follow.                 *)
(*                                                                         *)
(* Inv says of each chain that its frames call one another as the code does *)
(* (Shape), which frame holds which entry locked and with which transient   *)
(* tag (Hold), and what a frame may believe of the line it holds (Facts);    *)
(* of the forks of an invalidation, who waits for them; and of each entry,   *)
(* who locks it and who sleeps at it.  The theorems assume the assertions   *)
(* of the handlers (CodeAssertions), which the runs check; the proof cites  *)
(* an assertion at the handler that makes it.                              *)
(***************************************************************************)
EXTENDS Nmoesi, SequenceTheorems, FiniteSetTheorems, TLAPS

Caches     == {m \in Mods : Low[m] # None}
States     == {"N", "M", "O", "E", "S", "I"}
Contents   == {"none", "fresh", "stale"}
Replies    == {"none", "ack", "ack_data", "ack_data_sent_to_peer"}

AccessFirst   == {"LOAD_ACTION", "STORE_ACTION", "PREFETCH_ACTION", "NC_STORE_WRITEBACK"}
AccessKeeps   == {"LOAD_MISS", "LOAD_UNLOCK", "STORE_UNLOCK", "PREFETCH_MISS",
                  "NC_STORE_ACTION", "NC_STORE_MISS", "NC_STORE_UNLOCK"}
AccessPcs     == {"LOCK", "FINISH"} \union AccessFirst \union AccessKeeps
FindKeeps     == {"FIND_AND_LOCK_ACTION", "FIND_AND_LOCK_FINISH"}
FindPcs       == {"FIND_AND_LOCK", "DIR_WAIT"} \union FindKeeps
EvictFirst    == {"EVICT_PROCESS", "EVICT_PROCESS_NONCOHERENT"}
EvictPcs      == {"EVICT_INVALID", "EVICT_REPLY_RECEIVE"} \union EvictFirst
InvalidatePcs == {"INVALIDATE", "INVALIDATE_FINISH"}
ReadKeeps     == {"READ_REQUEST_UPDOWN_MISS", "READ_REQUEST_UPDOWN_FINISH", "READ_REQUEST_DOWNUP_FINISH"}
WriteKeeps    == {"WRITE_REQUEST_EXCLUSIVE", "WRITE_REQUEST_UPDOWN_FINISH"}
ReadPcs       == {"READ_REQUEST_ACTION"} \union ReadKeeps
WritePcs      == {"WRITE_REQUEST_ACTION", "WRITE_REQUEST_REPLY"} \union WriteKeeps

AccessFrames ==
  [pc : AccessPcs, kind : Kinds, mod : Caches, addr : Blocks, way : Nat, state : States,
   err : BOOLEAN, shared : BOOLEAN, data : Contents]
FindFrames ==
  [pc : FindPcs, mod : Mods, addr : Blocks, blocking : BOOLEAN, way : Nat,
   hit : BOOLEAN, state : States, err : BOOLEAN]
EvictFrames ==
  {f \in [pc : EvictPcs, mod : Mods, addr : Blocks, srcWay : Nat, way : Nat,
          reply : Replies, state : States, data : Contents, err : BOOLEAN] :
     f.pc # "EVICT_INVALID" => f.mod \in Caches}
InvalidateFrames ==
  [pc : InvalidatePcs, mod : Mods, way : Nat, addr : Blocks, except : Mods \union {None},
   reply : Replies]
RequestFrames ==
  {f \in [pc : ReadPcs \union WritePcs, mod : Mods, target : Mods, addr : Blocks, up : BOOLEAN,
          peer : Mods \union {None}, nc : BOOLEAN, way : Nat, state : States, err : BOOLEAN,
          shared : BOOLEAN, reply : Replies, data : Contents, viaPeer : BOOLEAN, retain : BOOLEAN] :
     /\ IF f.up THEN Low[f.mod] = f.target ELSE Low[f.target] = f.mod
     /\ f.pc = "READ_REQUEST_UPDOWN_MISS" => f.target \in Caches
     /\ f.pc \in {"READ_REQUEST_UPDOWN_MISS", "READ_REQUEST_UPDOWN_FINISH", "WRITE_REQUEST_UPDOWN_FINISH"} => f.up
     /\ f.pc \in {"READ_REQUEST_DOWNUP_FINISH", "WRITE_REQUEST_REPLY"} => ~f.up}
MessageFrames ==
  {f \in [pc : {"MESSAGE_ACTION"}, mod : Mods, target : Mods, addr : Blocks, way : Nat,
          state : States, err : BOOLEAN] : Low[f.mod] = f.target}
Frames == AccessFrames \union FindFrames \union EvictFrames \union InvalidateFrames
            \union RequestFrames \union MessageFrames

First == AccessFirst \union EvictFirst \union {"READ_REQUEST_ACTION", "WRITE_REQUEST_ACTION", "MESSAGE_ACTION"}
Keeps == AccessKeeps \union FindKeeps \union ReadKeeps \union WriteKeeps

\* The module of the entry that a frame locks.
Where(f) ==
  IF f.pc \in EvictPcs THEN Low[f.mod]
  ELSE IF f.pc \in ReadPcs \union WritePcs \union {"MESSAGE_ACTION"} THEN f.target ELSE f.mod

\* The request g serves f: up-down for a miss, down-up for a read that the owner must answer.
Serves(f, g) ==
  /\ g.mod = Where(f) /\ g.addr = f.addr
  /\ g.up => /\ f.pc \in {"LOAD_MISS", "STORE_UNLOCK", "PREFETCH_MISS", "NC_STORE_MISS", "READ_REQUEST_UPDOWN_MISS",
                          "WRITE_REQUEST_UPDOWN_FINISH"}
  /\ ~g.up => /\ f.pc \in {"READ_REQUEST_UPDOWN_FINISH", "READ_REQUEST_DOWNUP_FINISH"}
              /\ g.pc \in ReadPcs

\* A frame f may have called g: find-and-lock, a request, an eviction, an invalidation, a message.
Link(f, g) ==
  \/ /\ g.pc \in FindPcs /\ f.pc \in First
     /\ g.mod = Where(f) /\ g.addr = f.addr
  \/ g.pc \in ReadPcs \union WritePcs /\ Serves(f, g)
  \/ /\ g.pc \in EvictPcs /\ f.pc \in {"FIND_AND_LOCK_FINISH", "NC_STORE_ACTION"}
     /\ g.mod = f.mod /\ g.srcWay = f.way
     /\ f.pc = "NC_STORE_ACTION" => f.state \in {"M", "O"}
  \/ /\ g.pc \in InvalidatePcs /\ f.pc = "EVICT_INVALID"
     /\ g.mod = f.mod /\ g.way = f.srcWay /\ g.addr = f.addr /\ g.except = None
  \/ /\ g.pc \in InvalidatePcs /\ f.pc = "WRITE_REQUEST_EXCLUSIVE"
     /\ g.mod = f.target /\ g.way = f.way /\ g.addr = f.addr /\ g.except = f.mod
  \/ g.pc = "MESSAGE_ACTION" /\ f.pc = "NC_STORE_MISS" /\ g.mod = f.mod /\ g.addr = f.addr

\* The first frame of the chain d: the thread's access, or the write request to a sharer.
Bottom(d, f) ==
  IF Len(d) = 1 THEN f \in AccessFrames /\ f.mod = Home[d[1]]
  ELSE f \in RequestFrames /\ f.pc \in WritePcs /\ ~f.up /\ f.target = d[Len(d)]

\* The frames s of the chain d call one another.
Shape(d, s) ==
  /\ s \in Seq(Frames)
  /\ \A i \in 1 .. Len(s) - 1 : Link(s[i], s[i + 1])
  /\ s # <<>> => Bottom(d, s[1])

\* f holds the entry of its way locked: always at Keeps, at First once find-and-lock has returned.
Holding(f, top) == f.pc \in Keeps \/ (f.pc \in First /\ top /\ ~f.err)
HoldsAt(s, i)   == Holding(s[i], i = Len(s))
Same(f, g) == Where(f) = Where(g) /\ f.way = g.way

\* What the frames s of d hold is locked by d with their block as transient tag, each entry once.
Hold(d, s, lk, bl) ==
  /\ \A i \in 1 .. Len(s) : HoldsAt(s, i) =>
       /\ s[i].way \in Ways(Where(s[i]))
       /\ lk[Where(s[i])][s[i].way].by = d
       /\ bl[Where(s[i])][s[i].way].trans = s[i].addr
  /\ \A i, j \in 1 .. Len(s) : HoldsAt(s, i) /\ HoldsAt(s, j) /\ Same(s[i], s[j]) => i = j

Nc == {"NC_STORE_ACTION", "NC_STORE_MISS", "NC_STORE_UNLOCK"}
\* Frames whose line has a state.
Solid(f) ==
  IF f.pc \in Nc THEN f.state \in {"E", "S", "N"}
  ELSE f.state # "I" \/ f.pc \in {"READ_REQUEST_UPDOWN_FINISH", "READ_REQUEST_DOWNUP_FINISH"}

\* The line b holds the block a; or it has no state.
Carries(b, a) == b.state # "I" /\ b.tag = a
MayCarry(b, a) == b.state = "I" \/ b.tag = a

\* What a frame f may believe of the line b that it holds, evicts or invalidates.
FactOfHolder(f, b) ==
  /\ f.pc \notin FindPcs =>
       /\ MayCarry(b, f.addr)
       /\ Solid(f) => b.state # "I"
       /\ Where(f) \notin Caches => f.state \in {"E", "M"}
  /\ f.pc \in First \union {"FIND_AND_LOCK_ACTION"} => f.state = b.state
  /\ f.pc = "FIND_AND_LOCK_ACTION" /\ f.hit => Carries(b, f.addr)

FactOfEvict(f, b) ==
  IF f.pc = "EVICT_INVALID" THEN MayCarry(b, f.addr) ELSE Carries(b, f.addr)
FactOfInvalidate(f, b) ==
  IF f.pc = "INVALIDATE" THEN MayCarry(b, f.addr) ELSE Carries(b, f.addr)

HolderFact(s, i, bl) == HoldsAt(s, i) => FactOfHolder(s[i], bl[Where(s[i])][s[i].way])
EvictFact(s, i, bl, dr) ==
  s[i].pc \in EvictPcs =>
    /\ FactOfEvict(s[i], bl[s[i].mod][s[i].srcWay])
    /\ s[i].pc = "EVICT_INVALID" /\ i = Len(s) => dr[s[i].mod][s[i].srcWay].sharers = {}
InvalidateFact(s, i, bl, dr) ==
  s[i].pc \in InvalidatePcs =>
    /\ FactOfInvalidate(s[i], bl[s[i].mod][s[i].way])
    /\ s[i].pc = "INVALIDATE_FINISH" /\ s[i].except = None => dr[s[i].mod][s[i].way].sharers = {}
Facts(s, bl, dr) ==
  \A i \in 1 .. Len(s) : HolderFact(s, i, bl) /\ EvictFact(s, i, bl, dr) /\ InvalidateFact(s, i, bl, dr)

\* Every chain is well formed, holds what it believes to hold, and believes nothing false.
Chains == \A c \in DOMAIN chain : Shape(c, chain[c]) /\ Hold(c, chain[c], lock, block) /\ Facts(chain[c], block, dir)

\* A forked chain is a request for the block of the invalidation that waits for it.
Forks ==
  \A d \in DOMAIN chain :
    /\ d \in Seq(Threads \union Mods) /\ Len(d) >= 1
    /\ Len(d) = 1 => d[1] \in Threads
    /\ Len(d) > 1 => /\ Front(d) \in DOMAIN chain /\ d[Len(d)] \in Mods
                     /\ chain[d] # <<>> /\ chain[Front(d)] # <<>>
                     /\ Top(Front(d)).pc = "INVALIDATE_FINISH"
                     /\ chain[d][1].mod = Top(Front(d)).mod /\ chain[d][1].addr = Top(Front(d)).addr

\* In the queue of an entry are, once each, lookups that sleep at it.
Queues ==
  \A m \in Mods : \A w \in Ways(m) : LET q == lock[m][w].queue IN
    /\ q \in Seq(DOMAIN chain)
    /\ \A i \in 1 .. Len(q) : At(q[i], "DIR_WAIT") /\ Top(q[i]).mod = m /\ Top(q[i]).way = w
    /\ \A i, j \in 1 .. Len(q) : q[i] = q[j] => i = j

\* Who locks an entry is a chain; a forked one holds it in one of its frames.
Lockers ==
  \A m \in Mods : \A w \in Ways(m) : LET d == lock[m][w].by IN
    /\ d \in DOMAIN chain \union {<<>>}
    /\ Len(d) > 1 => \E i \in 1 .. Len(chain[d]) : HoldsAt(chain[d], i) /\ Where(chain[d][i]) = m /\ chain[d][i].way = w

\* Lines with a state have a tag, main memory is E or M, sharers and owners are modules above.
Lines ==
  \A m \in Mods : \A w \in Ways(m) :
    /\ block[m][w].state # "I" => block[m][w].tag \in Blocks
    /\ m \notin Caches => block[m][w].state \in {"I", "E", "M"}
    /\ dir[m][w].sharers # {} => block[m][w].state # "I"
    /\ dir[m][w].sharers \subseteq {n \in Mods : Low[n] = m}
    /\ dir[m][w].owner # None => Low[dir[m][w].owner] = m

\* At most one way of a module has a block, as tag or as transient tag of a locked entry.
OneMatch == \A m \in Mods, a \in Blocks : \A v, w \in Matches(m, a) : v = w

-----------------------------------------------------------------------------
(* Frames.                                                                   *)

\* The handler a frame waits for tells what kind of frame it is.
LEMMA ByPc ==
  ASSUME NEW f \in Frames
  PROVE  /\ f.pc \in AccessPcs => f \in AccessFrames
         /\ f.pc \in FindPcs => f \in FindFrames
         /\ f.pc \in EvictPcs => f \in EvictFrames
         /\ f.pc \in InvalidatePcs => f \in InvalidateFrames
         /\ f.pc \in ReadPcs \union WritePcs => f \in RequestFrames
         /\ f.pc = "MESSAGE_ACTION" => f \in MessageFrames
<1>1. CASE f \in AccessFrames
  <2>1. f.pc \in AccessPcs
    BY <1>1 DEF AccessFrames
  <2> QED BY <1>1, <2>1 DEF AccessPcs, AccessFirst, AccessKeeps, FindPcs, FindKeeps, EvictPcs, EvictFirst, InvalidatePcs, ReadPcs, ReadKeeps, WritePcs, WriteKeeps
<1>2. CASE f \in FindFrames
  <2>1. f.pc \in FindPcs
    BY <1>2 DEF FindFrames
  <2> QED BY <1>2, <2>1 DEF AccessPcs, AccessFirst, AccessKeeps, FindPcs, FindKeeps, EvictPcs, EvictFirst, InvalidatePcs, ReadPcs, ReadKeeps, WritePcs, WriteKeeps
<1>3. CASE f \in EvictFrames
  <2>1. f.pc \in EvictPcs
    BY <1>3 DEF EvictFrames
  <2> QED BY <1>3, <2>1 DEF AccessPcs, AccessFirst, AccessKeeps, FindPcs, FindKeeps, EvictPcs, EvictFirst, InvalidatePcs, ReadPcs, ReadKeeps, WritePcs, WriteKeeps
<1>4. CASE f \in InvalidateFrames
  <2>1. f.pc \in InvalidatePcs
    BY <1>4 DEF InvalidateFrames
  <2> QED BY <1>4, <2>1 DEF AccessPcs, AccessFirst, AccessKeeps, FindPcs, FindKeeps, EvictPcs, EvictFirst, InvalidatePcs, ReadPcs, ReadKeeps, WritePcs, WriteKeeps
<1>5. CASE f \in RequestFrames
  <2>1. f.pc \in ReadPcs \union WritePcs
    BY <1>5 DEF RequestFrames
  <2> QED BY <1>5, <2>1 DEF AccessPcs, AccessFirst, AccessKeeps, FindPcs, FindKeeps, EvictPcs, EvictFirst, InvalidatePcs, ReadPcs, ReadKeeps, WritePcs, WriteKeeps
<1>6. CASE f \in MessageFrames
  <2>1. f.pc = "MESSAGE_ACTION"
    BY <1>6 DEF MessageFrames
  <2> QED BY <1>6, <2>1 DEF AccessPcs, AccessFirst, AccessKeeps, FindPcs, FindKeeps, EvictPcs, EvictFirst, InvalidatePcs, ReadPcs, ReadKeeps, WritePcs, WriteKeeps
<1> QED BY <1>1, <1>2, <1>3, <1>4, <1>5, <1>6 DEF Frames

\* f as it may go on: what tells it apart is unchanged.
Similar(f, g) ==
  /\ f \in Frames /\ g \in Frames /\ f.mod = g.mod /\ f.addr = g.addr
  /\ \/ f.pc \in AccessPcs /\ g.pc \in AccessPcs
     \/ f.pc \in FindPcs /\ g.pc \in FindPcs
     \/ f.pc \in EvictPcs /\ g.pc \in EvictPcs /\ f.srcWay = g.srcWay
     \/ f.pc \in InvalidatePcs /\ g.pc \in InvalidatePcs /\ f.way = g.way /\ f.except = g.except
     \/ f.pc \in ReadPcs /\ g.pc \in ReadPcs /\ f.target = g.target /\ f.up = g.up
     \/ f.pc \in WritePcs /\ g.pc \in WritePcs /\ f.target = g.target /\ f.up = g.up
     \/ f.pc = "MESSAGE_ACTION" /\ g.pc = "MESSAGE_ACTION"

\* A frame that goes on to another of its handlers works at the same entry.
LEMMA SimilarWhere ==
  ASSUME NEW f, NEW g, Similar(f, g)
  PROVE  Where(f) = Where(g)
<1>1. f.pc = "MESSAGE_ACTION" /\ g.pc = "MESSAGE_ACTION" => f.target = g.target
  <2>1. f.pc = "MESSAGE_ACTION" /\ g.pc = "MESSAGE_ACTION" => f \in MessageFrames /\ g \in MessageFrames
    BY ByPc DEF Similar
  <2> QED BY <2>1 DEF MessageFrames, Similar
<1> QED BY <1>1 DEF Similar, Where, AccessPcs, AccessFirst, AccessKeeps, FindPcs, FindKeeps, EvictPcs, EvictFirst, InvalidatePcs, ReadPcs, ReadKeeps, WritePcs, WriteKeeps

\* It still fits on the frame that called it.
LEMMA SimilarLink ==
  ASSUME NEW f, NEW g, NEW h, Similar(f, g), Link(h, f)
  PROVE  Link(h, g)
BY DEF Similar, Link, Serves, AccessPcs, AccessFirst, AccessKeeps, FindPcs, FindKeeps, EvictPcs, EvictFirst, InvalidatePcs, ReadPcs, ReadKeeps, WritePcs, WriteKeeps

\* It is still the first frame its chain may have.
LEMMA SimilarBottom ==
  ASSUME NEW d, NEW f, NEW g, Similar(f, g), Bottom(d, f)
  PROVE  Bottom(d, g)
<1>1. CASE f \in AccessFrames
  <2>1. f.pc \in AccessPcs
    BY <1>1 DEF AccessFrames
  <2>2. g.pc \in AccessPcs
    BY <2>1 DEF Similar, AccessPcs, AccessFirst, AccessKeeps, FindPcs, FindKeeps, EvictPcs, EvictFirst, InvalidatePcs, ReadPcs, ReadKeeps, WritePcs, WriteKeeps
  <2> QED BY <1>1, <2>1, <2>2, ByPc DEF Bottom, Similar, AccessPcs, AccessFirst, AccessKeeps, WritePcs, WriteKeeps
<1>2. CASE f \in RequestFrames /\ f.pc \in WritePcs
  <2>1. g.pc \in WritePcs /\ g.target = f.target /\ g.up = f.up
    BY <1>2 DEF Similar, AccessPcs, AccessFirst, AccessKeeps, FindPcs, FindKeeps, EvictPcs, EvictFirst, InvalidatePcs, ReadPcs, ReadKeeps, WritePcs, WriteKeeps
  <2>2. g \in RequestFrames
    BY <2>1, ByPc DEF Similar
  <2>3. f \notin AccessFrames
    BY <1>2 DEF AccessFrames, AccessPcs, AccessFirst, AccessKeeps, WritePcs, WriteKeeps
  <2> QED BY <1>2, <2>1, <2>2, <2>3 DEF Bottom
<1> QED BY <1>1, <1>2 DEF Bottom

-----------------------------------------------------------------------------
(* What a turn of a chain leaves as it was.                                  *)

\* A chain that keeps its first k frames, goes on with the next and links what is above is well formed.
LEMMA ShapeKept ==
  ASSUME NEW d, NEW s, NEW t \in Seq(Frames), NEW k \in Nat, Shape(d, s), k < Len(s), k < Len(t),
         \A i \in 1 .. k : t[i] = s[i],
         Similar(s[k + 1], t[k + 1]),
         \A i \in k + 1 .. Len(t) - 1 : Link(t[i], t[i + 1])
  PROVE  Shape(d, t)
<1>1. s \in Seq(Frames) /\ Len(s) \in Nat /\ Len(t) \in Nat
  BY DEF Shape
<1>2. ASSUME NEW i \in 1 .. Len(t) - 1 PROVE Link(t[i], t[i + 1])
  <2>1. CASE i > k
    BY <2>1, <1>1
  <2>2. CASE i = k
    <3>1. Link(s[i], s[i + 1]) /\ t[i] = s[i]
      BY <2>2, <1>1 DEF Shape
    <3> QED BY <3>1, <2>2, SimilarLink
  <2>3. CASE i < k
    <3>1. Link(s[i], s[i + 1]) /\ t[i] = s[i] /\ t[i + 1] = s[i + 1]
      BY <2>3, <1>1 DEF Shape
    <3> QED BY <3>1
  <2> QED BY <2>1, <2>2, <2>3, <1>1
<1>3. Bottom(d, t[1])
  <2>1. Bottom(d, s[1])
    BY <1>1 DEF Shape
  <2>2. CASE k = 0
    BY <2>1, <2>2, SimilarBottom
  <2>3. CASE k > 0
    BY <2>1, <2>3, <1>1
  <2> QED BY <2>2, <2>3
<1> QED BY <1>2, <1>3 DEF Shape

\* A frame that holds an entry names a module of the tree.
LEMMA WhereIs ==
  ASSUME NEW f \in Frames, NEW top, Holding(f, top), TreeAssumption
  PROVE  Where(f) \in Mods
<1>1. CASE f.pc \in AccessPcs \union FindPcs
  <2>1. f.mod \in Mods
    BY <1>1, ByPc DEF AccessFrames, FindFrames, Caches
  <2> QED BY <1>1, <2>1 DEF Where, AccessPcs, AccessFirst, AccessKeeps, FindPcs, FindKeeps, EvictPcs, EvictFirst, ReadPcs, ReadKeeps, WritePcs, WriteKeeps
<1>2. CASE f.pc \in EvictPcs
  <2>1. f \in EvictFrames /\ f.pc # "EVICT_INVALID"
    BY <1>2, ByPc DEF Holding, Keeps, First, EvictPcs, AccessFirst, AccessKeeps, FindKeeps, EvictFirst, ReadKeeps, WriteKeeps
  <2>2. Low[f.mod] \in Mods
    BY <2>1 DEF EvictFrames, Caches, TreeAssumption
  <2> QED BY <1>2, <2>2 DEF Where
<1>3. CASE f.pc \in ReadPcs \union WritePcs \union {"MESSAGE_ACTION"}
  <2>1. f.target \in Mods
    BY <1>3, ByPc DEF RequestFrames, MessageFrames
  <2>2. f.pc \notin EvictPcs
    BY <1>3 DEF EvictPcs, EvictFirst, ReadPcs, ReadKeeps, WritePcs, WriteKeeps
  <2> QED BY <1>3, <2>1, <2>2 DEF Where
<1> QED BY <1>1, <1>2, <1>3 DEF Holding, Keeps, First, AccessPcs, AccessFirst, AccessKeeps, FindPcs, FindKeeps, EvictPcs, EvictFirst, ReadPcs, ReadKeeps, WritePcs, WriteKeeps

\* The line that is evicted or invalidated is held by a frame below.
LEMMA OwnLine ==
  ASSUME NEW d, NEW s, Shape(d, s), NEW i \in 1 .. Len(s)
  PROVE  /\ s[i].pc \in EvictPcs =>
              /\ i - 1 \in 1 .. Len(s) /\ HoldsAt(s, i - 1)
              /\ Where(s[i - 1]) = s[i].mod /\ s[i - 1].way = s[i].srcWay
         /\ s[i].pc \in InvalidatePcs =>
              /\ i = Len(s) /\ i - 1 \in 1 .. Len(s)
              /\ \E j \in 1 .. i - 1 : /\ HoldsAt(s, j) /\ Where(s[j]) = s[i].mod /\ s[j].way = s[i].way
                                       /\ j = i - 1 \/ (j = i - 2 /\ s[i - 1].pc = "EVICT_INVALID")
<1>1. s \in Seq(Frames) /\ Len(s) \in Nat /\ s # <<>>
  BY DEF Shape
<1>2. Bottom(d, s[1])
  BY <1>1 DEF Shape
<1>3. s[1].pc \in AccessPcs \union WritePcs
  BY <1>2 DEF Bottom, AccessFrames
<1>4. s[i].pc \in EvictPcs \union InvalidatePcs => i - 1 \in 1 .. Len(s) /\ Link(s[i - 1], s[i])
  <2>1. s[i].pc \in EvictPcs \union InvalidatePcs => i # 1
    BY <1>3 DEF AccessPcs, AccessFirst, AccessKeeps, EvictPcs, EvictFirst, InvalidatePcs, WritePcs, WriteKeeps
  <2>2. i # 1 => i - 1 \in 1 .. Len(s) - 1 /\ i = (i - 1) + 1
    BY <1>1
  <2>3. \A j \in 1 .. Len(s) - 1 : Link(s[j], s[j + 1])
    BY DEF Shape
  <2> QED BY <2>1, <2>2, <2>3, <1>1
<1>5. ASSUME NEW j \in 1 .. Len(s), j + 1 \in 1 .. Len(s), s[j + 1].pc \in EvictPcs
      PROVE  HoldsAt(s, j) /\ Where(s[j]) = s[j + 1].mod /\ s[j].way = s[j + 1].srcWay
  <2>1. Link(s[j], s[j + 1])
    BY <1>1, <1>5 DEF Shape
  <2> QED BY <1>5, <2>1 DEF Link, HoldsAt, Holding, Keeps, Where, AccessKeeps, AccessPcs, AccessFirst, FindKeeps, EvictPcs, EvictFirst, FindPcs, InvalidatePcs, ReadPcs, ReadKeeps, WritePcs, WriteKeeps
<1>6. s[i].pc \in InvalidatePcs => i = Len(s)
  <2>1. ASSUME s[i].pc \in InvalidatePcs, i # Len(s) PROVE FALSE
    <3>1. Link(s[i], s[i + 1])
      BY <1>1, <2>1 DEF Shape
    <3> QED BY <2>1, <3>1 DEF Link, Serves, First, AccessFirst, EvictFirst, InvalidatePcs
  <2> QED BY <2>1
<1>7. ASSUME s[i].pc \in InvalidatePcs
      PROVE  \E j \in 1 .. i - 1 : /\ HoldsAt(s, j) /\ Where(s[j]) = s[i].mod /\ s[j].way = s[i].way
                                   /\ j = i - 1 \/ (j = i - 2 /\ s[i - 1].pc = "EVICT_INVALID")
  <2>1. i - 1 \in 1 .. Len(s) /\ Link(s[i - 1], s[i])
    BY <1>4, <1>7
  <2>2. \/ s[i - 1].pc = "WRITE_REQUEST_EXCLUSIVE" /\ s[i].mod = s[i - 1].target /\ s[i].way = s[i - 1].way
        \/ s[i - 1].pc = "EVICT_INVALID" /\ s[i].mod = s[i - 1].mod /\ s[i].way = s[i - 1].srcWay
    BY <2>1, <1>7 DEF Link, InvalidatePcs, FindPcs, FindKeeps, EvictPcs, EvictFirst, ReadPcs, ReadKeeps, WritePcs, WriteKeeps
  <2>3. CASE s[i - 1].pc = "WRITE_REQUEST_EXCLUSIVE" /\ s[i].mod = s[i - 1].target /\ s[i].way = s[i - 1].way
    <3>1. HoldsAt(s, i - 1) /\ Where(s[i - 1]) = s[i].mod
      BY <2>3 DEF HoldsAt, Holding, Keeps, WriteKeeps, Where, WritePcs, EvictPcs, EvictFirst
    <3>2. i - 1 \in 1 .. i - 1
      BY <2>1
    <3> QED BY <2>3, <3>1, <3>2
  <2>4. CASE s[i - 1].pc = "EVICT_INVALID" /\ s[i].mod = s[i - 1].mod /\ s[i].way = s[i - 1].srcWay
    <3>1. s[i - 1].pc \in EvictPcs
      BY <2>4 DEF EvictPcs
    <3>2. i - 1 # 1
      BY <1>3, <3>1 DEF AccessPcs, AccessFirst, AccessKeeps, EvictPcs, EvictFirst, WritePcs, WriteKeeps
    <3>3. i - 2 \in 1 .. Len(s) /\ i - 2 \in 1 .. i - 1 /\ (i - 2) + 1 = i - 1
      BY <2>1, <3>2, <1>1
    <3>4. HoldsAt(s, i - 2) /\ Where(s[i - 2]) = s[i - 1].mod /\ s[i - 2].way = s[i - 1].srcWay
      BY <1>5, <2>1, <3>1, <3>3
    <3> QED BY <2>4, <3>3, <3>4
  <2> QED BY <2>2, <2>3, <2>4
<1>8. s[i].pc \in EvictPcs => HoldsAt(s, i - 1) /\ Where(s[i - 1]) = s[i].mod /\ s[i - 1].way = s[i].srcWay
  <2>1. s[i].pc \in EvictPcs => i - 1 \in 1 .. Len(s) /\ (i - 1) + 1 = i
    BY <1>1, <1>4
  <2> QED BY <1>5, <2>1
<1> QED BY <1>4, <1>6, <1>7, <1>8

Still(m, w) ==
  block'[m][w] = block[m][w] /\ dir'[m][w] = dir[m][w] /\ lock'[m][w].by = lock[m][w].by

\* A chain keeps what it knows as long as nobody touches what it holds.
LEMMA Kept ==
  ASSUME NEW d, NEW s, Shape(d, s), Hold(d, s, lock, block), Facts(s, block, dir),
         \A m \in Mods : \A w \in Ways(m) : Still(m, w) \/ lock[m][w].by # d
  PROVE  Hold(d, s, lock', block') /\ Facts(s, block', dir')
<1>1. s \in Seq(Frames) /\ Len(s) \in Nat
  BY DEF Shape
<1>2. ASSUME NEW i \in 1 .. Len(s), HoldsAt(s, i)
      PROVE  Still(Where(s[i]), s[i].way)
  <2>1. s[i] \in Frames
    BY <1>1
  <2>2. Where(s[i]) \in Mods
    BY <1>2, <2>1, WhereIs, TreeAssumption DEF HoldsAt
  <2>3. s[i].way \in Ways(Where(s[i])) /\ lock[Where(s[i])][s[i].way].by = d
    BY <1>2 DEF Hold
  <2> QED BY <2>2, <2>3
<1>3. Hold(d, s, lock', block')
  BY <1>2 DEF Hold, Still
<1>4. ASSUME NEW i \in 1 .. Len(s) PROVE HolderFact(s, i, block')
  BY <1>2, <1>4 DEF Facts, HolderFact, Still
<1>5. ASSUME NEW i \in 1 .. Len(s) PROVE EvictFact(s, i, block', dir')
  <2>1. s[i].pc \in EvictPcs => Still(s[i].mod, s[i].srcWay)
    BY <1>2, OwnLine
  <2> QED BY <2>1 DEF Facts, EvictFact, Still
<1>6. ASSUME NEW i \in 1 .. Len(s) PROVE InvalidateFact(s, i, block', dir')
  <2>1. ASSUME s[i].pc \in InvalidatePcs PROVE Still(s[i].mod, s[i].way)
    <3>1. PICK j \in 1 .. i - 1 : HoldsAt(s, j) /\ Where(s[j]) = s[i].mod /\ s[j].way = s[i].way
      BY <2>1, OwnLine
    <3>2. j \in 1 .. Len(s)
      BY <1>1
    <3> QED BY <1>2, <3>1, <3>2
  <2> QED BY <2>1 DEF Facts, InvalidateFact, Still
<1> QED BY <1>3, <1>4, <1>5, <1>6 DEF Facts

\* A change from outside: a wakeup, or an answer noted.
Calm(s, t) ==
  /\ t \in Seq(Frames) /\ Len(t) = Len(s) /\ s # <<>> /\ Similar(s[Len(s)], t[Len(s)])
  /\ \A i \in 1 .. Len(s) - 1 : t[i] = s[i]
  /\ \/ s[Len(s)].pc = "DIR_WAIT" /\ t[Len(s)].pc = "FIND_AND_LOCK"
     \/ s[Len(s)].pc = "INVALIDATE_FINISH" /\ t[Len(s)].pc = "INVALIDATE_FINISH"

\* A wakeup, or an answer that is noted, breaks nothing that is known of a chain.
LEMMA CalmKept ==
  ASSUME NEW d, NEW s, NEW t, NEW lk, NEW bl, NEW dr, Shape(d, s), Hold(d, s, lk, bl), Facts(s, bl, dr), Calm(s, t)
  PROVE  /\ Shape(d, t) /\ Hold(d, t, lk, bl) /\ Facts(t, bl, dr)
         /\ t # <<>> /\ t[1].mod = s[1].mod /\ t[1].addr = s[1].addr
         /\ \A i \in 1 .. Len(s) : HoldsAt(s, i) => HoldsAt(t, i) /\ t[i] = s[i]
<1> DEFINE n == Len(s)
           f == s[n]
           h == t[n]
<1>1. s \in Seq(Frames) /\ n \in Nat /\ n > 0 /\ n \in 1 .. n
  BY DEF Shape, Calm
<1>2. f \in Frames /\ h \in Frames /\ Similar(f, h)
  BY DEF Calm, Similar
<1>6. t \in Seq(Frames) /\ Len(t) = n /\ t # <<>> /\ \A i \in 1 .. n - 1 : t[i] = s[i]
  BY <1>1 DEF Calm
<1>7. Shape(d, t)
  <2>1. n - 1 \in Nat /\ n - 1 < n /\ (n - 1) + 1 = n
    BY <1>1
  <2>2. \A i \in (n - 1) + 1 .. Len(t) - 1 : Link(t[i], t[i + 1])
    BY <1>1, <1>6
  <2> QED BY <2>1, <2>2, <1>2, <1>6, ShapeKept
<1>8. ~HoldsAt(s, n) /\ ~HoldsAt(t, n)
  BY <1>6 DEF Calm, HoldsAt, Holding, Keeps, First, AccessKeeps, FindKeeps, ReadKeeps, WriteKeeps, AccessFirst, EvictFirst
<1>9. \A i \in 1 .. n : i # n => i \in 1 .. n - 1
  BY <1>1
<1>10. \A i \in 1 .. n : (HoldsAt(t, i) <=> HoldsAt(s, i)) /\ (HoldsAt(s, i) => t[i] = s[i])
  BY <1>6, <1>8, <1>9 DEF HoldsAt
<1>11. Hold(d, t, lk, bl)
  BY <1>6, <1>10 DEF Hold
<1>12. ASSUME NEW i \in 1 .. n PROVE HolderFact(t, i, bl)
  BY <1>10, <1>6 DEF Facts, HolderFact
<1>13. h.pc \notin EvictPcs
  BY <1>6 DEF Calm, EvictPcs, EvictFirst
<1>14. InvalidateFact(t, n, bl, dr)
  <2>1. InvalidateFact(s, n, bl, dr)
    BY <1>1 DEF Facts
  <2>2. h.pc \in InvalidatePcs =>
          f.pc = h.pc /\ f.pc \in InvalidatePcs /\ f.mod = h.mod /\ f.addr = h.addr /\ f.way = h.way /\ f.except = h.except
    BY <1>2 DEF Calm, Similar, AccessPcs, AccessFirst, AccessKeeps, FindPcs, FindKeeps, EvictPcs, EvictFirst, InvalidatePcs, ReadPcs, ReadKeeps, WritePcs, WriteKeeps
  <2> QED BY <2>1, <2>2 DEF InvalidateFact, FactOfInvalidate
<1>15. ASSUME NEW i \in 1 .. n PROVE EvictFact(t, i, bl, dr) /\ InvalidateFact(t, i, bl, dr)
  <2>1. CASE i = n
    BY <2>1, <1>13, <1>14 DEF EvictFact
  <2>2. CASE i # n
    BY <2>2, <1>9, <1>6 DEF Facts, EvictFact, InvalidateFact
  <2> QED BY <2>1, <2>2
<1>16. Facts(t, bl, dr)
  BY <1>12, <1>15, <1>6 DEF Facts
<1>17. t[1].mod = s[1].mod /\ t[1].addr = s[1].addr
  <2>1. CASE n = 1
    BY <2>1, <1>2 DEF Similar
  <2>2. CASE n # 1
    BY <2>2, <1>1, <1>6
  <2> QED BY <2>1, <2>2
<1> QED BY <1>6, <1>7, <1>10, <1>11, <1>16, <1>17

\* Waking a sleeping lookup is such a change.
LEMMA AwakeCalm ==
  ASSUME NEW s \in Seq(Frames), s # <<>>, s[Len(s)].pc = "DIR_WAIT"
  PROVE  Calm(s, [s EXCEPT ![Len(s)].pc = "FIND_AND_LOCK"])
<1> DEFINE n == Len(s)
           f == s[n]
           h == [f EXCEPT !.pc = "FIND_AND_LOCK"]
<1>1. n \in Nat /\ n > 0 /\ n \in 1 .. n
  OBVIOUS
<1>2. f \in FindFrames
  BY <1>1, ByPc DEF FindPcs
<1>3. h \in FindFrames /\ h.pc = "FIND_AND_LOCK" /\ h.mod = f.mod /\ h.addr = f.addr
  BY <1>2 DEF FindFrames, FindPcs
<1>4. h \in Frames /\ Similar(f, h)
  BY <1>1, <1>2, <1>3 DEF Frames, Similar, FindPcs
<1> HIDE DEF h
<1>5. Calm(s, [s EXCEPT ![n] = h])
  BY <1>1, <1>3, <1>4 DEF Calm
<1> QED BY <1>5 DEF h

\* So is noting the answer of a sharer in the invalidation that waits for it.
LEMMA NotedCalm ==
  ASSUME NEW s \in Seq(Frames), s # <<>>, s[Len(s)].pc = "INVALIDATE_FINISH", NEW r \in Replies
  PROVE  Calm(s, [s EXCEPT ![Len(s)].reply = r])
<1> DEFINE n == Len(s)
           f == s[n]
           h == [f EXCEPT !.reply = r]
<1>1. n \in Nat /\ n > 0 /\ n \in 1 .. n
  OBVIOUS
<1>2. f \in InvalidateFrames
  BY <1>1, ByPc DEF InvalidatePcs
<1>3. /\ h \in InvalidateFrames /\ h.pc = f.pc /\ h.mod = f.mod /\ h.addr = f.addr
      /\ h.way = f.way /\ h.except = f.except
  BY <1>2 DEF InvalidateFrames
<1>4. h \in Frames /\ Similar(f, h)
  BY <1>1, <1>2, <1>3 DEF Frames, Similar, InvalidatePcs
<1> HIDE DEF h
<1>5. Calm(s, [s EXCEPT ![n] = h])
  BY <1>1, <1>3, <1>4 DEF Calm
<1> QED BY <1>5 DEF h

\* A turn in parts: t has the first k frames of s, its next goes on, those above are new.
Rewrites(s, t, k) ==
  /\ k < Len(s) /\ k < Len(t) /\ Similar(s[k + 1], t[k + 1])
  /\ \A i \in 1 .. k : t[i] = s[i]
  /\ \A i \in k + 1 .. Len(t) - 1 : Link(t[i], t[i + 1])
Touches(s, k) ==
  \A m \in Mods : \A w \in Ways(m) :
    \/ Still(m, w) \/ lock[m][w].by = <<>>
    \/ \E j \in k + 1 .. Len(s) : HoldsAt(s, j) /\ Where(s[j]) = m /\ s[j].way = w
Takes(d, s, t, k) ==
  /\ \A i \in k + 1 .. Len(t) : HoldsAt(t, i) =>
       /\ t[i].way \in Ways(Where(t[i]))
       /\ lock'[Where(t[i])][t[i].way].by = d /\ block'[Where(t[i])][t[i].way].trans = t[i].addr
       /\ \/ lock[Where(t[i])][t[i].way].by = <<>>
          \/ \E j \in k + 1 .. Len(s) : HoldsAt(s, j) /\ Same(s[j], t[i])
  /\ \A i, j \in k + 1 .. Len(t) : HoldsAt(t, i) /\ HoldsAt(t, j) => i = j
Learns(t, k) ==
  \A i \in k + 1 .. Len(t) :
    HolderFact(t, i, block') /\ EvictFact(t, i, block', dir') /\ InvalidateFact(t, i, block', dir')

\* The turn of a chain that rewrites its frames from k + 1 on, and touches only what one of
\* them holds or nobody does.
LEMMA TurnKept ==
  ASSUME NEW d, NEW s, NEW t \in Seq(Frames), NEW k \in Nat, d # <<>>,
         Shape(d, s), Hold(d, s, lock, block), Facts(s, block, dir),
         Rewrites(s, t, k), Touches(s, k), Takes(d, s, t, k), Learns(t, k)
  PROVE  Shape(d, t) /\ Hold(d, t, lock', block') /\ Facts(t, block', dir')
<1> USE DEF Rewrites, Touches, Takes, Learns
<1>1. s \in Seq(Frames) /\ Len(s) \in Nat /\ Len(t) \in Nat
  BY DEF Shape
<1>2. Shape(d, t)
  BY ShapeKept
<1>3. ASSUME NEW i \in 1 .. k, HoldsAt(t, i)
      PROVE  HoldsAt(s, i) /\ t[i] = s[i] /\ Where(s[i]) \in Mods /\ s[i].way \in Ways(Where(s[i]))
             /\ lock[Where(s[i])][s[i].way].by = d
  <2>1. i # Len(t) /\ i # Len(s) /\ i \in 1 .. Len(s) /\ t[i] = s[i] /\ s[i] \in Frames
    BY <1>1
  <2>2. HoldsAt(s, i)
    BY <2>1, <1>3 DEF HoldsAt, Holding
  <2>3. Where(s[i]) \in Mods
    BY <2>1, <2>2, WhereIs, TreeAssumption DEF HoldsAt
  <2> QED BY <2>1, <2>2, <2>3 DEF Hold
<1>4. ASSUME NEW i \in 1 .. k, HoldsAt(t, i), NEW j \in k + 1 .. Len(s), HoldsAt(s, j)
      PROVE  ~Same(s[j], s[i])
  <2>1. HoldsAt(s, i) /\ i \in 1 .. Len(s) /\ j \in 1 .. Len(s) /\ i # j
    BY <1>1, <1>3, <1>4
  <2> QED BY <2>1, <1>4 DEF Hold, Same
<1>5. ASSUME NEW i \in 1 .. k, HoldsAt(t, i)
      PROVE  Still(Where(s[i]), s[i].way)
  <2>1. /\ Where(s[i]) \in Mods /\ s[i].way \in Ways(Where(s[i]))
        /\ lock[Where(s[i])][s[i].way].by # <<>>
    BY <1>3, <1>5
  <2>2. \A j \in k + 1 .. Len(s) : HoldsAt(s, j) => ~(Where(s[j]) = Where(s[i]) /\ s[j].way = s[i].way)
    BY <1>4, <1>5 DEF Same
  <2> QED BY <2>1, <2>2
<1>6. Hold(d, t, lock', block')
  <2>1. ASSUME NEW i \in 1 .. Len(t), HoldsAt(t, i)
        PROVE  /\ t[i].way \in Ways(Where(t[i])) /\ lock'[Where(t[i])][t[i].way].by = d
               /\ block'[Where(t[i])][t[i].way].trans = t[i].addr
    <3>1. CASE i \in 1 .. k
      <4>1. block[Where(s[i])][s[i].way].trans = s[i].addr
        <5>1. i \in 1 .. Len(s) /\ HoldsAt(s, i)
          BY <3>1, <2>1, <1>1, <1>3
        <5> QED BY <5>1, Zenon DEF Hold
      <4> QED BY <3>1, <2>1, <1>3, <1>5, <4>1 DEF Still
    <3>2. CASE i \in k + 1 .. Len(t)
      BY <3>2, <2>1
    <3> QED BY <3>1, <3>2, <1>1
  <2>2. ASSUME NEW i \in 1 .. k, NEW j \in k + 1 .. Len(t), HoldsAt(t, i), HoldsAt(t, j), Same(t[i], t[j])
        PROVE  FALSE
    <3>1. lock[Where(t[i])][t[i].way].by = d
      BY <1>3, <2>2
    <3>2. PICK l \in k + 1 .. Len(s) : HoldsAt(s, l) /\ Same(s[l], t[j])
      BY <3>1, <2>2 DEF Same
    <3> QED BY <3>2, <2>2, <1>3, <1>4 DEF Same
  <2>3. ASSUME NEW i \in 1 .. k, NEW j \in 1 .. k, HoldsAt(t, i), HoldsAt(t, j), Same(t[i], t[j])
        PROVE  i = j
    <3>1. HoldsAt(s, i) /\ HoldsAt(s, j) /\ Same(s[i], s[j]) /\ i \in 1 .. Len(s) /\ j \in 1 .. Len(s)
      BY <2>3, <1>3, <1>1
    <3> QED BY <3>1 DEF Hold
  <2>4. ASSUME NEW i \in 1 .. Len(t), NEW j \in 1 .. Len(t), HoldsAt(t, i), HoldsAt(t, j), Same(t[i], t[j])
        PROVE  i = j
    <3>1. i \in 1 .. k \/ i \in k + 1 .. Len(t)
      BY <1>1
    <3>2. j \in 1 .. k \/ j \in k + 1 .. Len(t)
      BY <1>1
    <3>3. Same(t[j], t[i])
      BY <2>4 DEF Same
    <3> QED BY <3>1, <3>2, <3>3, <2>2, <2>3, <2>4
  <2> QED BY <2>1, <2>4 DEF Hold
<1>7. ASSUME NEW i \in 1 .. k
      PROVE  HolderFact(t, i, block') /\ EvictFact(t, i, block', dir') /\ InvalidateFact(t, i, block', dir')
  <2>1. i \in 1 .. Len(s) /\ i # Len(s) /\ i # Len(t) /\ t[i] = s[i]
    BY <1>1
  <2>2. HolderFact(t, i, block')
    BY <2>1, <1>3, <1>5 DEF Facts, HolderFact, Still
  <2>3. EvictFact(t, i, block', dir')
    <3>1. ASSUME s[i].pc \in EvictPcs PROVE Still(s[i].mod, s[i].srcWay)
      <4>1. i - 1 \in 1 .. Len(s) /\ HoldsAt(s, i - 1) /\ Where(s[i - 1]) = s[i].mod /\ s[i - 1].way = s[i].srcWay
        BY <2>1, <3>1, OwnLine
      <4>2. i - 1 \in 1 .. k /\ i - 1 # Len(s) /\ i - 1 # Len(t) /\ t[i - 1] = s[i - 1]
        BY <4>1, <1>1
      <4>3. HoldsAt(t, i - 1)
        BY <4>1, <4>2 DEF HoldsAt, Holding
      <4> QED BY <4>1, <4>2, <4>3, <1>5
    <3> QED BY <2>1, <3>1 DEF Facts, EvictFact, Still
  <2>4. s[i].pc \notin InvalidatePcs
    BY <2>1, OwnLine
  <2> QED BY <2>1, <2>2, <2>3, <2>4 DEF InvalidateFact
<1>8. \A i \in 1 .. Len(t) : i \in 1 .. k \/ i \in k + 1 .. Len(t)
  BY <1>1
<1>9. Facts(t, block', dir')
  BY <1>7, <1>8 DEF Facts
<1> QED BY <1>2, <1>6, <1>9

-----------------------------------------------------------------------------
(* Turns that go on, call and return.                                        *)

\* The frames after Goto: the top one is replaced.
LEMMA GotoIs ==
  ASSUME NEW c, chain[c] \in Seq(Frames), chain[c] # <<>>, NEW h \in Frames
  PROVE  /\ Goto(c, h) \in Seq(Frames) /\ Len(Goto(c, h)) = Len(chain[c]) /\ Goto(c, h)[Len(chain[c])] = h
         /\ \A i \in 1 .. Len(chain[c]) - 1 : Goto(c, h)[i] = chain[c][i]
BY DEF Goto

\* The frames of two sequences put together.
LEMMA Joined ==
  ASSUME NEW s \in Seq(Frames), NEW gs \in Seq(Frames)
  PROVE  /\ s \o gs \in Seq(Frames) /\ Len(s \o gs) = Len(s) + Len(gs)
         /\ \A i \in 1 .. Len(s) : (s \o gs)[i] = s[i]
         /\ \A i \in 1 .. Len(gs) : (s \o gs)[Len(s) + i] = gs[i]
<1>1. /\ s \o gs \in Seq(Frames) /\ Len(s \o gs) = Len(s) + Len(gs)
      /\ \A i \in 1 .. Len(s) + Len(gs) : (s \o gs)[i] = IF i <= Len(s) THEN s[i] ELSE gs[i - Len(s)]
  BY ConcatProperties
<1>2. Len(s) \in Nat /\ Len(gs) \in Nat
  OBVIOUS
<1> QED BY <1>1, <1>2

\* The frames t: those of s with h on top, and then gs.
Extends(t, s, h, gs) ==
  /\ t \in Seq(Frames) /\ Len(t) = Len(s) + Len(gs) /\ t[Len(s)] = h
  /\ \A i \in 1 .. Len(s) - 1 : t[i] = s[i]
  /\ \A i \in 1 .. Len(gs) : t[Len(s) + i] = gs[i]

\* The frames after Call: the caller's frame is replaced and those it called are put on top.
LEMMA CallIs ==
  ASSUME NEW c, chain[c] \in Seq(Frames), chain[c] # <<>>, NEW h \in Frames, NEW gs \in Seq(Frames)
  PROVE  Extends(Call(c, h, gs), chain[c], h, gs)
<1>1. PICK s : s = Goto(c, h)
  OBVIOUS
<1>2. /\ s \in Seq(Frames) /\ Len(s) = Len(chain[c]) /\ s[Len(chain[c])] = h /\ Len(s) \in Nat /\ Len(s) > 0
      /\ \A i \in 1 .. Len(chain[c]) - 1 : s[i] = chain[c][i]
  BY <1>1, GotoIs
<1>3. Call(c, h, gs) = s \o gs
  BY <1>1 DEF Call
<1>4. PICK t : t = s \o gs
  OBVIOUS
<1>5. /\ t \in Seq(Frames) /\ Len(t) = Len(s) + Len(gs)
      /\ \A i \in 1 .. Len(s) : t[i] = s[i]
      /\ \A i \in 1 .. Len(gs) : t[Len(s) + i] = gs[i]
  BY <1>2, <1>4, Joined
<1> QED BY <1>2, <1>3, <1>4, <1>5 DEF Extends

\* The frames after Return: the top one is gone and its caller is replaced.
LEMMA ReturnIs ==
  ASSUME NEW c, chain[c] \in Seq(Frames), Len(chain[c]) > 1, NEW h \in Frames
  PROVE  /\ Return(c, h) \in Seq(Frames) /\ Len(Return(c, h)) = Len(chain[c]) - 1
         /\ Return(c, h)[Len(chain[c]) - 1] = h
         /\ \A i \in 1 .. Len(chain[c]) - 2 : Return(c, h)[i] = chain[c][i]
<1> DEFINE s == Front(chain[c])
<1>1. /\ s \in Seq(Frames) /\ Len(s) = Len(chain[c]) - 1
      /\ \A i \in 1 .. Len(chain[c]) - 1 : s[i] = chain[c][i]
  BY DEF Front
<1>2. Return(c, h) = [s EXCEPT ![Len(chain[c]) - 1] = h]
  BY DEF Return
<1> HIDE DEF s
<1> QED BY <1>1, <1>2

\* A chain is well formed, holds what it believes to hold, and what it knows is true.
Well(d, s, lk, bl, dr) == Shape(d, s) /\ Hold(d, s, lk, bl) /\ Facts(s, bl, dr)

\* What is held is held on or unlocked, or the access starts over.
Passes(c, t) ==
  Len(c) = 1 \/ \A j \in 1 .. Len(chain[c]) : HoldsAt(chain[c], j) =>
    \/ lock'[Where(chain[c][j])][chain[c][j].way].by # c
    \/ \E i \in 1 .. Len(t) : HoldsAt(t, i) /\ Same(chain[c][j], t[i])

\* Lines change where c holds the entry or nobody does.
Discreet(c) == \A m \in Mods : \A w \in Ways(m) : Still(m, w) \/ lock[m][w].by \in {c, <<>>}

\* The turn of c, after which its frames are t.
Turned(c, t) ==
  /\ Well(c, t, lock', block', dir') /\ Passes(c, t) /\ Discreet(c)
  /\ t \in Seq(Frames) /\ t # <<>> /\ t[1].mod = chain[c][1].mod /\ t[1].addr = chain[c][1].addr

\* Nothing held is lost if what the dropped frames held is unlocked or held by a frame that takes their place.
LEMMA TurnPasses ==
  ASSUME NEW c, NEW t \in Seq(Frames), NEW k \in Nat, k < Len(chain[c]), k < Len(t), chain[c] \in Seq(Frames),
         \A i \in 1 .. k : t[i] = chain[c][i],
         Len(c) = 1 \/ \A j \in k + 1 .. Len(chain[c]) : HoldsAt(chain[c], j) =>
           \/ lock'[Where(chain[c][j])][chain[c][j].way].by # c
           \/ \E i \in k + 1 .. Len(t) : HoldsAt(t, i) /\ Same(chain[c][j], t[i])
  PROVE  Passes(c, t)
<1> SUFFICES ASSUME Len(c) # 1, NEW j \in 1 .. Len(chain[c]), HoldsAt(chain[c], j)
             PROVE  \/ lock'[Where(chain[c][j])][chain[c][j].way].by # c
                    \/ \E i \in 1 .. Len(t) : HoldsAt(t, i) /\ Same(chain[c][j], t[i])
  BY DEF Passes
<1>1. Len(chain[c]) \in Nat /\ Len(t) \in Nat
  OBVIOUS
<1>2. CASE j <= k
  <2>1. j # Len(chain[c]) /\ j # Len(t) /\ j \in 1 .. Len(t) /\ t[j] = chain[c][j]
    BY <1>1, <1>2
  <2>2. HoldsAt(t, j)
    BY <2>1 DEF HoldsAt, Holding
  <2> QED BY <2>1, <2>2 DEF Same
<1>3. CASE j > k
  <2>1. j \in k + 1 .. Len(chain[c])
    BY <1>1, <1>3
  <2>2. \A i \in k + 1 .. Len(t) : i \in 1 .. Len(t)
    BY <1>1
  <2> QED BY <2>1, <2>2
<1> QED BY <1>1, <1>2, <1>3

\* Lines change only where the acting chain holds the entry, or nobody does.
LEMMA TurnDiscreet ==
  ASSUME NEW c, NEW k \in Nat, NEW lk, NEW bl, Hold(c, chain[c], lock, block), chain[c] \in Seq(Frames),
         \A m \in Mods : \A w \in Ways(m) :
           Still(m, w) \/ lock[m][w].by = <<>>
             \/ \E j \in k + 1 .. Len(chain[c]) : HoldsAt(chain[c], j) /\ Where(chain[c][j]) = m /\ chain[c][j].way = w
  PROVE  Discreet(c)
<1> SUFFICES ASSUME NEW m \in Mods, NEW w \in Ways(m), ~Still(m, w), lock[m][w].by # <<>>
             PROVE  lock[m][w].by = c
  BY DEF Discreet
<1>1. PICK j \in k + 1 .. Len(chain[c]) : HoldsAt(chain[c], j) /\ Where(chain[c][j]) = m /\ chain[c][j].way = w
  OBVIOUS
<1>2. j \in 1 .. Len(chain[c])
  OBVIOUS
<1> QED BY <1>1, <1>2 DEF Hold

\* A turn leaves the module and the block of the chain's first frame as they were.
LEMMA TurnStart ==
  ASSUME NEW c, NEW t \in Seq(Frames), NEW k \in Nat, k < Len(chain[c]), k < Len(t),
         \A i \in 1 .. k : t[i] = chain[c][i], Similar(chain[c][k + 1], t[k + 1])
  PROVE  t # <<>> /\ t[1].mod = chain[c][1].mod /\ t[1].addr = chain[c][1].addr
<1>1. CASE k = 0
  BY <1>1 DEF Similar
<1>2. CASE k > 0
  BY <1>2
<1> QED BY <1>1, <1>2

Hands(c, s, t, k) ==
  Len(c) = 1 \/ \A j \in k + 1 .. Len(s) : HoldsAt(s, j) =>
    \/ lock'[Where(s[j])][s[j].way].by # c
    \/ \E i \in k + 1 .. Len(t) : HoldsAt(t, i) /\ Same(s[j], t[i])

\* A turn that rewrites frames, touches what they hold, takes entries, learns facts and hands locks on as it may leaves the chain well.
LEMMA Turning ==
  ASSUME NEW c, NEW s, s = chain[c], NEW t \in Seq(Frames), NEW k \in Nat, c # <<>>,
         Well(c, chain[c], lock, block, dir),
         Rewrites(s, t, k), Touches(s, k), Takes(c, s, t, k), Learns(t, k), Hands(c, s, t, k)
  PROVE  Turned(c, t)
<1>1. Shape(c, s) /\ Hold(c, s, lock, block) /\ Facts(s, block, dir) /\ s \in Seq(Frames)
  BY DEF Well, Shape
<1>2. Well(c, t, lock', block', dir')
  BY <1>1, TurnKept DEF Well
<1>3. Passes(c, t)
  BY <1>1, TurnPasses DEF Hands, Rewrites
<1>4. Discreet(c)
  BY <1>1, TurnDiscreet DEF Touches
<1>5. t # <<>> /\ t[1].mod = chain[c][1].mod /\ t[1].addr = chain[c][1].addr
  BY <1>1, TurnStart DEF Rewrites
<1> QED BY <1>2, <1>3, <1>4, <1>5 DEF Turned

\* What the chain does to an entry it holds: the frame f that held it, if it did, goes on as h.
Holds(c, h) ==
  /\ h.way \in Ways(Where(h))
  /\ lock'[Where(h)][h.way].by = c /\ block'[Where(h)][h.way].trans = h.addr
  /\ FactOfHolder(h, block'[Where(h)][h.way])
Sees(h) ==
  /\ h.pc \in EvictPcs => h.pc # "EVICT_INVALID" /\ FactOfEvict(h, block'[h.mod][h.srcWay])
  /\ h.pc \in InvalidatePcs =>
       /\ FactOfInvalidate(h, block'[h.mod][h.way])
       /\ h.pc = "INVALIDATE_FINISH" /\ h.except = None => dir'[h.mod][h.way].sharers = {}

\* The frame f on top goes on as h.
LEMMA Going ==
  ASSUME NEW c, c # <<>>, chain[c] # <<>>, Well(c, chain[c], lock, block, dir),
         NEW f, f = Top(c), NEW h, Similar(f, h),
         \A m \in Mods : \A w \in Ways(m) :
           Still(m, w) \/ lock[m][w].by = <<>> \/ (Holding(f, TRUE) /\ Where(f) = m /\ f.way = w),
         Holding(h, TRUE) =>
           Holds(c, h) /\ (lock[Where(h)][h.way].by = <<>> \/ (Holding(f, TRUE) /\ h.way = f.way)),
         Sees(h),
         Len(c) = 1 \/ (Holding(f, TRUE) => \/ lock'[Where(f)][f.way].by # c
                                            \/ Holding(h, TRUE) /\ h.way = f.way)
  PROVE  Turned(c, Goto(c, h))
<1>0. PICK s : s = chain[c]
  OBVIOUS
<1>n. PICK n : n = Len(s)
  OBVIOUS
<1>k. PICK k : k = n - 1
  OBVIOUS
<1>t. PICK t : t = Goto(c, h)
  OBVIOUS
<1>1. s \in Seq(Frames) /\ n \in Nat /\ n > 0 /\ k \in Nat /\ k < n /\ k + 1 = n /\ s[n] = f
  BY <1>0, <1>n, <1>k DEF Well, Shape, Top, Last
<1>2. h \in Frames /\ Where(f) = Where(h)
  BY SimilarWhere DEF Similar
<1>3. t \in Seq(Frames) /\ Len(t) = n /\ t[n] = h /\ \A i \in 1 .. k : t[i] = s[i]
  BY <1>0, <1>n, <1>k, <1>t, <1>1, <1>2, GotoIs
<1>4. n \in k + 1 .. n /\ \A i \in k + 1 .. n : i = n
  BY <1>1
<1>5. (HoldsAt(s, n) <=> Holding(f, TRUE)) /\ (HoldsAt(t, n) <=> Holding(h, TRUE))
  BY <1>1, <1>3, <1>n DEF HoldsAt
<1>6. Rewrites(s, t, k)
  BY <1>1, <1>3, <1>n DEF Rewrites
<1>7. Touches(s, k)
  BY <1>1, <1>4, <1>5, <1>n DEF Touches
<1>8. Takes(c, s, t, k)
  BY <1>1, <1>2, <1>3, <1>4, <1>5, <1>n DEF Takes, Holds, Same
<1>9. Learns(t, k)
  BY <1>3, <1>4, <1>5 DEF Learns, HolderFact, EvictFact, InvalidateFact, Holds, Sees
<1>10. Hands(c, s, t, k)
  BY <1>1, <1>2, <1>3, <1>4, <1>5, <1>n DEF Hands, Same
<1> QED BY <1>0, <1>1, <1>3, <1>6, <1>7, <1>8, <1>9, <1>10, <1>t, Turning

\* Frames to call that neither hold nor look at anything new.
Callable(gs) ==
  /\ gs \in Seq(Frames)
  /\ Len(gs) = 1 \/ (Len(gs) = 2 /\ Link(gs[1], gs[2]))
  /\ \A i \in 1 .. Len(gs) : LET g == gs[i] IN
       /\ ~Holding(g, i = Len(gs))
       /\ g.pc \in EvictPcs =>
            /\ FactOfEvict(g, block[g.mod][g.srcWay])
            /\ g.pc = "EVICT_INVALID" => i # Len(gs)
       /\ g.pc \in InvalidatePcs =>
            g.pc # "INVALIDATE_FINISH" /\ FactOfInvalidate(g, block[g.mod][g.way])

\* The frame f on top goes on as h and calls gs.
LEMMA Calling ==
  ASSUME NEW c, c # <<>>, chain[c] # <<>>, Well(c, chain[c], lock, block, dir),
         UNCHANGED <<block, dir, lock>>,
         NEW f, f = Top(c), NEW h, Similar(f, h), NEW gs \in Seq(Frames), Callable(gs), Link(h, gs[1]),
         Holding(f, TRUE) <=> Holding(h, FALSE),
         Holding(h, FALSE) => h.way = f.way /\ FactOfHolder(h, block[Where(h)][h.way]),
         h.pc \in EvictPcs => FactOfEvict(h, block[h.mod][h.srcWay]),
         h.pc \notin InvalidatePcs
  PROVE  Turned(c, Call(c, h, gs))
<1>0. PICK s : s = chain[c]
  OBVIOUS
<1>n. PICK n : n = Len(s)
  OBVIOUS
<1>k. PICK k : k = n - 1
  OBVIOUS
<1>t. PICK t : t = Call(c, h, gs)
  OBVIOUS
<1>l. PICK l : l = Len(gs)
  OBVIOUS
<1>1. s \in Seq(Frames) /\ n \in Nat /\ n > 0 /\ k \in Nat /\ k < n /\ k + 1 = n /\ s[n] = f /\ l \in 1 .. 2
  BY <1>0, <1>n, <1>k, <1>l DEF Well, Shape, Top, Last, Callable
<1>2. h \in Frames /\ Where(f) = Where(h)
  BY SimilarWhere DEF Similar
<1>3. /\ t \in Seq(Frames) /\ Len(t) = n + l /\ t[n] = h /\ \A i \in 1 .. k : t[i] = s[i]
      /\ \A i \in 1 .. l : t[n + i] = gs[i]
  <2>1. /\ t \in Seq(Frames) /\ Len(t) = Len(s) + Len(gs) /\ t[Len(s)] = h
        /\ \A i \in 1 .. Len(s) - 1 : t[i] = s[i]
        /\ \A i \in 1 .. Len(gs) : t[Len(s) + i] = gs[i]
    <3>1. chain[c] \in Seq(Frames) /\ h \in Frames
      BY <1>0, <1>1, <1>2
    <3>2. Extends(Call(c, h, gs), chain[c], h, gs)
      BY <3>1, CallIs
    <3> QED BY <3>2, <1>0, <1>t, Zenon DEF Extends
  <2> QED BY <2>1, <1>n, <1>k, <1>l, Zenon
<1>4. /\ n \in k + 1 .. n /\ \A i \in k + 1 .. n : i = n
      /\ n \in k + 1 .. Len(t) /\ n # Len(t)
      /\ \A i \in k + 1 .. Len(t) : i # n => i - n \in 1 .. l /\ i = n + (i - n)
  <2>1. Len(t) = n + l
    BY <1>3
  <2> QED BY <2>1, <1>1
<1>5. (HoldsAt(s, n) <=> Holding(f, TRUE)) /\ (HoldsAt(t, n) <=> Holding(h, FALSE))
  BY <1>1, <1>3, <1>4, <1>n DEF HoldsAt
<1>6. ASSUME NEW i \in k + 1 .. Len(t), i # n
      PROVE  /\ ~HoldsAt(t, i) /\ HolderFact(t, i, block')
             /\ EvictFact(t, i, block', dir') /\ InvalidateFact(t, i, block', dir')
  <2>1. PICK j \in 1 .. l : i = n + j
    BY <1>4, <1>6
  <2>2. PICK g : g = gs[j]
    OBVIOUS
  <2>3. t[i] = g /\ (i = Len(t) <=> j = l)
    BY <2>1, <2>2, <1>1, <1>3
  <2>4. /\ ~Holding(g, j = l)
        /\ g.pc \in EvictPcs =>
             /\ FactOfEvict(g, block[g.mod][g.srcWay])
             /\ g.pc = "EVICT_INVALID" => j # l
        /\ g.pc \in InvalidatePcs =>
             g.pc # "INVALIDATE_FINISH" /\ FactOfInvalidate(g, block[g.mod][g.way])
    BY <2>2, <1>l DEF Callable
  <2>5. ~HoldsAt(t, i)
    BY <2>3, <2>4 DEF HoldsAt, Holding
  <2> QED BY <2>3, <2>4, <2>5 DEF HolderFact, EvictFact, InvalidateFact
<1>7. Rewrites(s, t, k)
  <2>1. ASSUME NEW i \in k + 1 .. Len(t) - 1 PROVE Link(t[i], t[i + 1])
    <3>1. CASE i = n
      <4>1. t[i] = h /\ t[i + 1] = gs[1]
        BY <3>1, <1>1, <1>3
      <4> QED BY <4>1
    <3>2. CASE i = n + 1 /\ l = 2
      <4>1. t[i] = gs[1] /\ t[i + 1] = gs[2]
        BY <3>2, <1>1, <1>3
      <4>2. Len(gs) # 1
        BY <3>2, <1>l
      <4> QED BY <4>1, <4>2 DEF Callable
    <3> QED BY <3>1, <3>2, <1>1, <1>3
  <2> QED BY <2>1, <1>1, <1>3, <1>n DEF Rewrites
<1>8. Touches(s, k)
  BY DEF Touches, Still
<1>9. Holding(f, TRUE) => f.way \in Ways(Where(f)) /\ lock[Where(f)][f.way].by = c /\ block[Where(f)][f.way].trans = f.addr
  <2>1. n \in 1 .. Len(s)
    BY <1>1, <1>n
  <2> QED BY <2>1, <1>0, <1>1, <1>5 DEF Well, Hold
<1>10. Takes(c, s, t, k)
  <2>1. \A i \in k + 1 .. Len(t) : HoldsAt(t, i) => i = n
    BY <1>6
  <2>2. HoldsAt(t, n) => /\ h.way \in Ways(Where(h)) /\ lock'[Where(h)][h.way].by = c
                        /\ block'[Where(h)][h.way].trans = h.addr /\ HoldsAt(s, n) /\ Same(f, h)
    BY <1>2, <1>5, <1>9 DEF Similar, Same
  <2> QED BY <2>1, <2>2, <1>1, <1>3, <1>4, <1>n DEF Takes
<1>11. Learns(t, k)
  <2>1. HolderFact(t, n, block') /\ EvictFact(t, n, block', dir') /\ InvalidateFact(t, n, block', dir')
    BY <1>3, <1>4, <1>5 DEF HolderFact, EvictFact, InvalidateFact
  <2> QED BY <2>1, <1>6 DEF Learns
<1>12. Hands(c, s, t, k)
  <2>1. HoldsAt(s, n) => HoldsAt(t, n) /\ Same(s[n], t[n])
    BY <1>1, <1>2, <1>3, <1>5 DEF Same
  <2> QED BY <2>1, <1>4, <1>n DEF Hands
<1> QED BY <1>0, <1>1, <1>3, <1>7, <1>8, <1>10, <1>11, <1>12, <1>t, Turning

\* The frame f on top is popped and its caller g goes on as h.
LEMMA Returning ==
  ASSUME NEW c, c # <<>>, Len(chain[c]) > 1, Well(c, chain[c], lock, block, dir),
         NEW f, f = Top(c), NEW g, g = Caller(c), NEW h, Similar(g, h),
         \A m \in Mods : \A w \in Ways(m) :
           \/ Still(m, w) \/ lock[m][w].by = <<>>
           \/ Holding(f, TRUE) /\ Where(f) = m /\ f.way = w
           \/ Holding(g, FALSE) /\ Where(g) = m /\ g.way = w,
         Holding(h, TRUE) =>
           Holds(c, h) /\ \/ Holding(f, TRUE) /\ Same(f, h)
                          \/ Holding(g, FALSE) /\ h.way = g.way,
         h.pc = "EVICT_INVALID" => dir'[h.mod][h.srcWay].sharers = {},
         h.pc \in EvictPcs => FactOfEvict(h, block'[h.mod][h.srcWay]),
         h.pc \notin InvalidatePcs,
         \/ Len(c) = 1
         \/ /\ Holding(f, TRUE) => lock'[Where(f)][f.way].by # c \/ (Holding(h, TRUE) /\ Same(f, h))
            /\ Holding(g, FALSE) => lock'[Where(g)][g.way].by # c \/ (Holding(h, TRUE) /\ h.way = g.way)
  PROVE  Turned(c, Return(c, h))
<1>0. PICK s : s = chain[c]
  OBVIOUS
<1>n. PICK n : n = Len(s)
  OBVIOUS
<1>k. PICK k : k = n - 2
  OBVIOUS
<1>t. PICK t : t = Return(c, h)
  OBVIOUS
<1>1. /\ s \in Seq(Frames) /\ n \in Nat /\ n > 1 /\ k \in Nat /\ k < n - 1 /\ k + 1 = n - 1
      /\ s[n] = f /\ s[k + 1] = g
  BY <1>0, <1>n, <1>k DEF Well, Shape, Top, Last, Caller
<1>2. h \in Frames /\ Where(g) = Where(h)
  BY SimilarWhere DEF Similar
<1>3. t \in Seq(Frames) /\ Len(t) = k + 1 /\ t[k + 1] = h /\ \A i \in 1 .. k : t[i] = s[i]
  <2>1. /\ t \in Seq(Frames) /\ Len(t) = Len(s) - 1 /\ t[Len(s) - 1] = h
        /\ \A i \in 1 .. Len(s) - 2 : t[i] = s[i]
    <3>1. chain[c] \in Seq(Frames) /\ h \in Frames /\ Len(chain[c]) > 1
      BY <1>0, <1>n, <1>1, <1>2
    <3>2. /\ Return(c, h) \in Seq(Frames) /\ Len(Return(c, h)) = Len(chain[c]) - 1
          /\ Return(c, h)[Len(chain[c]) - 1] = h
          /\ \A i \in 1 .. Len(chain[c]) - 2 : Return(c, h)[i] = chain[c][i]
      BY <3>1, ReturnIs
    <3> QED BY <3>2, <1>0, <1>t, Zenon
  <2> QED BY <2>1, <1>n, <1>k, <1>1, Zenon
<1>4. /\ n \in k + 1 .. Len(s) /\ k + 1 \in k + 1 .. Len(s) /\ \A i \in k + 1 .. Len(s) : i = n \/ i = k + 1
      /\ k + 1 \in k + 1 .. Len(t) /\ \A i \in k + 1 .. Len(t) : i = k + 1
  BY <1>1, <1>3, <1>n
<1>5. /\ HoldsAt(s, n) <=> Holding(f, TRUE)
      /\ HoldsAt(s, k + 1) <=> Holding(g, FALSE)
      /\ HoldsAt(t, k + 1) <=> Holding(h, TRUE)
  BY <1>1, <1>3, <1>n DEF HoldsAt, Holding
<1>6. Rewrites(s, t, k)
  BY <1>1, <1>3, <1>n DEF Rewrites
<1>7. Touches(s, k)
  BY <1>1, <1>4, <1>5 DEF Touches
<1>8. Takes(c, s, t, k)
  <2>1. HoldsAt(t, k + 1) =>
          /\ t[k + 1].way \in Ways(Where(t[k + 1])) /\ lock'[Where(t[k + 1])][t[k + 1].way].by = c
          /\ block'[Where(t[k + 1])][t[k + 1].way].trans = t[k + 1].addr
          /\ \E j \in k + 1 .. Len(s) : HoldsAt(s, j) /\ Same(s[j], t[k + 1])
    BY <1>1, <1>2, <1>3, <1>4, <1>5 DEF Holds, Same
  <2> QED BY <2>1, <1>4 DEF Takes
<1>9. Learns(t, k)
  BY <1>3, <1>4, <1>5 DEF Learns, HolderFact, EvictFact, InvalidateFact, Holds
<1>10. Hands(c, s, t, k)
  BY <1>1, <1>2, <1>3, <1>4, <1>5 DEF Hands, Same
<1> QED BY <1>0, <1>1, <1>3, <1>6, <1>7, <1>8, <1>9, <1>10, <1>t, Turning

-----------------------------------------------------------------------------
(* What a turn leaves to the other chains.                                   *)

Names    == Seq(Threads \union Mods)
LineRecs == [tag : Blocks \union {None}, state : States, trans : Blocks \union {None}]
DirRecs  == [owner : Mods \union {None}, sharers : SUBSET Mods]
LockRecs == [by : Names, queue : Seq(Names)]
Memory ==
  /\ DOMAIN block = Mods /\ DOMAIN dir = Mods
  /\ \A m \in Mods : block[m] \in [Ways(m) -> LineRecs] /\ dir[m] \in [Ways(m) -> DirRecs]
Entries == DOMAIN lock = Mods /\ \A m \in Mods : lock[m] \in [Ways(m) -> LockRecs]
Served  == {<<t>> : t \in Threads} \subseteq DOMAIN chain
Typed   == Memory /\ Entries /\ Served /\ access \in [Mods -> Seq(Threads)] /\ fresh \subseteq Mods \X Blocks

Inv == Typed /\ Chains /\ Forks /\ Queues /\ Lockers /\ Lines /\ OneMatch

\* The other chains are as they were, but for a wakeup.
Others(c) == \A d \in DOMAIN chain \ {c} : chain'[d] = chain[d] \/ Calm(chain[d], chain'[d])
\* A turn of c unlocks entries or locks one that its frames t hold.
Locks(c, t) ==
  \A m \in Mods : \A w \in Ways(m) :
    \/ lock'[m][w].by = lock[m][w].by \/ lock'[m][w].by = <<>>
    \/ /\ lock'[m][w].by = c
       /\ \E i \in 1 .. Len(t) : HoldsAt(t, i) /\ Where(t[i]) = m /\ t[i].way = w

\* What another chain knows and holds survives a discreet turn.
LEMMA OtherKept ==
  ASSUME Chains, NEW c \in DOMAIN chain, Discreet(c), NEW d \in DOMAIN chain, d # c, d # <<>>, NEW s, s = chain[d],
         NEW s2, s2 = s \/ Calm(s, s2)
  PROVE  /\ Well(d, s2, lock', block', dir')
         /\ s # <<>> => s2 # <<>> /\ s2[1].mod = s[1].mod /\ s2[1].addr = s[1].addr
         /\ \A i \in 1 .. Len(s) : HoldsAt(s, i) => i \in 1 .. Len(s2) /\ HoldsAt(s2, i) /\ s2[i] = s[i]
<1>1. Shape(d, s) /\ Hold(d, s, lock, block) /\ Facts(s, block, dir)
  BY DEF Chains
<1>2. \A m \in Mods : \A w \in Ways(m) : Still(m, w) \/ lock[m][w].by # d
  BY DEF Discreet
<1>3. Hold(d, s, lock', block') /\ Facts(s, block', dir')
  BY <1>1, <1>2, Kept
<1>4. CASE s2 = s
  BY <1>1, <1>3, <1>4 DEF Well
<1>5. CASE Calm(s, s2)
  <2>1. PICK lk, bl, dr : lk = lock' /\ bl = block' /\ dr = dir'
    OBVIOUS
  <2>2. Hold(d, s, lk, bl) /\ Facts(s, bl, dr)
    BY <1>3, <2>1
  <2>3. /\ Shape(d, s2) /\ Hold(d, s2, lk, bl) /\ Facts(s2, bl, dr)
        /\ s2 # <<>> /\ s2[1].mod = s[1].mod /\ s2[1].addr = s[1].addr
        /\ \A i \in 1 .. Len(s) : HoldsAt(s, i) => HoldsAt(s2, i) /\ s2[i] = s[i]
    BY <1>1, <1>5, <2>2, CalmKept
  <2>4. Len(s2) = Len(s)
    BY <1>5 DEF Calm
  <2> QED BY <2>1, <2>3, <2>4 DEF Well
<1> QED BY <1>4, <1>5

\* A turn of one chain that adds and ends none keeps the chains, the forks and the lock holders.
LEMMA OthersKept ==
  ASSUME Chains, Forks, Lockers, NEW c \in DOMAIN chain, chain[c] # <<>>, Top(c).pc # "INVALIDATE_FINISH",
         NEW t, Turned(c, t), chain'[c] = t, DOMAIN chain' = DOMAIN chain, Others(c), Locks(c, t)
  PROVE  Chains' /\ Forks' /\ Lockers'
<1>1. \A d \in DOMAIN chain : d # <<>> /\ d \in Seq(Threads \union Mods) /\ Len(d) \in Nat /\ Len(d) >= 1
  BY DEF Forks
<1>2. ASSUME NEW d \in DOMAIN chain, d # c
      PROVE  /\ Well(d, chain'[d], lock', block', dir')
             /\ chain[d] # <<>> => /\ chain'[d] # <<>> /\ chain'[d][1].mod = chain[d][1].mod
                                   /\ chain'[d][1].addr = chain[d][1].addr
             /\ \A i \in 1 .. Len(chain[d]) :
                  HoldsAt(chain[d], i) => i \in 1 .. Len(chain'[d]) /\ HoldsAt(chain'[d], i) /\ chain'[d][i] = chain[d][i]
  <2>1. PICK s, s2 : s = chain[d] /\ s2 = chain'[d]
    OBVIOUS
  <2>2. s2 = s \/ Calm(s, s2)
    BY <1>2, <2>1 DEF Others
  <2>3. Discreet(c)
    BY DEF Turned
  <2>4. /\ Well(d, s2, lock', block', dir')
        /\ s # <<>> => s2 # <<>> /\ s2[1].mod = s[1].mod /\ s2[1].addr = s[1].addr
        /\ \A i \in 1 .. Len(s) : HoldsAt(s, i) => i \in 1 .. Len(s2) /\ HoldsAt(s2, i) /\ s2[i] = s[i]
    BY <1>1, <1>2, <2>1, <2>2, <2>3, OtherKept
  <2> QED BY <2>1, <2>4, Zenon
<1>3. Chains'
  <2>1. ASSUME NEW d \in DOMAIN chain PROVE Well(d, chain'[d], lock', block', dir')
    <3>1. CASE d = c
      BY <3>1 DEF Turned
    <3> QED BY <1>2, <3>1
  <2> QED BY <2>1 DEF Chains, Well
<1>4. \A d \in DOMAIN chain : chain[d] # <<>> =>
        /\ chain'[d] # <<>> /\ chain'[d][1].mod = chain[d][1].mod /\ chain'[d][1].addr = chain[d][1].addr
  BY <1>2 DEF Turned
<1>5. Forks'
  <2>1. ASSUME NEW d \in DOMAIN chain, Len(d) > 1
        PROVE  /\ Front(d) \in DOMAIN chain /\ d[Len(d)] \in Mods
               /\ chain'[d] # <<>> /\ chain'[Front(d)] # <<>>
               /\ Last(chain'[Front(d)]).pc = "INVALIDATE_FINISH"
               /\ chain'[d][1].mod = Last(chain'[Front(d)]).mod /\ chain'[d][1].addr = Last(chain'[Front(d)]).addr
    <3>1. PICK p : p = Front(d)
      OBVIOUS
    <3>2. /\ p \in DOMAIN chain /\ d[Len(d)] \in Mods /\ chain[d] # <<>> /\ chain[p] # <<>>
          /\ Top(p).pc = "INVALIDATE_FINISH" /\ chain[d][1].mod = Top(p).mod /\ chain[d][1].addr = Top(p).addr
      BY <2>1, <3>1 DEF Forks
    <3>3. p # c
      BY <3>2
    <3>4. PICK s, s2 : s = chain[p] /\ s2 = chain'[p]
      OBVIOUS
    <3>5. Last(s2).pc = "INVALIDATE_FINISH" /\ Last(s2).mod = Last(s).mod /\ Last(s2).addr = Last(s).addr
      <4>1. s2 = s \/ Calm(s, s2)
        BY <3>2, <3>3, <3>4 DEF Others
      <4>2. Last(s).pc = "INVALIDATE_FINISH"
        BY <3>2, <3>4 DEF Top
      <4> QED BY <4>1, <4>2 DEF Calm, Last, Similar
    <3> QED BY <1>4, <2>1, <3>1, <3>2, <3>4, <3>5 DEF Top
  <2> QED BY <2>1 DEF Forks, Top
<1>6. Lockers'
  <2> SUFFICES ASSUME NEW m \in Mods, NEW w \in Ways(m)
               PROVE  LET d == lock'[m][w].by IN
                      /\ d \in DOMAIN chain \union {<<>>}
                      /\ Len(d) > 1 => \E i \in 1 .. Len(chain'[d]) :
                           HoldsAt(chain'[d], i) /\ Where(chain'[d][i]) = m /\ chain'[d][i].way = w
    BY DEF Lockers
  <2>1. PICK d : d = lock'[m][w].by
    OBVIOUS
  <2>2. CASE d = <<>>
    BY <2>1, <2>2
  <2>3. CASE d = c /\ \E i \in 1 .. Len(t) : HoldsAt(t, i) /\ Where(t[i]) = m /\ t[i].way = w
    BY <2>1, <2>3
  <2>4. CASE d = lock[m][w].by /\ d # <<>>
    <3>1. d \in DOMAIN chain /\ (Len(d) > 1 => \E i \in 1 .. Len(chain[d]) :
            HoldsAt(chain[d], i) /\ Where(chain[d][i]) = m /\ chain[d][i].way = w)
      BY <2>4 DEF Lockers
    <3>2. CASE d # c
      <4>1. PICK s, s2 : s = chain[d] /\ s2 = chain'[d]
        OBVIOUS
      <4>2. \A i \in 1 .. Len(s) : HoldsAt(s, i) => i \in 1 .. Len(s2) /\ HoldsAt(s2, i) /\ s2[i] = s[i]
        BY <1>2, <3>1, <3>2, <4>1
      <4>3. Len(d) > 1 => \E i \in 1 .. Len(s2) : HoldsAt(s2, i) /\ Where(s2[i]) = m /\ s2[i].way = w
        BY <3>1, <4>1, <4>2
      <4> QED BY <2>1, <3>1, <4>1, <4>3
    <3>3. CASE d = c
      <4>1. PICK s : s = chain[c]
        OBVIOUS
      <4>2. ASSUME Len(c) > 1
            PROVE  \E i \in 1 .. Len(t) : HoldsAt(t, i) /\ Where(t[i]) = m /\ t[i].way = w
        <5>1. PICK j \in 1 .. Len(s) : HoldsAt(s, j) /\ Where(s[j]) = m /\ s[j].way = w
          BY <3>1, <3>3, <4>1, <4>2
        <5>2. Len(c) # 1
          <6>1. Len(c) \in Nat
            BY <1>1
          <6>2. \A l \in Nat : l > 1 => l # 1
            OBVIOUS
          <6> QED BY <6>1, <6>2, <4>2, Zenon
        <5>3. \E i \in 1 .. Len(t) : HoldsAt(t, i) /\ Same(s[j], t[i])
          BY <2>1, <3>3, <4>1, <5>1, <5>2 DEF Turned, Passes
        <5> QED BY <5>1, <5>3 DEF Same
      <4> QED BY <2>1, <3>1, <3>3, <4>2
    <3> QED BY <3>2, <3>3
  <2> QED BY <2>1, <2>2, <2>3, <2>4 DEF Locks
<1> QED BY <1>3, <1>5, <1>6

\* Step replaces the frames of one chain.
LEMMA StepIs ==
  ASSUME NEW c \in DOMAIN chain, NEW t, chain' = Step(c, t)
  PROVE  DOMAIN chain' = DOMAIN chain /\ chain'[c] = t /\ \A d \in DOMAIN chain \ {c} : chain'[d] = chain[d]
BY DEF Step

\* A turn that touches no queue and puts nobody to sleep keeps the queues.
LEMMA QueuesKept ==
  ASSUME Queues, NEW c \in DOMAIN chain, Top(c).pc # "DIR_WAIT", NEW t, chain' = Step(c, t),
         \A m \in Mods : \A w \in Ways(m) : lock'[m][w].queue = lock[m][w].queue
  PROVE  Queues'
<1> SUFFICES ASSUME NEW m \in Mods, NEW w \in Ways(m), NEW q, q = lock[m][w].queue
             PROVE  /\ q \in Seq(DOMAIN chain')
                    /\ \A i \in 1 .. Len(q) : /\ chain'[q[i]] # <<>> /\ Last(chain'[q[i]]).pc = "DIR_WAIT"
                                              /\ Last(chain'[q[i]]).mod = m /\ Last(chain'[q[i]]).way = w
                    /\ \A i, j \in 1 .. Len(q) : q[i] = q[j] => i = j
  BY DEF Queues, At, Top
<1>1. /\ q \in Seq(DOMAIN chain)
      /\ \A i \in 1 .. Len(q) : At(q[i], "DIR_WAIT") /\ Top(q[i]).mod = m /\ Top(q[i]).way = w
      /\ \A i, j \in 1 .. Len(q) : q[i] = q[j] => i = j
  BY DEF Queues
<1>2. DOMAIN chain' = DOMAIN chain /\ \A d \in DOMAIN chain \ {c} : chain'[d] = chain[d]
  BY StepIs
<1>3. ASSUME NEW i \in 1 .. Len(q)
      PROVE  /\ chain'[q[i]] # <<>> /\ Last(chain'[q[i]]).pc = "DIR_WAIT"
             /\ Last(chain'[q[i]]).mod = m /\ Last(chain'[q[i]]).way = w
  <2>1. PICK d : d = q[i]
    OBVIOUS
  <2>2. d \in DOMAIN chain /\ At(d, "DIR_WAIT") /\ Top(d).mod = m /\ Top(d).way = w
    BY <1>1, <2>1
  <2>3. chain'[d] = chain[d]
    BY <1>2, <2>2 DEF At
  <2> QED BY <2>1, <2>2, <2>3 DEF At, Top
<1> QED BY <1>1, <1>2, <1>3

\* The turn of a handler that unlocks nothing.
LEMMA ResumeKept ==
  ASSUME Inv, NEW c \in DOMAIN chain, chain[c] # <<>>, Top(c).pc \notin {"INVALIDATE_FINISH", "DIR_WAIT"},
         NEW t, Turned(c, t), Resume(c, t)
  PROVE  Chains' /\ Forks' /\ Queues' /\ Lockers'
<1>1. chain' = Step(c, t) /\ lock' = lock
  BY DEF Resume
<1>2. DOMAIN chain' = DOMAIN chain /\ chain'[c] = t /\ Others(c)
  BY <1>1, StepIs DEF Others
<1>3. Locks(c, t)
  BY <1>1 DEF Locks
<1>4. Chains /\ Forks /\ Queues /\ Lockers
  BY DEF Inv
<1>5. Chains' /\ Forks' /\ Lockers'
  BY <1>2, <1>3, <1>4, OthersKept
<1>6. Queues'
  BY <1>1, <1>4, QueuesKept
<1> QED BY <1>5, <1>6

\* What is left of the queue once the entry is unlocked.
\* The queue without the sleeper that is woken.
Rest(q) == IF q = <<>> THEN <<>> ELSE Tail(q)

\* Unlocking (dir_entry_unlock) frees the entry and takes the first sleeper out of its queue.
LEMMA UnlockedIs ==
  ASSUME Entries, NEW m \in Mods, NEW w \in Ways(m), lock' = Unlocked(m, w)
  PROVE  /\ lock'[m][w].by = <<>> /\ lock'[m][w].queue = Rest(lock[m][w].queue)
         /\ \A n \in Mods : \A v \in Ways(n) : n # m \/ v # w => lock'[n][v] = lock[n][v]
         /\ Entries'
<1>1. DOMAIN lock = Mods /\ \A n \in Mods : lock[n] \in [Ways(n) -> LockRecs]
  BY DEF Entries
<1>2. PICK q : q = lock[m][w].queue
  OBVIOUS
<1>3. lock' = [lock EXCEPT ![m][w] = [by |-> <<>>, queue |-> Rest(q)]]
  BY <1>1, <1>2 DEF Unlocked, Rest
<1>4. q \in Seq(Names) /\ <<>> \in Names
  BY <1>1, <1>2 DEF LockRecs, Names
<1>5. [by |-> <<>>, queue |-> Rest(q)] \in LockRecs
  <2>1. Rest(q) \in Seq(Names)
    BY <1>4 DEF Rest
  <2> QED BY <2>1, <1>4 DEF LockRecs
<1> QED BY <1>1, <1>2, <1>3, <1>5 DEF Entries

\* Unlocking changes no chain but the one it wakes, and leaves the other sleepers in their queues.
LEMMA ReleaseOthers ==
  ASSUME Entries, Chains, Queues, NEW c \in DOMAIN chain, Top(c).pc # "DIR_WAIT",
         NEW u, DOMAIN u = DOMAIN chain, \A d \in DOMAIN chain : At(d, "DIR_WAIT") => u[d] = chain[d],
         NEW m \in Mods, NEW w \in Ways(m), lock' = Unlocked(m, w), chain' = Woken(u, m, w)
  PROVE  /\ DOMAIN chain' = DOMAIN chain /\ chain'[c] = u[c]
         /\ \A d \in DOMAIN chain : chain'[d] = u[d] \/ (Calm(chain[d], chain'[d]) /\ At(d, "DIR_WAIT"))
         /\ Queues'
<1>1. PICK q : q = lock[m][w].queue
  OBVIOUS
<1>2. /\ q \in Seq(DOMAIN chain)
      /\ \A i \in 1 .. Len(q) : At(q[i], "DIR_WAIT") /\ Top(q[i]).mod = m /\ Top(q[i]).way = w
      /\ \A i, j \in 1 .. Len(q) : q[i] = q[j] => i = j
  BY <1>1 DEF Queues
<1>3. \A n \in Mods : \A v \in Ways(n) : n # m \/ v # w => lock'[n][v] = lock[n][v]
  BY UnlockedIs
<1>4. lock'[m][w].queue = Rest(q)
  BY <1>1, UnlockedIs
<1>5. /\ DOMAIN chain' = DOMAIN chain
      /\ q = <<>> => chain' = u
      /\ q # <<>> => /\ chain'[Head(q)] = [u[Head(q)] EXCEPT ![Len(u[Head(q)])].pc = "FIND_AND_LOCK"]
                     /\ \A d \in DOMAIN chain : d # Head(q) => chain'[d] = u[d]
  <2>1. CASE q = <<>>
    BY <2>1, <1>1 DEF Woken
  <2>2. CASE q # <<>>
    <3>1. chain' = [u EXCEPT ![Head(q)] = [@ EXCEPT ![Len(@)].pc = "FIND_AND_LOCK"]]
      BY <2>2, <1>1 DEF Woken
    <3>2. Head(q) \in DOMAIN chain
      BY <2>2, <1>2
    <3> QED BY <2>2, <3>1, <3>2
  <2> QED BY <2>1, <2>2
<1>6. q # <<>> => /\ Head(q) \in DOMAIN chain /\ At(Head(q), "DIR_WAIT") /\ Head(q) # c
                  /\ Top(Head(q)).mod = m /\ Top(Head(q)).way = w
  <2>1. q # <<>> => 1 \in 1 .. Len(q) /\ Head(q) = q[1]
    BY <1>2
  <2> QED BY <2>1, <1>2 DEF At
<1>7. q # <<>> => Calm(chain[Head(q)], chain'[Head(q)])
  <2> SUFFICES ASSUME q # <<>> PROVE Calm(chain[Head(q)], chain'[Head(q)])
    OBVIOUS
  <2>1. PICK d, s : d = Head(q) /\ s = chain[d]
    OBVIOUS
  <2>2. d \in DOMAIN chain /\ At(d, "DIR_WAIT")
    BY <1>6, <2>1
  <2>3. s \in Seq(Frames) /\ s # <<>> /\ s[Len(s)].pc = "DIR_WAIT"
    BY <2>1, <2>2 DEF Chains, Shape, At, Top, Last
  <2>4. chain'[d] = [s EXCEPT ![Len(s)].pc = "FIND_AND_LOCK"]
    BY <1>5, <2>1, <2>2
  <2> QED BY <2>1, <2>3, <2>4, AwakeCalm
<1>8. ASSUME NEW n \in Mods, NEW v \in Ways(n), NEW p, p = lock'[n][v].queue
      PROVE  /\ p \in Seq(DOMAIN chain')
             /\ \A i \in 1 .. Len(p) : /\ chain'[p[i]] # <<>> /\ Last(chain'[p[i]]).pc = "DIR_WAIT"
                                       /\ Last(chain'[p[i]]).mod = n /\ Last(chain'[p[i]]).way = v
             /\ \A i, j \in 1 .. Len(p) : p[i] = p[j] => i = j
  <2>1. /\ p \in Seq(DOMAIN chain)
        /\ \A i \in 1 .. Len(p) : At(p[i], "DIR_WAIT") /\ Top(p[i]).mod = n /\ Top(p[i]).way = v
        /\ \A i, j \in 1 .. Len(p) : p[i] = p[j] => i = j
        /\ n = m /\ v = w /\ q # <<>> => \A i \in 1 .. Len(p) : p[i] # Head(q)
    <3>1. CASE n = m /\ v = w
      <4>1. CASE q = <<>>
        <5>1. p = <<>>
          BY <3>1, <4>1, <1>4, <1>8 DEF Rest
        <5>2. p \in Seq(DOMAIN chain) /\ Len(p) = 0
          BY <5>1
        <5> QED BY <4>1, <5>2
      <4>2. CASE q # <<>>
        <5>1. p = Tail(q)
          BY <3>1, <4>2, <1>4, <1>8 DEF Rest
        <5>2. p \in Seq(DOMAIN chain) /\ Len(q) \in Nat /\ Len(p) = Len(q) - 1 /\ \A i \in 1 .. Len(p) : p[i] = q[i + 1]
          BY <5>1, <4>2, <1>2
        <5>3. \A i \in 1 .. Len(p) : i + 1 \in 1 .. Len(q) /\ 1 \in 1 .. Len(q) /\ i + 1 # 1
          BY <5>2
        <5>4. Head(q) = q[1]
          BY <4>2, <1>2
        <5>5. \A i, j \in 1 .. Len(p) : p[i] = p[j] => i + 1 = j + 1
          BY <5>2, <5>3, <1>2
        <5>6. \A i, j \in 1 .. Len(p) : i + 1 = j + 1 => i = j
          BY <5>2
        <5> QED BY <3>1, <5>2, <5>3, <5>4, <5>5, <5>6, <1>2
      <4> QED BY <4>1, <4>2
    <3>2. CASE ~(n = m /\ v = w)
      <4>1. p = lock[n][v].queue
        BY <3>2, <1>3, <1>8
      <4> QED BY <3>2, <4>1 DEF Queues
    <3> QED BY <3>1, <3>2
  <2>2. ASSUME NEW i \in 1 .. Len(p)
        PROVE  /\ chain'[p[i]] # <<>> /\ Last(chain'[p[i]]).pc = "DIR_WAIT"
               /\ Last(chain'[p[i]]).mod = n /\ Last(chain'[p[i]]).way = v
    <3>1. PICK d : d = p[i]
      OBVIOUS
    <3>2. d \in DOMAIN chain /\ At(d, "DIR_WAIT") /\ Top(d).mod = n /\ Top(d).way = v
      BY <2>1, <3>1
    <3>3. q # <<>> => d # Head(q)
      BY <1>6, <2>1, <3>1, <3>2
    <3>4. chain'[d] = chain[d]
      BY <1>5, <3>2, <3>3
    <3> QED BY <3>1, <3>2, <3>4 DEF At, Top
  <2> QED BY <1>5, <2>1, <2>2
<1>9. Queues'
  BY <1>8 DEF Queues, At, Top
<1>10. \A d \in DOMAIN chain : chain'[d] = u[d] \/ (Calm(chain[d], chain'[d]) /\ At(d, "DIR_WAIT"))
  BY <1>5, <1>6, <1>7
<1>11. chain'[c] = u[c]
  BY <1>5, <1>6
<1> QED BY <1>5, <1>9, <1>10, <1>11

\* The turn of a handler that ends with unlocking an entry.
LEMMA ReleaseKept ==
  ASSUME Inv, NEW c \in DOMAIN chain, chain[c] # <<>>, Top(c).pc \notin {"INVALIDATE_FINISH", "DIR_WAIT"},
         NEW t, Turned(c, t), NEW m \in Mods, NEW w \in Ways(m), Release(c, t, m, w)
  PROVE  Chains' /\ Forks' /\ Queues' /\ Lockers'
<1>1. chain' = Woken(Step(c, t), m, w) /\ lock' = Unlocked(m, w)
  BY DEF Release
<1>2. PICK u : u = Step(c, t)
  OBVIOUS
<1>3. DOMAIN u = DOMAIN chain /\ u[c] = t /\ \A d \in DOMAIN chain \ {c} : u[d] = chain[d]
  BY <1>2 DEF Step
<1>4. Entries /\ Chains /\ Forks /\ Queues /\ Lockers
  BY DEF Inv, Typed
<1>5. \A d \in DOMAIN chain : At(d, "DIR_WAIT") => u[d] = chain[d]
  BY <1>3 DEF At
<1>6. /\ DOMAIN chain' = DOMAIN chain /\ chain'[c] = u[c]
      /\ \A d \in DOMAIN chain : chain'[d] = u[d] \/ (Calm(chain[d], chain'[d]) /\ At(d, "DIR_WAIT"))
      /\ Queues'
  BY <1>1, <1>2, <1>3, <1>4, <1>5, ReleaseOthers
<1>7. Others(c) /\ chain'[c] = t
  BY <1>3, <1>6 DEF Others
<1>8. Locks(c, t)
  BY <1>1, <1>4, UnlockedIs DEF Locks
<1>9. Chains' /\ Forks' /\ Lockers'
  BY <1>4, <1>6, <1>7, <1>8, OthersKept
<1> QED BY <1>6, <1>9

-----------------------------------------------------------------------------
(* What a turn does to the one entry it touches.                             *)

\* What a line of m and its directory entry may be.
LineOk(m, b, e) ==
  /\ b.state # "I" => b.tag \in Blocks
  /\ m \notin Caches => b.state \in {"I", "E", "M"}
  /\ e.sharers # {} => b.state # "I"
  /\ e.sharers \subseteq {n \in Mods : Low[n] = m}
  /\ e.owner # None => Low[e.owner] = m

\* Every other line is as it was.
Elsewhere(m, w) == \A n \in Mods : \A v \in Ways(n) : n # m \/ v # w => Still(n, v)

\* The line w of m may change: by what holds it, or without becoming another block.
Settled(m, w) ==
  /\ Elsewhere(m, w)
  /\ LineOk(m, block'[m][w], dir'[m][w])
  /\ lock'[m][w].by # <<>> => lock[m][w].by # <<>>
  /\ block'[m][w].trans = block[m][w].trans
  /\ \/ block'[m][w].state = "I"
     \/ block'[m][w].tag = block[m][w].trans /\ lock[m][w].by # <<>>
     \/ block[m][w].state # "I" /\ block'[m][w].tag = block[m][w].tag

\* A line that changes as its holder may keeps the lines and their being unique.
LEMMA SettledKept ==
  ASSUME Inv, NEW m \in Mods, NEW w \in Ways(m), Settled(m, w)
  PROVE  Lines' /\ OneMatch'
<1>1. ASSUME NEW n \in Mods, NEW v \in Ways(n)
      PROVE  LineOk(n, block'[n][v], dir'[n][v])
  <2>1. CASE n = m /\ v = w
    BY <2>1 DEF Settled
  <2>2. CASE n # m \/ v # w
    BY <2>2 DEF Settled, Elsewhere, Still, Inv, Lines, LineOk
  <2> QED BY <2>1, <2>2
<1>2. Lines'
  BY <1>1 DEF Lines, LineOk
<1>3. ASSUME NEW n \in Mods, NEW a \in Blocks, NEW v \in Ways(n),
             \/ block'[n][v].tag = a /\ block'[n][v].state # "I"
             \/ block'[n][v].trans = a /\ lock'[n][v].by # <<>>
      PROVE  v \in Matches(n, a)
  <2>1. CASE n = m /\ v = w
    BY <1>3, <2>1 DEF Settled, Matches
  <2>2. CASE n # m \/ v # w
    BY <1>3, <2>2 DEF Settled, Elsewhere, Still, Matches
  <2> QED BY <2>1, <2>2
<1>4. \A n \in Mods, a \in Blocks : \A u, v \in Matches(n, a) : u = v
  BY DEF Inv, OneMatch
<1>5. OneMatch'
  BY <1>3, <1>4 DEF OneMatch, Matches
<1> QED BY <1>2, <1>5

\* cache_set_block changes the tag and the state of one line.
LEMMA SetBlockIs ==
  ASSUME Memory, NEW m \in Mods, NEW w \in Ways(m), NEW a \in Blocks \union {None}, NEW s \in States,
         block' = SetBlock(m, w, a, s)
  PROVE  /\ DOMAIN block' = Mods /\ \A n \in Mods : block'[n] \in [Ways(n) -> LineRecs]
         /\ block'[m][w].tag = a /\ block'[m][w].state = s /\ block'[m][w].trans = block[m][w].trans
         /\ \A n \in Mods : \A v \in Ways(n) : n # m \/ v # w => block'[n][v] = block[n][v]
<1>1. PICK b : b = [block[m][w] EXCEPT !.tag = a, !.state = s]
  OBVIOUS
<1>2. block[m][w] \in LineRecs /\ DOMAIN block = Mods /\ \A n \in Mods : block[n] \in [Ways(n) -> LineRecs]
  BY DEF Memory
<1>3. b \in LineRecs /\ b.tag = a /\ b.state = s /\ b.trans = block[m][w].trans
  BY <1>1, <1>2 DEF LineRecs
<1>4. block' = [block EXCEPT ![m][w] = b]
  BY <1>1, <1>2 DEF SetBlock
<1> QED BY <1>2, <1>3, <1>4

SetDir(m, w, e) == [dir EXCEPT ![m][w] = e]

\* A directory entry that is written.
LEMMA SetDirIs ==
  ASSUME Memory, NEW m \in Mods, NEW w \in Ways(m), NEW e \in DirRecs, dir' = SetDir(m, w, e)
  PROVE  /\ DOMAIN dir' = Mods /\ \A n \in Mods : dir'[n] \in [Ways(n) -> DirRecs]
         /\ dir'[m][w] = e
         /\ \A n \in Mods : \A v \in Ways(n) : n # m \/ v # w => dir'[n][v] = dir[n][v]
BY DEF Memory, SetDir

\* A directory entry and a line of a module, and what clearing the owner does.
LEMMA DirIs ==
  ASSUME Memory, NEW m \in Mods, NEW w \in Ways(m)
  PROVE  /\ dir[m][w] \in DirRecs /\ dir[m][w].owner \in Mods \union {None} /\ dir[m][w].sharers \subseteq Mods
         /\ block[m][w] \in LineRecs
         /\ [dir EXCEPT ![m][w].owner = None] = SetDir(m, w, [owner |-> None, sharers |-> dir[m][w].sharers])
<1>1. dir[m][w] \in DirRecs /\ block[m][w] \in LineRecs /\ m \in DOMAIN dir /\ w \in DOMAIN dir[m]
  BY DEF Memory
<1>2. [dir[m][w] EXCEPT !.owner = None] = [owner |-> None, sharers |-> dir[m][w].sharers]
  BY <1>1 DEF DirRecs
<1> QED BY <1>1, <1>2 DEF DirRecs, SetDir

\* A turn of a chain, with at most one line and one directory entry changed, keeps the invariant.
LEMMA TurnInv ==
  ASSUME Inv, NEW c \in DOMAIN chain, chain[c] # <<>>, Top(c).pc \notin {"INVALIDATE_FINISH", "DIR_WAIT"},
         NEW t, Turned(c, t), NEW m \in Mods, NEW w \in Ways(m), Settled(m, w),
         Resume(c, t) \/ Release(c, t, m, w),
         Memory', access' \in [Mods -> Seq(Threads)], fresh' \subseteq Mods \X Blocks
  PROVE  Inv'
<1>1. Chains' /\ Forks' /\ Queues' /\ Lockers'
  BY ResumeKept, ReleaseKept
<1>2. Lines' /\ OneMatch'
  BY SettledKept
<1>3. Entries'
  <2>1. CASE Resume(c, t)
    BY <2>1 DEF Resume, Inv, Typed, Entries
  <2>2. CASE Release(c, t, m, w)
    BY <2>2, UnlockedIs DEF Release, Inv, Typed
  <2> QED BY <2>1, <2>2
<1>4. Served'
  <2>1. DOMAIN chain' = DOMAIN chain
    <3>1. CASE Resume(c, t)
      BY <3>1 DEF Resume, Step
    <3>2. CASE Release(c, t, m, w)
      BY <3>2 DEF Release, Woken, Step
    <3> QED BY <3>1, <3>2
  <2> QED BY <2>1 DEF Served, Inv, Typed
<1> QED BY <1>1, <1>2, <1>3, <1>4 DEF Inv, Typed

\* A turn that touches no line.
LEMMA QuietInv ==
  ASSUME Inv, NEW c \in DOMAIN chain, chain[c] # <<>>, Top(c).pc \notin {"INVALIDATE_FINISH", "DIR_WAIT"},
         NEW t, Turned(c, t), Resume(c, t), UNCHANGED <<block, dir, access>>, fresh' \subseteq Mods \X Blocks
  PROVE  Inv'
<1>1. Chains' /\ Forks' /\ Queues' /\ Lockers'
  BY ResumeKept
<1>2. Lines' /\ OneMatch'
  BY DEF Inv, Lines, OneMatch, Matches, Resume
<1>3. DOMAIN chain' = DOMAIN chain
  BY DEF Resume, Step
<1>4. Typed'
  BY <1>3 DEF Inv, Typed, Memory, Entries, Served, Resume
<1> QED BY <1>1, <1>2, <1>4 DEF Inv

\* What the invariant says of the frame on top of a chain that is about to run.
LEMMA Enter ==
  ASSUME Inv, NEW c \in DOMAIN chain, chain[c] # <<>>, NEW f, f = Top(c)
  PROVE  /\ c # <<>> /\ Len(c) \in Nat /\ Len(c) >= 1 /\ Well(c, chain[c], lock, block, dir) /\ f \in Frames
         /\ Holding(f, TRUE) =>
              /\ Where(f) \in Mods /\ f.way \in Ways(Where(f)) /\ lock[Where(f)][f.way].by = c
              /\ block[Where(f)][f.way].trans = f.addr /\ FactOfHolder(f, block[Where(f)][f.way])
         /\ f.pc \in EvictPcs =>
              /\ FactOfEvict(f, block[f.mod][f.srcWay])
              /\ f.pc = "EVICT_INVALID" => dir[f.mod][f.srcWay].sharers = {}
         /\ f.pc \in AccessPcs =>
              Len(c) = 1 /\ Len(chain[c]) = 1 /\ f.mod = Home[c[1]] /\ f \in AccessFrames
         /\ f.pc \notin AccessPcs /\ ~(f.pc \in WritePcs /\ ~f.up) => Len(chain[c]) > 1
         /\ Len(chain[c]) > 1 => Link(Caller(c), f) /\ Caller(c) \in Frames
<1>1. Well(c, chain[c], lock, block, dir) /\ c # <<>> /\ Len(c) \in Nat /\ Len(c) >= 1
  BY DEF Inv, Chains, Forks, Well
<1>2. PICK s, n : s = chain[c] /\ n = Len(s)
  OBVIOUS
<1>3. /\ s \in Seq(Frames) /\ n \in Nat /\ n > 0 /\ s[n] = f /\ f \in Frames /\ n \in 1 .. Len(s)
      /\ HoldsAt(s, n) <=> Holding(f, TRUE)
  <2>1. s \in Seq(Frames) /\ s # <<>> /\ s[n] = f
    BY <1>1, <1>2 DEF Well, Shape, Top, Last
  <2>2. n \in Nat /\ n > 0 /\ n \in 1 .. Len(s)
    BY <2>1, <1>2
  <2>3. HoldsAt(s, n) <=> Holding(f, TRUE)
    BY <2>1, <1>2 DEF HoldsAt, Holding
  <2>4. f \in Frames
    BY <2>1, <2>2
  <2> QED BY <2>1, <2>2, <2>3, <2>4
<1>4. Shape(c, s) /\ Hold(c, s, lock, block) /\ Facts(s, block, dir)
  BY <1>1, <1>2 DEF Well
<1>5. Holding(f, TRUE) =>
        /\ Where(f) \in Mods /\ f.way \in Ways(Where(f)) /\ lock[Where(f)][f.way].by = c
        /\ block[Where(f)][f.way].trans = f.addr /\ FactOfHolder(f, block[Where(f)][f.way])
  <2>1. Holding(f, TRUE) => Where(f) \in Mods
    BY <1>3, WhereIs, TreeAssumption
  <2> QED BY <2>1, <1>3, <1>4 DEF Hold, Facts, HolderFact
<1>6. f.pc \in EvictPcs =>
        /\ FactOfEvict(f, block[f.mod][f.srcWay])
        /\ f.pc = "EVICT_INVALID" => dir[f.mod][f.srcWay].sharers = {}
  BY <1>2, <1>3, <1>4 DEF Facts, EvictFact
<1>7. n > 1 => Link(s[n - 1], f) /\ s[n - 1] \in Frames /\ Caller(c) = s[n - 1]
  BY <1>2, <1>3, <1>4 DEF Shape, Caller
<1>8. n = 1 => Bottom(c, f)
  BY <1>2, <1>3, <1>4 DEF Shape
<1>9. f.pc \in AccessPcs => n = 1
  BY <1>3, <1>7 DEF Link, AccessPcs, AccessFirst, AccessKeeps, FindPcs, FindKeeps, EvictPcs, EvictFirst, InvalidatePcs, ReadPcs, ReadKeeps, WritePcs, WriteKeeps
<1>10. f \in AccessFrames => f.pc \in AccessPcs
  BY DEF AccessFrames
<1>11. AccessPcs \intersect WritePcs = {}
  BY DEF AccessPcs, AccessFirst, AccessKeeps, WritePcs, WriteKeeps
<1>12. f.pc \in AccessPcs => Len(c) = 1 /\ Len(chain[c]) = 1 /\ f.mod = Home[c[1]] /\ f \in AccessFrames
  BY <1>2, <1>8, <1>9, <1>11 DEF Bottom
<1>13. f.pc \notin AccessPcs /\ ~(f.pc \in WritePcs /\ ~f.up) => Len(chain[c]) > 1
  BY <1>2, <1>3, <1>8, <1>10 DEF Bottom
<1> QED BY <1>1, <1>2, <1>3, <1>5, <1>6, <1>7, <1>12, <1>13

\* What it says of the frame that called the one on top.
LEMMA EnterCaller ==
  ASSUME Inv, NEW c \in DOMAIN chain, chain[c] # <<>>, NEW f, f = Top(c), Len(chain[c]) > 1, NEW g, g = Caller(c)
  PROVE  /\ Link(g, f) /\ g \in Frames
         /\ Holding(g, FALSE) =>
              /\ Where(g) \in Mods /\ g.way \in Ways(Where(g)) /\ lock[Where(g)][g.way].by = c
              /\ block[Where(g)][g.way].trans = g.addr /\ FactOfHolder(g, block[Where(g)][g.way])
              /\ Holding(f, TRUE) => ~Same(f, g)
         /\ g.pc \in EvictPcs => FactOfEvict(g, block[g.mod][g.srcWay])
<1>1. Well(c, chain[c], lock, block, dir) /\ f \in Frames /\ Link(g, f) /\ g \in Frames
  BY Enter
<1>2. PICK s, n : s = chain[c] /\ n = Len(s)
  OBVIOUS
<1>3. /\ s \in Seq(Frames) /\ n \in Nat /\ n > 1 /\ s[n] = f /\ s[n - 1] = g /\ n - 1 \in 1 .. Len(s) /\ n \in 1 .. Len(s)
      /\ n - 1 # n
  BY <1>1, <1>2 DEF Well, Shape, Top, Last, Caller
<1>4. Shape(c, s) /\ Hold(c, s, lock, block) /\ Facts(s, block, dir)
  BY <1>1, <1>2 DEF Well
<1>5. (HoldsAt(s, n - 1) <=> Holding(g, FALSE)) /\ (HoldsAt(s, n) <=> Holding(f, TRUE))
  BY <1>2, <1>3 DEF HoldsAt, Holding
<1>6. ASSUME Holding(g, FALSE)
      PROVE  /\ Where(g) \in Mods /\ g.way \in Ways(Where(g)) /\ lock[Where(g)][g.way].by = c
             /\ block[Where(g)][g.way].trans = g.addr /\ FactOfHolder(g, block[Where(g)][g.way])
             /\ Holding(f, TRUE) => ~Same(f, g)
  <2>1. Where(g) \in Mods
    BY <1>1, <1>6, WhereIs, TreeAssumption
  <2>2. HoldsAt(s, n - 1)
    BY <1>5, <1>6
  <2>3. /\ g.way \in Ways(Where(g)) /\ lock[Where(g)][g.way].by = c
        /\ block[Where(g)][g.way].trans = g.addr
    BY <1>3, <1>4, <2>2 DEF Hold
  <2>4. FactOfHolder(g, block[Where(g)][g.way])
    BY <1>3, <1>4, <2>2 DEF Facts, HolderFact
  <2>5. Holding(f, TRUE) => ~Same(f, g)
    BY <1>3, <1>4, <1>5, <2>2 DEF Hold
  <2> QED BY <2>1, <2>3, <2>4, <2>5
<1>7. g.pc \in EvictPcs => FactOfEvict(g, block[g.mod][g.srcWay])
  BY <1>3, <1>4 DEF Facts, EvictFact
<1> QED BY <1>1, <1>6, <1>7

-----------------------------------------------------------------------------
(* The turns that handlers take.                                             *)

\* At most the line w of m and its directory entry change.
Changed(m, w) ==
  /\ Memory'
  /\ \A n \in Mods : \A v \in Ways(n) : n # m \/ v # w => block'[n][v] = block[n][v] /\ dir'[n][v] = dir[n][v]
  /\ LineOk(m, block'[m][w], dir'[m][w])
  /\ block'[m][w].trans = block[m][w].trans
  /\ \/ block'[m][w].state = "I"
     \/ block'[m][w].tag = block[m][w].trans /\ lock[m][w].by # <<>>
     \/ block[m][w].state # "I" /\ block'[m][w].tag = block[m][w].tag

\* Handlers that leave lines and directory as they are.
LEMMA NothingChanged ==
  ASSUME Inv, UNCHANGED <<block, dir>>, NEW m \in Mods, NEW w \in Ways(m)
  PROVE  Changed(m, w)
<1>1. Memory'
  BY DEF Inv, Typed, Memory
<1>2. LineOk(m, block[m][w], dir[m][w])
  BY DEF Inv, Lines, LineOk
<1> QED BY <1>1, <1>2 DEF Changed

\* Handlers that write one line and its directory entry, by what they may write.
LEMMA ChangedIs ==
  ASSUME Inv, NEW m \in Mods, NEW w \in Ways(m), NEW a \in Blocks \union {None}, NEW s \in States,
         NEW e \in DirRecs, block' = block \/ block' = SetBlock(m, w, a, s),
         dir' = dir \/ dir' = SetDir(m, w, e),
         block' # block => \/ s = "I"
                           \/ a = block[m][w].trans /\ lock[m][w].by # <<>>
                           \/ block[m][w].state # "I" /\ a = block[m][w].tag,
         LineOk(m, block'[m][w], dir'[m][w])
  PROVE  Changed(m, w)
<1>1. Memory
  BY DEF Inv, Typed
<1>2. /\ DOMAIN block' = Mods /\ \A n \in Mods : block'[n] \in [Ways(n) -> LineRecs]
      /\ block'[m][w].trans = block[m][w].trans
      /\ \A n \in Mods : \A v \in Ways(n) : n # m \/ v # w => block'[n][v] = block[n][v]
  <2>1. CASE block' = block
    BY <2>1, <1>1 DEF Memory
  <2>2. CASE block' = SetBlock(m, w, a, s)
    BY <2>2, <1>1, SetBlockIs
  <2> QED BY <2>1, <2>2
<1>3. /\ DOMAIN dir' = Mods /\ \A n \in Mods : dir'[n] \in [Ways(n) -> DirRecs]
      /\ \A n \in Mods : \A v \in Ways(n) : n # m \/ v # w => dir'[n][v] = dir[n][v]
  <2>1. CASE dir' = dir
    BY <2>1, <1>1 DEF Memory
  <2>2. CASE dir' = SetDir(m, w, e)
    BY <2>2, <1>1, SetDirIs
  <2> QED BY <2>1, <2>2
<1>4. \/ block'[m][w].state = "I"
      \/ block'[m][w].tag = block[m][w].trans /\ lock[m][w].by # <<>>
      \/ block[m][w].state # "I" /\ block'[m][w].tag = block[m][w].tag
  <2>1. CASE block' = block
    BY <2>1
  <2>2. CASE block' # block
    <3>1. block' = SetBlock(m, w, a, s)
      BY <2>2
    <3>2. block'[m][w].tag = a /\ block'[m][w].state = s
      BY <3>1, <1>1, SetBlockIs
    <3> QED BY <2>2, <3>2
  <2> QED BY <2>1, <2>2
<1> QED BY <1>2, <1>3, <1>4 DEF Changed, Memory

\* c runs the handler of its top frame f.
Acts(c, f) ==
  /\ Inv /\ c \in DOMAIN chain /\ chain[c] # <<>> /\ f = Top(c) /\ f.pc \notin {"INVALIDATE_FINISH", "DIR_WAIT"}
  /\ access' = access /\ fresh' \subseteq Mods \X Blocks

\* A handler that works at an entry its chain has locked keeps the invariant.
LEMMA ActsInv ==
  ASSUME NEW c, NEW f, Acts(c, f), NEW t, Turned(c, t), NEW m \in Mods, NEW w \in Ways(m), Changed(m, w),
         lock[m][w].by = c,
         Resume(c, t) \/ Release(c, t, m, w)
  PROVE  Inv'
<1>1. /\ Inv /\ c \in DOMAIN chain /\ chain[c] # <<>> /\ Top(c).pc \notin {"INVALIDATE_FINISH", "DIR_WAIT"}
      /\ access' = access /\ fresh' \subseteq Mods \X Blocks
  BY DEF Acts
<1>2. c # <<>>
  BY <1>1, Enter
<1>3. access' \in [Mods -> Seq(Threads)]
  BY <1>1 DEF Inv, Typed
<1>4. \A n \in Mods : \A v \in Ways(n) : n # m \/ v # w => lock'[n][v].by = lock[n][v].by
  <2>1. CASE Resume(c, t)
    BY <2>1 DEF Resume
  <2>2. CASE Release(c, t, m, w)
    BY <2>2, <1>1, UnlockedIs DEF Release, Inv, Typed
  <2> QED BY <2>1, <2>2
<1>5. Settled(m, w)
  BY <1>2, <1>4 DEF Settled, Changed, Elsewhere, Still
<1>6. Memory'
  BY DEF Changed
<1> QED BY <1>1, <1>3, <1>5, <1>6, TurnInv

\* Nothing is touched, and f goes on as h.
LEMMA GoInv ==
  ASSUME NEW c, NEW f, Acts(c, f), UNCHANGED <<block, dir>>, NEW h, Similar(f, h), Resume(c, Goto(c, h)),
         Holding(h, TRUE) => Holding(f, TRUE) /\ h.way = f.way /\ FactOfHolder(h, block[Where(f)][f.way]),
         Len(c) = 1 \/ (Holding(f, TRUE) => Holding(h, TRUE)),
         h.pc \notin EvictPcs, h.pc \notin InvalidatePcs
  PROVE  Inv'
<1>1. /\ Inv /\ c \in DOMAIN chain /\ chain[c] # <<>> /\ f = Top(c) /\ Top(c).pc \notin {"INVALIDATE_FINISH", "DIR_WAIT"}
      /\ UNCHANGED <<block, dir, access>> /\ fresh' \subseteq Mods \X Blocks
  BY DEF Acts
<1>2. /\ c # <<>> /\ Well(c, chain[c], lock, block, dir)
      /\ Holding(f, TRUE) =>
           /\ Where(f) \in Mods /\ f.way \in Ways(Where(f)) /\ lock[Where(f)][f.way].by = c
           /\ block[Where(f)][f.way].trans = f.addr
  BY <1>1, Enter
<1>3. Where(f) = Where(h) /\ h.addr = f.addr
  BY SimilarWhere DEF Similar
<1>4. lock' = lock
  BY DEF Resume
<1>5. \A m \in Mods : \A w \in Ways(m) : Still(m, w)
  BY <1>4 DEF Still
<1>6. Holding(h, TRUE) => Holds(c, h) /\ h.way = f.way /\ Holding(f, TRUE)
  BY <1>2, <1>3, <1>4 DEF Holds
<1>7. Sees(h)
  BY DEF Sees
<1>8. Len(c) = 1 \/ (Holding(f, TRUE) => Holding(h, TRUE) /\ h.way = f.way)
  BY <1>6
<1>9. Turned(c, Goto(c, h))
  BY <1>1, <1>2, <1>5, <1>6, <1>7, <1>8, Going
<1> QED BY <1>1, <1>9, QuietInv

\* Nothing is touched, f goes on as h and calls gs.
LEMMA CallInv ==
  ASSUME NEW c, NEW f, Acts(c, f), UNCHANGED <<block, dir>>, NEW h, Similar(f, h), NEW gs, Callable(gs), Link(h, gs[1]),
         Resume(c, Call(c, h, gs)),
         Holding(f, TRUE) <=> Holding(h, FALSE),
         Holding(h, FALSE) => h.way = f.way /\ FactOfHolder(h, block[Where(f)][h.way]),
         h.pc \in EvictPcs => FactOfEvict(h, block[h.mod][h.srcWay]),
         h.pc \notin InvalidatePcs
  PROVE  Inv'
<1>1. /\ Inv /\ c \in DOMAIN chain /\ chain[c] # <<>> /\ f = Top(c) /\ Top(c).pc \notin {"INVALIDATE_FINISH", "DIR_WAIT"}
      /\ UNCHANGED <<block, dir, access>> /\ fresh' \subseteq Mods \X Blocks
  BY DEF Acts
<1>2. c # <<>> /\ Well(c, chain[c], lock, block, dir)
  BY <1>1, Enter
<1>3. Where(f) = Where(h)
  BY SimilarWhere
<1>4. UNCHANGED <<block, dir, lock>> /\ gs \in Seq(Frames)
  BY DEF Resume, Callable
<1>5. Holding(h, FALSE) => h.way = f.way /\ FactOfHolder(h, block[Where(h)][h.way])
  BY <1>3
<1>6. Turned(c, Call(c, h, gs))
  BY <1>1, <1>2, <1>4, <1>5, Calling
<1> QED BY <1>1, <1>6, QuietInv

\* f goes on as h, which still holds what f holds.
LEMMA KeepInv ==
  ASSUME NEW c, NEW f, Acts(c, f), Holding(f, TRUE), Changed(Where(f), f.way), NEW h, Similar(f, h),
         Resume(c, Goto(c, h)), Holding(h, TRUE), h.way = f.way, FactOfHolder(h, block'[Where(f)][f.way]),
         h.pc \notin EvictPcs, h.pc \notin InvalidatePcs
  PROVE  Inv'
<1>1. Inv /\ c \in DOMAIN chain /\ chain[c] # <<>> /\ f = Top(c)
  BY DEF Acts
<1>2. PICK m, w : m = Where(f) /\ w = f.way
  OBVIOUS
<1>3. /\ c # <<>> /\ Well(c, chain[c], lock, block, dir)
      /\ m \in Mods /\ w \in Ways(m) /\ lock[m][w].by = c /\ block[m][w].trans = f.addr
  BY <1>1, <1>2, Enter
<1>4. Where(h) = m /\ h.addr = f.addr
  BY <1>2, SimilarWhere DEF Similar
<1>5. lock' = lock /\ Changed(m, w)
  BY <1>2 DEF Resume
<1>6. \A n \in Mods : \A v \in Ways(n) : Still(n, v) \/ (Where(f) = n /\ f.way = v)
  BY <1>2, <1>5 DEF Still, Changed
<1>7. Holds(c, h) /\ h.way = f.way
  BY <1>2, <1>3, <1>4, <1>5 DEF Holds, Changed
<1>8. Sees(h)
  BY DEF Sees
<1>9. Turned(c, Goto(c, h))
  BY <1>1, <1>3, <1>6, <1>7, <1>8, Going
<1> QED BY <1>3, <1>5, <1>9, ActsInv

\* f goes on as h and unlocks what it holds.
LEMMA FreeInv ==
  ASSUME NEW c, NEW f, Acts(c, f), Holding(f, TRUE), Changed(Where(f), f.way), NEW h, Similar(f, h),
         Release(c, Goto(c, h), Where(f), f.way), ~Holding(h, TRUE), Sees(h)
  PROVE  Inv'
<1>1. Inv /\ c \in DOMAIN chain /\ chain[c] # <<>> /\ f = Top(c)
  BY DEF Acts
<1>2. PICK m, w : m = Where(f) /\ w = f.way
  OBVIOUS
<1>3. /\ c # <<>> /\ Well(c, chain[c], lock, block, dir)
      /\ m \in Mods /\ w \in Ways(m) /\ lock[m][w].by = c
  BY <1>1, <1>2, Enter
<1>4. lock' = Unlocked(m, w) /\ Changed(m, w) /\ Entries
  BY <1>1, <1>2 DEF Release, Inv, Typed
<1>5. /\ lock'[m][w].by = <<>>
      /\ \A n \in Mods : \A v \in Ways(n) : n # m \/ v # w => lock'[n][v] = lock[n][v]
  BY <1>3, <1>4, UnlockedIs
<1>6. \A n \in Mods : \A v \in Ways(n) : Still(n, v) \/ (Where(f) = n /\ f.way = v)
  BY <1>2, <1>4, <1>5 DEF Still, Changed
<1>7. lock'[Where(f)][f.way].by # c
  BY <1>2, <1>3, <1>5
<1>8. Turned(c, Goto(c, h))
  BY <1>1, <1>3, <1>6, <1>7, Going
<1> QED BY <1>2, <1>3, <1>4, <1>8, ActsInv

\* Nothing is touched, f is popped and its caller goes on as h with the error.
LEMMA BackInv ==
  ASSUME NEW c, NEW f, Acts(c, f), UNCHANGED <<block, dir>>, NEW g, g = Caller(c), NEW h, Len(chain[c]) > 1,
         Similar(g, h), Resume(c, Return(c, h)),
         Holding(h, TRUE) =>
           /\ \/ Holding(f, TRUE) /\ Same(f, h)
              \/ Holding(g, FALSE) /\ h.way = g.way
           /\ FactOfHolder(h, block[Where(h)][h.way]),
         h.pc = "EVICT_INVALID" => dir[h.mod][h.srcWay].sharers = {},
         h.pc \in EvictPcs => FactOfEvict(h, block[h.mod][h.srcWay]),
         h.pc \notin InvalidatePcs,
         Holding(f, TRUE) => Len(c) = 1 \/ (Holding(h, TRUE) /\ Same(f, h)),
         Holding(g, FALSE) => Holding(h, TRUE) /\ h.way = g.way
  PROVE  Inv'
<1>1. /\ Inv /\ c \in DOMAIN chain /\ chain[c] # <<>> /\ f = Top(c) /\ Top(c).pc \notin {"INVALIDATE_FINISH", "DIR_WAIT"}
      /\ UNCHANGED <<block, dir, access>> /\ fresh' \subseteq Mods \X Blocks
  BY DEF Acts
<1>2. /\ c # <<>> /\ Well(c, chain[c], lock, block, dir)
      /\ Holding(f, TRUE) =>
           /\ Where(f) \in Mods /\ f.way \in Ways(Where(f)) /\ lock[Where(f)][f.way].by = c
           /\ block[Where(f)][f.way].trans = f.addr
  BY <1>1, Enter
<1>3. /\ Link(g, f)
      /\ Holding(g, FALSE) =>
           /\ Where(g) \in Mods /\ g.way \in Ways(Where(g)) /\ lock[Where(g)][g.way].by = c
           /\ block[Where(g)][g.way].trans = g.addr
  BY <1>1, EnterCaller
<1>4. Where(g) = Where(h) /\ h.addr = g.addr
  BY SimilarWhere DEF Similar
<1>5. lock' = lock
  BY DEF Resume
<1>6. \A m \in Mods : \A w \in Ways(m) : Still(m, w)
  BY <1>5 DEF Still
<1>7. Holding(f, TRUE) /\ Same(f, h) /\ Holding(h, TRUE) => f.addr = h.addr
  BY <1>2, <1>3, <1>4 DEF Same, Link, Holding, Keeps, First, AccessFirst, AccessKeeps, EvictFirst, FindKeeps, ReadKeeps, WriteKeeps, FindPcs, ReadPcs, WritePcs, EvictPcs, InvalidatePcs, Serves
<1>8. Holding(h, TRUE) => Holds(c, h) /\ \/ Holding(f, TRUE) /\ Same(f, h)
                                         \/ Holding(g, FALSE) /\ h.way = g.way
  BY <1>2, <1>3, <1>4, <1>5, <1>7 DEF Holds, Same
<1>9. \/ Len(c) = 1
      \/ /\ Holding(f, TRUE) => lock'[Where(f)][f.way].by # c \/ (Holding(h, TRUE) /\ Same(f, h))
         /\ Holding(g, FALSE) => lock'[Where(g)][g.way].by # c \/ (Holding(h, TRUE) /\ h.way = g.way)
  OBVIOUS
<1>10. /\ h.pc = "EVICT_INVALID" => dir'[h.mod][h.srcWay].sharers = {}
       /\ h.pc \in EvictPcs => FactOfEvict(h, block'[h.mod][h.srcWay])
  BY <1>1
<1>11. Turned(c, Return(c, h))
  BY <1>1, <1>2, <1>6, <1>8, <1>9, <1>10, Returning
<1> QED BY <1>1, <1>11, QuietInv

\* f is popped and what it holds is unlocked; its caller goes on as h, and holds nothing.
LEMMA FreeBackInv ==
  ASSUME NEW c, NEW f, Acts(c, f), Holding(f, TRUE), Changed(Where(f), f.way), NEW g, g = Caller(c), NEW h,
         Len(chain[c]) > 1, Similar(g, h), Release(c, Return(c, h), Where(f), f.way),
         Holding(h, TRUE) => /\ Holding(g, FALSE) /\ h.way = g.way
                             /\ FactOfHolder(h, block[Where(h)][h.way]),
         h.pc \in EvictPcs => h.pc # "EVICT_INVALID" /\ FactOfEvict(h, block'[h.mod][h.srcWay]),
         h.pc \notin InvalidatePcs,
         Holding(g, FALSE) => Len(c) = 1 \/ (Holding(h, TRUE) /\ h.way = g.way)
  PROVE  Inv'
<1>1. Inv /\ c \in DOMAIN chain /\ chain[c] # <<>> /\ f = Top(c)
  BY DEF Acts
<1>2. PICK m, w : m = Where(f) /\ w = f.way
  OBVIOUS
<1>3. /\ c # <<>> /\ Well(c, chain[c], lock, block, dir)
      /\ m \in Mods /\ w \in Ways(m) /\ lock[m][w].by = c
  BY <1>1, <1>2, Enter
<1>4. lock' = Unlocked(m, w) /\ Changed(m, w) /\ Entries
  BY <1>1, <1>2 DEF Release, Inv, Typed
<1>5. /\ lock'[m][w].by = <<>>
      /\ \A n \in Mods : \A v \in Ways(n) : n # m \/ v # w => lock'[n][v] = lock[n][v]
  BY <1>3, <1>4, UnlockedIs
<1>6. \A n \in Mods : \A v \in Ways(n) : n # m \/ v # w => Still(n, v)
  BY <1>4, <1>5 DEF Still, Changed
<1>7. \A n \in Mods : \A v \in Ways(n) : Still(n, v) \/ (Holding(f, TRUE) /\ Where(f) = n /\ f.way = v)
  BY <1>2, <1>6
<1>8. lock'[Where(f)][f.way].by # c
  BY <1>2, <1>3, <1>5
<1>9. Where(g) = Where(h) /\ h.addr = g.addr
  BY SimilarWhere DEF Similar
<1>10. Holding(g, FALSE) =>
         /\ Where(g) \in Mods /\ g.way \in Ways(Where(g)) /\ lock[Where(g)][g.way].by = c
         /\ block[Where(g)][g.way].trans = g.addr /\ ~Same(f, g)
  BY <1>1, EnterCaller
<1>11. Holding(g, FALSE) => Still(Where(g), g.way)
  BY <1>2, <1>6, <1>10 DEF Same
<1>12. Holding(h, TRUE) => Holds(c, h) /\ Holding(g, FALSE) /\ h.way = g.way
  BY <1>9, <1>10, <1>11 DEF Holds, Still
<1>13. \/ Len(c) = 1
       \/ /\ Holding(f, TRUE) => lock'[Where(f)][f.way].by # c \/ (Holding(h, TRUE) /\ Same(f, h))
          /\ Holding(g, FALSE) => lock'[Where(g)][g.way].by # c \/ (Holding(h, TRUE) /\ h.way = g.way)
  BY <1>8
<1>14. /\ h.pc = "EVICT_INVALID" => dir'[h.mod][h.srcWay].sharers = {}
       /\ h.pc \in EvictPcs => FactOfEvict(h, block'[h.mod][h.srcWay])
  BY DEF EvictPcs
<1>15. Turned(c, Return(c, h))
  BY <1>1, <1>3, <1>7, <1>12, <1>13, <1>14, Returning
<1> QED BY <1>2, <1>3, <1>4, <1>15, ActsInv

-----------------------------------------------------------------------------
(* What is called.                                                           *)

\* A sequence of one frame.
LEMMA One ==
  ASSUME NEW g \in Frames
  PROVE  <<g>> \in Seq(Frames) /\ Len(<<g>>) = 1 /\ <<g>>[1] = g
OBVIOUS

\* A sequence of two frames.
LEMMA Two ==
  ASSUME NEW g \in Frames, NEW h \in Frames
  PROVE  /\ <<g, h>> \in Seq(Frames) /\ Len(<<g, h>>) = 2 /\ <<g, h>>[1] = g /\ <<g, h>>[2] = h /\ <<g, h>> # <<>>
OBVIOUS

\* A single frame may be called.
LEMMA CallOne ==
  ASSUME NEW g \in Frames, ~Holding(g, TRUE), g.pc \notin EvictPcs,
         g.pc \in InvalidatePcs => g.pc # "INVALIDATE_FINISH" /\ FactOfInvalidate(g, block[g.mod][g.way])
  PROVE  Callable(<<g>>) /\ <<g>>[1] = g
<1>1. PICK gs : gs = <<g>>
  OBVIOUS
<1>2. gs \in Seq(Frames) /\ Len(gs) = 1 /\ gs[1] = g /\ \A i \in 1 .. 1 : i = 1
  BY <1>1, One
<1>3. \A i \in 1 .. Len(gs) : gs[i] = g /\ ~Holding(gs[i], i = Len(gs))
  BY <1>2 DEF Holding
<1>4. Callable(gs)
  BY <1>2, <1>3 DEF Callable
<1> QED BY <1>1, <1>2, <1>4

\* Two linked frames may be called at once: the handler and the lookup or the invalidation it starts with.
LEMMA CallTwo ==
  ASSUME NEW g \in Frames, NEW h \in Frames, Link(g, h), ~Holding(g, FALSE), ~Holding(h, TRUE),
         g.pc \in EvictPcs => FactOfEvict(g, block[g.mod][g.srcWay]),
         h.pc \notin EvictPcs, g.pc \notin InvalidatePcs,
         h.pc \in InvalidatePcs => h.pc # "INVALIDATE_FINISH" /\ FactOfInvalidate(h, block[h.mod][h.way])
  PROVE  Callable(<<g, h>>) /\ <<g, h>>[1] = g
<1>1. PICK gs : gs = <<g, h>>
  OBVIOUS
<1>2. gs \in Seq(Frames) /\ Len(gs) = 2 /\ gs[1] = g /\ gs[2] = h /\ \A i \in 1 .. 2 : i = 1 \/ i = 2
  BY <1>1, Two
<1>3. \A i \in 1 .. Len(gs) : \/ i = 1 /\ gs[i] = g /\ ~Holding(gs[i], i = Len(gs)) /\ i # Len(gs)
                              \/ i = 2 /\ gs[i] = h /\ ~Holding(gs[i], i = Len(gs))
  BY <1>2 DEF Holding
<1>4. Callable(gs)
  BY <1>2, <1>3 DEF Callable
<1> QED BY <1>1, <1>2, <1>4

Seeks(g, m, a) ==
  /\ g \in Frames /\ g.pc \in FindPcs /\ g.mod = m /\ g.addr = a
  /\ ~Holding(g, TRUE) /\ g.pc \notin EvictPcs /\ g.pc \notin InvalidatePcs

\* The frame of find-and-lock looks for the block it was given.
LEMMA FindIs ==
  ASSUME NEW m \in Mods, NEW a \in Blocks, NEW b \in BOOLEAN, NEW w \in Nat
  PROVE  Seeks(FindFrame(m, a, b, w), m, a)
<1>1. PICK g : g = FindFrame(m, a, b, w)
  OBVIOUS
<1>2. g \in FindFrames /\ g.pc = "FIND_AND_LOCK" /\ g.mod = m /\ g.addr = a
  BY <1>1 DEF FindFrame, FindFrames, FindPcs, States
<1>3. /\ "FIND_AND_LOCK" \in FindPcs /\ "FIND_AND_LOCK" \notin EvictPcs /\ "FIND_AND_LOCK" \notin InvalidatePcs
      /\ "FIND_AND_LOCK" \notin Keeps /\ "FIND_AND_LOCK" \notin First
  BY DEF FindPcs, EvictPcs, EvictFirst, InvalidatePcs, Keeps, First, AccessFirst, AccessKeeps, FindKeeps, ReadKeeps, WriteKeeps
<1> QED BY <1>1, <1>2, <1>3 DEF Frames, Holding, Seeks

\* A handler that has locked nothing yet may call find-and-lock.
LEMMA CallFind ==
  ASSUME NEW m \in Mods, NEW a \in Blocks, NEW b \in BOOLEAN, NEW w \in Nat,
         NEW h, h.pc \in First, m = Where(h), a = h.addr
  PROVE  LET gs == <<FindFrame(m, a, b, w)>> IN Callable(gs) /\ Link(h, gs[1])
<1>1. PICK g : g = FindFrame(m, a, b, w)
  OBVIOUS
<1>2. /\ g \in Frames /\ g.pc \in FindPcs /\ g.mod = m /\ g.addr = a
      /\ ~Holding(g, TRUE) /\ g.pc \notin EvictPcs /\ g.pc \notin InvalidatePcs
  <2>1. Seeks(g, m, a)
    BY <1>1, FindIs
  <2> QED BY <2>1 DEF Seeks
<1>3. Callable(<<g>>) /\ <<g>>[1] = g
  BY <1>2, CallOne
<1>4. Link(h, g)
  BY <1>2 DEF Link
<1> QED BY <1>1, <1>3, <1>4

\* A request frame and the find-and-lock of its receiver.
LEMMA CallRequest ==
  ASSUME NEW g \in RequestFrames, g.pc \in {"READ_REQUEST_ACTION", "WRITE_REQUEST_ACTION"},
         NEW b \in BOOLEAN, NEW h, Serves(h, g)
  PROVE  LET gs == <<g, FindFrame(g.target, g.addr, b, NoWay)>> IN Callable(gs) /\ Link(h, gs[1])
<1>1. PICK e : e = FindFrame(g.target, g.addr, b, NoWay)
  OBVIOUS
<1>2. g.target \in Mods /\ g.addr \in Blocks /\ NoWay \in Nat /\ g \in Frames
  BY DEF RequestFrames, Frames, NoWay
<1>3. /\ e \in Frames /\ e.pc \in FindPcs /\ e.mod = g.target /\ e.addr = g.addr
      /\ ~Holding(e, TRUE) /\ e.pc \notin EvictPcs /\ e.pc \notin InvalidatePcs
  <2>1. Seeks(e, g.target, g.addr)
    BY <1>1, <1>2, FindIs
  <2> QED BY <2>1 DEF Seeks
<1>4. /\ g.pc \in First /\ Where(g) = g.target /\ g.pc \in ReadPcs \union WritePcs /\ ~Holding(g, FALSE)
      /\ g.pc \notin EvictPcs /\ g.pc \notin InvalidatePcs
  BY DEF First, Where, ReadPcs, WritePcs, EvictPcs, EvictFirst, InvalidatePcs, Holding, Keeps, AccessKeeps, FindKeeps, ReadKeeps, WriteKeeps
<1>5. Link(g, e)
  BY <1>3, <1>4 DEF Link
<1>6. Link(h, g)
  BY <1>4 DEF Link
<1>7. Callable(<<g, e>>) /\ <<g, e>>[1] = g
  BY <1>2, <1>3, <1>4, <1>5, CallTwo
<1> QED BY <1>1, <1>6, <1>7

RequestRecs ==
  [pc : ReadPcs \union WritePcs, mod : Mods, target : Mods, addr : Blocks, up : BOOLEAN,
   peer : Mods \union {None}, nc : BOOLEAN, way : Nat, state : States, err : BOOLEAN,
   shared : BOOLEAN, reply : Replies, data : Contents, viaPeer : BOOLEAN, retain : BOOLEAN]

Upward == {"LOAD_MISS", "STORE_UNLOCK", "PREFETCH_MISS", "NC_STORE_MISS", "READ_REQUEST_UPDOWN_MISS",
           "WRITE_REQUEST_UPDOWN_FINISH"}

\* A request to the module below.
LEMMA CallUp ==
  ASSUME NEW q \in {"READ_REQUEST_ACTION", "WRITE_REQUEST_ACTION"}, NEW m \in Mods, NEW target \in Mods,
         NEW a \in Blocks, NEW peer \in Mods \union {None}, Low[m] = target, NEW nc \in BOOLEAN,
         NEW h, h.pc \in Upward, m = Where(h), a = h.addr
  PROVE  LET gs == <<[RequestFrame(q, m, target, a, TRUE, peer) EXCEPT !.nc = nc], FindFrame(target, a, FALSE, NoWay)>>
         IN  Callable(gs) /\ Link(h, gs[1])
<1>1. PICK g : g = [RequestFrame(q, m, target, a, TRUE, peer) EXCEPT !.nc = nc]
  OBVIOUS
<1>2. g.pc = q /\ g.mod = m /\ g.target = target /\ g.addr = a /\ g.up = TRUE /\ g \in RequestRecs
  BY <1>1 DEF RequestFrame, RequestRecs, ReadPcs, WritePcs, States, Replies, Contents, NoWay
<1>3. g \in RequestFrames
  BY <1>2 DEF RequestFrames, RequestRecs
<1>4. Serves(h, g)
  BY <1>2 DEF Serves, Upward
<1>5. PICK gs : gs = <<g, FindFrame(g.target, g.addr, FALSE, NoWay)>>
  OBVIOUS
<1>6. Callable(gs) /\ Link(h, gs[1])
  BY <1>2, <1>3, <1>4, <1>5, CallRequest
<1> QED BY <1>1, <1>2, <1>5, <1>6

\* An access or a miss may send a request to the module below.
LEMMA CallUpPlain ==
  ASSUME NEW q \in {"READ_REQUEST_ACTION", "WRITE_REQUEST_ACTION"}, NEW m \in Mods, NEW target \in Mods,
         NEW a \in Blocks, NEW peer \in Mods \union {None}, Low[m] = target,
         NEW h, h.pc \in Upward, m = Where(h), a = h.addr
  PROVE  LET gs == Request(q, m, target, a, TRUE, peer) IN Callable(gs) /\ Link(h, gs[1])
<1>1. PICK g : g = RequestFrame(q, m, target, a, TRUE, peer)
  OBVIOUS
<1>2. [g EXCEPT !.nc = FALSE] = g
  <2>1. /\ g \in [pc : {q}, mod : {m}, target : {target}, addr : {a}, up : {TRUE}, peer : {peer}, nc : {FALSE},
                  way : {NoWay}, state : {"I"}, err : {FALSE}, shared : {FALSE}, reply : {"none"},
                  data : {"none"}, viaPeer : {FALSE}, retain : {FALSE}]
    BY <1>1 DEF RequestFrame
  <2> QED BY <2>1
<1>3. PICK gs : gs = <<[g EXCEPT !.nc = FALSE], FindFrame(target, a, FALSE, NoWay)>>
  OBVIOUS
<1>4. Callable(gs) /\ Link(h, gs[1])
  BY <1>1, <1>3, CallUp
<1>5. Request(q, m, target, a, TRUE, peer) = gs
  BY <1>1, <1>2, <1>3 DEF Request
<1> QED BY <1>4, <1>5

\* A victim, or a dirty line before a non-coherent store, may be evicted.
LEMMA CallEvict ==
  ASSUME NEW m \in Mods, NEW w \in Nat, NEW a \in Blocks, MayCarry(block[m][w], a),
         NEW h, h.pc \in {"FIND_AND_LOCK_FINISH", "NC_STORE_ACTION"}, m = h.mod, w = h.way,
         h.pc = "NC_STORE_ACTION" => h.state \in {"M", "O"}
  PROVE  LET gs == <<EvictFrame(m, w, a), InvalidateFrame(m, w, a, None)>> IN Callable(gs) /\ Link(h, gs[1])
<1>1. PICK g, e : g = EvictFrame(m, w, a) /\ e = InvalidateFrame(m, w, a, None)
  OBVIOUS
<1>2. g \in EvictFrames /\ g.pc = "EVICT_INVALID" /\ g.mod = m /\ g.srcWay = w /\ g.addr = a
  BY <1>1 DEF EvictFrame, EvictFrames, EvictPcs, States, Replies, Contents
<1>3. e \in InvalidateFrames /\ e.pc = "INVALIDATE" /\ e.mod = m /\ e.way = w /\ e.addr = a /\ e.except = None
  BY <1>1 DEF InvalidateFrame, InvalidateFrames, InvalidatePcs, Replies
<1>4. g \in Frames /\ e \in Frames
  BY <1>2, <1>3 DEF Frames
<1>5. /\ g.pc \in EvictPcs /\ g.pc \notin InvalidatePcs /\ e.pc \in InvalidatePcs /\ e.pc \notin EvictPcs
      /\ ~Holding(g, FALSE) /\ ~Holding(e, TRUE)
  BY <1>2, <1>3 DEF EvictPcs, EvictFirst, InvalidatePcs, Holding, Keeps, First, AccessFirst, AccessKeeps, FindKeeps, ReadKeeps, WriteKeeps
<1>6. Link(g, e) /\ Link(h, g)
  BY <1>2, <1>3, <1>5 DEF Link
<1>7. FactOfEvict(g, block[g.mod][g.srcWay]) /\ FactOfInvalidate(e, block[e.mod][e.way]) /\ e.pc # "INVALIDATE_FINISH"
  BY <1>2, <1>3 DEF FactOfEvict, FactOfInvalidate
<1>8. Callable(<<g, e>>) /\ <<g, e>>[1] = g
  BY <1>4, <1>5, <1>6, <1>7, CallTwo
<1> QED BY <1>1, <1>6, <1>8

\* A write request may invalidate the other sharers.
LEMMA CallInvalidate ==
  ASSUME NEW h, h.pc = "WRITE_REQUEST_EXCLUSIVE", h.target \in Mods, h.way \in Nat, h.addr \in Blocks,
         h.mod \in Mods, MayCarry(block[h.target][h.way], h.addr)
  PROVE  LET gs == <<InvalidateFrame(h.target, h.way, h.addr, h.mod)>> IN Callable(gs) /\ Link(h, gs[1])
<1>1. PICK e : e = InvalidateFrame(h.target, h.way, h.addr, h.mod)
  OBVIOUS
<1>2. /\ e \in InvalidateFrames /\ e.pc = "INVALIDATE" /\ e.mod = h.target /\ e.way = h.way
      /\ e.addr = h.addr /\ e.except = h.mod
  BY <1>1 DEF InvalidateFrame, InvalidateFrames, InvalidatePcs, Replies
<1>3. e \in Frames
  BY <1>2 DEF Frames
<1>4. e.pc \in InvalidatePcs /\ e.pc \notin EvictPcs /\ ~Holding(e, TRUE)
  BY <1>2 DEF EvictPcs, EvictFirst, InvalidatePcs, Holding, Keeps, First, AccessFirst, AccessKeeps, FindKeeps, ReadKeeps, WriteKeeps
<1>5. Link(h, e)
  BY <1>2, <1>4 DEF Link
<1>6. FactOfInvalidate(e, block[e.mod][e.way]) /\ e.pc # "INVALIDATE_FINISH"
  BY <1>2 DEF FactOfInvalidate
<1>7. Callable(<<e>>) /\ <<e>>[1] = e
  BY <1>3, <1>4, <1>6, CallOne
<1> QED BY <1>1, <1>5, <1>7

\* A non-coherent store may tell the module below to clear the owner.
LEMMA CallMessage ==
  ASSUME NEW m \in Mods, NEW low \in Mods, Low[m] = low, NEW a \in Blocks,
         NEW h, h.pc = "NC_STORE_MISS", m = h.mod, a = h.addr
  PROVE  LET gs == <<MessageFrame(m, low, a), FindFrame(low, a, FALSE, NoWay)>> IN Callable(gs) /\ Link(h, gs[1])
<1>1. PICK g, e : g = MessageFrame(m, low, a) /\ e = FindFrame(low, a, FALSE, NoWay)
  OBVIOUS
<1>2. g \in MessageFrames /\ g.pc = "MESSAGE_ACTION" /\ g.mod = m /\ g.target = low /\ g.addr = a
  BY <1>1 DEF MessageFrame, MessageFrames, States, NoWay
<1>3. /\ e \in Frames /\ e.pc \in FindPcs /\ e.mod = low /\ e.addr = a
      /\ ~Holding(e, TRUE) /\ e.pc \notin EvictPcs /\ e.pc \notin InvalidatePcs
  <2>1. Seeks(e, low, a)
    BY <1>1, FindIs DEF NoWay
  <2> QED BY <2>1 DEF Seeks
<1>4. g \in Frames
  BY <1>2 DEF Frames
<1>5. /\ g.pc \in First /\ Where(g) = low /\ ~Holding(g, FALSE) /\ g.pc \notin EvictPcs /\ g.pc \notin InvalidatePcs
  BY <1>2 DEF First, Where, EvictPcs, EvictFirst, InvalidatePcs, Holding, Keeps, AccessKeeps, FindKeeps, ReadKeeps, WriteKeeps
<1>6. Link(g, e) /\ Link(h, g)
  BY <1>2, <1>3, <1>5 DEF Link
<1>7. Callable(<<g, e>>) /\ <<g, e>>[1] = g
  BY <1>3, <1>4, <1>5, <1>6, CallTwo
<1> QED BY <1>1, <1>6, <1>7

-----------------------------------------------------------------------------
(* Accesses.                                                                 *)

\* A thread begins or ends its access.
LEMMA PlainInv ==
  ASSUME Inv, NEW c \in DOMAIN chain, Len(c) = 1, chain[c] = <<>> \/ Top(c).pc = "FINISH",
         NEW t, Shape(c, t), chain' = Step(c, t), UNCHANGED <<block, dir, lock, fresh>>,
         \A i \in 1 .. Len(t) : ~HoldsAt(t, i) /\ t[i].pc \notin EvictPcs /\ t[i].pc \notin InvalidatePcs,
         access' \in [Mods -> Seq(Threads)]
  PROVE  Inv'
<1>1. DOMAIN chain' = DOMAIN chain /\ chain'[c] = t /\ \A d \in DOMAIN chain \ {c} : chain'[d] = chain[d]
  BY StepIs
<1>2. Typed /\ Chains /\ Forks /\ Queues /\ Lockers /\ Lines /\ OneMatch
  BY DEF Inv
<1>3. Hold(c, t, lock, block) /\ Facts(t, block, dir)
  BY DEF Hold, Facts, HolderFact, EvictFact, InvalidateFact
<1>4. Chains'
  <2>1. ASSUME NEW d \in DOMAIN chain
        PROVE  Shape(d, chain'[d]) /\ Hold(d, chain'[d], lock, block) /\ Facts(chain'[d], block, dir)
    <3>1. CASE d = c
      BY <3>1, <1>1, <1>3
    <3>2. CASE d # c
      <4>1. chain'[d] = chain[d]
        BY <3>2, <1>1
      <4> QED BY <4>1, <1>2 DEF Chains
    <3> QED BY <3>1, <3>2
  <2> QED BY <2>1, <1>1 DEF Chains
<1>5. Forks'
  <2>1. ASSUME NEW d \in DOMAIN chain, Len(d) > 1
        PROVE  /\ Front(d) \in DOMAIN chain /\ d[Len(d)] \in Mods
               /\ chain'[d] # <<>> /\ chain'[Front(d)] # <<>>
               /\ Last(chain'[Front(d)]).pc = "INVALIDATE_FINISH"
               /\ chain'[d][1].mod = Last(chain'[Front(d)]).mod /\ chain'[d][1].addr = Last(chain'[Front(d)]).addr
    <3>1. /\ Front(d) \in DOMAIN chain /\ d[Len(d)] \in Mods /\ chain[d] # <<>> /\ chain[Front(d)] # <<>>
          /\ Top(Front(d)).pc = "INVALIDATE_FINISH"
          /\ chain[d][1].mod = Top(Front(d)).mod /\ chain[d][1].addr = Top(Front(d)).addr
      BY <1>2, <2>1 DEF Forks
    <3>2. d # c /\ Front(d) # c
      BY <2>1, <3>1
    <3>3. chain'[d] = chain[d] /\ chain'[Front(d)] = chain[Front(d)]
      BY <1>1, <3>1, <3>2
    <3> QED BY <3>1, <3>3 DEF Top
  <2> QED BY <2>1, <1>1, <1>2 DEF Forks, Top
<1>6. Queues'
  <2>1. ASSUME NEW m \in Mods, NEW w \in Ways(m), NEW i \in 1 .. Len(lock[m][w].queue)
        PROVE  LET q == lock[m][w].queue IN
               /\ chain'[q[i]] # <<>> /\ Last(chain'[q[i]]).pc = "DIR_WAIT"
               /\ Last(chain'[q[i]]).mod = m /\ Last(chain'[q[i]]).way = w
    <3>1. PICK d : d = lock[m][w].queue[i]
      OBVIOUS
    <3>2. d \in DOMAIN chain /\ At(d, "DIR_WAIT") /\ Top(d).mod = m /\ Top(d).way = w
      BY <1>2, <3>1 DEF Queues
    <3>3. chain'[d] = chain[d]
      BY <1>1, <3>2 DEF At
    <3> QED BY <3>1, <3>2, <3>3 DEF At, Top
  <2>2. \A m \in Mods : \A w \in Ways(m) : LET q == lock[m][w].queue IN
          q \in Seq(DOMAIN chain) /\ \A i, j \in 1 .. Len(q) : q[i] = q[j] => i = j
    BY <1>2 DEF Queues
  <2> QED BY <2>1, <2>2, <1>1 DEF Queues, At, Top
<1>7. Lockers'
  <2>1. ASSUME NEW m \in Mods, NEW w \in Ways(m), NEW d, d = lock[m][w].by
        PROVE  /\ d \in DOMAIN chain \union {<<>>}
               /\ Len(d) > 1 => \E i \in 1 .. Len(chain'[d]) :
                    HoldsAt(chain'[d], i) /\ Where(chain'[d][i]) = m /\ chain'[d][i].way = w
    <3>1. d \in DOMAIN chain \union {<<>>} /\ (Len(d) > 1 => \E i \in 1 .. Len(chain[d]) :
            HoldsAt(chain[d], i) /\ Where(chain[d][i]) = m /\ chain[d][i].way = w)
      BY <1>2, <2>1 DEF Lockers
    <3>2. ASSUME Len(d) > 1 PROVE chain'[d] = chain[d]
      <4>1. Len(<<>>) = 0 /\ ~(0 > 1) /\ ~(1 > 1)
        OBVIOUS
      <4>2. d # <<>> /\ d # c
        BY <3>2, <4>1, Zenon
      <4> QED BY <1>1, <3>1, <4>2
    <3> QED BY <3>1, <3>2
  <2> QED BY <2>1, <1>1 DEF Lockers
<1>8. Typed'
  BY <1>1, <1>2 DEF Typed, Memory, Entries, Served
<1>9. Lines' /\ OneMatch'
  BY <1>2 DEF Lines, OneMatch, Matches
<1> QED BY <1>4, <1>5, <1>6, <1>7, <1>8, <1>9 DEF Inv

\* mod_access: a new chain with one frame keeps the invariant.
LEMMA StartInv ==
  ASSUME Inv, NEW t \in Threads, NEW k \in Kinds, NEW a \in Blocks, Start(t, k, a)
  PROVE  Inv'
<1>1. PICK c, f, s : c = <<t>> /\ f = AccessFrame(k, Home[t], a) /\ s = <<f>>
  OBVIOUS
<1>2. c \in DOMAIN chain /\ Len(c) = 1 /\ c[1] = t
  BY <1>1 DEF Inv, Typed, Served
<1>3. Home[t] \in Caches
  BY TreeAssumption DEF Caches
<1>4. f \in AccessFrames /\ f.pc = "LOCK" /\ f.mod = Home[t]
  BY <1>1, <1>3 DEF AccessFrame, AccessFrames, AccessPcs, States, Contents, NoWay
<1>5. s \in Seq(Frames) /\ Len(s) = 1 /\ s[1] = f /\ s # <<>>
  BY <1>1, <1>4 DEF Frames
<1>6. Shape(c, s)
  BY <1>2, <1>4, <1>5 DEF Shape, Bottom
<1>7. ASSUME NEW i \in 1 .. Len(s)
      PROVE  ~HoldsAt(s, i) /\ s[i].pc \notin EvictPcs /\ s[i].pc \notin InvalidatePcs
  <2>1. s[i].pc = "LOCK"
    BY <1>4, <1>5
  <2> QED BY <2>1 DEF HoldsAt, Holding, Keeps, First, AccessFirst, AccessKeeps, FindKeeps, ReadKeeps, WriteKeeps, EvictPcs, EvictFirst, InvalidatePcs
<1>8. /\ chain[c] = <<>> /\ chain' = Step(c, s) /\ UNCHANGED <<block, dir, lock, fresh>>
      /\ access' = [access EXCEPT ![Home[t]] = Append(@, t)]
  BY <1>1 DEF Start
<1>9. access' \in [Mods -> Seq(Threads)]
  <2>1. access \in [Mods -> Seq(Threads)] /\ Home[t] \in Mods
    BY <1>3 DEF Inv, Typed, Caches
  <2> QED BY <2>1, <1>8
<1> QED BY <1>2, <1>6, <1>7, <1>8, <1>9, PlainInv

\* The FINISH events of the accesses keep the invariant.
LEMMA AccessFinishInv ==
  ASSUME Inv, NEW c \in DOMAIN chain, AccessFinish(c)
  PROVE  Inv'
<1>1. PICK f : f = Top(c)
  OBVIOUS
<1>2. chain[c] # <<>> /\ f.pc = "FINISH" /\ f.pc \in AccessPcs
  BY <1>1 DEF AccessFinish, At, AccessPcs
<1>3. Len(c) = 1 /\ f \in AccessFrames
  BY <1>1, <1>2, Enter
<1>4. PICK m : m = f.mod
  OBVIOUS
<1>5. PICK i \in DOMAIN access[m] : access' = [access EXCEPT ![m] = RemoveAt(@, i)]
  BY <1>1, <1>4, Zenon DEF AccessFinish
<1>6. m \in Mods /\ access \in [Mods -> Seq(Threads)] /\ access[m] \in Seq(Threads)
  BY <1>3, <1>4 DEF AccessFrames, Caches, Inv, Typed
<1>7. RemoveAt(access[m], i) \in Seq(Threads)
  <2>1. PICK s : s = access[m]
    OBVIOUS
  <2>2. s \in Seq(Threads) /\ i \in 1 .. Len(s) /\ Len(s) \in Nat
    BY <2>1, <1>5, <1>6
  <2>3. PICK l, r : l = SubSeq(s, 1, i - 1) /\ r = SubSeq(s, i + 1, Len(s))
    OBVIOUS
  <2>4. l \in Seq(Threads) /\ r \in Seq(Threads)
    BY <2>2, <2>3
  <2>5. l \o r \in Seq(Threads)
    BY <2>4, ConcatProperties
  <2> QED BY <2>1, <2>3, <2>5 DEF RemoveAt
<1>8. access' \in [Mods -> Seq(Threads)]
  BY <1>5, <1>6, <1>7
<1>9. chain' = Step(c, <<>>) /\ UNCHANGED <<block, dir, lock, fresh>>
  BY DEF AccessFinish, Resume
<1>10. Shape(c, <<>>) /\ Len(<<>>) = 0
  BY DEF Shape
<1> QED BY <1>1, <1>2, <1>3, <1>8, <1>9, <1>10, PlainInv

\* A processor's access works at the module it is for.
LEMMA AccessWhere ==
  ASSUME NEW f \in AccessFrames
  PROVE  Where(f) = f.mod /\ f.pc \in AccessPcs
<1>1. f.pc \in AccessPcs
  BY DEF AccessFrames
<1>2. \A pc \in AccessPcs : pc \notin EvictPcs \union ReadPcs \union WritePcs \union {"MESSAGE_ACTION"}
  BY DEF AccessPcs, AccessFirst, AccessKeeps, EvictPcs, EvictFirst, ReadPcs, ReadKeeps, WritePcs, WriteKeeps
<1> QED BY <1>1, <1>2 DEF Where

\* h is the frame f of an access that goes on at pc.
Onward(f, h, pc) ==
  /\ h \in AccessFrames /\ h.pc = pc /\ h.way = f.way /\ h.state = f.state /\ h.mod = f.mod /\ h.addr = f.addr
  /\ Similar(f, h) /\ Where(f) = f.mod /\ Where(h) = f.mod
  /\ h.pc \notin EvictPcs /\ h.pc \notin InvalidatePcs

\* The ways in which the frame of an access goes on.
LEMMA AccessTo ==
  ASSUME NEW f \in AccessFrames, NEW pc \in AccessPcs
  PROVE  /\ Onward(f, To(f, pc), pc) /\ To(f, pc).err = f.err
         /\ Onward(f, Anew(f, pc), pc) /\ Onward(f, [f EXCEPT !.pc = pc, !.shared = FALSE], pc)
<1>1. ASSUME NEW h, h = To(f, pc) \/ h = Anew(f, pc) \/ h = [f EXCEPT !.pc = pc, !.shared = FALSE]
      PROVE  Onward(f, h, pc) /\ (h = To(f, pc) => h.err = f.err)
  <2>1. /\ h \in AccessFrames /\ h.pc = pc /\ h.way = f.way /\ h.state = f.state /\ h.mod = f.mod /\ h.addr = f.addr
        /\ h = To(f, pc) => h.err = f.err
    BY <1>1 DEF AccessFrames, To, Anew
  <2>2. f.pc \in AccessPcs
    BY DEF AccessFrames
  <2>3. Similar(f, h)
    BY <2>1, <2>2 DEF Similar, Frames
  <2>4. \A pc1 \in AccessPcs : pc1 \notin EvictPcs /\ pc1 \notin InvalidatePcs
    BY DEF AccessPcs, AccessFirst, AccessKeeps, EvictPcs, EvictFirst, InvalidatePcs
  <2>5. Where(f) = f.mod /\ Where(h) = h.mod
    BY <2>1, AccessWhere
  <2> QED BY <2>1, <2>2, <2>3, <2>4, <2>5 DEF Onward
<1> QED BY <1>1

\* A thread's access at one of its events.
LEMMA AccessActs ==
  ASSUME Inv, NEW c \in DOMAIN chain, chain[c] # <<>>, NEW f, f = Top(c), f.pc \in AccessPcs,
         access' = access, fresh' \subseteq Mods \X Blocks
  PROVE  /\ Acts(c, f) /\ f \in AccessFrames /\ Len(c) = 1 /\ Where(f) = f.mod /\ Low[f.mod] \in Mods /\ f.addr \in Blocks
         /\ f.mod \in Mods /\ f.mod \in Caches
         /\ Holding(f, TRUE) =>
              /\ f.way \in Ways(f.mod) /\ lock[f.mod][f.way].by = c
              /\ block[f.mod][f.way].trans = f.addr /\ MayCarry(block[f.mod][f.way], f.addr)
              /\ Solid(f) => block[f.mod][f.way].state # "I"
              /\ f.pc \in First => f.state = block[f.mod][f.way].state
<1>1. f \in AccessFrames /\ Len(c) = 1 /\ c # <<>>
  BY Enter
<1>2. f.pc \notin {"INVALIDATE_FINISH", "DIR_WAIT"}
  BY DEF AccessPcs, AccessFirst, AccessKeeps
<1>3. Where(f) = f.mod
  BY <1>1, AccessWhere
<1>4. f.mod \in Mods /\ f.mod \in Caches /\ Low[f.mod] \in Mods /\ f.addr \in Blocks
  BY <1>1, TreeAssumption DEF AccessFrames, Caches
<1>5. f.pc \notin FindPcs
  BY DEF AccessPcs, AccessFirst, AccessKeeps, FindPcs, FindKeeps
<1>6. Holding(f, TRUE) =>
        /\ f.way \in Ways(Where(f)) /\ lock[Where(f)][f.way].by = c
        /\ block[Where(f)][f.way].trans = f.addr /\ FactOfHolder(f, block[Where(f)][f.way])
  BY Enter
<1>7. Acts(c, f)
  BY <1>2 DEF Acts
<1> QED BY <1>1, <1>3, <1>4, <1>5, <1>6, <1>7 DEF FactOfHolder

\* What an access that holds its line must know of it.
LEMMA AccessFact ==
  ASSUME NEW h \in AccessFrames, h.pc \in AccessKeeps, NEW b, MayCarry(b, h.addr), Solid(h) => b.state # "I"
  PROVE  FactOfHolder(h, b) /\ Holding(h, TRUE) /\ Holding(h, FALSE)
<1>1. Where(h) \in Caches
  <2>1. Where(h) = h.mod
    BY AccessWhere
  <2> QED BY <2>1 DEF AccessFrames
<1>2. h.pc \notin First \union {"FIND_AND_LOCK_ACTION"} /\ h.pc \in Keeps
  BY DEF AccessKeeps, First, AccessFirst, EvictFirst, Keeps
<1> QED BY <1>1, <1>2 DEF FactOfHolder, Holding

\* Events at which an access holds nothing.
LEMMA AccessLoose ==
  ASSUME NEW h, h.pc \in {"LOCK", "FINISH"}
  PROVE  ~Holding(h, TRUE) /\ h.pc \in AccessPcs
BY DEF Holding, Keeps, First, AccessFirst, AccessKeeps, EvictFirst, FindKeeps, ReadKeeps, WriteKeeps, AccessPcs

\* The LOCK events, which call find-and-lock, keep the invariant.
LEMMA AccessLockInv ==
  ASSUME Inv, NEW c \in DOMAIN chain, AccessLock(c)
  PROVE  Inv'
<1>1. PICK f : f = Top(c)
  OBVIOUS
<1>2. PICK h, gs : h = Anew(f, Locked(f.kind)) /\ gs = <<FindFrame(f.mod, f.addr, f.kind # "prefetch", f.way)>>
  OBVIOUS
<1>3. /\ chain[c] # <<>> /\ f.pc = "LOCK" /\ f.pc \in AccessPcs /\ UNCHANGED <<block, dir, access, fresh>>
      /\ Resume(c, Call(c, h, gs))
  BY <1>1, <1>2 DEF AccessLock, At, AccessPcs
<1>4. fresh' \subseteq Mods \X Blocks /\ access' = access
  BY <1>3 DEF Inv, Typed
<1>5. Acts(c, f) /\ f \in AccessFrames /\ Len(c) = 1 /\ f.mod \in Mods /\ f.addr \in Blocks
  BY <1>1, <1>3, <1>4, AccessActs
<1>6. Locked(f.kind) \in AccessFirst /\ f.way \in Nat /\ (f.kind # "prefetch") \in BOOLEAN
  BY <1>5, TreeAssumption DEF AccessFrames, Locked, AccessFirst
<1>7. Locked(f.kind) \in AccessPcs /\ AccessFirst \subseteq First
  BY <1>6 DEF AccessPcs, First
<1>8. /\ h.pc \in AccessFirst /\ h.mod = f.mod /\ h.addr = f.addr /\ Where(h) = f.mod /\ Similar(f, h)
      /\ h.pc \notin EvictPcs /\ h.pc \notin InvalidatePcs
  <2>1. Onward(f, h, Locked(f.kind))
    BY <1>2, <1>5, <1>7, AccessTo
  <2> QED BY <2>1, <1>6 DEF Onward
<1>9. Callable(gs) /\ Link(h, gs[1])
  BY <1>2, <1>5, <1>6, <1>7, <1>8, CallFind
<1>10. ~Holding(f, TRUE) /\ ~Holding(h, FALSE)
  BY <1>3, <1>8 DEF Holding, Keeps, First, AccessFirst, AccessKeeps, EvictFirst, FindKeeps, ReadKeeps, WriteKeeps
<1> QED BY <1>3, <1>5, <1>8, <1>9, <1>10, CallInv

\* c runs the handler of the access f.
AccessAt(c, f) ==
  /\ Inv /\ c \in DOMAIN chain /\ chain[c] # <<>> /\ f = Top(c) /\ f.pc \in AccessPcs
  /\ access' = access /\ fresh' \subseteq Mods \X Blocks

\* An access that could not lock starts over or ends.
LEMMA AccessLooses ==
  ASSUME NEW c, NEW f, AccessAt(c, f), UNCHANGED <<block, dir>>, NEW pc \in {"LOCK", "FINISH"}, NEW h, Onward(f, h, pc),
         Resume(c, Goto(c, h))
  PROVE  Inv'
<1>1. Acts(c, f) /\ Len(c) = 1
  BY AccessActs DEF AccessAt
<1>2. ~Holding(h, TRUE) /\ Similar(f, h) /\ h.pc \notin EvictPcs /\ h.pc \notin InvalidatePcs
  <2>1. h.pc \in {"LOCK", "FINISH"} /\ Similar(f, h) /\ h.pc \notin EvictPcs /\ h.pc \notin InvalidatePcs
    BY DEF Onward
  <2>2. ~Holding(h, TRUE)
    BY <2>1 DEF Holding, Keeps, First, AccessFirst, AccessKeeps, EvictFirst, FindKeeps, ReadKeeps, WriteKeeps
  <2> QED BY <2>1, <2>2
<1> QED BY <1>1, <1>2, GoInv

\* An access that unlocks its entry starts over or ends.
LEMMA AccessFrees ==
  ASSUME NEW c, NEW f, AccessAt(c, f), Holding(f, TRUE), Changed(f.mod, f.way), NEW pc \in {"LOCK", "FINISH"},
         NEW h, Onward(f, h, pc), Release(c, Goto(c, h), f.mod, f.way)
  PROVE  Inv'
<1>1. Acts(c, f) /\ Where(f) = f.mod
  BY AccessActs DEF AccessAt
<1>2. ~Holding(h, TRUE) /\ Similar(f, h) /\ h.pc \notin EvictPcs /\ h.pc \notin InvalidatePcs
  <2>1. h.pc \in {"LOCK", "FINISH"} /\ Similar(f, h) /\ h.pc \notin EvictPcs /\ h.pc \notin InvalidatePcs
    BY DEF Onward
  <2>2. ~Holding(h, TRUE)
    BY <2>1 DEF Holding, Keeps, First, AccessFirst, AccessKeeps, EvictFirst, FindKeeps, ReadKeeps, WriteKeeps
  <2> QED BY <2>1, <2>2
<1>3. Sees(h)
  BY <1>2 DEF Sees
<1> QED BY <1>1, <1>2, <1>3, FreeInv

\* An access that goes on with its entry locked.
LEMMA AccessKept ==
  ASSUME NEW c, NEW f, AccessAt(c, f), Holding(f, TRUE), Changed(f.mod, f.way), NEW pc \in AccessKeeps,
         NEW h, Onward(f, h, pc), Resume(c, Goto(c, h)),
         MayCarry(block'[f.mod][f.way], f.addr), Solid(h) => block'[f.mod][f.way].state # "I"
  PROVE  Inv'
<1>1. Acts(c, f) /\ Where(f) = f.mod
  BY AccessActs DEF AccessAt
<1>2. /\ h \in AccessFrames /\ h.pc \in AccessKeeps /\ h.addr = f.addr /\ h.way = f.way /\ Similar(f, h)
      /\ h.pc \notin EvictPcs /\ h.pc \notin InvalidatePcs
  BY DEF Onward
<1>3. PICK b : b = block'[f.mod][f.way]
  OBVIOUS
<1>4. FactOfHolder(h, b) /\ Holding(h, TRUE)
  BY <1>2, <1>3, AccessFact
<1> QED BY <1>1, <1>2, <1>3, <1>4, KeepInv

\* An access that calls another handler with its entry locked.
LEMMA AccessCalls ==
  ASSUME NEW c, NEW f, AccessAt(c, f), UNCHANGED <<block, dir>>, Holding(f, TRUE), NEW pc \in AccessKeeps,
         NEW h, Onward(f, h, pc), Solid(h) => block[f.mod][f.way].state # "I",
         NEW gs, Callable(gs), Link(h, gs[1]), Resume(c, Call(c, h, gs))
  PROVE  Inv'
<1>1. Acts(c, f) /\ Where(f) = f.mod /\ MayCarry(block[f.mod][f.way], f.addr)
  BY AccessActs DEF AccessAt
<1>2. /\ h \in AccessFrames /\ h.pc \in AccessKeeps /\ h.addr = f.addr /\ h.way = f.way /\ Similar(f, h)
      /\ h.pc \notin EvictPcs /\ h.pc \notin InvalidatePcs
  BY DEF Onward
<1>3. FactOfHolder(h, block[f.mod][f.way]) /\ Holding(h, FALSE)
  BY <1>1, <1>2, AccessFact
<1> QED BY <1>1, <1>2, <1>3, CallInv

\* An access that sends a request below.
LEMMA AccessAsks ==
  ASSUME NEW c, NEW f, AccessAt(c, f), UNCHANGED <<block, dir>>, Holding(f, TRUE),
         NEW pc \in {"LOAD_MISS", "STORE_UNLOCK", "PREFETCH_MISS", "NC_STORE_MISS"},
         NEW h, Onward(f, h, pc), Solid(h) => block[f.mod][f.way].state # "I",
         NEW q \in {"READ_REQUEST_ACTION", "WRITE_REQUEST_ACTION"},
         Resume(c, Call(c, h, Request(q, f.mod, Low[f.mod], f.addr, TRUE, None)))
  PROVE  Inv'
<1>1. f.mod \in Mods /\ Low[f.mod] \in Mods /\ f.addr \in Blocks
  BY AccessActs DEF AccessAt
<1>2. PICK gs : gs = Request(q, f.mod, Low[f.mod], f.addr, TRUE, None)
  OBVIOUS
<1>3. h.pc \in Upward /\ f.mod = Where(h) /\ f.addr = h.addr
  BY DEF Onward, Upward
<1>4. Callable(gs) /\ Link(h, gs[1])
  BY <1>1, <1>2, <1>3, CallUpPlain
<1>5. pc \in AccessKeeps
  BY DEF AccessKeeps
<1> QED BY <1>2, <1>4, <1>5, AccessCalls

\* LOAD_ACTION and PREFETCH_ACTION
LEMMA ActionInv ==
  ASSUME NEW c, NEW f, AccessAt(c, f), UNCHANGED <<block, dir>>,
         NEW miss, \/ f.pc = "LOAD_ACTION" /\ miss = "LOAD_MISS"
                   \/ f.pc = "PREFETCH_ACTION" /\ miss = "PREFETCH_MISS",
         NEW h, NEW pc \in {"LOCK", "FINISH"}, Onward(f, h, pc),
         Resume(c, IF f.err THEN Goto(c, h)
                   ELSE IF f.state # "I" THEN Goto(c, To(f, "LOAD_UNLOCK"))
                   ELSE Call(c, [f EXCEPT !.pc = miss, !.shared = FALSE],
                             Request("READ_REQUEST_ACTION", f.mod, Low[f.mod], f.addr, TRUE, None)))
  PROVE  Inv'
<1>1. Inv /\ c \in DOMAIN chain /\ chain[c] # <<>> /\ f = Top(c)
  BY DEF AccessAt
<1>2. /\ f \in AccessFrames /\ f.pc \in First /\ f.pc \notin Nc
      /\ Holding(f, TRUE) =>
           /\ f.mod \in Mods /\ f.way \in Ways(f.mod) /\ MayCarry(block[f.mod][f.way], f.addr)
           /\ Solid(f) => block[f.mod][f.way].state # "I"
  BY AccessActs DEF AccessAt, First, AccessFirst, Nc
<1>3. ~f.err => Holding(f, TRUE)
  BY <1>2 DEF Holding
<1>4. CASE f.err
  BY <1>4, AccessLooses
<1>5. CASE ~f.err /\ f.state # "I"
  <2>1. PICK g : g = To(f, "LOAD_UNLOCK")
    OBVIOUS
  <2>2. "LOAD_UNLOCK" \in AccessKeeps /\ "LOAD_UNLOCK" \in AccessPcs
    BY DEF AccessKeeps, AccessPcs
  <2>3. Onward(f, g, "LOAD_UNLOCK")
    BY <1>2, <2>1, <2>2, AccessTo
  <2>4. Solid(f)
    BY <1>2, <1>5 DEF Solid
  <2>5. Changed(f.mod, f.way)
    BY <1>1, <1>2, <1>3, <1>5, NothingChanged
  <2> QED BY <1>2, <1>3, <1>5, <2>1, <2>2, <2>3, <2>4, <2>5, AccessKept
<1>6. CASE ~f.err /\ f.state = "I"
  <2>1. PICK g : g = [f EXCEPT !.pc = miss, !.shared = FALSE]
    OBVIOUS
  <2>2. miss \in AccessKeeps /\ miss \in AccessPcs /\ miss \notin Nc /\ miss \in {"LOAD_MISS", "PREFETCH_MISS"}
    BY DEF AccessKeeps, AccessPcs, Nc
  <2>3. Onward(f, g, miss)
    BY <1>2, <2>1, <2>2, AccessTo
  <2>4. ~Solid(g)
    BY <1>6, <2>2, <2>3 DEF Solid, Onward
  <2>5. Resume(c, Call(c, g, Request("READ_REQUEST_ACTION", f.mod, Low[f.mod], f.addr, TRUE, None)))
    BY <1>6, <2>1
  <2> QED BY <1>3, <1>6, <2>2, <2>3, <2>4, <2>5, AccessAsks
<1> QED BY <1>4, <1>5, <1>6

\* EV_MOD_NMOESI_LOAD_ACTION and PREFETCH_ACTION keep the invariant.
LEMMA LoadActionInv ==
  ASSUME Inv, NEW c \in DOMAIN chain, LoadAction(c) \/ PrefetchAction(c)
  PROVE  Inv'
<1>1. PICK f : f = Top(c)
  OBVIOUS
<1>2. /\ chain[c] # <<>> /\ UNCHANGED <<block, dir, access, fresh>>
      /\ f.pc \in {"LOAD_ACTION", "PREFETCH_ACTION"} /\ f.pc \in AccessPcs
  BY <1>1 DEF LoadAction, PrefetchAction, At, AccessPcs, AccessFirst
<1>3. AccessAt(c, f)
  BY <1>1, <1>2 DEF AccessAt, Inv, Typed
<1>4. f \in AccessFrames
  BY <1>3, AccessActs DEF AccessAt
<1>5. Onward(f, Anew(f, "LOCK"), "LOCK") /\ Onward(f, To(f, "FINISH"), "FINISH")
  BY <1>4, AccessTo DEF AccessPcs
<1>6. CASE LoadAction(c)
  <2>1. PICK h : h = Anew(f, "LOCK")
    OBVIOUS
  <2>2. /\ f.pc = "LOAD_ACTION"
        /\ Resume(c, IF f.err THEN Goto(c, h)
                     ELSE IF f.state # "I" THEN Goto(c, To(f, "LOAD_UNLOCK"))
                     ELSE Call(c, [f EXCEPT !.pc = "LOAD_MISS", !.shared = FALSE],
                               Request("READ_REQUEST_ACTION", f.mod, Low[f.mod], f.addr, TRUE, None)))
    BY <1>1, <1>6, <2>1 DEF LoadAction, At, Retry
  <2> QED BY <1>2, <1>3, <1>5, <2>1, <2>2, ActionInv
<1>7. CASE PrefetchAction(c)
  <2>1. PICK h : h = To(f, "FINISH")
    OBVIOUS
  <2>2. /\ f.pc = "PREFETCH_ACTION"
        /\ Resume(c, IF f.err THEN Goto(c, h)
                     ELSE IF f.state # "I" THEN Goto(c, To(f, "LOAD_UNLOCK"))
                     ELSE Call(c, [f EXCEPT !.pc = "PREFETCH_MISS", !.shared = FALSE],
                               Request("READ_REQUEST_ACTION", f.mod, Low[f.mod], f.addr, TRUE, None)))
    BY <1>1, <1>7, <2>1 DEF PrefetchAction, At
  <2> QED BY <1>2, <1>3, <1>5, <2>1, <2>2, ActionInv
<1> QED BY <1>6, <1>7

-----------------------------------------------------------------------------
(* What handlers write.                                                      *)

\* The copies that hold the last value stay pairs of a module and a block.
LEMMA FreshIs ==
  ASSUME fresh \subseteq Mods \X Blocks, NEW m \in Mods, NEW a \in Blocks, NEW d
  PROVE  Filled(m, a, d) \subseteq Mods \X Blocks /\ Dropped(m, a) \subseteq Mods \X Blocks
BY DEF Filled, Dropped

\* A line that is locked for a receives it.
LEMMA Written ==
  ASSUME Inv, NEW m \in Mods, NEW w \in Ways(m), NEW a \in Blocks, block[m][w].trans = a, lock[m][w].by # <<>>,
         NEW s \in States, s # "I", m \in Caches \/ s \in {"E", "M"}, block' = SetBlock(m, w, a, s),
         NEW e \in DirRecs, dir' = dir \/ dir' = SetDir(m, w, e),
         e.sharers \subseteq {n \in Mods : Low[n] = m}, e.owner # None => Low[e.owner] = m
  PROVE  Changed(m, w) /\ block'[m][w].tag = a /\ block'[m][w].state = s
<1>1. Memory
  BY DEF Inv, Typed
<1>2. block'[m][w].tag = a /\ block'[m][w].state = s
  BY <1>1, SetBlockIs
<1>3. \/ dir'[m][w] = dir[m][w]
      \/ dir'[m][w] = e
  BY <1>1, SetDirIs
<1>4. dir[m][w].sharers \subseteq {n \in Mods : Low[n] = m} /\ (dir[m][w].owner # None => Low[dir[m][w].owner] = m)
  BY DEF Inv, Lines
<1>5. LineOk(m, block'[m][w], dir'[m][w])
  BY <1>2, <1>3, <1>4 DEF LineOk
<1>6. Changed(m, w)
  BY <1>5, ChangedIs
<1> QED BY <1>2, <1>6

\* The directory entry of a line changes.
LEMMA Listed ==
  ASSUME Inv, NEW m \in Mods, NEW w \in Ways(m), block' = block, NEW e \in DirRecs, dir' = SetDir(m, w, e),
         e.sharers # {} => block[m][w].state # "I",
         e.sharers \subseteq {n \in Mods : Low[n] = m}, e.owner # None => Low[e.owner] = m
  PROVE  Changed(m, w)
<1>1. Memory
  BY DEF Inv, Typed
<1>2. dir'[m][w] = e
  BY <1>1, SetDirIs
<1>3. LineOk(m, block'[m][w], dir'[m][w])
  BY <1>2 DEF LineOk, Inv, Lines
<1>4. "I" \in States /\ None \in Blocks \union {None}
  BY DEF States
<1> QED BY <1>3, <1>4, ChangedIs

\* A line that nobody above has is invalidated.
LEMMA Emptied ==
  ASSUME Inv, NEW m \in Mods, NEW w \in Ways(m), block' = SetBlock(m, w, None, "I"), dir' = dir,
         dir[m][w].sharers = {}
  PROVE  Changed(m, w) /\ block'[m][w].state = "I"
<1>1. Memory
  BY DEF Inv, Typed
<1>2. "I" \in States /\ None \in Blocks \union {None}
  BY DEF States
<1>3. block'[m][w].state = "I"
  BY <1>1, <1>2, SetBlockIs
<1>4. LineOk(m, block'[m][w], dir'[m][w])
  BY <1>3 DEF LineOk, Inv, Lines
<1>5. dir[m][w] \in DirRecs
  BY <1>1, DirIs
<1>6. Changed(m, w)
  BY <1>2, <1>4, <1>5, ChangedIs
<1> QED BY <1>3, <1>6

\* An access writes its line.
LEMMA AccessWritten ==
  ASSUME NEW c, NEW f, AccessAt(c, f), Holding(f, TRUE), NEW s \in States, s # "I",
         block' = SetBlock(f.mod, f.way, f.addr, s), dir' = dir
  PROVE  Changed(f.mod, f.way) /\ MayCarry(block'[f.mod][f.way], f.addr) /\ block'[f.mod][f.way].state # "I"
<1>1. PICK m, w, a : m = f.mod /\ w = f.way /\ a = f.addr
  OBVIOUS
<1>2. /\ Inv /\ m \in Mods /\ m \in Caches /\ w \in Ways(m) /\ a \in Blocks
      /\ block[m][w].trans = a /\ lock[m][w].by = c
  BY <1>1, AccessActs DEF AccessAt
<1>3. c # <<>>
  BY Enter DEF AccessAt
<1>4. dir[m][w] \in DirRecs
  BY <1>2, DirIs DEF Inv, Typed
<1>5. dir[m][w].sharers \subseteq {n \in Mods : Low[n] = m} /\ (dir[m][w].owner # None => Low[dir[m][w].owner] = m)
  BY <1>2 DEF Inv, Lines
<1>6. Changed(m, w) /\ block'[m][w].tag = a /\ block'[m][w].state = s
  <2>1. block' = SetBlock(m, w, a, s)
    BY <1>1
  <2>2. lock[m][w].by # <<>>
    BY <1>2, <1>3
  <2> QED BY <2>1, <2>2, <1>2, <1>4, <1>5, Written
<1> QED BY <1>1, <1>6 DEF MayCarry
-----------------------------------------------------------------------------
(* The other handlers of accesses.                                           *)

\* EV_MOD_NMOESI_LOAD_MISS and PREFETCH_MISS keep the invariant.
LEMMA LoadMissInv ==
  ASSUME Inv, NEW c \in DOMAIN chain, LoadMiss(c) \/ PrefetchMiss(c)
  PROVE  Inv'
<1>1. PICK f : f = Top(c)
  OBVIOUS
<1>2. /\ chain[c] # <<>> /\ UNCHANGED <<dir, access>>
      /\ f.pc \in {"LOAD_MISS", "PREFETCH_MISS"}
  BY <1>1 DEF LoadMiss, PrefetchMiss, At
<1>3. f.pc \in AccessPcs /\ Holding(f, TRUE)
  BY <1>2 DEF AccessPcs, AccessKeeps, Keeps, Holding
<1>4. f \in AccessFrames /\ f.mod \in Mods /\ f.addr \in Blocks /\ f.way \in Ways(f.mod)
  <2>1. f \in Frames
    BY <1>1, <1>2, Enter
  <2>2. f \in AccessFrames
    BY <2>1, <1>3, ByPc
  <2>3. Where(f) = f.mod
    BY <2>2, AccessWhere
  <2>4. f.way \in Ways(Where(f))
    BY <1>1, <1>2, <1>3, Enter
  <2> QED BY <2>2, <2>3, <2>4 DEF AccessFrames, Caches
<1>5. fresh \subseteq Mods \X Blocks
  BY DEF Inv, Typed
<1>6. CASE f.err
  <2>1. UNCHANGED <<block, fresh>>
    BY <1>1, <1>6 DEF LoadMiss, PrefetchMiss
  <2>2. AccessAt(c, f)
    BY <1>1, <1>2, <1>3, <1>5, <2>1 DEF AccessAt
  <2>3. Changed(f.mod, f.way)
    BY <1>2, <1>4, <2>1, NothingChanged
  <2>4. Onward(f, Anew(f, "LOCK"), "LOCK") /\ Onward(f, To(f, "FINISH"), "FINISH")
    BY <1>4, AccessTo DEF AccessPcs
  <2>5. \/ Release(c, Goto(c, Anew(f, "LOCK")), f.mod, f.way)
        \/ Release(c, Goto(c, To(f, "FINISH")), f.mod, f.way)
    BY <1>1, <1>6 DEF LoadMiss, PrefetchMiss, Retry
  <2>6. CASE Release(c, Goto(c, Anew(f, "LOCK")), f.mod, f.way)
    BY <1>3, <2>2, <2>3, <2>4, <2>6, AccessFrees
  <2>7. CASE Release(c, Goto(c, To(f, "FINISH")), f.mod, f.way)
    BY <1>3, <2>2, <2>3, <2>4, <2>7, AccessFrees
  <2> QED BY <2>5, <2>6, <2>7
<1>7. CASE ~f.err
  <2>1. PICK s : s = IF f.shared THEN "S" ELSE "E"
    OBVIOUS
  <2>2. /\ block' = SetBlock(f.mod, f.way, f.addr, s) /\ fresh' = Filled(f.mod, f.addr, f.data)
        /\ Resume(c, Goto(c, To(f, "LOAD_UNLOCK")))
    BY <1>1, <1>7, <2>1 DEF LoadMiss, PrefetchMiss
  <2>3. AccessAt(c, f)
    BY <1>1, <1>2, <1>3, <1>4, <1>5, <2>2, FreshIs DEF AccessAt
  <2>4. s \in States /\ s # "I"
    BY <2>1 DEF States
  <2>5. Changed(f.mod, f.way) /\ MayCarry(block'[f.mod][f.way], f.addr) /\ block'[f.mod][f.way].state # "I"
    BY <1>2, <1>3, <2>2, <2>3, <2>4, AccessWritten
  <2>6. "LOAD_UNLOCK" \in AccessKeeps /\ "LOAD_UNLOCK" \in AccessPcs
    BY DEF AccessKeeps, AccessPcs
  <2>7. Onward(f, To(f, "LOAD_UNLOCK"), "LOAD_UNLOCK")
    BY <1>4, <2>6, AccessTo
  <2> QED BY <1>3, <2>2, <2>3, <2>5, <2>6, <2>7, AccessKept
<1> QED BY <1>6, <1>7

\* An access that ends: its line may be written.
LEMMA AccessEnds ==
  ASSUME NEW c, NEW f, AccessAt(c, f), f.pc \in AccessKeeps, dir' = dir, NEW s \in States, s # "I",
         block' = block \/ block' = SetBlock(f.mod, f.way, f.addr, s),
         Release(c, Goto(c, To(f, "FINISH")), f.mod, f.way) \/ Release(c, Goto(c, Retry(f)), f.mod, f.way)
  PROVE  Inv'
<1>1. Holding(f, TRUE)
  BY DEF Keeps, Holding
<1>2. Inv /\ f \in AccessFrames /\ f.mod \in Mods /\ f.way \in Ways(f.mod)
  BY <1>1, AccessActs DEF AccessAt
<1>3. Onward(f, Anew(f, "LOCK"), "LOCK") /\ Onward(f, To(f, "FINISH"), "FINISH")
  BY <1>2, AccessTo DEF AccessPcs
<1>4. Changed(f.mod, f.way)
  <2>1. CASE block' = block
    BY <2>1, <1>2, NothingChanged
  <2>2. CASE block' = SetBlock(f.mod, f.way, f.addr, s)
    BY <2>2, <1>1, AccessWritten
  <2> QED BY <2>1, <2>2
<1>5. CASE Release(c, Goto(c, To(f, "FINISH")), f.mod, f.way)
  BY <1>1, <1>3, <1>4, <1>5, AccessFrees
<1>6. CASE Release(c, Goto(c, Retry(f)), f.mod, f.way)
  <2>1. Release(c, Goto(c, Anew(f, "LOCK")), f.mod, f.way)
    BY <1>6 DEF Retry
  <2> QED BY <2>1, <1>1, <1>3, <1>4, AccessFrees
<1> QED BY <1>5, <1>6

\* LOAD_UNLOCK, STORE_UNLOCK and NC_STORE_UNLOCK keep the invariant.
LEMMA UnlockInv ==
  ASSUME Inv, NEW c \in DOMAIN chain, LoadUnlock(c) \/ StoreUnlock(c) \/ NcStoreUnlock(c)
  PROVE  Inv'
<1>1. PICK f : f = Top(c)
  OBVIOUS
<1>2. /\ chain[c] # <<>> /\ UNCHANGED <<dir, access>>
      /\ f.pc \in {"LOAD_UNLOCK", "STORE_UNLOCK", "NC_STORE_UNLOCK"}
  BY <1>1 DEF LoadUnlock, StoreUnlock, NcStoreUnlock, At
<1>3. f.pc \in AccessPcs /\ f.pc \in AccessKeeps
  BY <1>2 DEF AccessPcs, AccessKeeps
<1>4. f \in AccessFrames /\ f.mod \in Mods /\ f.addr \in Blocks
  <2>1. f \in Frames
    BY <1>1, <1>2, Enter
  <2> QED BY <2>1, <1>3, ByPc DEF AccessFrames, Caches
<1>5. fresh \subseteq Mods \X Blocks
  BY DEF Inv, Typed
<1>6. fresh' \subseteq Mods \X Blocks
  <2>1. CASE LoadUnlock(c)
    BY <2>1, <1>5 DEF LoadUnlock
  <2>2. CASE StoreUnlock(c)
    BY <2>2, <1>1, <1>4, <1>5 DEF StoreUnlock
  <2>3. CASE NcStoreUnlock(c)
    <3>1. fresh' = fresh \/ fresh' = Filled(f.mod, f.addr, f.data)
      BY <2>3, <1>1 DEF NcStoreUnlock
    <3> QED BY <3>1, <1>4, <1>5, FreshIs
  <2> QED BY <2>1, <2>2, <2>3
<1>7. AccessAt(c, f)
  BY <1>1, <1>2, <1>3, <1>6 DEF AccessAt
<1>8. "M" \in States /\ "N" \in States
  BY DEF States
<1>9. \/ block' = block
      \/ block' = SetBlock(f.mod, f.way, f.addr, "M")
      \/ block' = SetBlock(f.mod, f.way, f.addr, "N")
  BY <1>1 DEF LoadUnlock, StoreUnlock, NcStoreUnlock
<1>10. Release(c, Goto(c, To(f, "FINISH")), f.mod, f.way) \/ Release(c, Goto(c, Retry(f)), f.mod, f.way)
  BY <1>1 DEF LoadUnlock, StoreUnlock, NcStoreUnlock
<1>11. CASE block' = block \/ block' = SetBlock(f.mod, f.way, f.addr, "M")
  BY <1>2, <1>3, <1>7, <1>8, <1>10, <1>11, AccessEnds
<1>12. CASE block' = SetBlock(f.mod, f.way, f.addr, "N")
  BY <1>2, <1>3, <1>7, <1>8, <1>10, <1>12, AccessEnds
<1> QED BY <1>9, <1>11, <1>12

\* An access goes on without a change of its line.
LEMMA AccessGoes ==
  ASSUME NEW c, NEW f, AccessAt(c, f), UNCHANGED <<block, dir>>, Holding(f, TRUE), NEW pc \in AccessKeeps,
         NEW h, Onward(f, h, pc), Resume(c, Goto(c, h)), Solid(h) => block[f.mod][f.way].state # "I"
  PROVE  Inv'
<1>1. Inv /\ f.mod \in Mods /\ f.way \in Ways(f.mod) /\ MayCarry(block[f.mod][f.way], f.addr)
  BY AccessActs DEF AccessAt
<1>2. Changed(f.mod, f.way)
  BY <1>1, NothingChanged
<1> QED BY <1>1, <1>2, AccessKept

\* EV_MOD_NMOESI_STORE_ACTION keeps the invariant.
LEMMA StoreActionInv ==
  ASSUME Inv, NEW c \in DOMAIN chain, StoreAction(c)
  PROVE  Inv'
<1>1. PICK f : f = Top(c)
  OBVIOUS
<1>2. chain[c] # <<>> /\ UNCHANGED <<block, dir, access, fresh>> /\ f.pc = "STORE_ACTION"
  BY <1>1 DEF StoreAction, At
<1>3. f.pc \in AccessPcs /\ f.pc \in First /\ f.pc \notin Nc
  BY <1>2 DEF AccessPcs, AccessFirst, First, Nc
<1>4. AccessAt(c, f)
  BY <1>1, <1>2, <1>3 DEF AccessAt, Inv, Typed
<1>5. /\ f \in AccessFrames
      /\ Holding(f, TRUE) => (Solid(f) => block[f.mod][f.way].state # "I")
  BY <1>4, AccessActs DEF AccessAt
<1>6. ~f.err => Holding(f, TRUE)
  BY <1>3 DEF Holding
<1>7. PICK g, h : g = Retry(f) /\ h = To(f, "STORE_UNLOCK")
  OBVIOUS
<1>8. "STORE_UNLOCK" \in AccessKeeps /\ "STORE_UNLOCK" \in AccessPcs /\ "LOCK" \in AccessPcs
  BY DEF AccessKeeps, AccessPcs
<1>9. Onward(f, g, "LOCK") /\ Onward(f, h, "STORE_UNLOCK")
  BY <1>5, <1>7, <1>8, AccessTo DEF Retry
<1>10. Solid(h) => Solid(f)
  <2>1. h.pc = "STORE_UNLOCK" /\ h.state = f.state
    BY <1>9 DEF Onward
  <2> QED BY <2>1, <1>3 DEF Solid, Nc
<1>11. CASE f.err
  <2>1. Resume(c, Goto(c, g))
    BY <1>1, <1>7, <1>11 DEF StoreAction
  <2> QED BY <2>1, <1>2, <1>4, <1>9, AccessLooses
<1>12. CASE ~f.err /\ f.state \in {"M", "E"}
  <2>1. Resume(c, Goto(c, h))
    BY <1>1, <1>7, <1>12 DEF StoreAction
  <2> QED BY <2>1, <1>2, <1>4, <1>5, <1>6, <1>8, <1>9, <1>10, <1>12, AccessGoes
<1>13. CASE ~f.err /\ f.state \notin {"M", "E"}
  <2>1. Resume(c, Call(c, h, Request("WRITE_REQUEST_ACTION", f.mod, Low[f.mod], f.addr, TRUE, None)))
    BY <1>1, <1>7, <1>13 DEF StoreAction
  <2> QED BY <2>1, <1>2, <1>4, <1>5, <1>6, <1>9, <1>10, <1>13, AccessAsks
<1> QED BY <1>11, <1>12, <1>13

\* EV_MOD_NMOESI_NC_STORE_WRITEBACK keeps the invariant.
LEMMA NcStoreWritebackInv ==
  ASSUME Inv, NEW c \in DOMAIN chain, NcStoreWriteback(c)
  PROVE  Inv'
<1>1. PICK f : f = Top(c)
  OBVIOUS
<1>2. chain[c] # <<>> /\ UNCHANGED <<block, dir, access, fresh>> /\ f.pc = "NC_STORE_WRITEBACK"
  BY <1>1 DEF NcStoreWriteback, At
<1>3. f.pc \in AccessPcs /\ f.pc \in First /\ f.pc \notin Nc
  BY <1>2 DEF AccessPcs, AccessFirst, First, Nc
<1>4. AccessAt(c, f)
  BY <1>1, <1>2, <1>3 DEF AccessAt, Inv, Typed
<1>5. /\ f \in AccessFrames /\ f.mod \in Mods /\ f.addr \in Blocks /\ f.way \in Nat
      /\ Holding(f, TRUE) => f.state = block[f.mod][f.way].state /\ MayCarry(block[f.mod][f.way], f.addr)
  <2>1. /\ f \in AccessFrames /\ f.mod \in Mods /\ f.addr \in Blocks
        /\ Holding(f, TRUE) => f.state = block[f.mod][f.way].state /\ MayCarry(block[f.mod][f.way], f.addr)
    BY <1>3, <1>4, AccessActs DEF AccessAt
  <2> QED BY <2>1 DEF AccessFrames
<1>6. ~f.err => Holding(f, TRUE)
  BY <1>3 DEF Holding
<1>7. PICK g, h, h2 : g = Retry(f) /\ h = To(f, "NC_STORE_ACTION") /\ h2 = Anew(f, "NC_STORE_ACTION")
  OBVIOUS
<1>8. "NC_STORE_ACTION" \in AccessKeeps /\ "NC_STORE_ACTION" \in AccessPcs /\ "LOCK" \in AccessPcs
  BY DEF AccessKeeps, AccessPcs
<1>9. Onward(f, g, "LOCK") /\ Onward(f, h, "NC_STORE_ACTION") /\ Onward(f, h2, "NC_STORE_ACTION")
  BY <1>5, <1>7, <1>8, AccessTo DEF Retry
<1>10. (Solid(h) => f.state \in {"E", "S", "N"}) /\ (Solid(h2) => f.state \in {"E", "S", "N"})
  BY <1>9 DEF Onward, Solid, Nc
<1>11. CASE f.err
  <2>1. Resume(c, Goto(c, g))
    BY <1>1, <1>7, <1>11 DEF NcStoreWriteback
  <2> QED BY <2>1, <1>2, <1>4, <1>9, AccessLooses
<1>12. CASE ~f.err /\ f.state \notin {"M", "O"}
  <2>1. Resume(c, Goto(c, h))
    BY <1>1, <1>7, <1>12 DEF NcStoreWriteback
  <2>2. Solid(h) => block[f.mod][f.way].state # "I"
    BY <1>5, <1>6, <1>10, <1>12
  <2> QED BY <2>1, <2>2, <1>2, <1>4, <1>6, <1>8, <1>9, <1>12, AccessGoes
<1>13. CASE ~f.err /\ f.state \in {"M", "O"}
  <2>1. PICK gs : gs = <<EvictFrame(f.mod, f.way, f.addr), InvalidateFrame(f.mod, f.way, f.addr, None)>>
    OBVIOUS
  <2>2. Resume(c, Call(c, h2, gs))
    BY <1>1, <1>7, <1>13, <2>1 DEF NcStoreWriteback
  <2>3. h2.pc = "NC_STORE_ACTION" /\ h2.mod = f.mod /\ h2.way = f.way /\ h2.state \in {"M", "O"}
    BY <1>9, <1>13 DEF Onward
  <2>4. Callable(gs) /\ Link(h2, gs[1])
    <3>1. MayCarry(block[f.mod][f.way], f.addr)
      BY <1>5, <1>6, <1>13
    <3> QED BY <2>1, <2>3, <1>5, <3>1, CallEvict
  <2>5. ~Solid(h2)
    BY <1>10, <1>13
  <2> QED BY <2>2, <2>4, <2>5, <1>2, <1>4, <1>6, <1>8, <1>9, <1>13, AccessCalls
<1> QED BY <1>11, <1>12, <1>13

\* EV_MOD_NMOESI_NC_STORE_ACTION keeps the invariant.
LEMMA NcStoreActionInv ==
  ASSUME Inv, NEW c \in DOMAIN chain, NcStoreAction(c)
  PROVE  Inv'
<1>1. PICK f, low : f = Top(c) /\ low = Low[f.mod]
  OBVIOUS
<1>2. chain[c] # <<>> /\ UNCHANGED <<block, dir, access, fresh>> /\ f.pc = "NC_STORE_ACTION"
  BY <1>1 DEF NcStoreAction, At
<1>3. f.pc \in AccessPcs /\ f.pc \in AccessKeeps /\ f.pc \in Nc
  BY <1>2 DEF AccessPcs, AccessKeeps, Nc
<1>4. AccessAt(c, f) /\ Holding(f, TRUE)
  BY <1>1, <1>2, <1>3 DEF AccessAt, Inv, Typed, Holding, Keeps
<1>5. /\ f \in AccessFrames /\ f.mod \in Mods /\ f.addr \in Blocks /\ low \in Mods
      /\ Solid(f) => block[f.mod][f.way].state # "I"
  BY <1>1, <1>4, AccessActs DEF AccessAt
<1>6. PICK g, h, miss : g = Retry(f) /\ h = To(f, "NC_STORE_UNLOCK") /\ miss = Anew(f, "NC_STORE_MISS")
  OBVIOUS
<1>7. /\ "NC_STORE_UNLOCK" \in AccessKeeps /\ "NC_STORE_UNLOCK" \in AccessPcs /\ "LOCK" \in AccessPcs
      /\ "NC_STORE_MISS" \in AccessKeeps /\ "NC_STORE_MISS" \in AccessPcs
  BY DEF AccessKeeps, AccessPcs
<1>8. Onward(f, g, "LOCK") /\ Onward(f, h, "NC_STORE_UNLOCK") /\ Onward(f, miss, "NC_STORE_MISS")
  BY <1>5, <1>6, <1>7, AccessTo DEF Retry
<1>9. (Solid(h) => Solid(f)) /\ (Solid(miss) => Solid(f))
  <2>1. h.pc \in Nc /\ h.state = f.state /\ miss.pc \in Nc /\ miss.state = f.state
    BY <1>8 DEF Onward, Nc
  <2> QED BY <2>1, <1>3 DEF Solid
<1>10. miss.pc = "NC_STORE_MISS" /\ miss.mod = f.mod /\ miss.addr = f.addr /\ Where(miss) = f.mod
  BY <1>8 DEF Onward
<1>11. CASE f.err
  <2>1. Resume(c, Goto(c, g))
    BY <1>1, <1>6, <1>11 DEF NcStoreAction
  <2> QED BY <2>1, <1>2, <1>4, <1>8, AccessLooses
<1>12. CASE ~f.err /\ f.state \in {"S", "N"}
  <2>1. Resume(c, Goto(c, h))
    BY <1>1, <1>6, <1>12 DEF NcStoreAction
  <2> QED BY <2>1, <1>2, <1>4, <1>5, <1>7, <1>8, <1>9, AccessGoes
<1>13. CASE ~f.err /\ f.state = "E"
  <2>1. PICK gs : gs = <<MessageFrame(f.mod, low, f.addr), FindFrame(low, f.addr, FALSE, NoWay)>>
    OBVIOUS
  <2>2. Resume(c, Call(c, miss, gs))
    BY <1>1, <1>6, <1>13, <2>1 DEF NcStoreAction
  <2>3. Callable(gs) /\ Link(miss, gs[1])
    BY <2>1, <1>1, <1>5, <1>10, CallMessage
  <2> QED BY <2>2, <2>3, <1>2, <1>4, <1>5, <1>7, <1>8, <1>9, AccessCalls
<1>14. CASE ~f.err /\ f.state \notin {"S", "N", "E"}
  <2>1. PICK peer : peer = SetPeer(f.mod, f.state)
    OBVIOUS
  <2>2. peer \in Mods \union {None}
    BY <2>1, <1>5 DEF SetPeer
  <2>3. PICK r : r = Request("READ_REQUEST_ACTION", f.mod, low, f.addr, TRUE, peer)
    OBVIOUS
  <2>4. /\ r[1] = RequestFrame("READ_REQUEST_ACTION", f.mod, low, f.addr, TRUE, peer)
        /\ r[2] = FindFrame(low, f.addr, FALSE, NoWay)
    BY <2>3 DEF Request
  <2>5. PICK gs : gs = <<[RequestFrame("READ_REQUEST_ACTION", f.mod, low, f.addr, TRUE, peer) EXCEPT !.nc = TRUE],
                         FindFrame(low, f.addr, FALSE, NoWay)>>
    OBVIOUS
  <2>6. Resume(c, Call(c, miss, <<[r[1] EXCEPT !.nc = TRUE], r[2]>>))
    BY <1>1, <1>6, <1>14, <2>1, <2>3 DEF NcStoreAction
  <2>7. Resume(c, Call(c, miss, gs))
    BY <2>4, <2>5, <2>6
  <2>8. miss.pc \in Upward
    BY <1>10 DEF Upward
  <2>9. Callable(gs) /\ Link(miss, gs[1])
    BY <2>2, <2>5, <2>8, <1>1, <1>5, <1>10, CallUp
  <2> QED BY <2>7, <2>9, <1>2, <1>4, <1>5, <1>7, <1>8, <1>9, AccessCalls
<1> QED BY <1>11, <1>12, <1>13, <1>14

\* EV_MOD_NMOESI_NC_STORE_MISS keeps the invariant.
LEMMA NcStoreMissInv ==
  ASSUME Inv, NEW c \in DOMAIN chain, NcStoreMiss(c)
  PROVE  Inv'
<1>1. PICK f : f = Top(c)
  OBVIOUS
<1>2. chain[c] # <<>> /\ UNCHANGED <<block, dir, access, fresh>> /\ f.pc = "NC_STORE_MISS"
  BY <1>1 DEF NcStoreMiss, At
<1>3. f.pc \in AccessPcs /\ f.pc \in AccessKeeps /\ f.pc \in Nc
  BY <1>2 DEF AccessPcs, AccessKeeps, Nc
<1>4. AccessAt(c, f) /\ Holding(f, TRUE)
  BY <1>1, <1>2, <1>3 DEF AccessAt, Inv, Typed, Holding, Keeps
<1>5. f \in AccessFrames /\ (Solid(f) => block[f.mod][f.way].state # "I")
  BY <1>4, AccessActs DEF AccessAt
<1>6. CASE f.err
  <2>1. Release(c, Goto(c, Retry(f)), f.mod, f.way)
    BY <1>1, <1>6 DEF NcStoreMiss
  <2>2. "M" \in States
    BY DEF States
  <2> QED BY <2>1, <2>2, <1>2, <1>3, <1>4, AccessEnds
<1>7. CASE ~f.err
  <2>1. PICK h : h = To(f, "NC_STORE_UNLOCK")
    OBVIOUS
  <2>2. Resume(c, Goto(c, h))
    BY <1>1, <1>7, <2>1 DEF NcStoreMiss
  <2>3. "NC_STORE_UNLOCK" \in AccessKeeps /\ "NC_STORE_UNLOCK" \in AccessPcs
    BY DEF AccessKeeps, AccessPcs
  <2>4. Onward(f, h, "NC_STORE_UNLOCK")
    BY <1>5, <2>1, <2>3, AccessTo
  <2>5. Solid(h) => Solid(f)
    BY <2>4, <1>3 DEF Onward, Solid, Nc
  <2> QED BY <2>2, <2>3, <2>4, <2>5, <1>2, <1>4, <1>5, AccessGoes
<1> QED BY <1>6, <1>7

-----------------------------------------------------------------------------
(* Callers.                                                                  *)

\* h is g but for what a callee reports: the way and the state it found are as they were.
Alike(g, h) ==
  /\ Similar(g, h) /\ h.pc = g.pc /\ h.way = g.way
  /\ h.pc \notin InvalidatePcs => h.state = g.state
  /\ h.pc \in FindPcs => h.hit = g.hit
  /\ h.pc \in EvictPcs => h.mod = g.mod /\ h.srcWay = g.srcWay

\* What was known of a caller's frame is known of it with an answer.
LEMMA AlikeFacts ==
  ASSUME NEW g, NEW h, Alike(g, h), g.pc \notin InvalidatePcs
  PROVE  /\ Where(h) = Where(g) /\ (Holding(h, FALSE) <=> Holding(g, FALSE))
         /\ \A b : FactOfHolder(g, b) => FactOfHolder(h, b)
         /\ \A b : FactOfEvict(g, b) => FactOfEvict(h, b)
<1>1. /\ Similar(g, h) /\ h.pc = g.pc /\ h.way = g.way /\ h.state = g.state /\ h.addr = g.addr
      /\ h.pc = "FIND_AND_LOCK_ACTION" => h.hit = g.hit
  BY DEF Alike, Similar, FindPcs, FindKeeps
<1>2. Where(g) = Where(h)
  BY <1>1, SimilarWhere
<1>3. Solid(h) <=> Solid(g)
  BY <1>1 DEF Solid
<1>4. ASSUME NEW b, FactOfHolder(g, b) PROVE FactOfHolder(h, b)
  BY <1>1, <1>2, <1>3, <1>4 DEF FactOfHolder
<1>5. ASSUME NEW b, FactOfEvict(g, b) PROVE FactOfEvict(h, b)
  BY <1>1, <1>5 DEF FactOfEvict
<1>6. Holding(h, FALSE) <=> Holding(g, FALSE)
  BY <1>1 DEF Holding
<1> QED BY <1>2, <1>4, <1>5, <1>6

\* A frame that a find-and-lock or a request answers.
LEMMA CallerKinds ==
  ASSUME NEW g \in Frames, NEW f, Link(g, f)
  PROVE  /\ g.pc \notin InvalidatePcs /\ g.pc \notin FindPcs \ {"FIND_AND_LOCK_FINISH"}
         /\ f.pc \notin InvalidatePcs => g.pc # "EVICT_INVALID"
BY DEF Link, Serves, First, AccessFirst, EvictFirst, FindPcs, FindKeeps, EvictPcs, InvalidatePcs, ReadPcs, ReadKeeps, WritePcs, WriteKeeps

\* The error of a callee is such an answer.
LEMMA FailedIs ==
  ASSUME NEW g \in Frames, g.pc \notin InvalidatePcs, NEW b \in BOOLEAN, NEW h, h = [g EXCEPT !.err = b]
  PROVE  Alike(g, h) /\ h.err = b
<1>1. CASE g \in AccessFrames
  <2>1. h \in AccessFrames /\ h.pc = g.pc /\ h.way = g.way /\ h.mod = g.mod /\ h.addr = g.addr /\ h.state = g.state /\ h.err = b
    BY <1>1 DEF AccessFrames
  <2>2. g.pc \in AccessPcs /\ g.pc \notin FindPcs /\ g.pc \notin EvictPcs
    BY <1>1 DEF AccessFrames, AccessPcs, AccessFirst, AccessKeeps, FindPcs, FindKeeps, EvictPcs, EvictFirst
  <2> QED BY <2>1, <2>2 DEF Alike, Similar, Frames
<1>2. CASE g \in FindFrames
  <2>1. /\ h \in FindFrames /\ h.pc = g.pc /\ h.way = g.way /\ h.mod = g.mod /\ h.addr = g.addr /\ h.state = g.state
        /\ h.hit = g.hit /\ h.err = b
    BY <1>2 DEF FindFrames
  <2>2. g.pc \in FindPcs /\ g.pc \notin EvictPcs
    BY <1>2 DEF FindFrames, FindPcs, FindKeeps, EvictPcs, EvictFirst
  <2> QED BY <2>1, <2>2 DEF Alike, Similar, Frames
<1>3. CASE g \in EvictFrames
  <2>1. /\ h \in EvictFrames /\ h.pc = g.pc /\ h.way = g.way /\ h.mod = g.mod /\ h.addr = g.addr /\ h.state = g.state
        /\ h.srcWay = g.srcWay /\ h.err = b
    BY <1>3 DEF EvictFrames
  <2>2. g.pc \in EvictPcs /\ g.pc \notin FindPcs
    BY <1>3 DEF EvictFrames, FindPcs, FindKeeps, EvictPcs, EvictFirst
  <2> QED BY <2>1, <2>2 DEF Alike, Similar, Frames
<1>4. CASE g \in InvalidateFrames
  BY <1>4 DEF InvalidateFrames
<1>5. CASE g \in RequestFrames
  <2>1. /\ h \in RequestFrames /\ h.pc = g.pc /\ h.way = g.way /\ h.mod = g.mod /\ h.addr = g.addr /\ h.state = g.state
        /\ h.target = g.target /\ h.up = g.up /\ h.err = b
    BY <1>5 DEF RequestFrames
  <2>2. g.pc \in ReadPcs \union WritePcs /\ g.pc \notin FindPcs /\ g.pc \notin EvictPcs
    BY <1>5 DEF RequestFrames, FindPcs, FindKeeps, EvictPcs, EvictFirst, ReadPcs, ReadKeeps, WritePcs, WriteKeeps
  <2> QED BY <2>1, <2>2 DEF Alike, Similar, Frames
<1>6. CASE g \in MessageFrames
  <2>1. /\ h \in MessageFrames /\ h.pc = g.pc /\ h.way = g.way /\ h.mod = g.mod /\ h.addr = g.addr /\ h.state = g.state
        /\ h.err = b
    BY <1>6 DEF MessageFrames
  <2>2. g.pc = "MESSAGE_ACTION" /\ g.pc \notin FindPcs /\ g.pc \notin EvictPcs
    BY <1>6 DEF MessageFrames, FindPcs, FindKeeps, EvictPcs, EvictFirst
  <2> QED BY <2>1, <2>2 DEF Alike, Similar, Frames
<1> QED BY <1>1, <1>2, <1>3, <1>4, <1>5, <1>6 DEF Frames

\* The caller that learns of a failure knows of its lines what it knew.
LEMMA FailedCaller ==
  ASSUME Inv, NEW c \in DOMAIN chain, chain[c] # <<>>, NEW f, f = Top(c), Len(chain[c]) > 1, f.pc \notin InvalidatePcs,
         NEW g, g = Caller(c), NEW h, h = Failed(g)
  PROVE  /\ Similar(g, h) /\ h.way = g.way
         /\ h.pc \notin InvalidatePcs /\ h.pc # "EVICT_INVALID"
         /\ Holding(g, FALSE) => Holding(h, TRUE)
         /\ Holding(h, TRUE) => Holding(g, FALSE) /\ FactOfHolder(h, block[Where(h)][h.way])
         /\ h.pc \in EvictPcs => FactOfEvict(h, block[h.mod][h.srcWay])
<1>1. /\ g \in Frames /\ Link(g, f)
      /\ Holding(g, FALSE) => FactOfHolder(g, block[Where(g)][g.way])
      /\ g.pc \in EvictPcs => FactOfEvict(g, block[g.mod][g.srcWay])
  BY EnterCaller
<1>2. g.pc \notin InvalidatePcs /\ g.pc # "EVICT_INVALID"
  BY <1>1, CallerKinds
<1>3. Alike(g, h) /\ h.err = TRUE
  BY <1>1, <1>2, FailedIs DEF Failed
<1>4. /\ Where(h) = Where(g) /\ (Holding(h, FALSE) <=> Holding(g, FALSE))
      /\ \A b : FactOfHolder(g, b) => FactOfHolder(h, b)
      /\ \A b : FactOfEvict(g, b) => FactOfEvict(h, b)
  BY <1>2, <1>3, AlikeFacts
<1>5. /\ Similar(g, h) /\ h.pc = g.pc /\ h.way = g.way
      /\ h.pc \in EvictPcs => h.mod = g.mod /\ h.srcWay = g.srcWay
  BY <1>3 DEF Alike
<1>6. Holding(h, TRUE) <=> Holding(h, FALSE)
  BY <1>3 DEF Holding
<1>7. Holding(h, TRUE) => FactOfHolder(h, block[Where(h)][h.way])
  <2>1. Holding(h, TRUE) => FactOfHolder(g, block[Where(g)][g.way])
    BY <1>1, <1>4, <1>6
  <2> QED BY <2>1, <1>4, <1>5
<1>8. h.pc \in EvictPcs => FactOfEvict(h, block[h.mod][h.srcWay])
  BY <1>1, <1>4, <1>5
<1> QED BY <1>2, <1>4, <1>5, <1>6, <1>7, <1>8

\* f fails without a lock.
LEMMA FailInv ==
  ASSUME NEW c, NEW f, Acts(c, f), UNCHANGED <<block, dir>>, ~Holding(f, TRUE), Len(chain[c]) > 1, f.pc \notin InvalidatePcs,
         Resume(c, Return(c, Failed(Caller(c))))
  PROVE  Inv'
<1>1. PICK g, h : g = Caller(c) /\ h = Failed(g)
  OBVIOUS
<1>2. Inv /\ c \in DOMAIN chain /\ chain[c] # <<>> /\ f = Top(c)
  BY DEF Acts
<1>3. /\ Similar(g, h) /\ h.way = g.way
      /\ h.pc \notin InvalidatePcs /\ h.pc # "EVICT_INVALID"
      /\ Holding(g, FALSE) => Holding(h, TRUE)
      /\ Holding(h, TRUE) => Holding(g, FALSE) /\ FactOfHolder(h, block[Where(h)][h.way])
      /\ h.pc \in EvictPcs => FactOfEvict(h, block[h.mod][h.srcWay])
  BY <1>1, <1>2, FailedCaller
<1>4. Resume(c, Return(c, h))
  BY <1>1
<1> QED BY <1>1, <1>3, <1>4, BackInv

\* f fails and unlocks what it holds.
LEMMA FailFreeInv ==
  ASSUME NEW c, NEW f, Acts(c, f), UNCHANGED <<block, dir>>, Holding(f, TRUE), Len(chain[c]) > 1, f.pc \notin InvalidatePcs,
         Release(c, Return(c, Failed(Caller(c))), Where(f), f.way)
  PROVE  Inv'
<1>1. PICK g, h : g = Caller(c) /\ h = Failed(g)
  OBVIOUS
<1>2. Inv /\ c \in DOMAIN chain /\ chain[c] # <<>> /\ f = Top(c)
  BY DEF Acts
<1>3. /\ Similar(g, h) /\ h.way = g.way
      /\ h.pc \notin InvalidatePcs /\ h.pc # "EVICT_INVALID"
      /\ Holding(g, FALSE) => Holding(h, TRUE)
      /\ Holding(h, TRUE) => Holding(g, FALSE) /\ FactOfHolder(h, block[Where(h)][h.way])
      /\ h.pc \in EvictPcs => FactOfEvict(h, block[h.mod][h.srcWay])
  BY <1>1, <1>2, FailedCaller
<1>4. Release(c, Return(c, h), Where(f), f.way)
  BY <1>1
<1>5. Where(f) \in Mods /\ f.way \in Ways(Where(f))
  BY <1>2, Enter
<1>6. Changed(Where(f), f.way)
  BY <1>2, <1>5, NothingChanged
<1>7. h.pc \in EvictPcs => h.pc # "EVICT_INVALID" /\ FactOfEvict(h, block'[h.mod][h.srcWay])
  BY <1>3
<1> QED BY <1>1, <1>3, <1>4, <1>6, <1>7, FreeBackInv

\* f unlocks what it holds, and its caller, which keeps its own lock, learns what f found out.
LEMMA AnswerInv ==
  ASSUME NEW c, NEW f, Acts(c, f), Holding(f, TRUE), Changed(Where(f), f.way), Len(chain[c]) > 1,
         NEW g, g = Caller(c), g.pc \in Keeps, NEW h, Alike(g, h), Release(c, Return(c, h), Where(f), f.way)
  PROVE  Inv'
<1>1. Inv /\ c \in DOMAIN chain /\ chain[c] # <<>> /\ f = Top(c)
  BY DEF Acts
<1>2. /\ g \in Frames /\ Link(g, f)
      /\ Holding(g, FALSE) => FactOfHolder(g, block[Where(g)][g.way])
  BY <1>1, EnterCaller
<1>3. g.pc \notin InvalidatePcs /\ g.pc \notin EvictPcs /\ Holding(g, FALSE)
  BY DEF Keeps, Holding, AccessKeeps, FindKeeps, ReadKeeps, WriteKeeps, EvictPcs, EvictFirst, InvalidatePcs
<1>4. /\ Where(h) = Where(g)
      /\ \A b : FactOfHolder(g, b) => FactOfHolder(h, b)
  BY <1>3, AlikeFacts
<1>5. Similar(g, h) /\ h.pc = g.pc /\ h.way = g.way
  BY DEF Alike
<1>6. FactOfHolder(h, block[Where(h)][h.way]) /\ Holding(h, TRUE)
  BY <1>2, <1>3, <1>4, <1>5 DEF Holding
<1> QED BY <1>3, <1>5, <1>6, FreeBackInv

\* f is popped; its caller holds the entry from here on.
LEMMA HandInv ==
  ASSUME NEW c, NEW f, Acts(c, f), Holding(f, TRUE), Changed(Where(f), f.way), Len(chain[c]) > 1,
         NEW g, g = Caller(c), ~Holding(g, FALSE), NEW h, Similar(g, h), Resume(c, Return(c, h)),
         Holding(h, TRUE), Same(f, h), f.addr = h.addr, FactOfHolder(h, block'[Where(f)][f.way]),
         h.pc \in EvictPcs => h.pc # "EVICT_INVALID" /\ FactOfEvict(h, block'[h.mod][h.srcWay]),
         h.pc \notin InvalidatePcs
  PROVE  Inv'
<1>1. Inv /\ c \in DOMAIN chain /\ chain[c] # <<>> /\ f = Top(c)
  BY DEF Acts
<1>2. PICK m, w : m = Where(f) /\ w = f.way
  OBVIOUS
<1>3. /\ c # <<>> /\ Well(c, chain[c], lock, block, dir)
      /\ m \in Mods /\ w \in Ways(m) /\ lock[m][w].by = c /\ block[m][w].trans = f.addr
  BY <1>1, <1>2, Enter
<1>4. lock' = lock /\ Changed(m, w)
  BY <1>2 DEF Resume
<1>5. \A n \in Mods : \A v \in Ways(n) : Still(n, v) \/ (Holding(f, TRUE) /\ Where(f) = n /\ f.way = v)
  BY <1>2, <1>4 DEF Still, Changed
<1>6. Holds(c, h) /\ Holding(f, TRUE) /\ Same(f, h)
  BY <1>2, <1>3, <1>4 DEF Holds, Changed, Same
<1>7. /\ h.pc = "EVICT_INVALID" => dir'[h.mod][h.srcWay].sharers = {}
      /\ h.pc \in EvictPcs => FactOfEvict(h, block'[h.mod][h.srcWay])
  BY DEF EvictPcs
<1>8. \/ Len(c) = 1
      \/ /\ Holding(f, TRUE) => lock'[Where(f)][f.way].by # c \/ (Holding(h, TRUE) /\ Same(f, h))
         /\ Holding(g, FALSE) => lock'[Where(g)][g.way].by # c \/ (Holding(h, TRUE) /\ h.way = g.way)
  OBVIOUS
<1>9. Turned(c, Return(c, h))
  BY <1>1, <1>3, <1>5, <1>6, <1>7, <1>8, Returning
<1> QED BY <1>3, <1>4, <1>9, ActsInv

\* f is popped; the line that its caller holds is empty now.
LEMMA VacateInv ==
  ASSUME NEW c, NEW f, Acts(c, f), ~Holding(f, TRUE), Len(chain[c]) > 1,
         NEW g, g = Caller(c), Holding(g, FALSE), Changed(Where(g), g.way), NEW h, Similar(g, h), Resume(c, Return(c, h)),
         Holding(h, TRUE), h.way = g.way, FactOfHolder(h, block'[Where(g)][g.way]),
         h.pc \notin EvictPcs, h.pc \notin InvalidatePcs
  PROVE  Inv'
<1>1. Inv /\ c \in DOMAIN chain /\ chain[c] # <<>> /\ f = Top(c)
  BY DEF Acts
<1>2. PICK m, w : m = Where(g) /\ w = g.way
  OBVIOUS
<1>3. c # <<>> /\ Well(c, chain[c], lock, block, dir)
  BY <1>1, Enter
<1>4. m \in Mods /\ w \in Ways(m) /\ lock[m][w].by = c /\ block[m][w].trans = g.addr
  BY <1>1, <1>2, EnterCaller
<1>5. lock' = lock /\ Changed(m, w)
  BY <1>2 DEF Resume
<1>6. \A n \in Mods : \A v \in Ways(n) : Still(n, v) \/ (Holding(g, FALSE) /\ Where(g) = n /\ g.way = v)
  BY <1>2, <1>5 DEF Still, Changed
<1>7. Where(g) = Where(h) /\ h.addr = g.addr
  BY SimilarWhere DEF Similar
<1>8. Holds(c, h) /\ Holding(g, FALSE) /\ h.way = g.way
  BY <1>2, <1>4, <1>5, <1>7 DEF Holds, Changed
<1>9. /\ h.pc = "EVICT_INVALID" => dir'[h.mod][h.srcWay].sharers = {}
      /\ h.pc \in EvictPcs => FactOfEvict(h, block'[h.mod][h.srcWay])
  BY DEF EvictPcs
<1>10. \/ Len(c) = 1
       \/ /\ Holding(f, TRUE) => lock'[Where(f)][f.way].by # c \/ (Holding(h, TRUE) /\ Same(f, h))
          /\ Holding(g, FALSE) => lock'[Where(g)][g.way].by # c \/ (Holding(h, TRUE) /\ h.way = g.way)
  BY <1>8
<1>11. Turned(c, Return(c, h))
  BY <1>1, <1>3, <1>6, <1>8, <1>9, <1>10, Returning
<1> QED BY <1>4, <1>5, <1>11, ActsInv

\* Dropping the top frame returns to a caller that learns nothing.
LEMMA FrontIs ==
  ASSUME NEW c, chain[c] \in Seq(Frames), Len(chain[c]) > 1
  PROVE  Front(chain[c]) = Return(c, Caller(c))
<1>1. PICK s : s = chain[c]
  OBVIOUS
<1>2. s \in Seq(Frames) /\ Len(s) > 1 /\ Len(s) \in Nat
  BY <1>1
<1>3. PICK r : r = Front(s)
  OBVIOUS
<1>4. r \in Seq(Frames) /\ Len(r) = Len(s) - 1 /\ \A i \in 1 .. Len(s) - 1 : r[i] = s[i]
  BY <1>2, <1>3 DEF Front
<1>5. [r EXCEPT ![Len(s) - 1] = s[Len(s) - 1]] = r
  BY <1>2, <1>4
<1> QED BY <1>1, <1>3, <1>5 DEF Return, Caller

\* EV_MOD_NMOESI_MESSAGE_ACTION keeps the invariant.
LEMMA MessageActionInv ==
  ASSUME Inv, NEW c \in DOMAIN chain, MessageAction(c)
  PROVE  Inv'
<1>1. PICK f, g : f = Top(c) /\ g = Caller(c)
  OBVIOUS
<1>2. chain[c] # <<>> /\ UNCHANGED <<block, access, fresh>> /\ f.pc = "MESSAGE_ACTION"
  BY <1>1 DEF MessageAction, At
<1>3. f.pc \in First /\ f.pc \notin Keeps /\ f.pc \notin AccessPcs /\ f.pc \notin WritePcs /\ f.pc \notin InvalidatePcs
  BY <1>2 DEF First, Keeps, AccessPcs, AccessFirst, AccessKeeps, FindKeeps, ReadKeeps, WriteKeeps, WritePcs, InvalidatePcs
<1>4. Len(chain[c]) > 1 /\ Well(c, chain[c], lock, block, dir)
  BY <1>1, <1>2, <1>3, Enter
<1>5. Acts(c, f)
  BY <1>1, <1>2 DEF Acts, Inv, Typed
<1>6. CASE f.err
  <2>1. Resume(c, Return(c, Failed(Caller(c)))) /\ UNCHANGED dir
    BY <1>1, <1>6 DEF MessageAction
  <2>2. ~Holding(f, TRUE)
    BY <1>3, <1>6 DEF Holding
  <2> QED BY <2>1, <2>2, <1>2, <1>3, <1>4, <1>5, FailInv
<1>7. CASE ~f.err
  <2>1. PICK m, w : m = f.target /\ w = f.way
    OBVIOUS
  <2>2. Holding(f, TRUE) /\ Where(f) = m
    BY <1>2, <1>3, <1>7, <2>1 DEF Holding, Where, EvictPcs, EvictFirst
  <2>3. m \in Mods /\ w \in Ways(m)
    <3>1. Where(f) \in Mods /\ f.way \in Ways(Where(f))
      BY <1>1, <1>2, <2>2, Enter
    <3> QED BY <3>1, <2>1, <2>2
  <2>4. PICK e : e = [owner |-> None, sharers |-> dir[m][w].sharers]
    OBVIOUS
  <2>5. Memory
    BY DEF Inv, Typed
  <2>6. dir' = [dir EXCEPT ![m][w].owner = None] /\ Release(c, Front(chain[c]), m, w)
    BY <1>1, <1>7, <2>1 DEF MessageAction
  <2>7. dir' = SetDir(m, w, e) /\ e \in DirRecs /\ e.sharers = dir[m][w].sharers /\ e.owner = None
    <3>1. /\ dir[m][w].sharers \subseteq Mods
          /\ [dir EXCEPT ![m][w].owner = None] = SetDir(m, w, [owner |-> None, sharers |-> dir[m][w].sharers])
      BY <2>3, <2>5, DirIs
    <3> QED BY <3>1, <2>4, <2>6 DEF DirRecs
  <2>8. /\ e.sharers # {} => block[m][w].state # "I"
        /\ e.sharers \subseteq {n \in Mods : Low[n] = m}
    BY <2>3, <2>7 DEF Inv, Lines
  <2>9. Changed(m, w)
    BY <1>2, <2>3, <2>7, <2>8, Listed
  <2>10. Front(chain[c]) = Return(c, g)
    BY <1>1, <1>4, FrontIs DEF Well, Shape
  <2>11. g \in Frames /\ Link(g, f)
    BY <1>1, <1>2, <1>4, EnterCaller
  <2>12. g.pc \in Keeps
    BY <2>11, <1>2 DEF Link, Keeps, AccessKeeps, FindPcs, FindKeeps, EvictPcs, EvictFirst, InvalidatePcs, ReadPcs, ReadKeeps, WritePcs, WriteKeeps
  <2>13. Alike(g, g)
    <3>1. Similar(g, g)
      BY <2>11, ByPc DEF Similar, Frames, AccessFrames, FindFrames, EvictFrames, InvalidateFrames, RequestFrames, MessageFrames
    <3> QED BY <3>1 DEF Alike
  <2> QED BY <1>1, <1>4, <1>5, <2>1, <2>2, <2>6, <2>9, <2>10, <2>12, <2>13, AnswerInv
<1> QED BY <1>6, <1>7

-----------------------------------------------------------------------------
(* Find and lock.                                                            *)

\* A lookup that may not wait and finds its entry locked returns an error.
LEMMA FindAndLockBusyInv ==
  ASSUME Inv, NEW c \in DOMAIN chain, FindAndLockBusy(c)
  PROVE  Inv'
<1>1. PICK f : f = Top(c)
  OBVIOUS
<1>2. /\ chain[c] # <<>> /\ UNCHANGED <<block, dir, access, fresh>> /\ f.pc = "FIND_AND_LOCK"
      /\ Resume(c, Return(c, Failed(Caller(c))))
  BY <1>1 DEF FindAndLockBusy, At
<1>3. /\ f.pc \notin First /\ f.pc \notin Keeps /\ f.pc \notin AccessPcs /\ f.pc \notin WritePcs /\ f.pc \notin InvalidatePcs
  BY <1>2 DEF First, Keeps, AccessPcs, AccessFirst, AccessKeeps, EvictFirst, FindKeeps, ReadKeeps, WriteKeeps, WritePcs, InvalidatePcs
<1>4. Len(chain[c]) > 1
  BY <1>1, <1>2, <1>3, Enter
<1>5. Acts(c, f)
  BY <1>1, <1>2 DEF Acts, Inv, Typed
<1>6. ~Holding(f, TRUE)
  BY <1>3 DEF Holding
<1> QED BY <1>2, <1>3, <1>4, <1>5, <1>6, FailInv

\* A frame that finds, called by one that waits for the lock.
LEMMA FinderIs ==
  ASSUME Inv, NEW c \in DOMAIN chain, chain[c] # <<>>, NEW f, f = Top(c), f.pc \in FindPcs, NEW g, g = Caller(c)
  PROVE  /\ f \in FindFrames /\ f.mod \in Mods /\ f.addr \in Blocks /\ Len(chain[c]) > 1 /\ Where(f) = f.mod
         /\ g \in Frames /\ Link(g, f) /\ g.pc \in First /\ Where(g) = f.mod /\ g.addr = f.addr
         /\ ~Holding(g, FALSE) /\ f.pc \notin InvalidatePcs
<1>1. f.pc \notin AccessPcs /\ f.pc \notin WritePcs
  BY DEF FindPcs, FindKeeps, AccessPcs, AccessFirst, AccessKeeps, WritePcs, WriteKeeps
<1>2. f \in Frames /\ Len(chain[c]) > 1
  BY <1>1, Enter
<1>3. f \in FindFrames
  BY <1>2, ByPc
<1>4. g \in Frames /\ Link(g, f)
  BY <1>2, EnterCaller
<1>5. g.pc \in First /\ Where(g) = f.mod /\ g.addr = f.addr
  BY <1>4 DEF Link, FindPcs, FindKeeps, EvictPcs, EvictFirst, InvalidatePcs, ReadPcs, ReadKeeps, WritePcs, WriteKeeps
<1>6. ~Holding(g, FALSE)
  BY <1>5 DEF Holding, First, Keeps, AccessFirst, AccessKeeps, EvictFirst, FindKeeps, ReadKeeps, WriteKeeps
<1>7. Where(f) = f.mod /\ f.pc \notin InvalidatePcs
  BY DEF Where, FindPcs, FindKeeps, EvictPcs, EvictFirst, ReadPcs, ReadKeeps, WritePcs, WriteKeeps, InvalidatePcs
<1> QED BY <1>2, <1>3, <1>4, <1>5, <1>6, <1>7 DEF FindFrames

\* Updates of find frames and of those that call them.
LEMMA FindTo ==
  ASSUME NEW f \in FindFrames, NEW pc \in FindPcs, NEW h \in FindFrames, h.pc = pc, h.mod = f.mod, h.addr = f.addr
  PROVE  Similar(f, h) /\ Where(h) = f.mod /\ h.pc \notin EvictPcs /\ h.pc \notin InvalidatePcs
<1>1. f.pc \in FindPcs
  BY DEF FindFrames
<1>2. Similar(f, h)
  BY <1>1 DEF Similar, Frames
<1>3. Where(h) = f.mod /\ h.pc \notin EvictPcs /\ h.pc \notin InvalidatePcs
  BY DEF Where, FindPcs, FindKeeps, EvictPcs, EvictFirst, ReadPcs, ReadKeeps, WritePcs, WriteKeeps, InvalidatePcs
<1> QED BY <1>2, <1>3

Handed(g, w, s) == [g EXCEPT !.err = FALSE, !.way = w, !.state = s]
\* h is the caller g of find-and-lock, told of the way w.
Gets(g, h, w) ==
  /\ Similar(g, h) /\ h.pc = g.pc /\ h.way = w /\ h.addr = g.addr /\ h.mod = g.mod
  /\ h.pc \in EvictPcs => h.srcWay = g.srcWay /\ h.pc # "EVICT_INVALID"
  /\ h.pc \notin InvalidatePcs

\* The caller of find-and-lock gets the way and the state of the locked line.
LEMMA FirstFinds ==
  ASSUME NEW g \in Frames, g.pc \in First, NEW w \in Nat, NEW s \in States
  PROVE  Gets(g, Handed(g, w, s), w) /\ ~Handed(g, w, s).err /\ Handed(g, w, s).state = s
<1>h. PICK h : h = Handed(g, w, s)
  OBVIOUS
<1>0. g.pc \notin InvalidatePcs /\ (g.pc \in EvictPcs => g.pc # "EVICT_INVALID") /\ g.pc \notin FindPcs
  BY DEF First, AccessFirst, EvictFirst, InvalidatePcs, FindPcs, FindKeeps
<1>1. ASSUME g \in AccessFrames PROVE Gets(g, h, w) /\ h.err = FALSE /\ h.state = s
  <2>1. /\ h \in AccessFrames /\ h.pc = g.pc /\ h.way = w /\ h.mod = g.mod /\ h.addr = g.addr
        /\ h.err = FALSE /\ h.state = s
    BY <1>1, <1>h DEF AccessFrames, Handed
  <2>2. g.pc \in AccessPcs /\ g.pc \notin EvictPcs
    BY <1>1 DEF AccessFrames, AccessPcs, AccessFirst, AccessKeeps, EvictPcs, EvictFirst
  <2> QED BY <1>0, <2>1, <2>2 DEF Gets, Similar, Frames
<1>2. ASSUME g \in EvictFrames PROVE Gets(g, h, w) /\ h.err = FALSE /\ h.state = s
  <2>1. /\ h \in EvictFrames /\ h.pc = g.pc /\ h.way = w /\ h.mod = g.mod /\ h.addr = g.addr /\ h.srcWay = g.srcWay
        /\ h.err = FALSE /\ h.state = s
    BY <1>2, <1>h DEF EvictFrames, Handed
  <2>2. g.pc \in EvictPcs
    BY <1>2, <1>h DEF EvictFrames, Handed
  <2> QED BY <1>0, <2>1, <2>2 DEF Gets, Similar, Frames
<1>3. ASSUME g \in RequestFrames PROVE Gets(g, h, w) /\ h.err = FALSE /\ h.state = s
  <2>1. /\ h \in RequestFrames /\ h.pc = g.pc /\ h.way = w /\ h.mod = g.mod /\ h.addr = g.addr
        /\ h.target = g.target /\ h.up = g.up
        /\ h.err = FALSE /\ h.state = s
    BY <1>3, <1>h DEF RequestFrames, Handed
  <2>2. g.pc \in ReadPcs \union WritePcs /\ g.pc \notin EvictPcs
    BY <1>3 DEF RequestFrames, EvictPcs, EvictFirst, ReadPcs, ReadKeeps, WritePcs, WriteKeeps
  <2> QED BY <1>0, <2>1, <2>2 DEF Gets, Similar, Frames
<1>4. ASSUME g \in MessageFrames PROVE Gets(g, h, w) /\ h.err = FALSE /\ h.state = s
  <2>1. /\ h \in MessageFrames /\ h.pc = g.pc /\ h.way = w /\ h.mod = g.mod /\ h.addr = g.addr
        /\ h.err = FALSE /\ h.state = s
    BY <1>4, <1>h DEF MessageFrames, Handed
  <2>2. g.pc = "MESSAGE_ACTION" /\ g.pc \notin EvictPcs
    BY <1>4 DEF MessageFrames, EvictPcs, EvictFirst
  <2> QED BY <1>0, <2>1, <2>2 DEF Gets, Similar, Frames
<1>5. g \notin FindFrames \union InvalidateFrames
  BY <1>0 DEF FindFrames, InvalidateFrames
<1>6. Gets(g, h, w) /\ h.err = FALSE /\ h.state = s
  BY <1>1, <1>2, <1>3, <1>4, <1>5 DEF Frames
<1> QED BY <1>h, <1>6

\* The caller of find-and-lock remembers the way at which its lookup sleeps.
LEMMA FirstWaits ==
  ASSUME NEW g \in Frames, g.pc \in First, NEW w \in Nat, NEW h, h = [g EXCEPT !.way = w]
  PROVE  Gets(g, h, w)
<1>0. g.pc \notin InvalidatePcs /\ (g.pc \in EvictPcs => g.pc # "EVICT_INVALID") /\ g.pc \notin FindPcs
  BY DEF First, AccessFirst, EvictFirst, InvalidatePcs, FindPcs, FindKeeps
<1>1. CASE g \in AccessFrames
  <2>1. /\ h \in AccessFrames /\ h.pc = g.pc /\ h.way = w /\ h.mod = g.mod /\ h.addr = g.addr
    BY <1>1 DEF AccessFrames
  <2>2. g.pc \in AccessPcs /\ g.pc \notin EvictPcs
    BY <1>1 DEF AccessFrames, AccessPcs, AccessFirst, AccessKeeps, EvictPcs, EvictFirst
  <2> QED BY <1>0, <2>1, <2>2 DEF Gets, Similar, Frames
<1>2. CASE g \in EvictFrames
  <2>1. /\ h \in EvictFrames /\ h.pc = g.pc /\ h.way = w /\ h.mod = g.mod /\ h.addr = g.addr /\ h.srcWay = g.srcWay
    BY <1>2 DEF EvictFrames
  <2>2. g.pc \in EvictPcs
    BY <1>2 DEF EvictFrames
  <2> QED BY <1>0, <2>1, <2>2 DEF Gets, Similar, Frames
<1>3. CASE g \in RequestFrames
  <2>1. /\ h \in RequestFrames /\ h.pc = g.pc /\ h.way = w /\ h.mod = g.mod /\ h.addr = g.addr
        /\ h.target = g.target /\ h.up = g.up
    BY <1>3 DEF RequestFrames
  <2>2. g.pc \in ReadPcs \union WritePcs /\ g.pc \notin EvictPcs
    BY <1>3 DEF RequestFrames, EvictPcs, EvictFirst, ReadPcs, ReadKeeps, WritePcs, WriteKeeps
  <2> QED BY <1>0, <2>1, <2>2 DEF Gets, Similar, Frames
<1>4. CASE g \in MessageFrames
  <2>1. /\ h \in MessageFrames /\ h.pc = g.pc /\ h.way = w /\ h.mod = g.mod /\ h.addr = g.addr
    BY <1>4 DEF MessageFrames
  <2>2. g.pc = "MESSAGE_ACTION" /\ g.pc \notin EvictPcs
    BY <1>4 DEF MessageFrames, EvictPcs, EvictFirst
  <2> QED BY <1>0, <2>1, <2>2 DEF Gets, Similar, Frames
<1>5. CASE g \in FindFrames \union InvalidateFrames
  BY <1>0, <1>5 DEF FindFrames, InvalidateFrames
<1> QED BY <1>1, <1>2, <1>3, <1>4, <1>5 DEF Frames

\* The line is handed to the caller.
LEMMA FoundInv ==
  ASSUME NEW c, NEW f, Acts(c, f), f.pc \in FindKeeps, UNCHANGED dir, NEW s, s = block[f.mod][f.way].state,
         MayCarry(block[f.mod][f.way], f.addr), Found(c, s)
  PROVE  Inv'
<1>1. Inv /\ c \in DOMAIN chain /\ chain[c] # <<>> /\ f = Top(c)
  BY DEF Acts
<1>2. PICK g, m, w : g = Caller(c) /\ m = f.mod /\ w = f.way
  OBVIOUS
<1>3. f.pc \in FindPcs /\ Holding(f, TRUE)
  BY DEF FindPcs, Holding, Keeps
<1>4. /\ f \in FindFrames /\ m \in Mods /\ f.addr \in Blocks /\ Len(chain[c]) > 1 /\ Where(f) = m
      /\ g \in Frames /\ Link(g, f) /\ g.pc \in First /\ Where(g) = m /\ g.addr = f.addr
      /\ ~Holding(g, FALSE)
  BY <1>1, <1>2, <1>3, FinderIs
<1>5. c # <<>> /\ w \in Ways(m) /\ lock[m][w].by = c /\ block[m][w].trans = f.addr
  <2>1. c # <<>> /\ f.way \in Ways(Where(f)) /\ lock[Where(f)][f.way].by = c /\ block[Where(f)][f.way].trans = f.addr
    BY <1>1, <1>3, Enter
  <2> QED BY <2>1, <1>2, <1>4
<1>6. s \in States /\ w \in Nat /\ (m \notin Caches => s \in {"I", "E", "M"})
  <2>1. block[m][w] \in LineRecs
    BY <1>1, <1>4, <1>5, DirIs DEF Inv, Typed
  <2> QED BY <2>1, <1>1, <1>2, <1>4, <1>5 DEF LineRecs, Ways, Inv, Lines
<1>7. PICK s2 : s2 = IF Main(m) /\ s = "I" THEN "E" ELSE s
  OBVIOUS
<1>8. s2 \in States
  BY <1>6, <1>7 DEF States
<1>9. PICK h : h = Handed(g, w, s2)
  OBVIOUS
<1>10. Resume(c, Return(c, h)) /\ (block' = IF Main(m) /\ s = "I" THEN SetBlock(m, w, f.addr, "E") ELSE block)
  BY <1>1, <1>2, <1>7, <1>9 DEF Found, Handed
<1>11. /\ Similar(g, h) /\ h.pc = g.pc /\ h.way = w /\ h.addr = g.addr /\ h.mod = g.mod
       /\ h.err = FALSE /\ h.state = s2
       /\ h.pc \in EvictPcs => h.srcWay = g.srcWay /\ h.pc # "EVICT_INVALID"
       /\ h.pc \notin InvalidatePcs
  <2>1. Gets(g, h, w) /\ h.err = FALSE /\ h.state = s2
    <3>1. g \in Frames /\ g.pc \in First /\ w \in Nat
      BY <1>4, <1>6
    <3> QED BY <3>1, <1>8, <1>9, FirstFinds
  <2> QED BY <2>1 DEF Gets
<1>12. Where(h) = m
  BY <1>4, <1>11, SimilarWhere
<1>13. Holding(h, TRUE)
  BY <1>4, <1>11 DEF Holding
<1>14. Changed(m, w) /\ MayCarry(block'[m][w], f.addr) /\ block'[m][w].state = s2
  <2>1. CASE Main(m) /\ s = "I"
    <3>1. block' = SetBlock(m, w, f.addr, "E") /\ s2 = "E"
      BY <2>1, <1>7, <1>10
    <3>2. dir[m][w] \in DirRecs
      BY <1>1, <1>4, <1>5, DirIs DEF Inv, Typed
    <3>3. dir[m][w].sharers \subseteq {n \in Mods : Low[n] = m} /\ (dir[m][w].owner # None => Low[dir[m][w].owner] = m)
      BY <1>1, <1>4, <1>5 DEF Inv, Lines
    <3>4. Changed(m, w) /\ block'[m][w].tag = f.addr /\ block'[m][w].state = "E"
      BY <1>1, <1>4, <1>5, <3>1, <3>2, <3>3, Written DEF States
    <3> QED BY <3>1, <3>4 DEF MayCarry
  <2>2. CASE ~(Main(m) /\ s = "I")
    <3>1. block' = block /\ s2 = s
      BY <2>2, <1>7, <1>10
    <3> QED BY <3>1, <1>1, <1>2, <1>4, <1>5, NothingChanged
  <2> QED BY <2>1, <2>2
<1>15. FactOfHolder(h, block'[m][w])
  <2>1. h.pc \in First /\ h.pc \notin FindPcs /\ h.pc \notin Nc
        /\ h.pc \notin {"READ_REQUEST_UPDOWN_FINISH", "READ_REQUEST_DOWNUP_FINISH", "FIND_AND_LOCK_ACTION"}
    BY <1>4, <1>11 DEF First, AccessFirst, EvictFirst, FindPcs, FindKeeps, Nc
  <2>2. MayCarry(block'[m][w], h.addr)
    BY <1>4, <1>11, <1>14
  <2>3. Solid(h) => block'[m][w].state # "I"
    BY <2>1, <1>11, <1>14 DEF Solid
  <2>4. Where(h) \notin Caches => h.state \in {"E", "M"}
    BY <1>4, <1>6, <1>7, <1>11, <1>12 DEF Main, Caches
  <2> QED BY <2>1, <2>2, <2>3, <2>4, <1>11, <1>14 DEF FactOfHolder
<1>16. ASSUME h.pc \in EvictPcs PROVE h.pc # "EVICT_INVALID" /\ FactOfEvict(h, block'[h.mod][h.srcWay])
  <2>1. FactOfEvict(g, block[g.mod][g.srcWay]) /\ g.pc \in EvictPcs /\ g.pc # "EVICT_INVALID"
    BY <1>1, <1>2, <1>4, <1>11, <1>16, EnterCaller
  <2>2. g \in EvictFrames
    BY <2>1, <1>4, ByPc
  <2>3. g.mod \in Caches
    BY <2>1, <2>2 DEF EvictFrames
  <2>4. block'[g.mod] = block[g.mod]
    <3>1. CASE Main(m) /\ s = "I"
      <4>1. g.mod # m
        BY <3>1, <2>3 DEF Main, Caches
      <4>2. block' = SetBlock(m, w, f.addr, "E")
        BY <3>1, <1>10
      <4> QED BY <4>1, <4>2, <2>3 DEF SetBlock, Caches, Acts, Inv, Typed, Memory
    <3>2. CASE ~(Main(m) /\ s = "I")
      BY <3>2, <1>10
    <3> QED BY <3>1, <3>2
  <2> QED BY <2>1, <2>4, <1>11, <1>16 DEF FactOfEvict
<1> QED BY <1>2, <1>3, <1>4, <1>10, <1>11, <1>12, <1>13, <1>14, <1>15, <1>16, HandInv DEF Same

\* EV_MOD_NMOESI_FIND_AND_LOCK_ACTION keeps the invariant.
LEMMA FindAndLockActionInv ==
  ASSUME Inv, NEW c \in DOMAIN chain, FindAndLockAction(c)
  PROVE  Inv'
<1>1. PICK f, b : f = Top(c) /\ b = block[f.mod][f.way]
  OBVIOUS
<1>2. chain[c] # <<>> /\ UNCHANGED <<dir, access, fresh>> /\ f.pc = "FIND_AND_LOCK_ACTION"
  BY <1>1 DEF FindAndLockAction, At
<1>3. f.pc \in FindPcs /\ f.pc \in FindKeeps /\ Holding(f, TRUE)
  BY <1>2 DEF FindPcs, FindKeeps, Holding, Keeps
<1>4. f \in FindFrames /\ f.mod \in Mods /\ f.addr \in Blocks /\ Where(f) = f.mod
  BY <1>1, <1>2, <1>3, FinderIs
<1>5. f.way \in Ways(f.mod) /\ FactOfHolder(f, b)
  BY <1>1, <1>2, <1>3, <1>4, Enter
<1>6. f.state = b.state /\ (f.hit => Carries(b, f.addr))
  BY <1>2, <1>5 DEF FactOfHolder
<1>7. Acts(c, f)
  BY <1>1, <1>2 DEF Acts, Inv, Typed
<1>8. CASE ~f.hit /\ f.state # "I"
  <2>1. PICK h, gs : /\ h = Anew(f, "FIND_AND_LOCK_FINISH")
                     /\ gs = <<EvictFrame(f.mod, f.way, b.tag), InvalidateFrame(f.mod, f.way, b.tag, None)>>
    OBVIOUS
  <2>2. Resume(c, Call(c, h, gs)) /\ UNCHANGED block
    BY <1>1, <1>8, <2>1 DEF FindAndLockAction
  <2>3. b.tag \in Blocks /\ MayCarry(b, b.tag) /\ f.way \in Nat
    BY <1>1, <1>4, <1>5, <1>6, <1>8 DEF Inv, Lines, MayCarry, Ways
  <2>4. /\ Similar(f, h) /\ h.pc = "FIND_AND_LOCK_FINISH" /\ h.way = f.way /\ h.mod = f.mod
        /\ h.pc \notin EvictPcs /\ h.pc \notin InvalidatePcs
    <3>1. h \in FindFrames /\ h.pc = "FIND_AND_LOCK_FINISH" /\ h.way = f.way /\ h.mod = f.mod /\ h.addr = f.addr
      BY <1>4, <2>1 DEF FindFrames, FindPcs, FindKeeps, Anew
    <3> QED BY <1>4, <3>1, FindTo DEF FindPcs, FindKeeps
  <2>5. Callable(gs) /\ Link(h, gs[1])
    BY <1>1, <1>4, <2>1, <2>3, <2>4, CallEvict
  <2>6. Holding(h, FALSE) /\ \A b2 : FactOfHolder(h, b2)
    BY <2>4 DEF Holding, Keeps, FindKeeps, FactOfHolder, FindPcs, First, AccessFirst, EvictFirst
  <2> QED BY <1>2, <1>3, <1>7, <2>2, <2>4, <2>5, <2>6, CallInv
<1>9. CASE f.hit \/ f.state = "I"
  <2>1. Found(c, f.state)
    BY <1>1, <1>9 DEF FindAndLockAction
  <2>2. MayCarry(b, f.addr)
    BY <1>6, <1>9 DEF Carries, MayCarry
  <2> QED BY <1>1, <1>2, <1>3, <1>6, <1>7, <2>1, <2>2, FoundInv
<1> QED BY <1>8, <1>9

\* EV_MOD_NMOESI_FIND_AND_LOCK_FINISH keeps the invariant.
LEMMA FindAndLockFinishInv ==
  ASSUME Inv, NEW c \in DOMAIN chain, Asserts(Top(c)), FindAndLockFinish(c)
  PROVE  Inv'
<1>1. PICK f : f = Top(c)
  OBVIOUS
<1>2. chain[c] # <<>> /\ UNCHANGED <<dir, access, fresh>> /\ f.pc = "FIND_AND_LOCK_FINISH"
  BY <1>1 DEF FindAndLockFinish, At
<1>3. f.pc \in FindPcs /\ f.pc \in FindKeeps /\ Holding(f, TRUE)
  BY <1>2 DEF FindPcs, FindKeeps, Holding, Keeps
<1>4. Where(f) = f.mod /\ Len(chain[c]) > 1 /\ f.pc \notin InvalidatePcs
  BY <1>1, <1>2, <1>3, FinderIs
<1>5. Acts(c, f)
  BY <1>1, <1>2 DEF Acts, Inv, Typed
<1>6. CASE f.err
  <2>1. Release(c, Return(c, Failed(Caller(c))), Where(f), f.way) /\ UNCHANGED block
    BY <1>1, <1>4, <1>6 DEF FindAndLockFinish
  <2> QED BY <2>1, <1>2, <1>3, <1>4, <1>5, FailFreeInv
<1>7. CASE ~f.err
  <2>1. Found(c, block[f.mod][f.way].state)
    BY <1>1, <1>7 DEF FindAndLockFinish
  <2>2. block[f.mod][f.way].state = "I"
    BY <1>1, <1>2, <1>7 DEF Asserts
  <2>3. MayCarry(block[f.mod][f.way], f.addr)
    BY <2>2 DEF MayCarry
  <2> QED BY <2>1, <2>3, <1>2, <1>3, <1>5, FoundInv
<1> QED BY <1>6, <1>7

-----------------------------------------------------------------------------
(* A lookup that locks an entry or waits for it.                             *)

\* The way that a lookup finds is one that matches.
LEMMA MatchIs ==
  ASSUME OneMatch, NEW m \in Mods, NEW a \in Blocks, Matches(m, a) # {}
  PROVE  Min(Matches(m, a)) \in Matches(m, a)
<1>1. PICK S : S = Matches(m, a)
  OBVIOUS
<1>2. PICK v \in S : \A u \in S : u = v
  BY <1>1 DEF OneMatch
<1>3. v \in Nat
  BY <1>1, <1>2 DEF Matches, Ways
<1>4. \A y \in S : v =< y
  BY <1>2, <1>3
<1>5. Min(S) \in S
  BY <1>2, <1>4 DEF Min
<1> QED BY <1>1, <1>5

\* What a lookup looks at is a way of the module; a hit finds the block there.
LEMMA VictimIs ==
  ASSUME Inv, NEW f \in FindFrames, Victims(f) \subseteq Ways(f.mod), NEW w \in Victims(f)
  PROVE  /\ w \in Ways(f.mod) /\ w \in Nat
         /\ Matches(f.mod, f.addr) # {} => w \in Matches(f.mod, f.addr)
<1>1. w \in Ways(f.mod)
  OBVIOUS
<1>2. w \in Nat
  BY <1>1 DEF Ways
<1>3. f.mod \in Mods /\ f.addr \in Blocks
  BY DEF FindFrames
<1>4. Matches(f.mod, f.addr) # {} => w = Min(Matches(f.mod, f.addr))
  BY DEF Victims
<1>5. Matches(f.mod, f.addr) # {} => Min(Matches(f.mod, f.addr)) \in Matches(f.mod, f.addr)
  BY <1>3, MatchIs DEF Inv
<1> QED BY <1>1, <1>2, <1>4, <1>5

\* The line w of m is marked with the block that is being brought.
MarkIs(m, w, a) ==
  /\ DOMAIN block' = Mods /\ \A n \in Mods : block'[n] \in [Ways(n) -> LineRecs]
  /\ block'[m][w].tag = block[m][w].tag /\ block'[m][w].state = block[m][w].state /\ block'[m][w].trans = a
  /\ \A n \in Mods : \A v \in Ways(n) : n # m \/ v # w => block'[n][v] = block[n][v]

\* Writing the transient tag changes nothing else (cache_set_transient_tag).
LEMMA Marked ==
  ASSUME Memory, NEW m \in Mods, NEW w \in Ways(m), NEW a \in Blocks, block' = [block EXCEPT ![m][w].trans = a]
  PROVE  MarkIs(m, w, a)
<1>1. PICK b : b = [block[m][w] EXCEPT !.trans = a]
  OBVIOUS
<1>2. block[m][w] \in LineRecs /\ DOMAIN block = Mods /\ \A n \in Mods : block[n] \in [Ways(n) -> LineRecs]
  BY DEF Memory
<1>3. b \in LineRecs /\ b.tag = block[m][w].tag /\ b.state = block[m][w].state /\ b.trans = a
  BY <1>1, <1>2 DEF LineRecs
<1>4. block' = [block EXCEPT ![m][w] = b]
  BY <1>1, <1>2
<1> QED BY <1>2, <1>3, <1>4 DEF MarkIs

\* c has locked the way w of m.
TakeIs(m, w, c) ==
  /\ lock'[m][w].by = c /\ \A n \in Mods : \A v \in Ways(n) : lock'[n][v].queue = lock[n][v].queue
  /\ \A n \in Mods : \A v \in Ways(n) : n # m \/ v # w => lock'[n][v] = lock[n][v]
  /\ Entries'

\* Locking an entry changes nothing else (dir_entry_lock).
LEMMA Taken ==
  ASSUME Entries, NEW m \in Mods, NEW w \in Ways(m), NEW c \in Names, lock' = [lock EXCEPT ![m][w].by = c]
  PROVE  TakeIs(m, w, c)
<1>1. DOMAIN lock = Mods /\ \A n \in Mods : lock[n] \in [Ways(n) -> LockRecs]
  BY DEF Entries
<1>2. PICK e : e = [lock[m][w] EXCEPT !.by = c]
  OBVIOUS
<1>3. e \in LockRecs /\ e.by = c /\ e.queue = lock[m][w].queue
  BY <1>1, <1>2 DEF LockRecs
<1>4. lock' = [lock EXCEPT ![m][w] = e]
  BY <1>1, <1>2
<1> QED BY <1>1, <1>3, <1>4 DEF TakeIs, Entries

\* An entry is locked for a: no other way of m has or expects a.
LEMMA GrantMatches ==
  ASSUME Inv, NEW m \in Mods, NEW w \in Ways(m), NEW a \in Blocks, NEW c, MarkIs(m, w, a), TakeIs(m, w, c),
         Matches(m, a) # {} => w \in Matches(m, a)
  PROVE  OneMatch'
<1>1. ASSUME NEW n \in Mods, NEW b \in Blocks, NEW v \in Ways(n), n # m \/ b # a,
             \/ block'[n][v].tag = b /\ block'[n][v].state # "I"
             \/ block'[n][v].trans = b /\ lock'[n][v].by # <<>>
      PROVE  v \in Matches(n, b)
  <2>1. CASE n = m /\ v = w
    BY <1>1, <2>1 DEF MarkIs, Matches
  <2>2. CASE n # m \/ v # w
    BY <1>1, <2>2 DEF MarkIs, TakeIs, Matches
  <2> QED BY <2>1, <2>2
<1>2. ASSUME NEW v \in Ways(m),
             \/ block'[m][v].tag = a /\ block'[m][v].state # "I"
             \/ block'[m][v].trans = a /\ lock'[m][v].by # <<>>
      PROVE  v = w
  <2>1. v = w \/ v \in Matches(m, a)
    BY <1>2 DEF MarkIs, TakeIs, Matches
  <2>2. v \in Matches(m, a) => v = w
    BY DEF Inv, OneMatch
  <2> QED BY <2>1, <2>2
<1>3. \A n \in Mods, b \in Blocks : \A u, v \in Matches(n, b) : u = v
  BY DEF Inv, OneMatch
<1>4. ASSUME NEW n \in Mods, NEW b \in Blocks, NEW u \in Ways(n), NEW v \in Ways(n),
             \/ block'[n][u].tag = b /\ block'[n][u].state # "I"
             \/ block'[n][u].trans = b /\ lock'[n][u].by # <<>>,
             \/ block'[n][v].tag = b /\ block'[n][v].state # "I"
             \/ block'[n][v].trans = b /\ lock'[n][v].by # <<>>
      PROVE  u = v
  <2>1. CASE n = m /\ b = a
    BY <2>1, <1>2, <1>4
  <2>2. CASE n # m \/ b # a
    BY <2>2, <1>1, <1>3, <1>4
  <2> QED BY <2>1, <2>2
<1> QED BY <1>4 DEF OneMatch, Matches

\* A lookup that locks its entry keeps the invariant: no other way can match its block.
LEMMA FindAndLockGrantInv ==
  ASSUME Inv, NEW c \in DOMAIN chain, Asserts(Top(c)), FindAndLockGrant(c)
  PROVE  Inv'
<1>1. PICK f, m : f = Top(c) /\ m = f.mod
  OBVIOUS
<1>2. chain[c] # <<>> /\ UNCHANGED <<dir, access, fresh>> /\ f.pc = "FIND_AND_LOCK"
  BY <1>1 DEF FindAndLockGrant, At
<1>3. PICK w \in Victims(f) :
        /\ lock[m][w].by = <<>>
        /\ lock' = [lock EXCEPT ![m][w].by = c]
        /\ block' = [block EXCEPT ![m][w].trans = f.addr]
        /\ chain' = Step(c, Goto(c, [f EXCEPT !.pc = "FIND_AND_LOCK_ACTION", !.way = w,
                                              !.hit = Matches(m, f.addr) # {}, !.state = block[m][w].state]))
  BY <1>1 DEF FindAndLockGrant
<1>4. f.pc \in FindPcs /\ ~Holding(f, TRUE)
  BY <1>2 DEF FindPcs, Holding, Keeps, First, AccessFirst, AccessKeeps, EvictFirst, FindKeeps, ReadKeeps, WriteKeeps
<1>5. f \in FindFrames /\ m \in Mods /\ f.addr \in Blocks /\ Where(f) = m
  BY <1>1, <1>2, <1>4, FinderIs
<1>6. w \in Ways(m) /\ w \in Nat /\ (Matches(m, f.addr) # {} => w \in Matches(m, f.addr))
  <2>1. Victims(f) \subseteq Ways(f.mod)
    BY <1>1, <1>2 DEF Asserts
  <2> QED BY <2>1, <1>1, <1>5, VictimIs
<1>7. /\ c # <<>> /\ Well(c, chain[c], lock, block, dir) /\ c \in Names /\ c \in DOMAIN chain
      /\ Memory /\ Entries /\ Chains /\ Forks /\ Queues /\ Lockers
  BY <1>2, Enter DEF Inv, Typed, Forks, Names
<1>8. MarkIs(m, w, f.addr) /\ TakeIs(m, w, c)
  <2>1. PICK a : a = f.addr
    OBVIOUS
  <2>2. MarkIs(m, w, a)
    BY <2>1, <1>3, <1>5, <1>6, <1>7, Marked
  <2>3. TakeIs(m, w, c)
    BY <1>3, <1>5, <1>6, <1>7, Taken
  <2> QED BY <2>1, <2>2, <2>3
<1>9. block[m][w] \in LineRecs
  BY <1>5, <1>6, <1>7, DirIs
<1>10. PICK h : h = [f EXCEPT !.pc = "FIND_AND_LOCK_ACTION", !.way = w,
                              !.hit = Matches(m, f.addr) # {}, !.state = block[m][w].state]
  OBVIOUS
<1>11. /\ h \in FindFrames /\ h.pc = "FIND_AND_LOCK_ACTION" /\ h.way = w /\ h.mod = m /\ h.addr = f.addr
       /\ h.hit <=> Matches(m, f.addr) # {}
       /\ h.state = block[m][w].state
  <2>1. block[m][w].state \in States /\ (Matches(m, f.addr) # {}) \in BOOLEAN
    BY <1>9 DEF LineRecs
  <2> QED BY <2>1, <1>1, <1>5, <1>6, <1>10 DEF FindFrames, FindPcs, FindKeeps
<1>12. h.pc \in FindPcs /\ Similar(f, h) /\ Where(h) = m /\ h.pc \notin EvictPcs /\ h.pc \notin InvalidatePcs
  <2>1. h.pc \in FindPcs
    BY <1>11 DEF FindPcs, FindKeeps
  <2> QED BY <2>1, <1>1, <1>5, <1>11, FindTo
<1>13. FactOfHolder(h, block'[m][w])
  <2>1. h.state = block'[m][w].state
    BY <1>8, <1>11 DEF MarkIs
  <2>2. h.hit => Carries(block'[m][w], h.addr)
    BY <1>3, <1>6, <1>8, <1>11 DEF MarkIs, Matches, Carries
  <2> QED BY <2>1, <2>2, <1>12 DEF FactOfHolder
<1>14. Turned(c, Goto(c, h))
  <2>1. \A n \in Mods : \A v \in Ways(n) :
          Still(n, v) \/ lock[n][v].by = <<>> \/ (Holding(f, TRUE) /\ Where(f) = n /\ f.way = v)
    <3>1. ASSUME NEW n \in Mods, NEW v \in Ways(n), n # m \/ v # w PROVE Still(n, v)
      BY <1>2, <1>8, <3>1 DEF Still, MarkIs, TakeIs
    <3> QED BY <3>1, <1>3
  <2>2. Holding(h, TRUE) =>
          Holds(c, h) /\ (lock[Where(h)][h.way].by = <<>> \/ (Holding(f, TRUE) /\ h.way = f.way))
    BY <1>3, <1>6, <1>8, <1>11, <1>12, <1>13 DEF Holds, MarkIs, TakeIs
  <2>3. Sees(h)
    BY <1>12 DEF Sees
  <2> QED BY <2>1, <2>2, <2>3, <1>1, <1>2, <1>4, <1>7, <1>12, Going
<1>15. chain' = Step(c, Goto(c, h))
  BY <1>3, <1>10
<1>16. DOMAIN chain' = DOMAIN chain /\ chain'[c] = Goto(c, h) /\ Others(c)
  BY <1>15, StepIs DEF Others
<1>17. Locks(c, Goto(c, h))
  <2>1. PICK t : t = Goto(c, h)
    OBVIOUS
  <2>2. chain[c] \in Seq(Frames) /\ Len(chain[c]) \in Nat /\ Len(chain[c]) > 0
    BY <1>2, <1>7 DEF Well, Shape
  <2>3. Len(t) = Len(chain[c]) /\ t[Len(t)] = h /\ Len(t) \in 1 .. Len(t)
    <3>1. h \in Frames
      BY <1>11 DEF Frames
    <3>2. Len(Goto(c, h)) = Len(chain[c]) /\ Goto(c, h)[Len(chain[c])] = h
      BY <3>1, <2>2, <1>2, GotoIs
    <3> QED BY <3>2, <2>1, <2>2
  <2>4. HoldsAt(t, Len(t))
    BY <2>3, <1>11 DEF HoldsAt, Holding, Keeps, FindKeeps
  <2>5. \A n \in Mods : \A v \in Ways(n) :
          \/ lock'[n][v].by = lock[n][v].by \/ lock'[n][v].by = <<>>
          \/ /\ lock'[n][v].by = c
             /\ \E i \in 1 .. Len(t) : HoldsAt(t, i) /\ Where(t[i]) = n /\ t[i].way = v
    BY <2>3, <2>4, <1>8, <1>11, <1>12 DEF TakeIs
  <2> QED BY <2>1, <2>5 DEF Locks
<1>18. Chains' /\ Forks' /\ Lockers'
  BY <1>1, <1>2, <1>7, <1>14, <1>16, <1>17, OthersKept
<1>19. Queues'
  BY <1>1, <1>2, <1>7, <1>8, <1>15, QueuesKept DEF TakeIs
<1>20. OneMatch'
  BY <1>5, <1>6, <1>8, GrantMatches
<1>21. Lines'
  BY <1>2, <1>8 DEF MarkIs, Inv, Lines
<1>22. Typed'
  BY <1>2, <1>7, <1>8, <1>16 DEF MarkIs, TakeIs, Inv, Typed, Memory, Served
<1> QED BY <1>18, <1>19, <1>20, <1>21, <1>22 DEF Inv

\* c waits at the tail of the queue of the entry w of m.
QueuedIs(m, w, c) ==
  /\ \A n \in Mods : \A v \in Ways(n) : lock'[n][v].by = lock[n][v].by
  /\ lock'[m][w].queue = Append(lock[m][w].queue, c)
  /\ \A n \in Mods : \A v \in Ways(n) : n # m \/ v # w => lock'[n][v] = lock[n][v]
  /\ Entries'

\* Going to sleep changes one queue and nothing else.
LEMMA Queued ==
  ASSUME Entries, NEW m \in Mods, NEW w \in Ways(m), NEW c \in Names, lock' = [lock EXCEPT ![m][w].queue = Append(@, c)]
  PROVE  QueuedIs(m, w, c)
<1>1. DOMAIN lock = Mods /\ \A n \in Mods : lock[n] \in [Ways(n) -> LockRecs]
  BY DEF Entries
<1>2. PICK q : q = Append(lock[m][w].queue, c)
  OBVIOUS
<1>3. PICK e : e = [lock[m][w] EXCEPT !.queue = q]
  OBVIOUS
<1>4. q \in Seq(Names)
  <2>1. lock[m][w].queue \in Seq(Names)
    BY <1>1 DEF LockRecs
  <2> QED BY <2>1, <1>2
<1>5. e \in LockRecs /\ e.by = lock[m][w].by /\ e.queue = q
  BY <1>1, <1>3, <1>4 DEF LockRecs
<1>6. lock' = [lock EXCEPT ![m][w] = e]
  BY <1>1, <1>2, <1>3
<1>7. lock'[m][w] = e /\ \A n \in Mods : \A v \in Ways(n) : n # m \/ v # w => lock'[n][v] = lock[n][v]
  BY <1>1, <1>6
<1>8. Entries'
  <2>1. DOMAIN lock' = Mods /\ lock'[m] = [lock[m] EXCEPT ![w] = e] /\ \A n \in Mods \ {m} : lock'[n] = lock[n]
    BY <1>1, <1>6
  <2>2. lock'[m] \in [Ways(m) -> LockRecs]
    BY <2>1, <1>1, <1>5
  <2> QED BY <2>1, <2>2, <1>1 DEF Entries
<1>9. \A n \in Mods : \A v \in Ways(n) : lock'[n][v].by = lock[n][v].by
  BY <1>5, <1>7
<1> QED BY <1>2, <1>5, <1>7, <1>8, <1>9 DEF QueuedIs

\* A lookup that goes to sleep is at the end of the queue of its entry.
LEMMA QueuesJoined ==
  ASSUME Queues, NEW c \in DOMAIN chain, Top(c).pc # "DIR_WAIT", NEW t, chain' = Step(c, t),
         NEW m \in Mods, NEW w \in Ways(m), QueuedIs(m, w, c),
         t # <<>>, Last(t).pc = "DIR_WAIT", Last(t).mod = m, Last(t).way = w
  PROVE  Queues'
<1>1. DOMAIN chain' = DOMAIN chain /\ chain'[c] = t /\ \A d \in DOMAIN chain \ {c} : chain'[d] = chain[d]
  BY StepIs
<1>2. ASSUME NEW n \in Mods, NEW v \in Ways(n), NEW q, q = lock[n][v].queue
      PROVE  /\ q \in Seq(DOMAIN chain)
             /\ \A i \in 1 .. Len(q) : /\ q[i] \in DOMAIN chain /\ q[i] # c
                                       /\ chain'[q[i]] # <<>> /\ Last(chain'[q[i]]).pc = "DIR_WAIT"
                                       /\ Last(chain'[q[i]]).mod = n /\ Last(chain'[q[i]]).way = v
             /\ \A i, j \in 1 .. Len(q) : q[i] = q[j] => i = j
  <2>1. /\ q \in Seq(DOMAIN chain)
        /\ \A i \in 1 .. Len(q) : At(q[i], "DIR_WAIT") /\ Top(q[i]).mod = n /\ Top(q[i]).way = v
        /\ \A i, j \in 1 .. Len(q) : q[i] = q[j] => i = j
    BY <1>2 DEF Queues
  <2>2. ASSUME NEW i \in 1 .. Len(q)
        PROVE  /\ q[i] \in DOMAIN chain /\ q[i] # c
               /\ chain'[q[i]] # <<>> /\ Last(chain'[q[i]]).pc = "DIR_WAIT"
               /\ Last(chain'[q[i]]).mod = n /\ Last(chain'[q[i]]).way = v
    <3>1. PICK d : d = q[i]
      OBVIOUS
    <3>2. d \in DOMAIN chain /\ At(d, "DIR_WAIT") /\ Top(d).mod = n /\ Top(d).way = v
      BY <2>1, <3>1
    <3>3. chain'[d] = chain[d] /\ d # c
      BY <1>1, <3>2 DEF At
    <3> QED BY <3>1, <3>2, <3>3 DEF At, Top
  <2> QED BY <2>1, <2>2
<1>3. ASSUME NEW n \in Mods, NEW v \in Ways(n), NEW q, q = lock'[n][v].queue
      PROVE  /\ q \in Seq(DOMAIN chain')
             /\ \A i \in 1 .. Len(q) : /\ chain'[q[i]] # <<>> /\ Last(chain'[q[i]]).pc = "DIR_WAIT"
                                       /\ Last(chain'[q[i]]).mod = n /\ Last(chain'[q[i]]).way = v
             /\ \A i, j \in 1 .. Len(q) : q[i] = q[j] => i = j
  <2>1. CASE n # m \/ v # w
    <3>1. q = lock[n][v].queue
      BY <2>1, <1>3 DEF QueuedIs
    <3> QED BY <3>1, <1>1, <1>2
  <2>2. CASE n = m /\ v = w
    <3>1. PICK p : p = lock[m][w].queue
      OBVIOUS
    <3>2. /\ p \in Seq(DOMAIN chain)
          /\ \A i \in 1 .. Len(p) : /\ p[i] # c
                                    /\ chain'[p[i]] # <<>> /\ Last(chain'[p[i]]).pc = "DIR_WAIT"
                                    /\ Last(chain'[p[i]]).mod = m /\ Last(chain'[p[i]]).way = w
          /\ \A i, j \in 1 .. Len(p) : p[i] = p[j] => i = j
      BY <3>1, <1>2
    <3>3. q = Append(p, c)
      BY <2>2, <3>1, <1>3 DEF QueuedIs
    <3>4. /\ q \in Seq(DOMAIN chain) /\ Len(p) \in Nat /\ Len(q) = Len(p) + 1 /\ q[Len(p) + 1] = c
          /\ \A i \in 1 .. Len(p) : q[i] = p[i]
      BY <3>2, <3>3
    <3>5. \A i \in 1 .. Len(q) : i \in 1 .. Len(p) \/ i = Len(p) + 1
      BY <3>4
    <3>6. \A i \in 1 .. Len(q) : /\ chain'[q[i]] # <<>> /\ Last(chain'[q[i]]).pc = "DIR_WAIT"
                                 /\ Last(chain'[q[i]]).mod = m /\ Last(chain'[q[i]]).way = w
      BY <3>2, <3>4, <3>5, <1>1
    <3>7. \A i, j \in 1 .. Len(q) : q[i] = q[j] => i = j
      BY <3>2, <3>4, <3>5
    <3> QED BY <2>2, <3>4, <3>6, <3>7, <1>1
  <2> QED BY <2>1, <2>2
<1> QED BY <1>3 DEF Queues, At, Top

\* A lookup that goes to sleep keeps the invariant.
LEMMA FindAndLockWaitInv ==
  ASSUME Inv, NEW c \in DOMAIN chain, Asserts(Top(c)), FindAndLockWait(c)
  PROVE  Inv'
<1>1. PICK f, m, g : f = Top(c) /\ m = f.mod /\ g = Caller(c)
  OBVIOUS
<1>2. chain[c] # <<>> /\ UNCHANGED <<block, dir, access, fresh>> /\ f.pc = "FIND_AND_LOCK"
  BY <1>1 DEF FindAndLockWait, At
<1>3. PICK w \in Victims(f) :
        /\ lock' = [lock EXCEPT ![m][w].queue = Append(@, c)]
        /\ chain' = Step(c, [Goto(c, [f EXCEPT !.pc = "DIR_WAIT", !.way = w])
                               EXCEPT ![Len(chain[c]) - 1] = [g EXCEPT !.way = w]])
  BY <1>1 DEF FindAndLockWait
<1>4. f.pc \in FindPcs /\ ~Holding(f, TRUE)
  BY <1>2 DEF FindPcs, Holding, Keeps, First, AccessFirst, AccessKeeps, EvictFirst, FindKeeps, ReadKeeps, WriteKeeps
<1>5. /\ f \in FindFrames /\ m \in Mods /\ f.addr \in Blocks /\ Where(f) = m /\ Len(chain[c]) > 1
      /\ g \in Frames /\ Link(g, f) /\ g.pc \in First /\ Where(g) = m /\ g.addr = f.addr
      /\ ~Holding(g, FALSE)
  BY <1>1, <1>2, <1>4, FinderIs
<1>6. w \in Ways(m) /\ w \in Nat
  <2>1. Victims(f) \subseteq Ways(f.mod)
    BY <1>1, <1>2 DEF Asserts
  <2> QED BY <2>1, <1>1, <1>5, VictimIs
<1>7. /\ c # <<>> /\ Well(c, chain[c], lock, block, dir) /\ c \in Names /\ c \in DOMAIN chain
      /\ Memory /\ Entries /\ Chains /\ Forks /\ Queues /\ Lockers
  BY <1>2, Enter DEF Inv, Typed, Forks, Names
<1>8. QueuedIs(m, w, c)
  BY <1>3, <1>5, <1>6, <1>7, Queued
<1>9. PICK h, g2 : h = [f EXCEPT !.pc = "DIR_WAIT", !.way = w] /\ g2 = [g EXCEPT !.way = w]
  OBVIOUS
<1>10. h \in FindFrames /\ h.pc = "DIR_WAIT" /\ h.way = w /\ h.mod = m /\ h.addr = f.addr
  BY <1>1, <1>5, <1>6, <1>9 DEF FindFrames, FindPcs, FindKeeps
<1>11. h.pc \in FindPcs /\ h \in Frames /\ Similar(f, h) /\ Where(h) = m /\ h.pc \notin EvictPcs /\ h.pc \notin InvalidatePcs
  <2>1. h.pc \in FindPcs
    BY <1>10 DEF FindPcs, FindKeeps
  <2>2. Similar(f, h) /\ Where(h) = m /\ h.pc \notin EvictPcs /\ h.pc \notin InvalidatePcs
    BY <2>1, <1>1, <1>5, <1>10, FindTo
  <2> QED BY <2>1, <2>2, <1>10 DEF Frames
<1>12. Gets(g, g2, w)
  BY <1>5, <1>6, <1>9, FirstWaits
<1>13. /\ Similar(g, g2) /\ g2.pc = g.pc /\ g2.way = w /\ g2.addr = g.addr /\ g2.mod = g.mod
       /\ g2.pc \in EvictPcs => g2.srcWay = g.srcWay /\ g2.pc # "EVICT_INVALID"
       /\ g2.pc \notin InvalidatePcs /\ g2 \in Frames
  BY <1>12 DEF Gets, Similar
<1>14. Where(g2) = m
  BY <1>5, <1>13, SimilarWhere
<1>15. Link(g2, h)
  BY <1>5, <1>10, <1>11, <1>13, <1>14 DEF Link
<1>16. ~Holding(h, TRUE) /\ ~Holding(g2, FALSE)
  <2>1. ~Holding(h, TRUE)
    BY <1>10 DEF Holding, Keeps, First, AccessFirst, AccessKeeps, EvictFirst, FindKeeps, ReadKeeps, WriteKeeps
  <2> QED BY <2>1, <1>5, <1>13 DEF Holding
<1>17. g2.pc \in EvictPcs => FactOfEvict(g2, block[g2.mod][g2.srcWay]) /\ g2.pc # "EVICT_INVALID"
  <2>1. g.pc \in EvictPcs => FactOfEvict(g, block[g.mod][g.srcWay])
    BY <1>1, <1>2, <1>5, EnterCaller
  <2> QED BY <2>1, <1>5, <1>13 DEF FactOfEvict
<1>18. PICK s, n, k, t : s = chain[c] /\ n = Len(s) /\ k = n - 2 /\ t = [Goto(c, h) EXCEPT ![n - 1] = g2]
  OBVIOUS
<1>19. /\ s \in Seq(Frames) /\ n \in Nat /\ n > 1 /\ k \in Nat /\ k < n /\ k + 1 = n - 1 /\ s[n] = f /\ s[n - 1] = g
       /\ n = (n - 1) + 1
  <2>1. s \in Seq(Frames) /\ n > 1 /\ s[n] = f
    BY <1>1, <1>2, <1>5, <1>7, <1>18 DEF Well, Shape, Top, Last
  <2>2. n \in Nat /\ k \in Nat /\ k < n /\ k + 1 = n - 1 /\ n = (n - 1) + 1
    BY <2>1, <1>18
  <2>3. s[n - 1] = g
    BY <1>1, <1>18 DEF Caller
  <2> QED BY <2>1, <2>2, <2>3
<1>20. /\ t \in Seq(Frames) /\ Len(t) = n /\ t[n] = h /\ t[n - 1] = g2 /\ \A i \in 1 .. k : t[i] = s[i]
  <2>1. PICK u : u = Goto(c, h)
    OBVIOUS
  <2>2. u \in Seq(Frames) /\ Len(u) = n /\ u[n] = h /\ \A i \in 1 .. n - 1 : u[i] = s[i]
    <3>1. chain[c] \in Seq(Frames) /\ chain[c] # <<>> /\ h \in Frames
      BY <1>2, <1>11, <1>18, <1>19
    <3>2. /\ Goto(c, h) \in Seq(Frames) /\ Len(Goto(c, h)) = Len(chain[c]) /\ Goto(c, h)[Len(chain[c])] = h
          /\ \A i \in 1 .. Len(chain[c]) - 1 : Goto(c, h)[i] = chain[c][i]
      BY <3>1, GotoIs
    <3> QED BY <3>2, <2>1, <1>18, Zenon
  <2>3. t = [u EXCEPT ![n - 1] = g2]
    BY <2>1, <1>18
  <2>4. n - 1 \in 1 .. n /\ n - 1 # n /\ \A i \in 1 .. k : i \in 1 .. n - 1 /\ i # n - 1
    BY <1>19
  <2> QED BY <2>2, <2>3, <2>4, <1>13, <1>19
<1>21. /\ k + 1 \in k + 1 .. n /\ n \in k + 1 .. n /\ \A i \in k + 1 .. n : i = n \/ i = n - 1
       /\ n - 1 # n /\ \A i \in k + 1 .. n - 1 : i = n - 1
  BY <1>19
<1>22. \A i \in k + 1 .. Len(t) : ~HoldsAt(t, i)
  BY <1>16, <1>19, <1>20, <1>21 DEF HoldsAt
<1>23. Rewrites(s, t, k)
  BY <1>13, <1>15, <1>18, <1>19, <1>20, <1>21 DEF Rewrites
<1>24. Touches(s, k)
  BY <1>2, <1>8 DEF Touches, Still, QueuedIs
<1>25. Takes(c, s, t, k)
  BY <1>22 DEF Takes
<1>26. Learns(t, k)
  <2>1. \A i \in k + 1 .. Len(t) : t[i] = h \/ t[i] = g2
    BY <1>19, <1>20, <1>21
  <2> QED BY <2>1, <1>2, <1>11, <1>13, <1>17, <1>22 DEF Learns, HolderFact, EvictFact, InvalidateFact
<1>27. Hands(c, s, t, k)
  <2>1. \A j \in k + 1 .. Len(s) : ~HoldsAt(s, j)
    BY <1>4, <1>5, <1>18, <1>19, <1>21 DEF HoldsAt
  <2> QED BY <2>1 DEF Hands
<1>28. Turned(c, t)
  BY <1>7, <1>18, <1>19, <1>20, <1>23, <1>24, <1>25, <1>26, <1>27, Turning
<1>29. chain' = Step(c, t)
  BY <1>3, <1>9, <1>18
<1>30. DOMAIN chain' = DOMAIN chain /\ chain'[c] = t /\ Others(c)
  BY <1>29, StepIs DEF Others
<1>31. Locks(c, t)
  BY <1>8 DEF Locks, QueuedIs
<1>32. Chains' /\ Forks' /\ Lockers'
  BY <1>1, <1>2, <1>7, <1>28, <1>30, <1>31, OthersKept
<1>33. Queues'
  <2>1. t # <<>> /\ Last(t) = h
    BY <1>19, <1>20 DEF Last
  <2> QED BY <2>1, <1>1, <1>2, <1>5, <1>6, <1>7, <1>8, <1>10, <1>29, QueuesJoined
<1>34. Lines' /\ OneMatch'
  <2>1. \A n2 \in Mods : \A v \in Ways(n2) : lock'[n2][v].by = lock[n2][v].by
    BY <1>8 DEF QueuedIs
  <2>2. Lines'
    BY <1>2 DEF Inv, Lines
  <2>3. OneMatch'
    BY <2>1, <1>2 DEF Inv, OneMatch, Matches
  <2> QED BY <2>2, <2>3
<1>35. Typed'
  BY <1>2, <1>8, <1>30 DEF QueuedIs, Inv, Typed, Memory, Served
<1> QED BY <1>32, <1>33, <1>34, <1>35 DEF Inv

-----------------------------------------------------------------------------
(* Evictions.                                                                *)

\* Who evicts a line, and that it holds the line.
LEMMA EvictIs ==
  ASSUME Inv, NEW c \in DOMAIN chain, chain[c] # <<>>, NEW f, f = Top(c), f.pc \in EvictPcs, NEW g, g = Caller(c)
  PROVE  /\ f \in EvictFrames /\ f.mod \in Mods /\ f.addr \in Blocks /\ Len(chain[c]) > 1 /\ f.pc \notin InvalidatePcs
         /\ g \in Frames /\ Link(g, f) /\ g.pc \in {"FIND_AND_LOCK_FINISH", "NC_STORE_ACTION"}
         /\ Where(g) = f.mod /\ g.way = f.srcWay /\ Holding(g, FALSE) /\ f.srcWay \in Ways(f.mod)
         /\ g.pc = "NC_STORE_ACTION" => g.state \in {"M", "O"}
         /\ g.pc \notin InvalidatePcs /\ g.pc \notin EvictPcs
<1>1. f.pc \notin AccessPcs /\ f.pc \notin WritePcs /\ f.pc \notin InvalidatePcs
  BY DEF EvictPcs, EvictFirst, AccessPcs, AccessFirst, AccessKeeps, WritePcs, WriteKeeps, InvalidatePcs
<1>2. f \in Frames /\ Len(chain[c]) > 1
  BY <1>1, Enter
<1>3. f \in EvictFrames
  BY <1>2, ByPc
<1>4. g \in Frames /\ Link(g, f)
  BY <1>2, EnterCaller
<1>5. /\ g.pc \in {"FIND_AND_LOCK_FINISH", "NC_STORE_ACTION"} /\ f.mod = g.mod /\ f.srcWay = g.way
      /\ g.pc = "NC_STORE_ACTION" => g.state \in {"M", "O"}
  BY <1>4 DEF Link, FindPcs, FindKeeps, EvictPcs, EvictFirst, InvalidatePcs, ReadPcs, ReadKeeps, WritePcs, WriteKeeps
<1>6. /\ Holding(g, FALSE) /\ Where(g) = g.mod /\ g.pc \notin InvalidatePcs /\ g.pc \notin EvictPcs
  BY <1>5 DEF Holding, Keeps, AccessKeeps, FindKeeps, Where, EvictPcs, EvictFirst, InvalidatePcs, ReadPcs, ReadKeeps, WritePcs, WriteKeeps
<1>7. f.srcWay \in Ways(f.mod)
  <2>1. g.way \in Ways(Where(g))
    BY <1>2, <1>6, EnterCaller
  <2> QED BY <2>1, <1>5, <1>6
<1> QED BY <1>1, <1>2, <1>3, <1>4, <1>5, <1>6, <1>7 DEF EvictFrames

\* The evicted line is invalidated, and the eviction has succeeded.
LEMMA EvictedInv ==
  ASSUME NEW c, NEW f, Acts(c, f), f.pc \in {"EVICT_INVALID", "EVICT_REPLY_RECEIVE"}, UNCHANGED dir,
         dir[f.mod][f.srcWay].sharers = {}, block' = SetBlock(f.mod, f.srcWay, None, "I"),
         Resume(c, Return(c, [Caller(c) EXCEPT !.err = FALSE]))
  PROVE  Inv'
<1>1. PICK g, h, m, w : g = Caller(c) /\ h = [g EXCEPT !.err = FALSE] /\ m = f.mod /\ w = f.srcWay
  OBVIOUS
<1>2. Inv /\ c \in DOMAIN chain /\ chain[c] # <<>> /\ f = Top(c)
  BY DEF Acts
<1>3. f.pc \in EvictPcs /\ ~Holding(f, TRUE)
  BY DEF EvictPcs, Holding, Keeps, First, AccessFirst, AccessKeeps, EvictFirst, FindKeeps, ReadKeeps, WriteKeeps
<1>4. /\ m \in Mods /\ Len(chain[c]) > 1 /\ g \in Frames /\ g.pc \in {"FIND_AND_LOCK_FINISH", "NC_STORE_ACTION"}
      /\ Where(g) = m /\ g.way = w /\ Holding(g, FALSE) /\ w \in Ways(m)
      /\ g.pc = "NC_STORE_ACTION" => g.state \in {"M", "O"}
      /\ g.pc \notin InvalidatePcs /\ g.pc \notin EvictPcs
  BY <1>1, <1>2, <1>3, EvictIs
<1>5. Changed(m, w) /\ block'[m][w].state = "I"
  <2>1. block' = SetBlock(m, w, None, "I") /\ dir[m][w].sharers = {}
    BY <1>1
  <2> QED BY <2>1, <1>2, <1>4, Emptied
<1>6. Alike(g, h)
  BY <1>1, <1>4, FailedIs
<1>7. Similar(g, h) /\ h.pc = g.pc /\ h.way = g.way /\ h.state = g.state
  BY <1>4, <1>6 DEF Alike
<1>8. Where(h) = m
  BY <1>4, <1>7, SimilarWhere
<1>9. FactOfHolder(h, block'[m][w])
  <2>1. CASE h.pc = "FIND_AND_LOCK_FINISH"
    BY <2>1 DEF FactOfHolder, FindPcs, FindKeeps, First, AccessFirst, EvictFirst
  <2>2. CASE h.pc = "NC_STORE_ACTION"
    <3>1. h.state \in {"M", "O"} /\ h \in Frames
      BY <2>2, <1>4, <1>7 DEF Similar
    <3>2. h \in AccessFrames
      BY <3>1, <2>2, ByPc DEF AccessPcs, AccessKeeps
    <3>3. Where(h) \in Caches
      BY <3>2, <2>2 DEF AccessFrames, Where, EvictPcs, EvictFirst, ReadPcs, ReadKeeps, WritePcs, WriteKeeps
    <3>4. ~Solid(h)
      BY <3>1, <2>2 DEF Solid, Nc
    <3>5. MayCarry(block'[m][w], h.addr)
      BY <1>5 DEF MayCarry
    <3> QED BY <3>3, <3>4, <3>5, <2>2 DEF FactOfHolder, First, AccessFirst, EvictFirst
  <2> QED BY <2>1, <2>2, <1>4, <1>7
<1>10. Holding(h, TRUE) /\ h.pc \notin EvictPcs /\ h.pc \notin InvalidatePcs
  BY <1>4, <1>7 DEF Holding, Keeps, AccessKeeps, FindKeeps
<1> QED BY <1>1, <1>3, <1>4, <1>5, <1>7, <1>9, <1>10, VacateInv

\* EV_MOD_NMOESI_EVICT_REPLY_RECEIVE keeps the invariant.
LEMMA EvictReplyInv ==
  ASSUME Inv, NEW c \in DOMAIN chain, Asserts(Top(c)), EvictReply(c)
  PROVE  Inv'
<1>1. PICK f : f = Top(c)
  OBVIOUS
<1>2. /\ chain[c] # <<>> /\ UNCHANGED <<dir, access>> /\ f.pc = "EVICT_REPLY_RECEIVE"
      /\ block' = SetBlock(f.mod, f.srcWay, None, "I") /\ fresh' = Dropped(f.mod, f.addr)
      /\ Resume(c, Return(c, [Caller(c) EXCEPT !.err = FALSE]))
  BY <1>1 DEF EvictReply, At
<1>3. f.mod \in Mods /\ f.addr \in Blocks
  BY <1>1, <1>2, EvictIs DEF EvictPcs
<1>4. fresh' \subseteq Mods \X Blocks
  <2>1. fresh \subseteq Mods \X Blocks
    BY DEF Inv, Typed
  <2> QED BY <2>1, <1>2 DEF Dropped
<1>5. dir[f.mod][f.srcWay].sharers = {}
  BY <1>1, <1>2 DEF Asserts, Unused
<1>6. Acts(c, f)
  BY <1>1, <1>2, <1>4 DEF Acts
<1> QED BY <1>2, <1>5, <1>6, EvictedInv

\* EV_MOD_NMOESI_EVICT_INVALID and EVICT_ACTION keep the invariant.
LEMMA EvictActionInv ==
  ASSUME Inv, NEW c \in DOMAIN chain, EvictAction(c)
  PROVE  Inv'
<1>1. PICK f, s : f = Top(c) /\ s = block[f.mod][f.srcWay].state
  OBVIOUS
<1>2. chain[c] # <<>> /\ UNCHANGED <<dir, access, fresh>> /\ f.pc = "EVICT_INVALID"
  BY <1>1 DEF EvictAction, At
<1>3. f.pc \in EvictPcs /\ ~Holding(f, TRUE)
  BY <1>2 DEF EvictPcs, Holding, Keeps, First, AccessFirst, AccessKeeps, EvictFirst, FindKeeps, ReadKeeps, WriteKeeps
<1>4. f \in EvictFrames /\ f.mod \in Mods /\ f.addr \in Blocks /\ Len(chain[c]) > 1 /\ f.srcWay \in Ways(f.mod)
  BY <1>1, <1>2, <1>3, EvictIs
<1>5. dir[f.mod][f.srcWay].sharers = {} /\ MayCarry(block[f.mod][f.srcWay], f.addr)
  BY <1>1, <1>2, <1>3, Enter DEF FactOfEvict
<1>6. Acts(c, f)
  BY <1>1, <1>2 DEF Acts, Inv, Typed
<1>7. CASE Main(f.mod) \/ s = "I"
  <2>1. block' = SetBlock(f.mod, f.srcWay, None, "I") /\ Resume(c, Return(c, [Caller(c) EXCEPT !.err = FALSE]))
    BY <1>1, <1>7 DEF EvictAction
  <2> QED BY <2>1, <1>2, <1>5, <1>6, EvictedInv
<1>8. CASE ~(Main(f.mod) \/ s = "I")
  <2>1. PICK h, gs : /\ h = [f EXCEPT !.pc = IF s = "N" THEN "EVICT_PROCESS_NONCOHERENT" ELSE "EVICT_PROCESS",
                                      !.state = s, !.reply = IF s \in Dirty THEN "ack_data" ELSE "ack",
                                      !.data = CopyOf(f.mod, f.addr)]
                     /\ gs = <<FindFrame(Low[f.mod], f.addr, FALSE, f.way)>>
    OBVIOUS
  <2>2. Resume(c, Call(c, h, gs)) /\ UNCHANGED block
    BY <1>1, <1>8, <2>1 DEF EvictAction
  <2>3. f.mod \in Caches /\ Low[f.mod] \in Mods
    BY <1>4, <1>8, TreeAssumption DEF Main, Caches, TreeAssumption
  <2>4. s \in States /\ CopyOf(f.mod, f.addr) \in Contents
    <3>1. block[f.mod][f.srcWay] \in LineRecs
      BY <1>4, DirIs DEF Inv, Typed
    <3> QED BY <3>1, <1>1 DEF LineRecs, CopyOf, Contents
  <2>5. /\ h \in EvictFrames /\ h.pc \in EvictFirst /\ h.mod = f.mod /\ h.addr = f.addr /\ h.srcWay = f.srcWay /\ h.way = f.way
        /\ f.way \in Nat
    <3>1. PICK pc \in EvictFirst, r \in Replies : /\ pc = IF s = "N" THEN "EVICT_PROCESS_NONCOHERENT" ELSE "EVICT_PROCESS"
                                                  /\ r = IF s \in Dirty THEN "ack_data" ELSE "ack"
      BY DEF EvictFirst, Replies
    <3>2. PICK d \in Contents : d = CopyOf(f.mod, f.addr)
      BY <2>4
    <3>3. h = [f EXCEPT !.pc = pc, !.state = s, !.reply = r, !.data = d]
      BY <2>1, <3>1, <3>2
    <3> QED BY <3>3, <2>3, <2>4, <1>4 DEF EvictFrames, EvictPcs
  <2>6. /\ h.pc \in EvictPcs /\ h.pc \in First /\ h.pc \notin Keeps /\ h.pc \notin InvalidatePcs /\ h.pc # "EVICT_INVALID"
    BY <2>5 DEF EvictPcs, First, EvictFirst, Keeps, AccessKeeps, FindKeeps, ReadKeeps, WriteKeeps, InvalidatePcs
  <2>7. Similar(f, h)
    BY <1>3, <1>4, <2>5, <2>6 DEF Similar, Frames
  <2>8. Where(h) = Low[f.mod]
    BY <2>5, <2>6 DEF Where
  <2>9. Callable(gs) /\ Link(h, gs[1])
    BY <1>4, <2>1, <2>3, <2>5, <2>6, <2>8, CallFind
  <2>10. FactOfEvict(h, block[h.mod][h.srcWay])
    BY <1>1, <1>5, <1>8, <2>5, <2>6 DEF FactOfEvict, MayCarry, Carries
  <2>11. ~Holding(h, FALSE)
    BY <2>6 DEF Holding
  <2> QED BY <1>2, <1>3, <1>6, <2>2, <2>6, <2>7, <2>9, <2>10, <2>11, CallInv
<1> QED BY <1>7, <1>8

\* The directory entry w of m forgets S and becomes e.
Forgets(m, w, S, e) ==
  /\ e \in DirRecs /\ e.sharers = dir[m][w].sharers \ S
  /\ e.owner = None \/ e.owner = dir[m][w].owner
Forgotten(m, w, S) == [dir EXCEPT ![m][w] = Unshared(@, S)]

\* Taking modules out of a directory entry leaves no sharer that was not one.
LEMMA UnsharedIs ==
  ASSUME Memory, NEW m \in Mods, NEW w \in Ways(m), NEW S
  PROVE  /\ Forgets(m, w, S, Unshared(dir[m][w], S))
         /\ Forgotten(m, w, S) = SetDir(m, w, Unshared(dir[m][w], S))
<1>1. m \in DOMAIN dir /\ w \in DOMAIN dir[m] /\ dir[m][w] \in DirRecs
  BY DEF Memory
<1>2. PICK e : e = Unshared(dir[m][w], S)
  OBVIOUS
<1>3. Forgets(m, w, S, e)
  BY <1>1, <1>2 DEF Unshared, DirRecs, Forgets
<1>4. Forgotten(m, w, S) = SetDir(m, w, e)
  BY <1>1, <1>2 DEF SetDir, Forgotten
<1> QED BY <1>2, <1>3, <1>4

\* EV_MOD_NMOESI_EVICT_PROCESS and EVICT_PROCESS_NONCOHERENT keep the invariant.
LEMMA EvictProcessInv ==
  ASSUME Inv, NEW c \in DOMAIN chain, Asserts(Top(c)), EvictProcess(c)
  PROVE  Inv'
<1>1. PICK f, m, w : f = Top(c) /\ m = Low[f.mod] /\ w = f.way
  OBVIOUS
<1>2. chain[c] # <<>> /\ UNCHANGED access /\ f.pc \in EvictFirst
  BY <1>1 DEF EvictProcess, At, EvictFirst
<1>3. f.pc \in EvictPcs /\ f.pc \in First /\ f.pc \notin Keeps /\ f.pc # "EVICT_INVALID" /\ f.pc \notin FindPcs
  BY <1>2 DEF EvictPcs, EvictFirst, First, Keeps, AccessKeeps, FindKeeps, ReadKeeps, WriteKeeps, FindPcs
<1>4. f \in EvictFrames /\ f.addr \in Blocks /\ Len(chain[c]) > 1 /\ f.pc \notin InvalidatePcs /\ f.srcWay \in Ways(f.mod)
  BY <1>1, <1>2, <1>3, EvictIs
<1>5. f.mod \in Caches /\ f.mod \in Mods /\ m \in Mods /\ Where(f) = m
  BY <1>1, <1>3, <1>4, TreeAssumption DEF EvictFrames, Caches, TreeAssumption, Where
<1>6. f.pc \notin {"INVALIDATE_FINISH", "DIR_WAIT"}
  BY <1>2 DEF EvictFirst
<1>7. CASE f.err
  <2>1. Resume(c, Return(c, Failed(Caller(c)))) /\ UNCHANGED <<block, dir, fresh>>
    BY <1>1, <1>7 DEF EvictProcess
  <2>2. ~Holding(f, TRUE)
    BY <1>3, <1>7 DEF Holding
  <2>3. Acts(c, f)
    BY <1>1, <1>2, <1>6, <2>1 DEF Acts, Inv, Typed
  <2> QED BY <2>1, <2>2, <2>3, <1>4, FailInv
<1>8. CASE ~f.err
  <2>1. PICK e, s, h : e = Unshared(dir[m][w], {f.mod}) /\ s = Merged(f.state) /\ h = To(f, "EVICT_REPLY_RECEIVE")
    OBVIOUS
  <2>2. /\ block' = IF f.reply = "ack_data" THEN SetBlock(m, w, f.addr, s) ELSE block
        /\ fresh' = IF f.reply = "ack_data" THEN Filled(m, f.addr, f.data) ELSE fresh
        /\ dir' = [dir EXCEPT ![m][w] = Unshared(@, {f.mod})]
        /\ Release(c, Goto(c, h), m, w)
    BY <1>1, <1>8, <2>1 DEF EvictProcess
  <2>3. Holding(f, TRUE)
    BY <1>3, <1>8 DEF Holding
  <2>4. /\ c # <<>> /\ w \in Ways(m) /\ lock[m][w].by = c /\ block[m][w].trans = f.addr
        /\ FactOfHolder(f, block[m][w])
    <3>1. /\ c # <<>> /\ f.way \in Ways(Where(f)) /\ lock[Where(f)][f.way].by = c /\ block[Where(f)][f.way].trans = f.addr
          /\ FactOfHolder(f, block[Where(f)][f.way])
      BY <1>1, <1>2, <2>3, Enter
    <3> QED BY <3>1, <1>1, <1>5
  <2>5. Memory /\ fresh \subseteq Mods \X Blocks
    BY DEF Inv, Typed
  <2>6. e \in DirRecs /\ e.sharers \subseteq dir[m][w].sharers /\ (e.owner = None \/ e.owner = dir[m][w].owner) /\ dir' = SetDir(m, w, e)
    <3>1. PICK S : S = {f.mod}
      OBVIOUS
    <3>2. e = Unshared(dir[m][w], S) /\ dir' = Forgotten(m, w, S)
      BY <3>1, <2>1, <2>2 DEF Forgotten
    <3>3. Forgets(m, w, S, e) /\ Forgotten(m, w, S) = SetDir(m, w, e)
      BY <3>2, <1>5, <2>4, <2>5, UnsharedIs
    <3> QED BY <3>2, <3>3 DEF Forgets
  <2>7. /\ e.sharers # {} => block[m][w].state # "I"
        /\ e.sharers \subseteq {n \in Mods : Low[n] = m} /\ (e.owner # None => Low[e.owner] = m)
    BY <1>5, <2>4, <2>6 DEF Inv, Lines
  <2>8. fresh' \subseteq Mods \X Blocks
    BY <1>4, <1>5, <2>2, <2>5, FreshIs
  <2>9. Acts(c, f)
    BY <1>1, <1>2, <1>6, <2>8 DEF Acts
  <2>10. m \notin Caches => f.state \in {"E", "M"}
    BY <1>3, <1>5, <2>4 DEF FactOfHolder
  <2>11. FactOfEvict(f, block[f.mod][f.srcWay])
    BY <1>1, <1>2, <1>3, Enter
  <2>12. /\ h \in EvictFrames /\ h.pc = "EVICT_REPLY_RECEIVE" /\ h.mod = f.mod /\ h.srcWay = f.srcWay /\ h.addr = f.addr
    BY <1>4, <1>5, <2>1 DEF To, EvictFrames, EvictPcs
  <2>13. Similar(f, h) /\ ~Holding(h, TRUE) /\ h.pc # "EVICT_INVALID" /\ h.pc \notin InvalidatePcs
    <3>1. Similar(f, h)
      BY <1>3, <1>4, <2>12 DEF Similar, Frames, EvictPcs
    <3> QED BY <3>1, <2>12 DEF Holding, Keeps, First, AccessFirst, AccessKeeps, EvictFirst, FindKeeps, ReadKeeps, WriteKeeps, InvalidatePcs
  <2>14. Changed(m, w) /\ Carries(block'[f.mod][f.srcWay], f.addr)
    <3>1. Carries(block[f.mod][f.srcWay], f.addr)
      BY <1>3, <2>11 DEF FactOfEvict
    <3>2. CASE f.reply = "ack_data"
      <4>1. f.state # "I" /\ f.state \in States
        BY <1>1, <1>2, <1>4, <1>8, <3>2 DEF Asserts, EvictFirst, EvictFrames
      <4>2. s \in States /\ s # "I" /\ (m \in Caches \/ s \in {"E", "M"})
        BY <4>1, <2>1, <2>10 DEF Merged, States
      <4>3. block' = SetBlock(m, w, f.addr, s)
        BY <3>2, <2>2
      <4>4. Changed(m, w) /\ block'[m][w].tag = f.addr /\ block'[m][w].state = s
        <5>1. PICK a : a = f.addr
          OBVIOUS
        <5>2. /\ block' = SetBlock(m, w, a, s) /\ block[m][w].trans = a /\ lock[m][w].by # <<>> /\ a \in Blocks
          BY <5>1, <4>3, <2>4, <1>4
        <5>3. Changed(m, w) /\ block'[m][w].tag = a /\ block'[m][w].state = s
          BY <5>2, <4>2, <1>5, <2>4, <2>6, <2>7, Written
        <5> QED BY <5>1, <5>3
      <4>5. CASE f.mod = m /\ f.srcWay = w
        BY <4>2, <4>4, <4>5 DEF Carries
      <4>6. CASE f.mod # m \/ f.srcWay # w
        <5>1. block'[f.mod][f.srcWay] = block[f.mod][f.srcWay]
          BY <4>4, <4>6, <1>4, <1>5 DEF Changed
        <5> QED BY <5>1, <4>4, <3>1
      <4> QED BY <4>5, <4>6
    <3>3. CASE f.reply # "ack_data"
      <4>1. block' = block
        BY <3>3, <2>2
      <4>2. Changed(m, w)
        BY <4>1, <1>5, <2>4, <2>6, <2>7, Listed
      <4> QED BY <4>1, <4>2, <3>1
    <3> QED BY <3>2, <3>3
  <2>15. Sees(h)
    BY <2>12, <2>13, <2>14 DEF Sees, FactOfEvict
  <2> QED BY <1>1, <1>5, <2>2, <2>3, <2>9, <2>13, <2>14, <2>15, FreeInv
<1> QED BY <1>7, <1>8

-----------------------------------------------------------------------------
(* Read requests.                                                            *)

\* What the invariant says of a read or write request.
LEMMA RequestIs ==
  ASSUME Inv, NEW c \in DOMAIN chain, chain[c] # <<>>, NEW f, f = Top(c), f.pc \in ReadPcs \union WritePcs
  PROVE  /\ f \in RequestFrames /\ f.target \in Mods /\ f.mod \in Mods /\ f.addr \in Blocks /\ Where(f) = f.target
         /\ f.up \in BOOLEAN /\ f.state \in States
         /\ f.pc \notin InvalidatePcs /\ f.pc \notin EvictPcs /\ f.pc \notin FindPcs
         /\ f.up \/ f.pc \in ReadPcs => Len(chain[c]) > 1
<1>1. /\ f.pc \notin AccessPcs /\ f.pc \notin EvictPcs /\ f.pc \notin InvalidatePcs /\ f.pc \notin FindPcs
      /\ f.pc \in ReadPcs => f.pc \notin WritePcs
  BY DEF ReadPcs, ReadKeeps, WritePcs, WriteKeeps, AccessPcs, AccessFirst, AccessKeeps, EvictPcs, EvictFirst, InvalidatePcs, FindPcs, FindKeeps
<1>2. f \in Frames /\ (f.up \/ f.pc \in ReadPcs => Len(chain[c]) > 1)
  BY <1>1, Enter
<1>3. f \in RequestFrames
  BY <1>2, ByPc
<1>4. Where(f) = f.target
  BY <1>1 DEF Where
<1> QED BY <1>1, <1>2, <1>3, <1>4 DEF RequestFrames

\* Who waits for the answer to a request.
LEMMA AskerIs ==
  ASSUME Inv, NEW c \in DOMAIN chain, chain[c] # <<>>, NEW f, f = Top(c), f.pc \in ReadPcs \union WritePcs,
         Len(chain[c]) > 1, NEW g, g = Caller(c)
  PROVE  /\ g \in AccessFrames \/ g \in RequestFrames
         /\ g.pc \in Keeps
         /\ f.pc \in ReadPcs /\ ~f.up => g \in RequestFrames
<1>1. f.pc \notin EvictPcs /\ f.pc \notin InvalidatePcs /\ f.pc \notin FindPcs /\ f.pc # "MESSAGE_ACTION"
  BY DEF ReadPcs, ReadKeeps, WritePcs, WriteKeeps, EvictPcs, EvictFirst, InvalidatePcs, FindPcs, FindKeeps
<1>2. g \in Frames /\ Link(g, f)
  BY EnterCaller
<1>3. Serves(g, f)
  BY <1>1, <1>2 DEF Link
<1>4. f \in RequestFrames
  BY RequestIs
<1>5. f.up \in BOOLEAN
  BY <1>4 DEF RequestFrames
<1>6. g.pc \in Upward \union {"READ_REQUEST_UPDOWN_FINISH", "READ_REQUEST_DOWNUP_FINISH"}
  BY <1>3, <1>5 DEF Serves, Upward
<1>7. g.pc \in Keeps /\ g.pc \in AccessPcs \union ReadPcs \union WritePcs
  BY <1>6 DEF Upward, Keeps, AccessPcs, AccessKeeps, ReadPcs, ReadKeeps, WritePcs, WriteKeeps
<1>8. g \in AccessFrames \/ g \in RequestFrames
  BY <1>2, <1>7, ByPc
<1>9. f.pc \in ReadPcs /\ ~f.up => g.pc \in ReadPcs
  BY <1>3 DEF Serves, ReadPcs, ReadKeeps
<1>10. g.pc \in ReadPcs => g \in RequestFrames
  BY <1>2, ByPc
<1> QED BY <1>7, <1>8, <1>9, <1>10

\* h is the request f at pc.
Advances(f, h, pc) ==
  /\ h \in RequestFrames /\ h.pc = pc /\ h.mod = f.mod /\ h.target = f.target /\ h.addr = f.addr /\ h.up = f.up
  /\ h.way = f.way /\ h.state = f.state

MayAdvance(f, pc) ==
  /\ pc = "READ_REQUEST_UPDOWN_MISS" => f.target \in Caches
  /\ pc \in {"READ_REQUEST_UPDOWN_MISS", "READ_REQUEST_UPDOWN_FINISH", "WRITE_REQUEST_UPDOWN_FINISH"} => f.up
  /\ pc \in {"READ_REQUEST_DOWNUP_FINISH", "WRITE_REQUEST_REPLY"} => ~f.up

\* A request that goes on to its next event.
LEMMA RequestTo ==
  ASSUME NEW f \in RequestFrames, NEW pc \in ReadPcs \union WritePcs, MayAdvance(f, pc)
  PROVE  Advances(f, To(f, pc), pc)
BY DEF RequestFrames, To, Advances, MayAdvance

Clear(f) == [f EXCEPT !.err = FALSE, !.shared = FALSE]

\* A request that goes on with its flags cleared.
LEMMA RequestClear ==
  ASSUME NEW f \in RequestFrames, NEW pc \in ReadPcs \union WritePcs, MayAdvance(f, pc)
  PROVE  Advances(f, To(Clear(f), pc), pc)
BY DEF RequestFrames, To, Clear, Advances, MayAdvance

\* A request that goes on is still the request its caller made.
LEMMA AdvancesIs ==
  ASSUME NEW f \in RequestFrames, NEW h, NEW pc, Advances(f, h, pc),
         (f.pc \in ReadPcs /\ pc \in ReadPcs) \/ (f.pc \in WritePcs /\ pc \in WritePcs)
  PROVE  /\ Similar(f, h) /\ Where(h) = f.target /\ h.pc \notin EvictPcs /\ h.pc \notin InvalidatePcs
<1>1. Similar(f, h)
  BY DEF Advances, Similar, Frames
<1>2. h.pc \notin EvictPcs /\ h.pc \notin InvalidatePcs /\ Where(h) = f.target
  BY DEF Advances, Where, ReadPcs, ReadKeeps, WritePcs, WriteKeeps, EvictPcs, EvictFirst, InvalidatePcs
<1> QED BY <1>1, <1>2

\* What holds of a request that has looked at its line.
LEMMA RequestFact ==
  ASSUME NEW f, NEW h, NEW pc \in ReadKeeps \union WriteKeeps, Advances(f, h, pc), NEW b,
         MayCarry(b, f.addr),
         f.state # "I" \/ pc \in {"READ_REQUEST_UPDOWN_FINISH", "READ_REQUEST_DOWNUP_FINISH"} => b.state # "I",
         f.target \notin Caches => f.state \in {"E", "M"}
  PROVE  FactOfHolder(h, b) /\ Holding(h, FALSE) /\ Holding(h, TRUE)
<1>1. /\ h.pc = pc /\ h.addr = f.addr /\ h.state = f.state /\ h.target = f.target
      /\ h.pc \notin FindPcs /\ h.pc \notin First /\ h.pc \in Keeps /\ h.pc # "FIND_AND_LOCK_ACTION" /\ h.pc \notin Nc
  BY DEF Advances, ReadKeeps, WriteKeeps, FindPcs, FindKeeps, First, AccessFirst, EvictFirst, Keeps, Nc
<1>2. Where(h) = f.target
  BY <1>1 DEF Where, ReadPcs, ReadKeeps, WritePcs, WriteKeeps, EvictPcs, EvictFirst
<1> QED BY <1>1, <1>2 DEF FactOfHolder, Solid, Holding

\* The request f of the chain c holds the line w of m.
Held(c, f, m, w) ==
  /\ m \in Mods /\ w \in Ways(m) /\ w \in Nat /\ lock[m][w].by = c /\ c # <<>> /\ block[m][w].trans = f.addr
  /\ MayCarry(block[m][w], f.addr)
  /\ Solid(f) => block[m][w].state # "I"
  /\ m \notin Caches => f.state \in {"E", "M"}
  /\ f.pc \in First => f.state = block[m][w].state
  /\ dir[m][w] \in DirRecs /\ dir[m][w].sharers \subseteq {n \in Mods : Low[n] = m}
  /\ dir[m][w].owner # None => Low[dir[m][w].owner] = m
  /\ dir[m][w].sharers # {} => block[m][w].state # "I"

\* The line and the entry of a request that has locked.
LEMMA RequestHolds ==
  ASSUME Inv, NEW c \in DOMAIN chain, chain[c] # <<>>, NEW f, f = Top(c), f.pc \in ReadPcs \union WritePcs, Holding(f, TRUE)
  PROVE  Held(c, f, f.target, f.way)
<1>0. PICK m, w : m = f.target /\ w = f.way
  OBVIOUS
<1>1. Where(f) = m /\ m \in Mods /\ f.pc \notin FindPcs
  BY <1>0, RequestIs
<1>2. /\ c # <<>> /\ w \in Ways(m) /\ lock[m][w].by = c /\ block[m][w].trans = f.addr
      /\ FactOfHolder(f, block[m][w])
  <2>1. /\ c # <<>> /\ f.way \in Ways(Where(f)) /\ lock[Where(f)][f.way].by = c /\ block[Where(f)][f.way].trans = f.addr
        /\ FactOfHolder(f, block[Where(f)][f.way])
    BY Enter
  <2> QED BY <2>1, <1>0, <1>1
<1>3. dir[m][w] \in DirRecs
  BY <1>1, <1>2, DirIs DEF Inv, Typed
<1>4. /\ dir[m][w].sharers \subseteq {n \in Mods : Low[n] = m}
      /\ dir[m][w].owner # None => Low[dir[m][w].owner] = m
      /\ dir[m][w].sharers # {} => block[m][w].state # "I"
  BY <1>1, <1>2 DEF Inv, Lines
<1>5. w \in Nat
  BY <1>2 DEF Ways
<1>6. Held(c, f, m, w)
  BY <1>1, <1>2, <1>3, <1>4, <1>5 DEF FactOfHolder, Held
<1> QED BY <1>0, <1>6

\* The frames gs are what h calls.
Calls(h, gs) == Callable(gs) /\ Link(h, gs[1])
Downward == {"READ_REQUEST_UPDOWN_FINISH", "READ_REQUEST_DOWNUP_FINISH"}

\* A request to the owner above.
LEMMA CallDown ==
  ASSUME NEW m \in Mods, NEW target \in Mods, NEW a \in Blocks, NEW peer \in Mods \union {None}, Low[target] = m,
         NEW h, h.pc \in Downward, m = Where(h), a = h.addr
  PROVE  Calls(h, Request("READ_REQUEST_ACTION", m, target, a, FALSE, peer))
<1>1. PICK g : g = RequestFrame("READ_REQUEST_ACTION", m, target, a, FALSE, peer)
  OBVIOUS
<1>2. /\ g.pc = "READ_REQUEST_ACTION" /\ g.mod = m /\ g.target = target /\ g.addr = a /\ g.up = FALSE
      /\ g \in RequestRecs
  BY <1>1 DEF RequestFrame, RequestRecs, ReadPcs, WritePcs, States, Replies, Contents, NoWay
<1>3. g \in RequestFrames
  BY <1>2 DEF RequestFrames, RequestRecs
<1>4. Serves(h, g)
  BY <1>2 DEF Serves, ReadPcs, Downward
<1>5. PICK gs : gs = <<g, FindFrame(g.target, g.addr, TRUE, NoWay)>>
  OBVIOUS
<1>6. Callable(gs) /\ Link(h, gs[1])
  BY <1>2, <1>3, <1>4, <1>5, CallRequest
<1>7. Request("READ_REQUEST_ACTION", m, target, a, FALSE, peer) = gs
  BY <1>1, <1>2, <1>5 DEF Request
<1> QED BY <1>6, <1>7 DEF Calls

\* EV_MOD_NMOESI_READ_REQUEST_ACTION keeps the invariant.
LEMMA ReadRequestActionInv ==
  ASSUME Inv, NEW c \in DOMAIN chain, Asserts(Top(c)), ReadRequestAction(c)
  PROVE  Inv'
<1>1. PICK f, m, w, o, peer, finish :
        /\ f = Top(c) /\ m = f.target /\ w = f.way /\ o = dir[m][w].owner
        /\ peer = IF f.up THEN SetPeer(f.mod, f.state) ELSE None
        /\ finish = IF f.up THEN "READ_REQUEST_UPDOWN_FINISH" ELSE "READ_REQUEST_DOWNUP_FINISH"
  OBVIOUS
<1>2. chain[c] # <<>> /\ UNCHANGED <<block, dir, access, fresh>> /\ f.pc = "READ_REQUEST_ACTION"
  BY <1>1 DEF ReadRequestAction, At
<1>3. f.pc \in ReadPcs /\ f.pc \in First /\ f.pc \notin Keeps /\ f.pc \in ReadPcs \union WritePcs
  BY <1>2 DEF ReadPcs, First, Keeps, AccessKeeps, FindKeeps, ReadKeeps, WriteKeeps
<1>4. /\ f \in RequestFrames /\ m \in Mods /\ f.mod \in Mods /\ f.addr \in Blocks /\ Where(f) = m /\ f.up \in BOOLEAN
      /\ f.pc \notin InvalidatePcs /\ Len(chain[c]) > 1
  BY <1>1, <1>2, <1>3, RequestIs
<1>5. Acts(c, f)
  BY <1>1, <1>2 DEF Acts, Inv, Typed
<1>6. CASE f.err
  <2>1. Resume(c, Return(c, Failed(Caller(c))))
    BY <1>1, <1>6 DEF ReadRequestAction
  <2>2. ~Holding(f, TRUE)
    BY <1>3, <1>6 DEF Holding
  <2> QED BY <2>1, <2>2, <1>2, <1>4, <1>5, FailInv
<1>7. CASE ~f.err
  <2>1. Holding(f, TRUE)
    BY <1>3, <1>7 DEF Holding
  <2>2. /\ w \in Ways(m) /\ w \in Nat
        /\ MayCarry(block[m][w], f.addr)
        /\ m \notin Caches => f.state \in {"E", "M"}
        /\ f.state = block[m][w].state
        /\ dir[m][w] \in DirRecs
        /\ o # None => Low[o] = m
    <3>1. Held(c, f, f.target, f.way)
      BY <1>1, <1>2, <1>3, <2>1, RequestHolds
    <3> QED BY <3>1, <1>1, <1>3 DEF Held
  <2>3. ~f.up => f.state # "I"
    BY <1>1, <1>2, <1>7 DEF Asserts
  <2>4. CASE f.up /\ f.state = "I"
    <3>1. PICK pc, h, gs : /\ pc = "READ_REQUEST_UPDOWN_MISS" /\ h = To(Clear(f), pc)
                           /\ gs = Request("READ_REQUEST_ACTION", m, Low[m], f.addr, TRUE, None)
      OBVIOUS
    <3>2. Resume(c, Call(c, h, gs))
      BY <1>1, <1>7, <2>4, <3>1 DEF ReadRequestAction, Clear
    <3>3. m \in Caches /\ Low[m] \in Mods
      BY <2>2, <2>4, <1>4, TreeAssumption DEF Caches, TreeAssumption
    <3>4. pc \in ReadPcs /\ pc \in ReadKeeps /\ MayAdvance(f, pc) /\ pc \in Upward
      BY <1>1, <2>4, <3>1, <3>3 DEF ReadPcs, ReadKeeps, MayAdvance, Upward
    <3>5. Advances(f, h, pc)
      BY <1>4, <3>1, <3>4, RequestClear
    <3>6. Similar(f, h) /\ Where(h) = m /\ h.pc \notin EvictPcs /\ h.pc \notin InvalidatePcs
      BY <1>1, <1>3, <1>4, <3>4, <3>5, AdvancesIs
    <3>7. FactOfHolder(h, block[m][w]) /\ Holding(h, FALSE)
      <4>1. ~(f.state # "I" \/ pc \in {"READ_REQUEST_UPDOWN_FINISH", "READ_REQUEST_DOWNUP_FINISH"})
        BY <2>4, <3>1
      <4> QED BY <4>1, <1>1, <2>2, <3>4, <3>5, RequestFact
    <3>8. h.pc \in Upward /\ h.addr = f.addr /\ h.way = w
      BY <1>1, <3>4, <3>5 DEF Advances
    <3>9. Callable(gs) /\ Link(h, gs[1])
      <4>1. PICK q, low, a : q = "READ_REQUEST_ACTION" /\ low = Low[m] /\ a = f.addr
        OBVIOUS
      <4>2. gs = Request(q, m, low, a, TRUE, None) /\ q \in {"READ_REQUEST_ACTION", "WRITE_REQUEST_ACTION"}
            /\ low \in Mods /\ a \in Blocks /\ None \in Mods \union {None} /\ Low[m] = low /\ h.pc \in Upward /\ m = Where(h) /\ a = h.addr
        BY <4>1, <1>4, <3>1, <3>3, <3>6, <3>8
      <4> QED BY <4>2, <1>4, CallUpPlain
    <3> QED BY <1>1, <1>2, <1>4, <1>5, <2>1, <3>2, <3>6, <3>7, <3>8, <3>9, CallInv
  <2>5. /\ finish \in ReadPcs /\ finish \in ReadKeeps /\ MayAdvance(f, finish)
        /\ finish \in {"READ_REQUEST_UPDOWN_FINISH", "READ_REQUEST_DOWNUP_FINISH"}
    BY <1>1, <1>4 DEF ReadPcs, ReadKeeps, MayAdvance
  <2>6. CASE (f.up => f.state # "I") /\ o \notin {None, f.mod}
    <3>1. PICK h, gs : /\ h = To(Clear(f), finish)
                       /\ gs = Request("READ_REQUEST_ACTION", m, o, f.addr, FALSE, peer)
      OBVIOUS
    <3>2. Resume(c, Call(c, h, gs))
      BY <1>1, <1>7, <2>6, <3>1 DEF ReadRequestAction, Clear
    <3>3. Advances(f, h, finish)
      BY <1>4, <2>5, <3>1, RequestClear
    <3>4. Similar(f, h) /\ Where(h) = m /\ h.pc \notin EvictPcs /\ h.pc \notin InvalidatePcs
      BY <1>1, <1>3, <1>4, <2>5, <3>3, AdvancesIs
    <3>5. FactOfHolder(h, block[m][w]) /\ Holding(h, FALSE)
      <4>1. block[m][w].state # "I"
        BY <2>2, <2>3, <2>6
      <4> QED BY <4>1, <1>1, <2>2, <2>5, <3>3, RequestFact
    <3>6. h.pc = finish /\ h.addr = f.addr /\ h.way = w
      BY <1>1, <3>3 DEF Advances
    <3>7. o \in Mods /\ Low[o] = m
      BY <2>2, <2>6, <1>1 DEF DirRecs
    <3>8. peer \in Mods \union {None}
      BY <1>1, <1>4 DEF SetPeer
    <3>9. Callable(gs) /\ Link(h, gs[1])
      <4>1. PICK a : a = f.addr
        OBVIOUS
      <4>2. gs = Request("READ_REQUEST_ACTION", m, o, a, FALSE, peer) /\ a \in Blocks /\ m = Where(h) /\ a = h.addr
            /\ h.pc \in Downward
        BY <4>1, <1>4, <2>5, <3>1, <3>4, <3>6 DEF Downward
      <4>3. Calls(h, Request("READ_REQUEST_ACTION", m, o, a, FALSE, peer))
        BY <4>2, <1>4, <3>7, <3>8, CallDown
      <4> QED BY <4>2, <4>3 DEF Calls
    <3> QED BY <1>1, <1>2, <1>4, <1>5, <2>1, <3>2, <3>4, <3>5, <3>6, <3>9, CallInv
  <2>7. CASE (f.up => f.state # "I") /\ o \in {None, f.mod}
    <3>1. PICK h : h = To(f, finish)
      OBVIOUS
    <3>2. Resume(c, Goto(c, h))
      BY <1>1, <1>7, <2>7, <3>1 DEF ReadRequestAction
    <3>3. Advances(f, h, finish)
      BY <1>4, <2>5, <3>1, RequestTo
    <3>4. Similar(f, h) /\ Where(h) = m /\ h.pc \notin EvictPcs /\ h.pc \notin InvalidatePcs
      BY <1>1, <1>3, <1>4, <2>5, <3>3, AdvancesIs
    <3>5. FactOfHolder(h, block[m][w]) /\ Holding(h, TRUE)
      <4>1. block[m][w].state # "I"
        BY <2>2, <2>3, <2>7
      <4> QED BY <4>1, <1>1, <2>2, <2>5, <3>3, RequestFact
    <3>6. h.way = w
      BY <1>1, <3>3 DEF Advances
    <3> QED BY <1>1, <1>2, <1>4, <1>5, <2>1, <3>2, <3>4, <3>5, <3>6, GoInv
  <2> QED BY <2>4, <2>6, <2>7
<1> QED BY <1>6, <1>7

Refilled(f) == [f EXCEPT !.pc = "READ_REQUEST_UPDOWN_FINISH", !.data = "none"]

\* EV_MOD_NMOESI_READ_REQUEST_UPDOWN_MISS keeps the invariant.
LEMMA ReadRequestUpdownMissInv ==
  ASSUME Inv, NEW c \in DOMAIN chain, ReadRequestUpdownMiss(c)
  PROVE  Inv'
<1>1. PICK f, m, w, a : f = Top(c) /\ m = f.target /\ w = f.way /\ a = f.addr
  OBVIOUS
<1>2. chain[c] # <<>> /\ UNCHANGED <<dir, access>> /\ f.pc = "READ_REQUEST_UPDOWN_MISS"
  BY <1>1 DEF ReadRequestUpdownMiss, At
<1>3. f.pc \in ReadPcs /\ f.pc \in Keeps /\ f.pc \in ReadPcs \union WritePcs
  BY <1>2 DEF ReadPcs, ReadKeeps, Keeps
<1>4. /\ f \in RequestFrames /\ m \in Mods /\ a \in Blocks /\ Where(f) = m
      /\ f.pc \notin InvalidatePcs /\ Len(chain[c]) > 1
  BY <1>1, <1>2, <1>3, RequestIs
<1>5. Holding(f, TRUE)
  BY <1>3 DEF Holding
<1>6. m \in Caches /\ f.up
  BY <1>1, <1>2, <1>4 DEF RequestFrames
<1>7. /\ w \in Ways(m) /\ lock[m][w].by # <<>> /\ block[m][w].trans = a
      /\ dir[m][w] \in DirRecs /\ dir[m][w].sharers \subseteq {n \in Mods : Low[n] = m}
      /\ dir[m][w].owner # None => Low[dir[m][w].owner] = m
  <2>1. Held(c, f, f.target, f.way)
    BY <1>1, <1>2, <1>3, <1>5, RequestHolds
  <2> QED BY <2>1, <1>1 DEF Held
<1>8. f.pc \notin {"INVALIDATE_FINISH", "DIR_WAIT"} /\ access' = access
  BY <1>2
<1>9. CASE f.err
  <2>1. Release(c, Return(c, Failed(Caller(c))), Where(f), f.way) /\ UNCHANGED <<block, dir, fresh>>
    BY <1>1, <1>2, <1>4, <1>9 DEF ReadRequestUpdownMiss
  <2>2. Acts(c, f)
    BY <1>1, <1>2, <1>8, <2>1 DEF Acts, Inv, Typed
  <2> QED BY <2>1, <2>2, <1>4, <1>5, FailFreeInv
<1>10. CASE ~f.err
  <2>1. PICK s, h : s = (IF f.shared THEN "S" ELSE "E") /\ h = Refilled(f)
    OBVIOUS
  <2>2. block' = SetBlock(m, w, a, s) /\ fresh' = Filled(m, a, f.data) /\ Resume(c, Goto(c, h))
    BY <1>1, <1>10, <2>1 DEF ReadRequestUpdownMiss, Refilled
  <2>3. s \in States /\ s # "I"
    BY <2>1 DEF States
  <2>4. fresh' \subseteq Mods \X Blocks
    BY <1>4, <2>2, FreshIs DEF Inv, Typed
  <2>5. Acts(c, f)
    BY <1>1, <1>2, <1>8, <2>4 DEF Acts
  <2>6. Changed(m, w) /\ block'[m][w].tag = a /\ block'[m][w].state = s
    <3>1. PICK e : e = dir[m][w]
      OBVIOUS
    <3>2. /\ e \in DirRecs /\ e.sharers \subseteq {n \in Mods : Low[n] = m} /\ (e.owner # None => Low[e.owner] = m)
          /\ dir' = dir
      BY <3>1, <1>2, <1>7
    <3> QED BY <3>2, <1>4, <1>6, <1>7, <2>2, <2>3, Written
  <2>7. PICK pc : pc = "READ_REQUEST_UPDOWN_FINISH"
    OBVIOUS
  <2>8. pc \in ReadPcs /\ pc \in ReadKeeps
    BY <2>7 DEF ReadPcs, ReadKeeps
  <2>9. Advances(f, h, pc)
    BY <1>4, <1>6, <2>1, <2>7 DEF RequestFrames, Refilled, Advances, ReadPcs, ReadKeeps, Contents
  <2>10. Similar(f, h) /\ h.pc \notin EvictPcs /\ h.pc \notin InvalidatePcs
    BY <1>3, <1>4, <2>8, <2>9, AdvancesIs
  <2>11. PICK b : b = block'[m][w]
    OBVIOUS
  <2>12. FactOfHolder(h, b) /\ Holding(h, TRUE)
    <3>1. MayCarry(b, f.addr) /\ b.state # "I"
      BY <1>1, <2>3, <2>6, <2>11 DEF MayCarry
    <3> QED BY <3>1, <1>1, <1>6, <2>8, <2>9, RequestFact
  <2>13. h.way = f.way
    BY <2>9 DEF Advances
  <2> QED BY <1>1, <1>4, <1>5, <2>2, <2>5, <2>6, <2>10, <2>11, <2>12, <2>13, KeepInv
<1> QED BY <1>9, <1>10

\* What a requester learns.
Granting(g, b, d)      == [g EXCEPT !.shared = b, !.data = d]
Replied(g, r, b, p, d) == [g EXCEPT !.reply = r, !.retain = b, !.viaPeer = p, !.data = d]
Given(g, d)            == [g EXCEPT !.data = d]

\* An access learns nothing from an answer that its frame's facts speak of.
LEMMA LearnsAccess ==
  ASSUME NEW g \in AccessFrames, NEW b \in BOOLEAN, NEW d \in Contents
  PROVE  Alike(g, Granting(g, b, d)) /\ Alike(g, Given(g, d))
<1>1. g.pc \notin FindPcs /\ g.pc \notin EvictPcs /\ g.pc \in AccessPcs
  BY DEF AccessFrames, AccessPcs, AccessFirst, AccessKeeps, FindPcs, FindKeeps, EvictPcs, EvictFirst
<1>2. PICK h : h = Granting(g, b, d)
  OBVIOUS
<1>3. h \in AccessFrames /\ h.pc = g.pc /\ h.way = g.way /\ h.mod = g.mod /\ h.addr = g.addr /\ h.state = g.state
  BY <1>2 DEF AccessFrames, Granting
<1>4. Alike(g, h)
  BY <1>1, <1>3 DEF Alike, Similar, Frames
<1>5. PICK k : k = Given(g, d)
  OBVIOUS
<1>6. k \in AccessFrames /\ k.pc = g.pc /\ k.way = g.way /\ k.mod = g.mod /\ k.addr = g.addr /\ k.state = g.state
  BY <1>5 DEF AccessFrames, Given
<1>7. Alike(g, k)
  BY <1>1, <1>6 DEF Alike, Similar, Frames
<1> QED BY <1>2, <1>4, <1>5, <1>7

\* h is the request g with another answer.
Answered(g, h) ==
  /\ h \in RequestFrames /\ h.pc = g.pc /\ h.way = g.way /\ h.mod = g.mod /\ h.addr = g.addr /\ h.state = g.state
  /\ h.target = g.target /\ h.up = g.up

\* A request with another answer is the same request.
LEMMA AnsweredAlike ==
  ASSUME NEW g \in RequestFrames, NEW h, Answered(g, h)
  PROVE  Alike(g, h)
<1>1. g.pc \in ReadPcs \union WritePcs /\ g.pc \notin FindPcs /\ g.pc \notin EvictPcs
  BY DEF RequestFrames, FindPcs, FindKeeps, EvictPcs, EvictFirst, ReadPcs, ReadKeeps, WritePcs, WriteKeeps
<1> QED BY <1>1 DEF Answered, Alike, Similar, Frames

\* The answers a request may get.
LEMMA LearnsRequest ==
  ASSUME NEW g \in RequestFrames, NEW b \in BOOLEAN, NEW d \in Contents, NEW r \in Replies, NEW p \in BOOLEAN
  PROVE  Alike(g, Granting(g, b, d)) /\ Alike(g, Given(g, d)) /\ Alike(g, Replied(g, r, b, p, d))
<1>1. Answered(g, Granting(g, b, d))
  BY DEF RequestFrames, Granting, Answered
<1>2. Answered(g, Given(g, d))
  BY DEF RequestFrames, Given, Answered
<1>3. Answered(g, Replied(g, r, b, p, d))
  BY DEF RequestFrames, Replied, Answered
<1> QED BY <1>1, <1>2, <1>3, AnsweredAlike

\* The answers whoever asks may get.
LEMMA LearnsIs ==
  ASSUME NEW g, g \in AccessFrames \/ g \in RequestFrames, NEW b \in BOOLEAN, NEW d \in Contents
  PROVE  Alike(g, Granting(g, b, d)) /\ Alike(g, Given(g, d))
<1>1. CASE g \in AccessFrames
  BY <1>1, LearnsAccess
<1>2. CASE g \in RequestFrames
  <2>1. PICK r \in Replies : r = "none"
    BY DEF Replies
  <2> QED BY <1>2, LearnsRequest
<1> QED BY <1>1, <1>2

\* EV_MOD_NMOESI_READ_REQUEST_UPDOWN_FINISH keeps the invariant.
LEMMA ReadRequestUpdownFinishInv ==
  ASSUME Inv, NEW c \in DOMAIN chain, ReadRequestUpdownFinish(c)
  PROVE  Inv'
<1>1. PICK f, m, w, g, o : f = Top(c) /\ m = f.target /\ w = f.way /\ g = Caller(c) /\ o = dir[m][w]
  OBVIOUS
<1>2. chain[c] # <<>> /\ UNCHANGED <<block, access>> /\ f.pc = "READ_REQUEST_UPDOWN_FINISH"
  BY <1>1 DEF ReadRequestUpdownFinish, At
<1>3. f.pc \in ReadPcs /\ f.pc \in Keeps /\ f.pc \in ReadPcs \union WritePcs
  BY <1>2 DEF ReadPcs, ReadKeeps, Keeps
<1>4. /\ f \in RequestFrames /\ m \in Mods /\ f.mod \in Mods /\ f.addr \in Blocks /\ Where(f) = m
      /\ f.pc \notin InvalidatePcs /\ Len(chain[c]) > 1
  BY <1>1, <1>2, <1>3, RequestIs
<1>5. Holding(f, TRUE)
  BY <1>3 DEF Holding
<1>6. f.up /\ Low[f.mod] = m /\ f.data \in Contents /\ f.nc \in BOOLEAN /\ f.shared \in BOOLEAN
  BY <1>1, <1>2, <1>4 DEF RequestFrames
<1>7. w \in Ways(m) /\ o \in DirRecs /\ o.sharers \subseteq {n \in Mods : Low[n] = m}
      /\ (o.owner # None => Low[o.owner] = m) /\ block[m][w].state # "I"
  <2>1. Held(c, f, f.target, f.way)
    BY <1>1, <1>2, <1>3, <1>5, RequestHolds
  <2>2. Solid(f)
    BY <1>2 DEF Solid, Nc
  <2> QED BY <2>1, <2>2, <1>1 DEF Held
<1>8. PICK sharers, b, owner, filled, d, e :
        /\ sharers = o.sharers \union {f.mod}
        /\ b = IsShared(f, sharers)
        /\ owner = (IF f.retain \/ o.owner = f.mod THEN o.owner ELSE None)
        /\ filled = (IF f.data = "none" \/ f.viaPeer THEN fresh ELSE Filled(m, f.addr, f.data))
        /\ d = (IF f.viaPeer THEN f.data ELSE IF <<m, f.addr>> \in filled THEN "fresh" ELSE "stale")
        /\ e = [owner |-> IF b THEN owner ELSE f.mod, sharers |-> sharers]
  OBVIOUS
<1>9. dir' = SetDir(m, w, e) /\ fresh' = filled /\ Release(c, Return(c, Granting(g, b, d)), m, w)
  BY <1>1, <1>8 DEF ReadRequestUpdownFinish, SetDir, Granting
<1>10. b \in BOOLEAN /\ d \in Contents
  BY <1>6, <1>8 DEF IsShared, Contents
<1>11. /\ e \in DirRecs /\ e.sharers \subseteq {n \in Mods : Low[n] = m}
       /\ e.owner # None => Low[e.owner] = m
  BY <1>4, <1>6, <1>7, <1>8 DEF DirRecs
<1>12. Changed(m, w)
  BY <1>2, <1>4, <1>7, <1>9, <1>11, Listed
<1>13. fresh' \subseteq Mods \X Blocks
  <2>1. fresh \subseteq Mods \X Blocks
    BY DEF Inv, Typed
  <2> QED BY <2>1, <1>4, <1>8, <1>9, FreshIs
<1>14. Acts(c, f)
  BY <1>1, <1>2, <1>13 DEF Acts
<1>15. g.pc \in Keeps /\ (g \in AccessFrames \/ g \in RequestFrames)
  BY <1>1, <1>2, <1>3, <1>4, AskerIs
<1>16. PICK h : h = Granting(g, b, d)
  OBVIOUS
<1>17. Alike(g, h)
  BY <1>10, <1>15, <1>16, LearnsIs
<1> QED BY <1>1, <1>4, <1>5, <1>9, <1>12, <1>14, <1>15, <1>16, <1>17, AnswerInv

\* EV_MOD_NMOESI_READ_REQUEST_DOWNUP_FINISH keeps the invariant.
LEMMA ReadRequestDownupFinishInv ==
  ASSUME Inv, NEW c \in DOMAIN chain, ReadRequestDownupFinish(c)
  PROVE  Inv'
<1>1. PICK f, m, w, a, g, o : f = Top(c) /\ m = f.target /\ w = f.way /\ a = f.addr /\ g = Caller(c) /\ o = dir[m][w]
  OBVIOUS
<1>2. chain[c] # <<>> /\ access' = access /\ f.pc = "READ_REQUEST_DOWNUP_FINISH"
  BY <1>1 DEF ReadRequestDownupFinish, At
<1>3. f.pc \in ReadPcs /\ f.pc \in Keeps /\ f.pc \in ReadPcs \union WritePcs
  BY <1>2 DEF ReadPcs, ReadKeeps, Keeps
<1>4. /\ f \in RequestFrames /\ m \in Mods /\ f.mod \in Mods /\ a \in Blocks /\ Where(f) = m
      /\ f.pc \notin InvalidatePcs /\ Len(chain[c]) > 1
  BY <1>1, <1>2, <1>3, RequestIs
<1>5. Holding(f, TRUE)
  BY <1>3 DEF Holding
<1>6. ~f.up /\ m \in Caches /\ f.data \in Contents /\ f.reply \in Replies
  BY <1>1, <1>2, <1>4, TreeAssumption DEF RequestFrames, Caches, TreeAssumption
<1>7. /\ w \in Ways(m) /\ lock[m][w].by # <<>> /\ block[m][w].trans = a
      /\ o \in DirRecs /\ o.sharers \subseteq {n \in Mods : Low[n] = m}
      /\ o.owner # None => Low[o.owner] = m
  <2>1. Held(c, f, f.target, f.way)
    BY <1>1, <1>2, <1>3, <1>5, RequestHolds
  <2> QED BY <2>1, <1>1 DEF Held
<1>8. PICK owned, s, filled, r, d, p, e :
        /\ owned = (/\ f.peer # None
                    /\ f.reply = "ack_data" \/ (f.reply = "none" /\ f.state \in {"M", "O"}))
        /\ s = (IF owned THEN "O" ELSE "S")
        /\ filled = (IF f.reply = "ack_data" THEN Filled(m, a, f.data) ELSE fresh)
        /\ r = (IF f.peer # None THEN "ack_data_sent_to_peer"
                ELSE IF f.reply # "none" THEN f.reply
                ELSE IF f.state \in Dirty THEN "ack_data" ELSE "ack")
        /\ d = (IF r = "ack" THEN "none" ELSE IF <<m, a>> \in filled THEN "fresh" ELSE "stale")
        /\ p = (f.peer # None)
        /\ e = [owner |-> None, sharers |-> o.sharers]
  OBVIOUS
<1>9. /\ block' = SetBlock(m, w, a, s)
      /\ dir' = IF f.reply = "none" THEN dir ELSE [dir EXCEPT ![m][w].owner = None]
      /\ fresh' = filled /\ Release(c, Return(c, Replied(g, r, owned, p, d)), m, w)
  BY <1>1, <1>8 DEF ReadRequestDownupFinish, Replied
<1>10. owned \in BOOLEAN /\ p \in BOOLEAN /\ d \in Contents /\ r \in Replies /\ s \in States /\ s # "I"
  BY <1>6, <1>8 DEF Contents, Replies, States
<1>11. /\ e \in DirRecs /\ e.sharers \subseteq {n \in Mods : Low[n] = m} /\ (e.owner # None => Low[e.owner] = m)
  BY <1>7, <1>8 DEF DirRecs
<1>12. dir' = dir \/ dir' = SetDir(m, w, e)
  <2>1. [dir EXCEPT ![m][w].owner = None] = SetDir(m, w, [owner |-> None, sharers |-> dir[m][w].sharers])
    BY <1>4, <1>7, DirIs DEF Inv, Typed
  <2> QED BY <2>1, <1>1, <1>8, <1>9
<1>13. Changed(m, w)
  BY <1>4, <1>6, <1>7, <1>9, <1>10, <1>11, <1>12, Written
<1>14. fresh' \subseteq Mods \X Blocks
  <2>1. fresh \subseteq Mods \X Blocks
    BY DEF Inv, Typed
  <2> QED BY <2>1, <1>4, <1>8, <1>9, FreshIs
<1>15. Acts(c, f)
  BY <1>1, <1>2, <1>14 DEF Acts
<1>16. g.pc \in Keeps /\ g \in RequestFrames
  BY <1>1, <1>2, <1>3, <1>4, <1>6, AskerIs
<1>17. PICK h : h = Replied(g, r, owned, p, d)
  OBVIOUS
<1>18. Alike(g, h)
  BY <1>10, <1>16, <1>17, LearnsRequest
<1> QED BY <1>1, <1>4, <1>5, <1>9, <1>13, <1>15, <1>16, <1>17, <1>18, AnswerInv

-----------------------------------------------------------------------------
(* Write requests.                                                           *)

\* EV_MOD_NMOESI_WRITE_REQUEST_ACTION keeps the invariant.
LEMMA WriteRequestActionInv ==
  ASSUME Inv, NEW c \in DOMAIN chain, Asserts(Top(c)), WriteRequestAction(c)
  PROVE  Inv'
<1>1. PICK f, m, w : f = Top(c) /\ m = f.target /\ w = f.way
  OBVIOUS
<1>2. chain[c] # <<>> /\ UNCHANGED <<block, dir, access, fresh>> /\ f.pc = "WRITE_REQUEST_ACTION"
  BY <1>1 DEF WriteRequestAction, At
<1>3. f.pc \in WritePcs /\ f.pc \in First /\ f.pc \notin Keeps /\ f.pc \in ReadPcs \union WritePcs
  BY <1>2 DEF WritePcs, First, Keeps, AccessKeeps, FindKeeps, ReadKeeps, WriteKeeps
<1>4. /\ f \in RequestFrames /\ m \in Mods /\ f.mod \in Mods /\ f.addr \in Blocks /\ Where(f) = m
      /\ f.pc \notin InvalidatePcs /\ (f.up => Len(chain[c]) > 1)
  BY <1>1, <1>2, <1>3, RequestIs
<1>5. Acts(c, f)
  BY <1>1, <1>2 DEF Acts, Inv, Typed
<1>6. CASE f.err
  <2>1. Resume(c, Return(c, Failed(Caller(c))))
    BY <1>1, <1>6 DEF WriteRequestAction
  <2>2. ~Holding(f, TRUE)
    BY <1>3, <1>6 DEF Holding
  <2>3. f.up
    BY <1>1, <1>2, <1>6 DEF Asserts
  <2> QED BY <2>1, <2>2, <2>3, <1>2, <1>4, <1>5, FailInv
<1>7. CASE ~f.err
  <2>1. PICK pc, h, gs : /\ pc = "WRITE_REQUEST_EXCLUSIVE" /\ h = To(f, pc)
                         /\ gs = <<InvalidateFrame(f.target, f.way, f.addr, f.mod)>>
    OBVIOUS
  <2>2. Resume(c, Call(c, h, gs))
    BY <1>1, <1>7, <2>1 DEF WriteRequestAction
  <2>3. Holding(f, TRUE)
    BY <1>3, <1>7 DEF Holding
  <2>4. /\ w \in Nat /\ MayCarry(block[m][w], f.addr)
        /\ m \notin Caches => f.state \in {"E", "M"}
        /\ f.state = block[m][w].state
    <3>1. Held(c, f, f.target, f.way)
      BY <1>1, <1>2, <1>3, <2>3, RequestHolds
    <3> QED BY <3>1, <1>1, <1>3 DEF Held
  <2>5. pc \in WritePcs /\ pc \in WriteKeeps /\ MayAdvance(f, pc)
    BY <2>1 DEF WritePcs, WriteKeeps, MayAdvance
  <2>6. Advances(f, h, pc)
    BY <1>4, <2>1, <2>5, RequestTo
  <2>7. Similar(f, h) /\ Where(h) = m /\ h.pc \notin EvictPcs /\ h.pc \notin InvalidatePcs
    BY <1>1, <1>3, <1>4, <2>5, <2>6, AdvancesIs
  <2>8. FactOfHolder(h, block[m][w]) /\ Holding(h, FALSE)
    <3>1. ~(pc \in {"READ_REQUEST_UPDOWN_FINISH", "READ_REQUEST_DOWNUP_FINISH"})
      BY <2>1
    <3> QED BY <3>1, <1>1, <2>4, <2>5, <2>6, RequestFact
  <2>9. h.pc = pc /\ h.addr = f.addr /\ h.way = w /\ h.target = m /\ h.mod = f.mod
    BY <1>1, <2>6 DEF Advances
  <2>10. Callable(gs) /\ Link(h, gs[1])
    <3>1. /\ h.pc = "WRITE_REQUEST_EXCLUSIVE" /\ h.target \in Mods /\ h.way \in Nat /\ h.addr \in Blocks
          /\ h.mod \in Mods /\ MayCarry(block[h.target][h.way], h.addr)
      BY <1>4, <2>1, <2>4, <2>9
    <3>2. gs = <<InvalidateFrame(h.target, h.way, h.addr, h.mod)>>
      BY <1>1, <2>1, <2>9
    <3> QED BY <3>1, <3>2, CallInvalidate
  <2> QED BY <1>1, <1>2, <1>4, <1>5, <2>2, <2>3, <2>7, <2>8, <2>9, <2>10, CallInv
<1> QED BY <1>6, <1>7

\* EV_MOD_NMOESI_WRITE_REQUEST_EXCLUSIVE, up-down, keeps the invariant.
LEMMA WriteRequestUpdownInv ==
  ASSUME Inv, NEW c \in DOMAIN chain, WriteRequestUpdown(c)
  PROVE  Inv'
<1>1. PICK f, m, w, pc, h : /\ f = Top(c) /\ m = f.target /\ w = f.way
                            /\ pc = "WRITE_REQUEST_UPDOWN_FINISH" /\ h = To(f, pc)
  OBVIOUS
<1>2. chain[c] # <<>> /\ UNCHANGED <<block, dir, access, fresh>> /\ f.pc = "WRITE_REQUEST_EXCLUSIVE" /\ f.up
  BY <1>1 DEF WriteRequestUpdown, At
<1>3. f.pc \in WritePcs /\ f.pc \in Keeps /\ f.pc \in ReadPcs \union WritePcs
  BY <1>2 DEF WritePcs, WriteKeeps, Keeps
<1>4. /\ f \in RequestFrames /\ m \in Mods /\ f.mod \in Mods /\ f.addr \in Blocks /\ Where(f) = m
      /\ f.pc \notin InvalidatePcs
  BY <1>1, <1>2, <1>3, RequestIs
<1>5. Acts(c, f)
  BY <1>1, <1>2 DEF Acts, Inv, Typed
<1>6. Holding(f, TRUE)
  BY <1>3 DEF Holding
<1>7. /\ MayCarry(block[m][w], f.addr)
      /\ m \notin Caches => f.state \in {"E", "M"}
      /\ f.state # "I" => block[m][w].state # "I"
  <2>1. Held(c, f, f.target, f.way)
    BY <1>1, <1>2, <1>3, <1>6, RequestHolds
  <2>2. Solid(f) <=> f.state # "I"
    BY <1>2 DEF Solid, Nc
  <2> QED BY <2>1, <2>2, <1>1, <1>3 DEF Held
<1>8. pc \in WritePcs /\ pc \in WriteKeeps /\ MayAdvance(f, pc) /\ pc \in Upward
  BY <1>1, <1>2 DEF WritePcs, WriteKeeps, MayAdvance, Upward
<1>9. Advances(f, h, pc)
  BY <1>1, <1>4, <1>8, RequestTo
<1>10. Similar(f, h) /\ Where(h) = m /\ h.pc \notin EvictPcs /\ h.pc \notin InvalidatePcs
  BY <1>1, <1>3, <1>4, <1>8, <1>9, AdvancesIs
<1>11. FactOfHolder(h, block[m][w]) /\ Holding(h, FALSE) /\ Holding(h, TRUE)
  <2>1. ~(pc \in {"READ_REQUEST_UPDOWN_FINISH", "READ_REQUEST_DOWNUP_FINISH"})
    BY <1>1
  <2> QED BY <2>1, <1>1, <1>7, <1>8, <1>9, RequestFact
<1>12. h.pc \in Upward /\ h.addr = f.addr /\ h.way = w
  BY <1>1, <1>8, <1>9 DEF Advances
<1>13. CASE f.state \in {"M", "E"}
  <2>1. Resume(c, Goto(c, h))
    BY <1>1, <1>13 DEF WriteRequestUpdown
  <2> QED BY <1>1, <1>2, <1>4, <1>5, <1>6, <1>10, <1>11, <1>12, <2>1, GoInv
<1>14. CASE f.state \notin {"M", "E"}
  <2>1. PICK gs, q, low, a : /\ gs = Request(q, m, low, a, TRUE, None)
                             /\ q = "WRITE_REQUEST_ACTION" /\ low = Low[m] /\ a = f.addr
    OBVIOUS
  <2>2. Resume(c, Call(c, h, gs))
    BY <1>1, <1>14, <2>1 DEF WriteRequestUpdown
  <2>3. low \in Mods
    BY <1>4, <1>7, <1>14, <2>1, TreeAssumption DEF Caches, TreeAssumption
  <2>4. Callable(gs) /\ Link(h, gs[1])
    <3>1. /\ q \in {"READ_REQUEST_ACTION", "WRITE_REQUEST_ACTION"}
          /\ a \in Blocks /\ None \in Mods \union {None} /\ Low[m] = low /\ m = Where(h) /\ a = h.addr
      BY <1>4, <1>10, <1>12, <2>1
    <3> QED BY <3>1, <1>4, <1>12, <2>1, <2>3, CallUpPlain
  <2> QED BY <1>1, <1>2, <1>4, <1>5, <1>6, <1>10, <1>11, <1>12, <2>2, <2>4, CallInv
<1> QED BY <1>13, <1>14

\* EV_MOD_NMOESI_WRITE_REQUEST_UPDOWN_FINISH keeps the invariant.
LEMMA WriteRequestUpdownFinishInv ==
  ASSUME Inv, NEW c \in DOMAIN chain, WriteRequestUpdownFinish(c)
  PROVE  Inv'
<1>1. PICK f, m, w, a, g, o : f = Top(c) /\ m = f.target /\ w = f.way /\ a = f.addr /\ g = Caller(c) /\ o = dir[m][w]
  OBVIOUS
<1>2. chain[c] # <<>> /\ access' = access /\ f.pc = "WRITE_REQUEST_UPDOWN_FINISH"
  BY <1>1 DEF WriteRequestUpdownFinish, At
<1>3. f.pc \in WritePcs /\ f.pc \in Keeps /\ f.pc \in ReadPcs \union WritePcs
  BY <1>2 DEF WritePcs, WriteKeeps, Keeps
<1>4. /\ f \in RequestFrames /\ m \in Mods /\ f.mod \in Mods /\ a \in Blocks /\ Where(f) = m
      /\ f.pc \notin InvalidatePcs /\ (f.up => Len(chain[c]) > 1)
  BY <1>1, <1>2, <1>3, RequestIs
<1>5. Holding(f, TRUE)
  BY <1>3 DEF Holding
<1>6. f.up /\ Low[f.mod] = m /\ Len(chain[c]) > 1
  BY <1>1, <1>2, <1>4 DEF RequestFrames
<1>7. /\ w \in Ways(m) /\ lock[m][w].by # <<>> /\ block[m][w].trans = a
      /\ o \in DirRecs /\ o.sharers \subseteq {n \in Mods : Low[n] = m}
  <2>1. Held(c, f, f.target, f.way)
    BY <1>1, <1>2, <1>3, <1>5, RequestHolds
  <2> QED BY <2>1, <1>1 DEF Held
<1>8. CASE f.err
  <2>1. Release(c, Return(c, Failed(Caller(c))), Where(f), f.way) /\ UNCHANGED <<block, dir, fresh>>
    BY <1>1, <1>2, <1>4, <1>8 DEF WriteRequestUpdownFinish
  <2>2. Acts(c, f)
    BY <1>1, <1>2, <2>1 DEF Acts, Inv, Typed
  <2> QED BY <2>1, <2>2, <1>4, <1>5, <1>6, FailFreeInv
<1>9. CASE ~f.err
  <2>1. PICK s, filled, d, e, b :
          /\ s = "E" /\ filled = (IF f.state = "I" THEN Filled(m, a, f.data) ELSE fresh)
          /\ d = (IF <<m, a>> \in filled THEN "fresh" ELSE "stale") /\ b = FALSE
          /\ e = [owner |-> f.mod, sharers |-> o.sharers \union {f.mod}]
    OBVIOUS
  <2>2. /\ block' = SetBlock(m, w, a, s)
        /\ dir' = [dir EXCEPT ![m][w] = [owner |-> f.mod, sharers |-> @.sharers \union {f.mod}]]
        /\ fresh' = filled /\ Release(c, Return(c, Given(g, d)), m, w)
    BY <1>1, <1>9, <2>1 DEF WriteRequestUpdownFinish, Given
  <2>3. dir' = SetDir(m, w, e)
    <3>1. m \in DOMAIN dir /\ w \in DOMAIN dir[m]
      BY <1>4, <1>7 DEF Inv, Typed, Memory
    <3> QED BY <3>1, <1>1, <2>1, <2>2 DEF SetDir
  <2>4. d \in Contents /\ s \in States /\ s # "I" /\ (m \in Caches \/ s \in {"E", "M"}) /\ b \in BOOLEAN
    BY <2>1 DEF Contents, States
  <2>5. /\ e \in DirRecs /\ e.sharers \subseteq {n \in Mods : Low[n] = m} /\ (e.owner # None => Low[e.owner] = m)
    BY <1>4, <1>6, <1>7, <2>1 DEF DirRecs
  <2>6. Changed(m, w)
    BY <1>4, <1>7, <2>2, <2>3, <2>4, <2>5, Written
  <2>7. fresh' \subseteq Mods \X Blocks
    <3>1. fresh \subseteq Mods \X Blocks
      BY DEF Inv, Typed
    <3> QED BY <3>1, <1>4, <2>1, <2>2, FreshIs
  <2>8. Acts(c, f)
    BY <1>1, <1>2, <2>7 DEF Acts
  <2>9. g.pc \in Keeps /\ (g \in AccessFrames \/ g \in RequestFrames)
    BY <1>1, <1>2, <1>3, <1>6, AskerIs
  <2>10. PICK h : h = Given(g, d)
    OBVIOUS
  <2>11. Alike(g, h)
    BY <2>4, <2>9, <2>10, LearnsIs
  <2> QED BY <1>1, <1>4, <1>5, <1>6, <2>2, <2>6, <2>8, <2>9, <2>10, <2>11, AnswerInv
<1> QED BY <1>8, <1>9

-----------------------------------------------------------------------------
(* Chains forked by an invalidation.                                         *)

\* The request f of the forked chain c, which the invalidation on top of p waits for.
Forked(c, f, p) ==
  /\ Len(chain[c]) = 1 /\ Len(c) > 1 /\ chain[c][1] = f /\ f \in RequestFrames /\ f.target = c[Len(c)]
  /\ p \in DOMAIN chain /\ p # c /\ chain[p] # <<>> /\ Top(p).pc = "INVALIDATE_FINISH"
  /\ f.mod = Top(p).mod /\ f.addr = Top(p).addr

\* A down-up write request is alone in a forked chain, and an invalidation waits for it.
LEMMA ForkedIs ==
  ASSUME Inv, NEW c \in DOMAIN chain, chain[c] # <<>>, NEW f, f = Top(c), f.pc \in WritePcs, ~f.up
  PROVE  Forked(c, f, Front(c))
<1>0. PICK s, p : s = chain[c] /\ p = Front(c)
  OBVIOUS
<1>1. /\ Len(c) \in Nat /\ Len(c) >= 1 /\ Shape(c, s) /\ f \in Frames
      /\ Len(s) > 1 => Link(Caller(c), f)
  BY <1>0, Enter DEF Well
<1>2. /\ f.pc \notin AccessPcs /\ f.pc \notin EvictPcs /\ f.pc \notin InvalidatePcs /\ f.pc \notin FindPcs
      /\ f.pc \notin ReadPcs /\ f.pc # "MESSAGE_ACTION"
  BY DEF ReadPcs, ReadKeeps, WritePcs, WriteKeeps, AccessPcs, AccessFirst, AccessKeeps, EvictPcs, EvictFirst, InvalidatePcs, FindPcs, FindKeeps
<1>3. ~(Len(s) > 1)
  BY <1>1, <1>2 DEF Link, Serves
<1>4. s \in Seq(Frames) /\ s # <<>> /\ Len(s) = 1 /\ s[1] = f /\ Bottom(c, s[1])
  <2>1. s \in Seq(Frames) /\ s # <<>> /\ s[Len(s)] = f
    BY <1>0, <1>1 DEF Shape, Top, Last
  <2>2. Len(s) \in Nat /\ Len(s) # 0
    BY <2>1
  <2>3. Len(s) = 1
    <3>1. \A n \in Nat : n # 0 /\ ~(n > 1) => n = 1
      OBVIOUS
    <3> QED BY <3>1, <2>2, <1>3
  <2> QED BY <2>1, <2>3, <1>1 DEF Shape
<1>5. f \notin AccessFrames
  BY <1>2 DEF AccessFrames
<1>6. Len(c) # 1 /\ f \in RequestFrames /\ f.target = c[Len(c)]
  BY <1>4, <1>5 DEF Bottom
<1>7. Len(c) > 1
  <2>1. \A n \in Nat : n >= 1 /\ n # 1 => n > 1
    OBVIOUS
  <2> QED BY <2>1, <1>1, <1>6
<1>8. /\ p \in DOMAIN chain /\ chain[p] # <<>> /\ Top(p).pc = "INVALIDATE_FINISH"
      /\ f.mod = Top(p).mod /\ f.addr = Top(p).addr
  <2>1. /\ Front(c) \in DOMAIN chain /\ chain[Front(c)] # <<>> /\ Top(Front(c)).pc = "INVALIDATE_FINISH"
        /\ chain[c][1].mod = Top(Front(c)).mod /\ chain[c][1].addr = Top(Front(c)).addr
    BY <1>7 DEF Inv, Forks
  <2> QED BY <2>1, <1>0, <1>4
<1>9. p # c
  BY <1>2, <1>8 DEF InvalidatePcs
<1> QED BY <1>0, <1>4, <1>6, <1>7, <1>8, <1>9 DEF Forked

Noting(f, r, d) == [f EXCEPT !.pc = "WRITE_REQUEST_REPLY", !.reply = r, !.data = d]

\* A down-up write request that has done its work holds nothing any more.
LEMMA NotingIs ==
  ASSUME NEW f \in RequestFrames, f.pc \in WritePcs, ~f.up, NEW r \in Replies, NEW d \in Contents
  PROVE  /\ Similar(f, Noting(f, r, d)) /\ ~Holding(Noting(f, r, d), TRUE) /\ Sees(Noting(f, r, d))
<1>1. PICK h : h = Noting(f, r, d)
  OBVIOUS
<1>2. h \in RequestFrames /\ h.pc = "WRITE_REQUEST_REPLY" /\ h.mod = f.mod /\ h.addr = f.addr /\ h.target = f.target /\ h.up = f.up
  BY <1>1 DEF RequestFrames, Noting, WritePcs
<1>3. Similar(f, h)
  BY <1>2 DEF Similar, Frames, WritePcs
<1>4. ~Holding(h, TRUE) /\ Sees(h)
  BY <1>2 DEF Holding, Sees, Keeps, First, AccessFirst, AccessKeeps, EvictFirst, FindKeeps, ReadKeeps, WriteKeeps, EvictPcs, InvalidatePcs
<1> QED BY <1>1, <1>3, <1>4

\* c goes on with t, which leaves the line w of m empty and unlocks it, and notes its answer in p.
Noted(c, t, p, r) == [chain EXCEPT ![p][Len(chain[p])].reply = r, ![c] = t]

\* Noting an answer in the waiting invalidation disturbs no other chain.
LEMMA NotedIs ==
  ASSUME Inv, NEW c \in DOMAIN chain, NEW p \in DOMAIN chain, p # c, chain[p] # <<>>, Top(p).pc = "INVALIDATE_FINISH",
         Top(c).pc # "DIR_WAIT", NEW r \in Replies, NEW t, NEW u, u = Noted(c, t, p, r)
  PROVE  /\ DOMAIN u = DOMAIN chain /\ u[c] = t
         /\ \A d \in DOMAIN chain : At(d, "DIR_WAIT") => u[d] = chain[d]
         /\ \A d \in DOMAIN chain \ {c} : u[d] = chain[d] \/ Calm(chain[d], u[d])
<1>1. PICK s : s = chain[p]
  OBVIOUS
<1>2. s \in Seq(Frames) /\ s # <<>> /\ s[Len(s)].pc = "INVALIDATE_FINISH"
  BY <1>1 DEF Inv, Chains, Shape, Top, Last
<1>3. PICK s2 : s2 = [s EXCEPT ![Len(s)].reply = r]
  OBVIOUS
<1>4. u = [chain EXCEPT ![p] = s2, ![c] = t]
  BY <1>1, <1>3 DEF Noted
<1>5. DOMAIN u = DOMAIN chain /\ u[c] = t /\ u[p] = s2 /\ \A d \in DOMAIN chain : d # c /\ d # p => u[d] = chain[d]
  BY <1>4
<1>6. Calm(s, s2)
  BY <1>2, <1>3, NotedCalm
<1>7. ~At(c, "DIR_WAIT") /\ ~At(p, "DIR_WAIT")
  BY DEF At
<1> QED BY <1>1, <1>5, <1>6, <1>7

\* EV_MOD_NMOESI_WRITE_REQUEST_EXCLUSIVE, down-up, keeps the invariant.
LEMMA WriteRequestDownupInv ==
  ASSUME Inv, NEW c \in DOMAIN chain, Asserts(Top(c)), WriteRequestDownup(c)
  PROVE  Inv'
<1>1. PICK f, m, w, p : f = Top(c) /\ m = f.target /\ w = f.way /\ p = Front(c)
  OBVIOUS
<1>2. chain[c] # <<>> /\ UNCHANGED <<dir, access>> /\ f.pc = "WRITE_REQUEST_EXCLUSIVE" /\ ~f.up
  BY <1>1 DEF WriteRequestDownup, At
<1>3. f.pc \in WritePcs /\ f.pc \in Keeps /\ f.pc \in ReadPcs \union WritePcs
  BY <1>2 DEF WritePcs, WriteKeeps, Keeps
<1>4. /\ f \in RequestFrames /\ m \in Mods /\ f.mod \in Mods /\ f.addr \in Blocks /\ Where(f) = m
  BY <1>1, <1>2, <1>3, RequestIs
<1>5. Holding(f, TRUE)
  BY <1>3 DEF Holding
<1>6. w \in Ways(m) /\ c # <<>> /\ lock[m][w].by = c
  <2>1. Held(c, f, f.target, f.way)
    BY <1>1, <1>2, <1>3, <1>5, RequestHolds
  <2> QED BY <2>1, <1>1 DEF Held
<1>7. Well(c, chain[c], lock, block, dir)
  BY <1>1, <1>2, Enter
<1>8. p \in DOMAIN chain /\ p # c /\ chain[p] # <<>> /\ Top(p).pc = "INVALIDATE_FINISH"
  <2>1. Forked(c, f, Front(c))
    BY <1>1, <1>2, <1>3, ForkedIs
  <2> QED BY <2>1, <1>1 DEF Forked
<1>9. PICK r, q, d, h, t : /\ r = (IF f.state \in Dirty THEN "ack_data" ELSE "ack")
                           /\ q = (IF chain[p][Len(chain[p])].reply = "ack_data" THEN chain[p][Len(chain[p])].reply ELSE r)
                           /\ d = CopyOf(m, f.addr) /\ h = Noting(f, r, d) /\ t = Goto(c, h)
  OBVIOUS
<1>10. r \in Replies /\ q \in Replies /\ d \in Contents
  BY <1>9 DEF Replies, Contents, CopyOf
<1>11. PICK u : u = Noted(c, t, p, q)
  OBVIOUS
<1>12. /\ block' = SetBlock(m, w, None, "I") /\ fresh' = Dropped(m, f.addr) /\ lock' = Unlocked(m, w)
       /\ chain' = Woken(u, m, w)
  BY <1>1, <1>2, <1>9, <1>11 DEF WriteRequestDownup, Noting, Noted
<1>13. Similar(f, h) /\ ~Holding(h, TRUE) /\ Sees(h)
  BY <1>2, <1>3, <1>4, <1>9, <1>10, NotingIs
<1>14. Changed(m, w)
  <2>1. dir[m][w].sharers = {}
    BY <1>1, <1>2 DEF Asserts, Unused
  <2> QED BY <2>1, <1>2, <1>4, <1>6, <1>12, Emptied
<1>15. Entries /\ Chains /\ Forks /\ Queues /\ Lockers /\ fresh \subseteq Mods \X Blocks /\ access \in [Mods -> Seq(Threads)]
  BY DEF Inv, Typed
<1>16. /\ lock'[m][w].by = <<>> /\ Entries'
       /\ \A n \in Mods : \A v \in Ways(n) : n # m \/ v # w => lock'[n][v] = lock[n][v]
  BY <1>4, <1>6, <1>12, <1>15, UnlockedIs
<1>17. \A n \in Mods : \A v \in Ways(n) : n # m \/ v # w => Still(n, v)
  BY <1>14, <1>16 DEF Still, Changed
<1>18. Turned(c, t)
  <2>1. \A n \in Mods : \A v \in Ways(n) : Still(n, v) \/ (Holding(f, TRUE) /\ Where(f) = n /\ f.way = v)
    BY <1>1, <1>4, <1>5, <1>17
  <2>2. lock'[Where(f)][f.way].by # c
    BY <1>1, <1>4, <1>6, <1>16
  <2> QED BY <1>1, <1>2, <1>6, <1>7, <1>9, <1>13, <2>1, <2>2, Going
<1>19. Top(c).pc # "DIR_WAIT" /\ Top(c).pc # "INVALIDATE_FINISH"
  BY <1>1, <1>2
<1>20. /\ DOMAIN u = DOMAIN chain /\ u[c] = t
       /\ \A e \in DOMAIN chain : At(e, "DIR_WAIT") => u[e] = chain[e]
       /\ \A e \in DOMAIN chain \ {c} : u[e] = chain[e] \/ Calm(chain[e], u[e])
  BY <1>8, <1>10, <1>11, <1>19, NotedIs
<1>21. /\ DOMAIN chain' = DOMAIN chain /\ chain'[c] = u[c]
       /\ \A e \in DOMAIN chain : chain'[e] = u[e] \/ (Calm(chain[e], chain'[e]) /\ At(e, "DIR_WAIT"))
       /\ Queues'
  BY <1>4, <1>6, <1>12, <1>15, <1>19, <1>20, ReleaseOthers
<1>22. Others(c) /\ chain'[c] = t
  BY <1>20, <1>21 DEF Others
<1>23. Locks(c, t)
  <2>1. ASSUME NEW n \in Mods, NEW v \in Ways(n) PROVE lock'[n][v].by = lock[n][v].by \/ lock'[n][v].by = <<>>
    BY <1>16
  <2> QED BY <2>1 DEF Locks
<1>24. Chains' /\ Forks' /\ Lockers'
  BY <1>2, <1>15, <1>18, <1>19, <1>21, <1>22, <1>23, OthersKept
<1>25. Settled(m, w)
  BY <1>14, <1>16, <1>17 DEF Settled, Changed, Elsewhere
<1>26. Lines' /\ OneMatch'
  BY <1>4, <1>6, <1>25, SettledKept
<1>27. Typed'
  <2>1. fresh' \subseteq Mods \X Blocks
    BY <1>4, <1>12, <1>15, FreshIs
  <2>2. Served' /\ Memory'
    BY <1>14, <1>21 DEF Inv, Typed, Served, Changed
  <2> QED BY <2>1, <2>2, <1>2, <1>15, <1>16 DEF Typed
<1> QED BY <1>21, <1>24, <1>26, <1>27 DEF Inv

\* A line that is evicted or invalidated is locked by the chain that does it.
LEMMA Owned ==
  ASSUME NEW d, NEW s, Shape(d, s), Hold(d, s, lock, block), NEW i \in 1 .. Len(s)
  PROVE  /\ s[i].pc \in EvictPcs =>
              s[i].mod \in Mods /\ s[i].srcWay \in Ways(s[i].mod) /\ lock[s[i].mod][s[i].srcWay].by = d
         /\ s[i].pc \in InvalidatePcs =>
              s[i].mod \in Mods /\ s[i].way \in Ways(s[i].mod) /\ lock[s[i].mod][s[i].way].by = d
<1>1. s \in Seq(Frames) /\ Len(s) \in Nat
  BY DEF Shape
<1>2. ASSUME NEW j \in 1 .. Len(s), HoldsAt(s, j)
      PROVE  Where(s[j]) \in Mods /\ s[j].way \in Ways(Where(s[j])) /\ lock[Where(s[j])][s[j].way].by = d
  <2>1. s[j] \in Frames
    BY <1>1
  <2>2. Where(s[j]) \in Mods
    BY <1>2, <2>1, WhereIs, TreeAssumption DEF HoldsAt
  <2> QED BY <1>2, <2>2 DEF Hold
<1>3. ASSUME s[i].pc \in EvictPcs
      PROVE  s[i].mod \in Mods /\ s[i].srcWay \in Ways(s[i].mod) /\ lock[s[i].mod][s[i].srcWay].by = d
  <2>1. /\ i - 1 \in 1 .. Len(s) /\ HoldsAt(s, i - 1)
        /\ Where(s[i - 1]) = s[i].mod /\ s[i - 1].way = s[i].srcWay
    BY <1>3, OwnLine
  <2> QED BY <2>1, <1>2
<1>4. ASSUME s[i].pc \in InvalidatePcs
      PROVE  s[i].mod \in Mods /\ s[i].way \in Ways(s[i].mod) /\ lock[s[i].mod][s[i].way].by = d
  <2>1. PICK j \in 1 .. i - 1 : HoldsAt(s, j) /\ Where(s[j]) = s[i].mod /\ s[j].way = s[i].way
    BY <1>4, OwnLine
  <2>2. j \in 1 .. Len(s)
    BY <1>1
  <2> QED BY <2>1, <2>2, <1>2
<1> QED BY <1>3, <1>4

\* Sharers are only forgotten.
LEMMA ForgetsFacts ==
  ASSUME NEW d, NEW s, Shape(d, s), Hold(d, s, lock, block), Facts(s, block, dir), NEW dr,
         \A m \in Mods : \A w \in Ways(m) : dir[m][w].sharers = {} => dr[m][w].sharers = {}
  PROVE  Facts(s, block, dr)
<1>1. ASSUME NEW i \in 1 .. Len(s)
      PROVE  HolderFact(s, i, block) /\ EvictFact(s, i, block, dr) /\ InvalidateFact(s, i, block, dr)
  <2>1. HolderFact(s, i, block) /\ EvictFact(s, i, block, dir) /\ InvalidateFact(s, i, block, dir)
    BY DEF Facts
  <2>2. /\ s[i].pc \in EvictPcs => s[i].mod \in Mods /\ s[i].srcWay \in Ways(s[i].mod)
        /\ s[i].pc \in InvalidatePcs => s[i].mod \in Mods /\ s[i].way \in Ways(s[i].mod)
    BY Owned
  <2>3. EvictFact(s, i, block, dr)
    BY <2>1, <2>2 DEF EvictFact
  <2>4. InvalidateFact(s, i, block, dr)
    BY <2>1, <2>2 DEF InvalidateFact
  <2> QED BY <2>1, <2>3, <2>4
<1> QED BY <1>1 DEF Facts

\* The invalidation f on top of c.
Invalidating(c, f, g) ==
  /\ f \in InvalidateFrames /\ f.mod \in Mods /\ f.way \in Ways(f.mod) /\ f.addr \in Blocks
  /\ lock[f.mod][f.way].by = c /\ FactOfInvalidate(f, block[f.mod][f.way])
  /\ Len(chain[c]) > 1 /\ Similar(g, g) /\ g.pc \notin InvalidatePcs
  /\ g.pc \in First => g.pc \in Keeps
  /\ g.pc = "EVICT_INVALID" => g.mod = f.mod /\ g.srcWay = f.way /\ f.except = None
  /\ Holding(g, FALSE) => FactOfHolder(g, block[Where(g)][g.way])
  /\ g.pc \in EvictPcs => FactOfEvict(g, block[g.mod][g.srcWay])

\* Who invalidates, and that it holds the line.
LEMMA InvalidatingIs ==
  ASSUME Inv, NEW c \in DOMAIN chain, chain[c] # <<>>, Top(c).pc \in InvalidatePcs
  PROVE  Invalidating(c, Top(c), Caller(c))
<1>0. PICK s, n, f, g : s = chain[c] /\ n = Len(s) /\ f = Top(c) /\ g = Caller(c)
  OBVIOUS
<1>1. f.pc \notin AccessPcs /\ f.pc \notin WritePcs /\ f.pc \notin FindPcs /\ f.pc \notin EvictPcs /\ f.pc \notin ReadPcs
      /\ f.pc # "MESSAGE_ACTION"
  BY <1>0 DEF InvalidatePcs, AccessPcs, AccessFirst, AccessKeeps, WritePcs, WriteKeeps, FindPcs, FindKeeps, EvictPcs, EvictFirst, ReadPcs, ReadKeeps
<1>2. Well(c, s, lock, block, dir) /\ f \in Frames /\ Len(chain[c]) > 1 /\ Link(g, f) /\ g \in Frames
  BY <1>0, <1>1, Enter
<1>3. n \in 1 .. Len(s) /\ s[n] = f
  BY <1>0, <1>2 DEF Well, Shape, Top, Last
<1>4. Shape(c, s) /\ Hold(c, s, lock, block) /\ Facts(s, block, dir)
  BY <1>2 DEF Well
<1>5. f.mod \in Mods /\ f.way \in Ways(f.mod) /\ lock[f.mod][f.way].by = c
  BY <1>0, <1>3, <1>4, Owned
<1>6. FactOfInvalidate(f, block[f.mod][f.way])
  BY <1>0, <1>3, <1>4 DEF Facts, InvalidateFact
<1>7. f \in InvalidateFrames
  BY <1>0, <1>2, ByPc
<1>8. Similar(g, g)
  BY <1>2, ByPc DEF Similar, Frames, AccessFrames, FindFrames, EvictFrames, InvalidateFrames, RequestFrames, MessageFrames
<1>9. g.pc \in {"EVICT_INVALID", "WRITE_REQUEST_EXCLUSIVE"}
  BY <1>0, <1>1, <1>2 DEF Link
<1>10. g.pc = "EVICT_INVALID" => g.mod = f.mod /\ g.srcWay = f.way /\ f.except = None
  BY <1>0, <1>1, <1>2 DEF Link
<1>11. g.pc \notin InvalidatePcs /\ (g.pc \in First => g.pc \in Keeps)
  BY <1>9 DEF InvalidatePcs, First, AccessFirst, EvictFirst, Keeps, WriteKeeps
<1>12. /\ Holding(g, FALSE) => FactOfHolder(g, block[Where(g)][g.way])
       /\ g.pc \in EvictPcs => FactOfEvict(g, block[g.mod][g.srcWay])
  BY <1>0, <1>2, EnterCaller
<1> QED BY <1>0, <1>2, <1>5, <1>6, <1>7, <1>8, <1>10, <1>11, <1>12 DEF Invalidating, InvalidateFrames

\* Nobody to invalidate.
LEMMA NobodyInvalidated ==
  ASSUME Inv, NEW c \in DOMAIN chain, chain[c] # <<>>, NEW f, f = Top(c), f.pc = "INVALIDATE",
         dir[f.mod][f.way].sharers \ {f.except} = {}, Resume(c, Front(chain[c])), UNCHANGED <<block, access, fresh>>,
         Memory', \A n \in Mods : \A v \in Ways(n) : dir'[n][v] = dir[n][v]
  PROVE  Inv'
<1>1. PICK g, m, w : g = Caller(c) /\ m = f.mod /\ w = f.way
  OBVIOUS
<1>2. f.pc \in InvalidatePcs
  BY DEF InvalidatePcs
<1>3. Invalidating(c, f, g)
  BY <1>1, <1>2, InvalidatingIs
<1>4. /\ m \in Mods /\ w \in Ways(m) /\ Len(chain[c]) > 1 /\ Similar(g, g) /\ g.pc \notin InvalidatePcs
      /\ g.pc \in First => g.pc \in Keeps
      /\ g.pc = "EVICT_INVALID" => g.mod = m /\ g.srcWay = w /\ f.except = None
      /\ Holding(g, FALSE) => FactOfHolder(g, block[Where(g)][g.way])
      /\ g.pc \in EvictPcs => FactOfEvict(g, block[g.mod][g.srcWay])
  BY <1>1, <1>3 DEF Invalidating
<1>5. Acts(c, f)
  BY DEF Acts, Inv, Typed
<1>6. chain[c] \in Seq(Frames)
  BY DEF Inv, Chains, Shape
<1>7. Resume(c, Return(c, g))
  BY <1>1, <1>4, <1>6, FrontIs
<1>8. ~Holding(f, TRUE)
  BY DEF Holding, Keeps, First, AccessFirst, AccessKeeps, EvictFirst, FindKeeps, ReadKeeps, WriteKeeps
<1>9. Holding(g, TRUE) => Holding(g, FALSE)
  BY <1>4 DEF Holding
<1>10. Holding(g, FALSE) => Holding(g, TRUE)
  BY DEF Holding
<1>11. g.pc = "EVICT_INVALID" => dir[g.mod][g.srcWay].sharers = {}
  <2> SUFFICES ASSUME g.pc = "EVICT_INVALID" PROVE dir[m][w].sharers = {}
    BY <1>4
  <2>1. dir[m][w].sharers \subseteq Mods
    BY <1>4, DirIs DEF Inv, Typed
  <2>2. dir[m][w].sharers \ {None} = {}
    BY <1>1, <1>4
  <2> QED BY <2>1, <2>2, TreeAssumption DEF TreeAssumption
<1>12. c # <<>> /\ Well(c, chain[c], lock, block, dir) /\ lock[m][w].by = c
  <2>1. c # <<>> /\ Well(c, chain[c], lock, block, dir)
    BY Enter
  <2> QED BY <1>1, <1>3, <2>1 DEF Invalidating
<1>13. lock' = lock
  BY DEF Resume
<1>14. \A n \in Mods : \A v \in Ways(n) : Still(n, v)
  BY <1>13 DEF Still
<1>15. Holding(g, FALSE) => Holds(c, g)
  <2>1. Holding(g, FALSE) =>
          /\ Where(g) \in Mods /\ g.way \in Ways(Where(g)) /\ lock[Where(g)][g.way].by = c
          /\ block[Where(g)][g.way].trans = g.addr
    BY <1>1, <1>4, EnterCaller
  <2> QED BY <2>1, <1>4, <1>13 DEF Holds
<1>16. g.pc = "EVICT_INVALID" => dir'[g.mod][g.srcWay].sharers = {}
  BY <1>4, <1>11
<1>17. Turned(c, Return(c, g))
  BY <1>1, <1>4, <1>8, <1>9, <1>10, <1>12, <1>14, <1>15, <1>16, Returning
<1>18. Changed(m, w)
  <2>1. LineOk(m, block'[m][w], dir'[m][w])
    BY <1>4 DEF Inv, Lines, LineOk
  <2> QED BY <1>4, <2>1 DEF Changed
<1> QED BY <1>4, <1>5, <1>7, <1>12, <1>17, <1>18, ActsInv

-----------------------------------------------------------------------------
(* INVALIDATE: a write request for every sharer.                             *)

\* The name of the chain forked from c for the sharer n: no chain has it yet.
ForkNamed(d, c, n) ==
  /\ d \in Seq(Threads \union Mods) /\ Len(d) \in Nat /\ Len(d) > 1 /\ Len(d) >= 1 /\ Len(d) # 1
  /\ d[Len(d)] = n /\ Last(d) = n /\ Front(d) = c /\ d \notin DOMAIN chain

\* No chain has the name of a fork of a chain that is not waiting for answers.
LEMMA ForkName ==
  ASSUME Forks, NEW c \in DOMAIN chain, Top(c).pc # "INVALIDATE_FINISH", NEW n \in Mods
  PROVE  ForkNamed(Append(c, n), c, n)
<1>0. PICK d : d = Append(c, n)
  OBVIOUS
<1>1. c \in Seq(Threads \union Mods) /\ Len(c) >= 1 /\ Len(c) \in Nat
  BY DEF Forks
<1>2. /\ d \in Seq(Threads \union Mods) /\ Len(d) = Len(c) + 1 /\ d # <<>>
      /\ \A i \in 1 .. Len(c) : d[i] = c[i]
      /\ d[Len(c) + 1] = n
  <2>1. n \in Threads \union Mods
    OBVIOUS
  <2> QED BY <1>0, <1>1, <2>1, AppendProperties
<1>3. Len(d) \in Nat /\ Len(d) > 1 /\ Len(d) >= 1 /\ Len(d) # 1 /\ Len(d) - 1 = Len(c)
  BY <1>1, <1>2
<1>4. d[Len(d)] = n /\ Last(d) = n
  BY <1>2 DEF Last
<1>5. Front(d) = c
  <2>1. Front(d) = [i \in 1 .. Len(c) |-> d[i]]
    BY <1>3 DEF Front
  <2>2. c = [i \in 1 .. Len(c) |-> c[i]]
    BY <1>1
  <2> QED BY <1>2, <2>1, <2>2
<1>6. d \notin DOMAIN chain
  BY <1>3, <1>5 DEF Forks
<1> QED BY <1>0, <1>2, <1>3, <1>4, <1>5, <1>6, Zenon DEF ForkNamed

\* The forked chain starts with nothing locked.
Born(d, s, m, a, lk, bl, dr) ==
  Well(d, s, lk, bl, dr) /\ s \in Seq(Frames) /\ s # <<>> /\ s[1].mod = m /\ s[1].addr = a

\* A forked chain starts well formed and with nothing held.
LEMMA ForkStart ==
  ASSUME NEW m \in Mods, NEW n \in Mods, Low[n] = m, NEW a \in Blocks,
         NEW d, Len(d) > 1, Len(d) # 1, d[Len(d)] = n, NEW lk, NEW bl, NEW dr
  PROVE  Born(d, Request("WRITE_REQUEST_ACTION", m, n, a, FALSE, None), m, a, lk, bl, dr)
<1>0. PICK s : s = Request("WRITE_REQUEST_ACTION", m, n, a, FALSE, None)
  OBVIOUS
<1>1. PICK g, e : g = RequestFrame("WRITE_REQUEST_ACTION", m, n, a, FALSE, None) /\ e = FindFrame(n, a, TRUE, NoWay)
  OBVIOUS
<1>2. /\ g.pc = "WRITE_REQUEST_ACTION" /\ g.mod = m /\ g.target = n /\ g.addr = a /\ g.up = FALSE
      /\ g \in RequestRecs
  BY <1>1 DEF RequestFrame, RequestRecs, ReadPcs, WritePcs, States, Replies, Contents, NoWay
<1>3. g \in RequestFrames /\ g \in Frames
  BY <1>2 DEF RequestFrames, RequestRecs, Frames
<1>4. /\ e \in Frames /\ e.pc \in FindPcs /\ e.mod = n /\ e.addr = a
      /\ ~Holding(e, TRUE) /\ e.pc \notin EvictPcs /\ e.pc \notin InvalidatePcs
  <2>1. NoWay \in Nat
    BY DEF NoWay
  <2>2. Seeks(e, n, a)
    BY <1>1, <2>1, FindIs
  <2> QED BY <2>2 DEF Seeks
<1>5. /\ g.pc \in First /\ Where(g) = n /\ ~Holding(g, FALSE) /\ g.pc \in WritePcs
      /\ g.pc \notin EvictPcs /\ g.pc \notin InvalidatePcs
  BY <1>2 DEF First, Where, ReadPcs, WritePcs, EvictPcs, EvictFirst, InvalidatePcs, Holding, Keeps, AccessKeeps, FindKeeps, ReadKeeps, WriteKeeps
<1>6. Link(g, e)
  BY <1>2, <1>4, <1>5 DEF Link
<1>7. s = <<g, e>>
  BY <1>0, <1>1 DEF Request
<1>8. s \in Seq(Frames) /\ Len(s) = 2 /\ s[1] = g /\ s[2] = e /\ s # <<>>
  <2>1. g \in Frames /\ e \in Frames
    BY <1>3, <1>4
  <2>2. /\ <<g, e>> \in Seq(Frames) /\ Len(<<g, e>>) = 2 /\ <<g, e>>[1] = g /\ <<g, e>>[2] = e /\ <<g, e>> # <<>>
    BY <2>1, Two
  <2> QED BY <1>7, <2>2, Zenon
<1>9. /\ \A i \in 1 .. Len(s) : i = 1 \/ i = 2
      /\ \A i \in 1 .. Len(s) - 1 : i = 1 /\ i + 1 = 2
  <2>1. /\ \A i \in 1 .. 2 : i = 1 \/ i = 2
        /\ \A i \in 1 .. 2 - 1 : i = 1 /\ i + 1 = 2
    OBVIOUS
  <2> QED BY <1>8, <2>1, Zenon
<1>10. Shape(d, s)
  <2>1. \A i \in 1 .. Len(s) - 1 : Link(s[i], s[i + 1])
    BY <1>6, <1>8, <1>9, Zenon
  <2>2. Bottom(d, s[1])
    BY <1>2, <1>3, <1>5, <1>8 DEF Bottom
  <2> QED BY <1>8, <2>1, <2>2 DEF Shape
<1>11. \A i \in 1 .. Len(s) : /\ ~HoldsAt(s, i) /\ s[i].pc \notin EvictPcs /\ s[i].pc \notin InvalidatePcs
  BY <1>4, <1>5, <1>8, <1>9 DEF HoldsAt, Holding
<1>12. Hold(d, s, lk, bl)
  BY <1>11 DEF Hold
<1>13. Facts(s, bl, dr)
  BY <1>11 DEF Facts, HolderFact, EvictFact, InvalidateFact
<1>15. Well(d, s, lk, bl, dr)
  BY <1>10, <1>12, <1>13 DEF Well
<1>16. s[1].mod = m /\ s[1].addr = a
  BY <1>2, <1>8, Zenon
<1> QED BY <1>0, <1>8, <1>15, <1>16, Zenon DEF Born

\* dr knows no sharers but those of dir.
Shrinks(dr) == \A m \in Mods : \A w \in Ways(m) : dir[m][w].sharers = {} => dr[m][w].sharers = {}

\* The frames t of c, which wait for the answers to the invalidation f on top of s.
Waiting(c, s, t, f, dr) ==
  /\ Well(c, t, lock, block, dr) /\ t \in Seq(Frames) /\ t # <<>> /\ Len(t) = Len(s)
  /\ t[1].mod = s[1].mod /\ t[1].addr = s[1].addr
  /\ Last(t).pc = "INVALIDATE_FINISH" /\ Last(t).mod = f.mod /\ Last(t).addr = f.addr
  /\ \A i \in 1 .. Len(s) : HoldsAt(s, i) => HoldsAt(t, i) /\ t[i] = s[i]

\* The invalidation goes on to wait for the answers.
LEMMA WaitsForAnswers ==
  ASSUME NEW c, NEW s, Well(c, s, lock, block, dir), s # <<>>, NEW f \in InvalidateFrames, f = s[Len(s)],
         f.pc = "INVALIDATE", Carries(block[f.mod][f.way], f.addr), NEW dr, Shrinks(dr),
         f.except = None => dr[f.mod][f.way].sharers = {}
  PROVE  Waiting(c, s, [s EXCEPT ![Len(s)] = To(f, "INVALIDATE_FINISH")], f, dr)
<1>0. PICK t : t = [s EXCEPT ![Len(s)] = To(f, "INVALIDATE_FINISH")]
  OBVIOUS
<1>s. Shape(c, s) /\ Hold(c, s, lock, block) /\ Facts(s, block, dir)
  BY DEF Well
<1>1. PICK n, h : n = Len(s) /\ h = To(f, "INVALIDATE_FINISH")
  OBVIOUS
<1>2. s \in Seq(Frames) /\ n \in Nat /\ n > 0 /\ n \in 1 .. n /\ f \in Frames
  BY <1>1, <1>s DEF Shape, Frames
<1>3. /\ h \in InvalidateFrames /\ h.pc = "INVALIDATE_FINISH" /\ h.mod = f.mod /\ h.way = f.way /\ h.addr = f.addr
      /\ h.except = f.except
  BY <1>1 DEF To, InvalidateFrames, InvalidatePcs
<1>4. h \in Frames /\ Similar(f, h)
  BY <1>2, <1>3 DEF Frames, Similar, InvalidatePcs
<1>5. t \in Seq(Frames) /\ Len(t) = n /\ t # <<>> /\ t[n] = h /\ \A i \in 1 .. n - 1 : t[i] = s[i]
  BY <1>0, <1>1, <1>2, <1>4
<1>6. Shape(c, t)
  <2>1. n - 1 \in Nat /\ n - 1 < Len(s) /\ n - 1 < Len(t) /\ (n - 1) + 1 = n
    BY <1>1, <1>2, <1>5
  <2>2. \A i \in (n - 1) + 1 .. Len(t) - 1 : Link(t[i], t[i + 1])
    BY <1>2, <1>5
  <2>3. Similar(s[(n - 1) + 1], t[(n - 1) + 1])
    BY <1>1, <1>4, <1>5, <2>1
  <2> QED BY <2>1, <2>2, <2>3, <1>5, <1>s, ShapeKept
<1>7. ~HoldsAt(s, n) /\ ~HoldsAt(t, n)
  BY <1>1, <1>3, <1>5 DEF HoldsAt, Holding, Keeps, First, AccessKeeps, FindKeeps, ReadKeeps, WriteKeeps, AccessFirst, EvictFirst
<1>8. \A i \in 1 .. n : i # n => i \in 1 .. n - 1
  BY <1>2
<1>9. \A i \in 1 .. n : (HoldsAt(t, i) <=> HoldsAt(s, i)) /\ (HoldsAt(s, i) => t[i] = s[i])
  BY <1>1, <1>5, <1>7, <1>8 DEF HoldsAt
<1>10. Hold(c, t, lock, block)
  BY <1>1, <1>5, <1>9, <1>s DEF Hold
<1>11. Facts(s, block, dr)
  BY <1>s, ForgetsFacts DEF Shrinks
<1>12. ASSUME NEW i \in 1 .. n PROVE HolderFact(t, i, block)
  BY <1>1, <1>9, <1>11 DEF Facts, HolderFact
<1>13. ASSUME NEW i \in 1 .. n PROVE EvictFact(t, i, block, dr) /\ InvalidateFact(t, i, block, dr)
  <2>1. CASE i = n
    <3>1. h.pc \notin EvictPcs
      BY <1>3 DEF EvictPcs, EvictFirst
    <3>2. FactOfInvalidate(h, block[h.mod][h.way])
      BY <1>3 DEF FactOfInvalidate
    <3>3. h.except = None => dr[h.mod][h.way].sharers = {}
      BY <1>3
    <3> QED BY <2>1, <3>1, <3>2, <3>3, <1>5 DEF EvictFact, InvalidateFact
  <2>2. CASE i # n
    BY <2>2, <1>1, <1>5, <1>8, <1>11 DEF Facts, EvictFact, InvalidateFact
  <2> QED BY <2>1, <2>2
<1>14. Facts(t, block, dr)
  BY <1>5, <1>12, <1>13 DEF Facts
<1>15. t[1].mod = s[1].mod /\ t[1].addr = s[1].addr
  <2>1. CASE n = 1
    BY <2>1, <1>1, <1>3, <1>5
  <2>2. CASE n # 1
    BY <2>2, <1>2, <1>5
  <2> QED BY <2>1, <2>2
<1>16. Last(t).pc = "INVALIDATE_FINISH" /\ Last(t).mod = f.mod /\ Last(t).addr = f.addr
  BY <1>3, <1>5 DEF Last
<1>17. Well(c, t, lock, block, dr)
  BY <1>6, <1>10, <1>14 DEF Well
<1>18. \A i \in 1 .. Len(s) : HoldsAt(s, i) => HoldsAt(t, i) /\ t[i] = s[i]
  BY <1>1, <1>9
<1>19. t \in Seq(Frames) /\ t # <<>> /\ Len(t) = Len(s)
  BY <1>1, <1>5
<1> QED BY <1>0, <1>15, <1>16, <1>17, <1>18, <1>19, Zenon DEF Waiting

\* Every chain once c waits for the answers of S.
SentTo(c, S) == {Append(c, n) : n \in S}
Spread(c, f, S, t) ==
  /\ DOMAIN chain' = DOMAIN chain \union SentTo(c, S)
  /\ chain'[c] = t
  /\ \A d \in DOMAIN chain \ {c} : chain'[d] = chain[d]
  /\ \A d \in SentTo(c, S) :
       /\ d \notin DOMAIN chain
       /\ chain'[d] = Request("WRITE_REQUEST_ACTION", f.mod, Last(d), f.addr, FALSE, None)

\* The chains after INVALIDATE has sent its write requests.
LEMMA SpreadIs ==
  ASSUME Forks, NEW c \in DOMAIN chain, Top(c).pc = "INVALIDATE", NEW S \in SUBSET Mods, NEW f, NEW t,
         chain' = [d \in DOMAIN chain \union SentTo(c, S) |->
                     IF d \in SentTo(c, S) THEN Request("WRITE_REQUEST_ACTION", f.mod, Last(d), f.addr, FALSE, None)
                     ELSE Step(c, t)[d]]
  PROVE  Spread(c, f, S, t)
<1>1. ASSUME NEW d \in SentTo(c, S) PROVE d \notin DOMAIN chain
  <2>1. PICK n \in S : d = Append(c, n)
    BY DEF SentTo
  <2>2. n \in Mods /\ Top(c).pc # "INVALIDATE_FINISH"
    OBVIOUS
  <2>3. ForkNamed(Append(c, n), c, n)
    BY <2>2, ForkName
  <2> QED BY <2>1, <2>3 DEF ForkNamed
<1>2. Step(c, t)[c] = t /\ \A d \in DOMAIN chain \ {c} : Step(c, t)[d] = chain[d]
  BY DEF Step
<1>3. PICK sent : sent = SentTo(c, S)
  OBVIOUS
<1>4. chain' = [d \in DOMAIN chain \union sent |->
                  IF d \in sent THEN Request("WRITE_REQUEST_ACTION", f.mod, Last(d), f.addr, FALSE, None)
                  ELSE Step(c, t)[d]]
  BY <1>3
<1>5. \A d \in sent : d \notin DOMAIN chain
  BY <1>1, <1>3
<1>6. /\ DOMAIN chain' = DOMAIN chain \union sent
      /\ chain'[c] = t
      /\ \A d \in DOMAIN chain \ {c} : chain'[d] = chain[d]
      /\ \A d \in sent : chain'[d] = Request("WRITE_REQUEST_ACTION", f.mod, Last(d), f.addr, FALSE, None)
  BY <1>2, <1>4, <1>5
<1> QED BY <1>3, <1>5, <1>6, Zenon DEF Spread

\* What a chain sent to the sharer n starts as.
Begun(d, c, f, n) ==
  /\ d \in Seq(Threads \union Mods) /\ Len(d) >= 1 /\ Len(d) > 1 /\ Len(d) # 1 /\ Front(d) = c /\ d[Len(d)] = n
  /\ Well(d, chain'[d], lock, block, dir') /\ chain'[d] # <<>>
  /\ chain'[d][1].mod = f.mod /\ chain'[d][1].addr = f.addr

\* The chain of each sharer, once forked.
LEMMA BegunIs ==
  ASSUME Forks, NEW c \in DOMAIN chain, Top(c).pc = "INVALIDATE", NEW S \in SUBSET Mods, NEW f, NEW t, Spread(c, f, S, t),
         f.mod \in Mods, f.addr \in Blocks, \A n \in S : Low[n] = f.mod, NEW d \in SentTo(c, S)
  PROVE  \E n \in Mods : Begun(d, c, f, n)
<1>1. PICK n \in S : d = Append(c, n)
  BY DEF SentTo
<1>2. n \in Mods /\ Top(c).pc # "INVALIDATE_FINISH" /\ Low[n] = f.mod
  OBVIOUS
<1>3. /\ d \in Seq(Threads \union Mods) /\ Len(d) \in Nat /\ Len(d) > 1 /\ Len(d) >= 1 /\ Len(d) # 1
      /\ d[Len(d)] = n /\ Last(d) = n /\ Front(d) = c
  <2>1. ForkNamed(Append(c, n), c, n)
    BY <1>2, ForkName
  <2> QED BY <1>1, <2>1, Zenon DEF ForkNamed
<1>4. PICK m, a, dr, s : m = f.mod /\ a = f.addr /\ dr = dir' /\ s = chain'[d]
  OBVIOUS
<1>5. s = Request("WRITE_REQUEST_ACTION", m, n, a, FALSE, None)
  BY <1>3, <1>4 DEF Spread
<1>6. Well(d, s, lock, block, dr) /\ s # <<>> /\ s[1].mod = m /\ s[1].addr = a
  <2>1. m \in Mods /\ a \in Blocks /\ Low[n] = m
    BY <1>2, <1>4
  <2>2. Born(d, Request("WRITE_REQUEST_ACTION", m, n, a, FALSE, None), m, a, lock, block, dr)
    BY <1>2, <1>3, <2>1, ForkStart
  <2> QED BY <1>5, <2>2, Zenon DEF Born
<1>7. Well(d, chain'[d], lock, block, dir') /\ chain'[d] # <<>> /\ chain'[d][1].mod = f.mod /\ chain'[d][1].addr = f.addr
  BY <1>4, <1>6, Zenon
<1> QED BY <1>2, <1>3, <1>7 DEF Begun

\* Nobody in a queue takes part, and no queue changes.
LEMMA QueuesStay ==
  ASSUME Queues, lock' = lock, \A d \in DOMAIN chain : At(d, "DIR_WAIT") => d \in DOMAIN chain' /\ chain'[d] = chain[d]
  PROVE  Queues'
<1> SUFFICES ASSUME NEW m \in Mods, NEW w \in Ways(m), NEW q, q = lock[m][w].queue
             PROVE  /\ q \in Seq(DOMAIN chain')
                    /\ \A i \in 1 .. Len(q) : /\ chain'[q[i]] # <<>> /\ Last(chain'[q[i]]).pc = "DIR_WAIT"
                                              /\ Last(chain'[q[i]]).mod = m /\ Last(chain'[q[i]]).way = w
                    /\ \A i, j \in 1 .. Len(q) : q[i] = q[j] => i = j
  BY DEF Queues, At, Top
<1>1. /\ q \in Seq(DOMAIN chain)
      /\ \A i \in 1 .. Len(q) : At(q[i], "DIR_WAIT") /\ Top(q[i]).mod = m /\ Top(q[i]).way = w
      /\ \A i, j \in 1 .. Len(q) : q[i] = q[j] => i = j
  BY DEF Queues
<1>2. q \in Seq(DOMAIN chain')
  <2>1. q \in [1 .. Len(q) -> DOMAIN chain] /\ Len(q) \in Nat
    BY <1>1
  <2>2. \A i \in 1 .. Len(q) : q[i] \in DOMAIN chain'
    BY <1>1, <2>1
  <2> QED BY <2>1, <2>2
<1>3. ASSUME NEW i \in 1 .. Len(q)
      PROVE  /\ chain'[q[i]] # <<>> /\ Last(chain'[q[i]]).pc = "DIR_WAIT"
             /\ Last(chain'[q[i]]).mod = m /\ Last(chain'[q[i]]).way = w
  <2>1. PICK d : d = q[i]
    OBVIOUS
  <2>2. d \in DOMAIN chain /\ At(d, "DIR_WAIT") /\ Top(d).mod = m /\ Top(d).way = w
    BY <1>1, <2>1
  <2>3. chain'[d] = chain[d]
    BY <2>2
  <2> QED BY <2>1, <2>2, <2>3 DEF At, Top
<1> QED BY <1>1, <1>2, <1>3

\* What c waits with.
Waits(c, f, t) ==
  /\ Well(c, t, lock, block, dir') /\ t # <<>> /\ t[1].mod = chain[c][1].mod /\ t[1].addr = chain[c][1].addr
  /\ Last(t).pc = "INVALIDATE_FINISH" /\ Last(t).mod = f.mod /\ Last(t).addr = f.addr
  /\ \A i \in 1 .. Len(chain[c]) : HoldsAt(chain[c], i) => i \in 1 .. Len(t) /\ HoldsAt(t, i) /\ t[i] = chain[c][i]

\* c, at the INVALIDATE f, sends write requests to S and goes on with t.
Sending(c, f, S, t) ==
  /\ S \in SUBSET Mods /\ (\A n \in S : Low[n] = f.mod) /\ f.mod \in Mods /\ f.addr \in Blocks
  /\ Spread(c, f, S, t) /\ Waits(c, f, t) /\ Shrinks(dir')
  /\ block' = block /\ lock' = lock

\* Sending the write requests keeps the chains, the forks, the queues and the lock holders.
LEMMA SpreadInv ==
  ASSUME Inv, NEW c \in DOMAIN chain, chain[c] # <<>>, Top(c).pc = "INVALIDATE", NEW S, NEW f, NEW t, Sending(c, f, S, t)
  PROVE  Chains' /\ Forks' /\ Queues' /\ Lockers'
<1>0. /\ S \in SUBSET Mods /\ (\A n \in S : Low[n] = f.mod) /\ f.mod \in Mods /\ f.addr \in Blocks
      /\ Spread(c, f, S, t) /\ Waits(c, f, t) /\ Shrinks(dir')
      /\ block' = block /\ lock' = lock
  BY DEF Sending
<1>1. Chains /\ Forks /\ Queues /\ Lockers
  BY DEF Inv
<1>2. PICK sent, dr : sent = SentTo(c, S) /\ dr = dir'
  OBVIOUS
<1>3. /\ DOMAIN chain' = DOMAIN chain \union sent /\ chain'[c] = t
      /\ \A d \in DOMAIN chain \ {c} : chain'[d] = chain[d]
      /\ \A d \in sent : d \notin DOMAIN chain
  BY <1>0, <1>2, Zenon DEF Spread
<1>4. ASSUME NEW d \in sent PROVE \E n \in Mods : Begun(d, c, f, n)
  <2>1. d \in SentTo(c, S)
    BY <1>2
  <2> QED BY <1>0, <1>1, <2>1, BegunIs
<1>5. ASSUME NEW d \in DOMAIN chain \ {c} PROVE Well(d, chain[d], lock, block, dr)
  <2>1. PICK s : s = chain[d]
    OBVIOUS
  <2>2. Shape(d, s) /\ Hold(d, s, lock, block) /\ Facts(s, block, dir)
    BY <1>1, <2>1 DEF Chains
  <2>3. \A m \in Mods : \A w \in Ways(m) : dir[m][w].sharers = {} => dr[m][w].sharers = {}
    BY <1>0, <1>2 DEF Shrinks
  <2>4. Facts(s, block, dr)
    BY <2>2, <2>3, ForgetsFacts
  <2> QED BY <2>1, <2>2, <2>4 DEF Well
<1>6. Chains'
  <2>1. ASSUME NEW d \in DOMAIN chain \union sent PROVE Well(d, chain'[d], lock, block, dr)
    <3>1. CASE d = c
      BY <3>1, <1>0, <1>2, <1>3 DEF Waits
    <3>2. CASE d \in DOMAIN chain \ {c}
      BY <3>2, <1>3, <1>5, Zenon
    <3>3. CASE d \in sent
      BY <3>3, <1>2, <1>4 DEF Begun
    <3> QED BY <3>1, <3>2, <3>3
  <2> QED BY <2>1, <1>0, <1>2, <1>3 DEF Chains, Well
<1>7. \A d \in DOMAIN chain : chain[d] # <<>> =>
        /\ chain'[d] # <<>> /\ chain'[d][1].mod = chain[d][1].mod /\ chain'[d][1].addr = chain[d][1].addr
  BY <1>0, <1>3 DEF Waits
<1>8. Forks'
  <2>1. ASSUME NEW d \in DOMAIN chain
        PROVE  /\ d \in Seq(Threads \union Mods) /\ Len(d) >= 1
               /\ Len(d) = 1 => d[1] \in Threads
               /\ Len(d) > 1 => /\ Front(d) \in DOMAIN chain' /\ d[Len(d)] \in Mods
                                /\ chain'[d] # <<>> /\ chain'[Front(d)] # <<>>
                                /\ Last(chain'[Front(d)]).pc = "INVALIDATE_FINISH"
                                /\ chain'[d][1].mod = Last(chain'[Front(d)]).mod
                                /\ chain'[d][1].addr = Last(chain'[Front(d)]).addr
    <3>1. d \in Seq(Threads \union Mods) /\ Len(d) >= 1 /\ (Len(d) = 1 => d[1] \in Threads)
      BY <1>1 DEF Forks
    <3>2. ASSUME Len(d) > 1
          PROVE  /\ Front(d) \in DOMAIN chain' /\ d[Len(d)] \in Mods
                 /\ chain'[d] # <<>> /\ chain'[Front(d)] # <<>>
                 /\ Last(chain'[Front(d)]).pc = "INVALIDATE_FINISH"
                 /\ chain'[d][1].mod = Last(chain'[Front(d)]).mod
                 /\ chain'[d][1].addr = Last(chain'[Front(d)]).addr
      <4>1. PICK p : p = Front(d)
        OBVIOUS
      <4>2. /\ p \in DOMAIN chain /\ d[Len(d)] \in Mods /\ chain[d] # <<>> /\ chain[p] # <<>>
            /\ Last(chain[p]).pc = "INVALIDATE_FINISH"
            /\ chain[d][1].mod = Last(chain[p]).mod /\ chain[d][1].addr = Last(chain[p]).addr
        BY <1>1, <3>2, <4>1 DEF Forks, Top
      <4>3. p # c
        BY <4>2 DEF Top
      <4>4. chain'[p] = chain[p] /\ p \in DOMAIN chain'
        BY <1>3, <4>2, <4>3
      <4> QED BY <1>7, <4>1, <4>2, <4>4
    <3> QED BY <3>1, <3>2
  <2>2. ASSUME NEW d \in sent
        PROVE  /\ d \in Seq(Threads \union Mods) /\ Len(d) >= 1 /\ Len(d) # 1
               /\ Front(d) \in DOMAIN chain' /\ d[Len(d)] \in Mods
               /\ chain'[d] # <<>> /\ chain'[Front(d)] # <<>>
               /\ Last(chain'[Front(d)]).pc = "INVALIDATE_FINISH"
               /\ chain'[d][1].mod = Last(chain'[Front(d)]).mod
               /\ chain'[d][1].addr = Last(chain'[Front(d)]).addr
    <3>1. PICK n \in Mods : Begun(d, c, f, n)
      BY <1>4
    <3> QED BY <3>1, <1>0, <1>3 DEF Begun, Waits
  <2> QED BY <2>1, <2>2, <1>3 DEF Forks, Top
<1>9. Queues'
  <2>1. \A d \in DOMAIN chain : At(d, "DIR_WAIT") => d \in DOMAIN chain' /\ chain'[d] = chain[d]
    BY <1>3 DEF At
  <2>2. lock' = lock
    BY <1>0
  <2> QED BY <1>1, <2>1, <2>2, QueuesStay
<1>10. Lockers'
  <2> SUFFICES ASSUME NEW m \in Mods, NEW w \in Ways(m)
               PROVE  LET d == lock[m][w].by IN
                      /\ d \in DOMAIN chain' \union {<<>>}
                      /\ Len(d) > 1 => \E i \in 1 .. Len(chain'[d]) :
                           HoldsAt(chain'[d], i) /\ Where(chain'[d][i]) = m /\ chain'[d][i].way = w
    BY <1>0 DEF Lockers
  <2>1. PICK d : d = lock[m][w].by
    OBVIOUS
  <2>2. /\ d \in DOMAIN chain \union {<<>>}
        /\ Len(d) > 1 => \E i \in 1 .. Len(chain[d]) :
             HoldsAt(chain[d], i) /\ Where(chain[d][i]) = m /\ chain[d][i].way = w
    BY <1>1, <2>1 DEF Lockers
  <2>3. ASSUME Len(d) > 1
        PROVE  \E i \in 1 .. Len(chain'[d]) : HoldsAt(chain'[d], i) /\ Where(chain'[d][i]) = m /\ chain'[d][i].way = w
    <3>1. d \in DOMAIN chain
      BY <2>2, <2>3
    <3>2. PICK i \in 1 .. Len(chain[d]) : HoldsAt(chain[d], i) /\ Where(chain[d][i]) = m /\ chain[d][i].way = w
      BY <2>2, <2>3
    <3>3. i \in 1 .. Len(chain'[d]) /\ HoldsAt(chain'[d], i) /\ chain'[d][i] = chain[d][i]
      <4>1. CASE d = c
        BY <4>1, <3>2, <1>0, <1>3 DEF Waits
      <4>2. CASE d # c
        BY <4>2, <3>1, <3>2, <1>3, Zenon
      <4> QED BY <4>1, <4>2
    <3> QED BY <3>2, <3>3, Zenon
  <2> QED BY <2>1, <2>2, <2>3, <1>3
<1> QED BY <1>6, <1>8, <1>9, <1>10

\* EV_MOD_NMOESI_INVALIDATE keeps the invariant.
LEMMA InvalidateInv ==
  ASSUME Inv, NEW c \in DOMAIN chain, Invalidate(c)
  PROVE  Inv'
<1>1. PICK f, m, w, S, e : /\ f = Top(c) /\ m = f.mod /\ w = f.way /\ S = dir[m][w].sharers \ {f.except}
                           /\ e = Unshared(dir[m][w], S)
  OBVIOUS
<1>2. chain[c] # <<>> /\ f.pc = "INVALIDATE" /\ f.pc \in InvalidatePcs
  BY <1>1 DEF Invalidate, At, InvalidatePcs
<1>3. Invalidating(c, f, Caller(c))
  BY <1>1, <1>2, InvalidatingIs
<1>4. /\ f \in InvalidateFrames /\ m \in Mods /\ w \in Ways(m) /\ f.addr \in Blocks /\ Len(chain[c]) > 1
      /\ FactOfInvalidate(f, block[m][w])
  BY <1>1, <1>3 DEF Invalidating
<1>5. PICK t : t = Goto(c, To(f, "INVALIDATE_FINISH"))
  OBVIOUS
<1>6. /\ dir' = Forgotten(m, w, S) /\ UNCHANGED <<block, lock, access, fresh>>
      /\ chain' = IF S = {} THEN Step(c, Front(chain[c]))
                  ELSE [d \in DOMAIN chain \union SentTo(c, S) |->
                          IF d \in SentTo(c, S) THEN Request("WRITE_REQUEST_ACTION", f.mod, Last(d), f.addr, FALSE, None)
                          ELSE Step(c, t)[d]]
  BY <1>1, <1>5 DEF Invalidate, Forgotten, SentTo
<1>7. Memory
  BY DEF Inv, Typed
<1>8. e \in DirRecs /\ e.sharers = dir[m][w].sharers \ S /\ (e.owner = None \/ e.owner = dir[m][w].owner) /\ dir' = SetDir(m, w, e)
  <2>1. Forgets(m, w, S, Unshared(dir[m][w], S)) /\ Forgotten(m, w, S) = SetDir(m, w, Unshared(dir[m][w], S))
    BY <1>4, <1>7, UnsharedIs
  <2> QED BY <1>1, <1>6, <2>1 DEF Forgets
<1>9. /\ DOMAIN dir' = Mods /\ \A n \in Mods : dir'[n] \in [Ways(n) -> DirRecs]
      /\ dir'[m][w] = e
      /\ \A n \in Mods : \A v \in Ways(n) : n # m \/ v # w => dir'[n][v] = dir[n][v]
  BY <1>4, <1>7, <1>8, SetDirIs
<1>10. dir[m][w] \in DirRecs /\ dir[m][w].sharers \subseteq Mods /\ dir[m][w].owner \in Mods \union {None}
  BY <1>4, <1>7, DirIs
<1>11. CASE S = {}
  <2>1. dir[m][w] = [owner |-> dir[m][w].owner, sharers |-> dir[m][w].sharers]
    BY <1>10 DEF DirRecs
  <2>2. e = dir[m][w]
    BY <1>1, <1>11, <2>1 DEF Unshared
  <2>3. /\ \A n \in Mods : \A v \in Ways(n) : dir'[n][v] = dir[n][v]
        /\ Memory'
    BY <1>6, <1>7, <1>9, <2>2 DEF Memory
  <2>4. Resume(c, Front(chain[c]))
    BY <1>6, <1>11 DEF Resume
  <2>5. dir[f.mod][f.way].sharers \ {f.except} = {}
    BY <1>1, <1>11
  <2> QED BY <1>1, <1>2, <1>6, <2>3, <2>4, <2>5, NobodyInvalidated
<1>12. CASE S # {}
  <2>1. S \in SUBSET Mods /\ \A n \in S : Low[n] = m
    <3>1. dir[m][w].sharers \subseteq {n \in Mods : Low[n] = m}
      BY <1>4 DEF Inv, Lines
    <3> QED BY <1>1, <3>1
  <2>2. Spread(c, f, S, t)
    <3>1. chain' = [d \in DOMAIN chain \union SentTo(c, S) |->
                      IF d \in SentTo(c, S) THEN Request("WRITE_REQUEST_ACTION", f.mod, Last(d), f.addr, FALSE, None)
                      ELSE Step(c, t)[d]]
      BY <1>6, <1>12
    <3>2. Forks /\ Top(c).pc = "INVALIDATE"
      BY <1>1, <1>2 DEF Inv
    <3> QED BY <2>1, <3>1, <3>2, SpreadIs
  <2>3. Carries(block[m][w], f.addr)
    <3>1. block[m][w].state # "I"
      BY <1>1, <1>4, <1>12 DEF Inv, Lines
    <3> QED BY <1>2, <1>4, <3>1 DEF FactOfInvalidate, MayCarry, Carries
  <2>4. \A n \in Mods : \A v \in Ways(n) : dir[n][v].sharers = {} => dir'[n][v].sharers = {}
    <3>1. dir[m][w].sharers = {} => e.sharers = {}
      BY <1>8
    <3> QED BY <1>9, <3>1
  <2>5. f.except = None => dir'[m][w].sharers = {}
    <3>1. f.except = None => S = dir[m][w].sharers
      BY <1>1, <1>10, TreeAssumption DEF TreeAssumption
    <3> QED BY <1>8, <1>9, <3>1
  <2>6. Waits(c, f, t)
    <3>1. PICK s, dr : s = chain[c] /\ dr = dir'
      OBVIOUS
    <3>2. Well(c, s, lock, block, dir) /\ s # <<>> /\ f = s[Len(s)]
      BY <1>1, <1>2, <3>1 DEF Inv, Chains, Well, Top, Last
    <3>3. t = [s EXCEPT ![Len(s)] = To(f, "INVALIDATE_FINISH")]
      BY <1>5, <3>1 DEF Goto
    <3>4. Shrinks(dr) /\ (f.except = None => dr[f.mod][f.way].sharers = {}) /\ Carries(block[f.mod][f.way], f.addr)
      BY <1>1, <2>3, <2>4, <2>5, <3>1 DEF Shrinks
    <3>5. Waiting(c, s, t, f, dr)
      <4>1. Waiting(c, s, [s EXCEPT ![Len(s)] = To(f, "INVALIDATE_FINISH")], f, dr)
        BY <1>2, <1>4, <3>2, <3>4, WaitsForAnswers
      <4> QED BY <3>3, <4>1
    <3>6. \A i \in 1 .. Len(s) : HoldsAt(s, i) => i \in 1 .. Len(t) /\ HoldsAt(t, i) /\ t[i] = s[i]
      BY <3>5, Zenon DEF Waiting
    <3> QED BY <3>1, <3>5, <3>6, Zenon DEF Waits, Waiting
  <2>7. Chains' /\ Forks' /\ Queues' /\ Lockers'
    <3>1. Shrinks(dir')
      BY <2>4 DEF Shrinks
    <3>2. Sending(c, f, S, t)
      BY <1>1, <1>4, <1>6, <2>1, <2>2, <2>6, <3>1 DEF Sending
    <3>3. Top(c).pc = "INVALIDATE"
      BY <1>1, <1>2
    <3> QED BY <1>2, <3>2, <3>3, SpreadInv
  <2>8. Lines'
    <3>1. ASSUME NEW n \in Mods, NEW v \in Ways(n)
          PROVE  LineOk(n, block[n][v], dir'[n][v])
      <4>1. LineOk(n, block[n][v], dir[n][v])
        BY DEF Inv, Lines, LineOk
      <4>2. CASE n = m /\ v = w
        BY <4>1, <4>2, <1>8, <1>9 DEF LineOk
      <4>3. CASE n # m \/ v # w
        BY <4>1, <4>3, <1>9
      <4> QED BY <4>2, <4>3
    <3> QED BY <3>1, <1>6 DEF Lines, LineOk
  <2>9. OneMatch'
    BY <1>6 DEF Inv, OneMatch, Matches
  <2>10. Typed'
    <3>1. Served'
      BY <2>2 DEF Inv, Typed, Served, Spread
    <3>2. Memory'
      BY <1>6, <1>7, <1>9 DEF Memory
    <3>3. Entries' /\ access' \in [Mods -> Seq(Threads)] /\ fresh' \subseteq Mods \X Blocks
      BY <1>6 DEF Inv, Typed, Entries
    <3> QED BY <3>1, <3>2, <3>3 DEF Typed
  <2> QED BY <2>7, <2>8, <2>9, <2>10 DEF Inv
<1> QED BY <1>11, <1>12

-----------------------------------------------------------------------------
(* The answers to INVALIDATE.                                                *)

\* The line w of m, which has a state, takes another one: the block stays.
Reread(m, w) ==
  /\ \A n \in Mods : \A v \in Ways(n) : n # m \/ v # w => block'[n][v] = block[n][v]
  /\ block'[m][w].tag = block[m][w].tag /\ block'[m][w].trans = block[m][w].trans
  /\ block'[m][w].state = block[m][w].state \/ (block[m][w].state # "I" /\ block'[m][w].state # "I")

\* A line that takes another state but I still carries its block.
LEMMA RereadCarries ==
  ASSUME NEW m \in Mods, NEW w \in Ways(m), Reread(m, w), NEW n \in Mods, NEW v \in Ways(n), NEW a
  PROVE  /\ Carries(block[n][v], a) => Carries(block'[n][v], a)
         /\ MayCarry(block[n][v], a) => MayCarry(block'[n][v], a)
         /\ block[n][v].state # "I" => block'[n][v].state # "I"
         /\ block'[n][v].trans = block[n][v].trans
<1>1. CASE n = m /\ v = w
  BY <1>1 DEF Reread, Carries, MayCarry
<1>2. CASE n # m \/ v # w
  BY <1>2 DEF Reread, Carries, MayCarry
<1> QED BY <1>1, <1>2

\* A chain that waits for answers keeps what it knows.
LEMMA RereadKept ==
  ASSUME NEW d, NEW s, Shape(d, s), Hold(d, s, lock, block), Facts(s, block, dir), s # <<>>, s[Len(s)].pc = "INVALIDATE_FINISH",
         NEW m \in Mods, NEW w \in Ways(m), Reread(m, w)
  PROVE  Hold(d, s, lock, block') /\ Facts(s, block', dir)
<1>1. s \in Seq(Frames) /\ Len(s) \in Nat /\ Len(s) \in 1 .. Len(s)
  BY DEF Shape
<1>2. ~HoldsAt(s, Len(s))
  BY DEF HoldsAt, Holding, Keeps, First, AccessKeeps, FindKeeps, ReadKeeps, WriteKeeps, AccessFirst, EvictFirst
<1>3. ASSUME NEW i \in 1 .. Len(s), HoldsAt(s, i)
      PROVE  /\ Where(s[i]) \in Mods /\ s[i].way \in Ways(Where(s[i]))
             /\ s[i].pc \notin First \union {"FIND_AND_LOCK_ACTION"}
  <2>1. s[i] \in Frames /\ i # Len(s) /\ s[i].pc \in Keeps
    BY <1>1, <1>2, <1>3 DEF HoldsAt, Holding
  <2>2. Where(s[i]) \in Mods
    BY <1>3, <2>1, WhereIs, TreeAssumption DEF HoldsAt
  <2>3. s[i].way \in Ways(Where(s[i]))
    BY <1>3 DEF Hold
  <2>4. Link(s[i], s[i + 1])
    BY <1>1, <2>1 DEF Shape
  <2>5. s[i].pc # "FIND_AND_LOCK_ACTION"
    BY <2>4 DEF Link, Serves, First, AccessFirst, EvictFirst
  <2>6. s[i].pc \notin First
    BY <2>1 DEF First, AccessFirst, EvictFirst, Keeps, AccessKeeps, FindKeeps, ReadKeeps, WriteKeeps
  <2> QED BY <2>2, <2>3, <2>5, <2>6
<1>4. Hold(d, s, lock, block')
  <2>1. \A i \in 1 .. Len(s) : HoldsAt(s, i) =>
          block'[Where(s[i])][s[i].way].trans = block[Where(s[i])][s[i].way].trans
    BY <1>3, RereadCarries
  <2> QED BY <2>1 DEF Hold
<1>5. ASSUME NEW i \in 1 .. Len(s) PROVE HolderFact(s, i, block')
  <2> SUFFICES ASSUME HoldsAt(s, i) PROVE FactOfHolder(s[i], block'[Where(s[i])][s[i].way])
    BY DEF HolderFact
  <2>1. PICK n, v, f : n = Where(s[i]) /\ v = s[i].way /\ f = s[i]
    OBVIOUS
  <2>2. n \in Mods /\ v \in Ways(n) /\ f.pc \notin First \union {"FIND_AND_LOCK_ACTION"}
    BY <1>3, <2>1
  <2>3. FactOfHolder(f, block[n][v])
    BY <2>1 DEF Facts, HolderFact
  <2>4. PICK a : a = f.addr
    OBVIOUS
  <2>5. /\ MayCarry(block[n][v], a) => MayCarry(block'[n][v], a)
        /\ block[n][v].state # "I" => block'[n][v].state # "I"
    BY <2>2, RereadCarries
  <2>6. FactOfHolder(f, block'[n][v])
    BY <2>2, <2>3, <2>4, <2>5 DEF FactOfHolder
  <2> QED BY <2>1, <2>6
<1>6. ASSUME NEW i \in 1 .. Len(s) PROVE EvictFact(s, i, block', dir)
  <2> SUFFICES ASSUME s[i].pc \in EvictPcs PROVE FactOfEvict(s[i], block'[s[i].mod][s[i].srcWay])
    BY DEF EvictFact, Facts
  <2>1. PICK n, v, f, a : n = s[i].mod /\ v = s[i].srcWay /\ f = s[i] /\ a = s[i].addr
    OBVIOUS
  <2>2. n \in Mods /\ v \in Ways(n)
    BY <2>1, Owned
  <2>3. FactOfEvict(f, block[n][v])
    BY <2>1 DEF Facts, EvictFact
  <2>4. /\ Carries(block[n][v], a) => Carries(block'[n][v], a)
        /\ MayCarry(block[n][v], a) => MayCarry(block'[n][v], a)
    BY <2>2, RereadCarries
  <2>5. FactOfEvict(f, block'[n][v])
    BY <2>1, <2>3, <2>4 DEF FactOfEvict
  <2> QED BY <2>1, <2>5
<1>7. ASSUME NEW i \in 1 .. Len(s) PROVE InvalidateFact(s, i, block', dir)
  <2> SUFFICES ASSUME s[i].pc \in InvalidatePcs PROVE FactOfInvalidate(s[i], block'[s[i].mod][s[i].way])
    BY DEF InvalidateFact, Facts
  <2>1. PICK n, v, f, a : n = s[i].mod /\ v = s[i].way /\ f = s[i] /\ a = s[i].addr
    OBVIOUS
  <2>2. n \in Mods /\ v \in Ways(n)
    BY <2>1, Owned
  <2>3. FactOfInvalidate(f, block[n][v])
    BY <2>1 DEF Facts, InvalidateFact
  <2>4. /\ Carries(block[n][v], a) => Carries(block'[n][v], a)
        /\ MayCarry(block[n][v], a) => MayCarry(block'[n][v], a)
    BY <2>2, RereadCarries
  <2>5. FactOfInvalidate(f, block'[n][v])
    BY <2>1, <2>3, <2>4 DEF FactOfInvalidate
  <2> QED BY <2>1, <2>5
<1> QED BY <1>4, <1>5, <1>6, <1>7 DEF Facts

\* What a chain goes on with once it has had an answer.
Informed(d, s, s2, lk, bl, dr) ==
  /\ Well(d, s2, lk, bl, dr) /\ s2 # <<>> /\ s2[1].mod = s[1].mod /\ s2[1].addr = s[1].addr
  /\ \A i \in 1 .. Len(s) : HoldsAt(s, i) => i \in 1 .. Len(s2) /\ HoldsAt(s2, i) /\ s2[i] = s[i]

\* The last answer: the invalidation is over.
LEMMA LastAnswer ==
  ASSUME NEW d, NEW s, NEW lk, NEW bl, NEW dr, Well(d, s, lk, bl, dr), Len(s) > 1, s[Len(s)].pc = "INVALIDATE_FINISH",
         Low \in [Mods -> Mods \union {None}]
  PROVE  Informed(d, s, Front(s), lk, bl, dr)
<1>1. PICK n, s2 : n = Len(s) /\ s2 = Front(s)
  OBVIOUS
<1>2. s \in Seq(Frames) /\ n \in Nat /\ n > 1 /\ Shape(d, s) /\ Hold(d, s, lk, bl) /\ Facts(s, bl, dr)
  BY <1>1 DEF Well, Shape
<1>3. /\ s2 \in Seq(Frames) /\ Len(s2) = n - 1 /\ \A i \in 1 .. n - 1 : s2[i] = s[i]
  BY <1>1, <1>2 DEF Front
<1>4. /\ n - 1 \in 1 .. n /\ n \in 1 .. n /\ n - 1 \in 1 .. n - 1 /\ (n - 1) + 1 = n /\ 1 \in 1 .. n - 1
      /\ \A i \in 1 .. n - 1 : i \in 1 .. n /\ i # n
      /\ \A i \in 1 .. n : i # n => i \in 1 .. n - 1
  BY <1>2
<1>5. s2 # <<>> /\ s2[1].mod = s[1].mod /\ s2[1].addr = s[1].addr
  BY <1>2, <1>3, <1>4
<1>6. Shape(d, s2)
  <2>1. \A i \in 1 .. Len(s2) - 1 : i \in 1 .. n - 1 /\ i + 1 \in 1 .. n - 1 /\ i \in 1 .. Len(s) - 1
    BY <1>1, <1>2, <1>3
  <2>2. \A i \in 1 .. Len(s2) - 1 : Link(s2[i], s2[i + 1])
    BY <2>1, <1>2, <1>3 DEF Shape
  <2>3. Bottom(d, s2[1])
    BY <1>2, <1>3, <1>4, <1>5 DEF Shape
  <2> QED BY <1>3, <2>2, <2>3 DEF Shape
<1>7. Link(s[n - 1], s[n])
  BY <1>1, <1>2, <1>4 DEF Shape
<1>8. /\ s[n - 1].pc = "EVICT_INVALID" \/ s[n - 1].pc = "WRITE_REQUEST_EXCLUSIVE"
      /\ s[n - 1].pc = "EVICT_INVALID" =>
           s[n].mod = s[n - 1].mod /\ s[n].way = s[n - 1].srcWay /\ s[n].except = None
  BY <1>1, <1>7 DEF Link, FindPcs, FindKeeps, EvictPcs, EvictFirst, ReadPcs, ReadKeeps, WritePcs, WriteKeeps
<1>9. s[n - 1].pc \notin First
  BY <1>8 DEF First, AccessFirst, EvictFirst
<1>10. \A i \in 1 .. n - 1 : HoldsAt(s2, i) <=> HoldsAt(s, i)
  <2>1. ASSUME NEW i \in 1 .. n - 1 PROVE HoldsAt(s2, i) <=> HoldsAt(s, i)
    <3>1. CASE i = n - 1
      BY <3>1, <1>1, <1>3, <1>4, <1>9 DEF HoldsAt, Holding
    <3>2. CASE i # n - 1
      BY <3>2, <1>1, <1>3, <1>4 DEF HoldsAt, Holding
    <3> QED BY <3>1, <3>2
  <2> QED BY <2>1
<1>11. ~HoldsAt(s, n)
  BY <1>1 DEF HoldsAt, Holding, Keeps, First, AccessKeeps, FindKeeps, ReadKeeps, WriteKeeps, AccessFirst, EvictFirst
<1>12. Hold(d, s2, lk, bl)
  <2>1. \A i \in 1 .. Len(s2) : i \in 1 .. Len(s) /\ s2[i] = s[i] /\ (HoldsAt(s2, i) <=> HoldsAt(s, i))
    BY <1>1, <1>3, <1>4, <1>10
  <2> QED BY <2>1, <1>2, Zenon DEF Hold
<1>13. ASSUME NEW i \in 1 .. n - 1 PROVE HolderFact(s2, i, bl) /\ InvalidateFact(s2, i, bl, dr) /\ EvictFact(s2, i, bl, dr)
  <2>1. i \in 1 .. Len(s) /\ s2[i] = s[i]
    BY <1>1, <1>3, <1>4
  <2>2. HolderFact(s2, i, bl) /\ InvalidateFact(s2, i, bl, dr)
    BY <2>1, <1>2, <1>10 DEF Facts, HolderFact, InvalidateFact
  <2>3. EvictFact(s2, i, bl, dr)
    <3>1. CASE i # n - 1
      BY <3>1, <2>1, <1>2, <1>3 DEF Facts, EvictFact
    <3>2. CASE i = n - 1
      <4>1. s[n].pc = "INVALIDATE_FINISH" /\ s[n].except = None => dr[s[n].mod][s[n].way].sharers = {}
        BY <1>1, <1>2, <1>4 DEF Facts, InvalidateFact, InvalidatePcs
      <4>2. s2[i].pc = "EVICT_INVALID" => dr[s2[i].mod][s2[i].srcWay].sharers = {}
        BY <3>2, <2>1, <4>1, <1>1, <1>8
      <4> QED BY <4>2, <2>1, <1>2 DEF Facts, EvictFact
    <3> QED BY <3>1, <3>2
  <2> QED BY <2>2, <2>3
<1>14. Facts(s2, bl, dr)
  BY <1>3, <1>13 DEF Facts
<1>15. \A i \in 1 .. Len(s) : HoldsAt(s, i) => i \in 1 .. Len(s2) /\ HoldsAt(s2, i) /\ s2[i] = s[i]
  BY <1>1, <1>3, <1>4, <1>10, <1>11
<1> QED BY <1>1, <1>5, <1>6, <1>12, <1>14, <1>15 DEF Well, Informed

\* The answer f of c to the invalidation g on top of p, which goes on with t.
Answer(c, f, p, g, t, m, w) ==
  /\ Forked(c, f, p) /\ f = Top(c) /\ f.pc = "WRITE_REQUEST_REPLY" /\ g = Top(p) /\ g.pc = "INVALIDATE_FINISH"
  /\ m \in Mods /\ w \in Ways(m) /\ lock[m][w].by = p /\ Reread(m, w) /\ dir' = dir /\ lock' = lock
  /\ DOMAIN chain' = DOMAIN chain \ {c} /\ chain'[p] = t
  /\ \A d \in DOMAIN chain \ {c, p} : chain'[d] = chain[d]
  /\ Informed(p, chain[p], t, lock', block', dir')
  /\ t = chain[p] \/ \A d \in DOMAIN chain \ {c} : Front(d) # p

\* The end of a forked chain, with its answer, keeps the chains, the forks, the queues and the lock holders.
LEMMA AnswerKept ==
  ASSUME Inv, NEW c \in DOMAIN chain, chain[c] # <<>>, NEW f, NEW p, NEW g, NEW t, NEW m, NEW w, Answer(c, f, p, g, t, m, w)
  PROVE  Chains' /\ Forks' /\ Queues' /\ Lockers'
<1>1. /\ Forked(c, f, p) /\ f = Top(c) /\ f.pc = "WRITE_REQUEST_REPLY" /\ g = Top(p) /\ g.pc = "INVALIDATE_FINISH"
      /\ m \in Mods /\ w \in Ways(m) /\ lock[m][w].by = p /\ Reread(m, w) /\ dir' = dir /\ lock' = lock
      /\ DOMAIN chain' = DOMAIN chain \ {c} /\ chain'[p] = t
      /\ \A d \in DOMAIN chain \ {c, p} : chain'[d] = chain[d]
      /\ t = chain[p] \/ \A d \in DOMAIN chain \ {c} : Front(d) # p
  BY DEF Answer
<1>2. PICK s, lk, bl, dr : s = chain[p] /\ lk = lock' /\ bl = block' /\ dr = dir'
  OBVIOUS
<1>3. /\ Len(chain[c]) = 1 /\ Len(c) > 1 /\ chain[c][1] = f /\ p \in DOMAIN chain /\ p # c /\ s # <<>>
  BY <1>1, <1>2 DEF Forked
<1>4. Chains /\ Forks /\ Queues /\ Lockers
  BY DEF Inv
<1>5. Informed(p, s, t, lk, bl, dr)
  BY <1>2 DEF Answer
<1>6. ASSUME NEW d \in DOMAIN chain \ {c, p} PROVE Well(d, chain'[d], lk, bl, dr)
  <2>1. PICK r : r = chain[d]
    OBVIOUS
  <2>2. Shape(d, r) /\ Hold(d, r, lock, block) /\ Facts(r, block, dir)
    BY <1>4, <2>1 DEF Chains
  <2>3. \A n \in Mods : \A v \in Ways(n) : Still(n, v) \/ lock[n][v].by # d
    BY <1>1 DEF Still, Reread
  <2>4. Hold(d, r, lock', block') /\ Facts(r, block', dir')
    BY <2>2, <2>3, Kept
  <2>5. chain'[d] = r
    BY <1>1, <2>1
  <2> QED BY <1>2, <2>2, <2>4, <2>5 DEF Well
<1>7. Chains'
  <2>1. ASSUME NEW d \in DOMAIN chain \ {c} PROVE Well(d, chain'[d], lk, bl, dr)
    <3>1. CASE d = p
      BY <3>1, <1>1, <1>5, Zenon DEF Informed
    <3>2. CASE d # p
      BY <3>2, <1>6
    <3> QED BY <3>1, <3>2
  <2> QED BY <2>1, <1>1, <1>2 DEF Chains, Well
<1>8. ASSUME NEW d \in DOMAIN chain \ {c}, chain[d] # <<>>
      PROVE  chain'[d] # <<>> /\ chain'[d][1].mod = chain[d][1].mod /\ chain'[d][1].addr = chain[d][1].addr
  <2>1. CASE d = p
    BY <2>1, <1>1, <1>2, <1>5, Zenon DEF Informed
  <2>2. CASE d # p
    BY <2>2, <1>1, <1>8
  <2> QED BY <2>1, <2>2
<1>9. Forks'
  <2>1. ASSUME NEW d \in DOMAIN chain \ {c}, Len(d) > 1
        PROVE  /\ Front(d) \in DOMAIN chain' /\ d[Len(d)] \in Mods
               /\ chain'[d] # <<>> /\ chain'[Front(d)] # <<>>
               /\ Last(chain'[Front(d)]).pc = "INVALIDATE_FINISH"
               /\ chain'[d][1].mod = Last(chain'[Front(d)]).mod
               /\ chain'[d][1].addr = Last(chain'[Front(d)]).addr
    <3>1. PICK q : q = Front(d)
      OBVIOUS
    <3>2. /\ q \in DOMAIN chain /\ d[Len(d)] \in Mods /\ chain[d] # <<>> /\ chain[q] # <<>>
          /\ Last(chain[q]).pc = "INVALIDATE_FINISH"
          /\ chain[d][1].mod = Last(chain[q]).mod /\ chain[d][1].addr = Last(chain[q]).addr
      BY <1>4, <2>1, <3>1 DEF Forks, Top
    <3>3. q # c
      BY <1>1, <3>2 DEF Top
    <3>4. chain'[q] = chain[q]
      BY <1>1, <2>1, <3>1, <3>2, <3>3
    <3>5. q \in DOMAIN chain'
      BY <1>1, <3>2, <3>3
    <3>6. chain'[d] # <<>> /\ chain'[d][1].mod = chain[d][1].mod /\ chain'[d][1].addr = chain[d][1].addr
      BY <1>8, <2>1, <3>2
    <3> QED BY <3>1, <3>2, <3>4, <3>5, <3>6
  <2>2. \A d \in DOMAIN chain \ {c} : d \in Seq(Threads \union Mods) /\ Len(d) >= 1 /\ (Len(d) = 1 => d[1] \in Threads)
    BY <1>4 DEF Forks
  <2> QED BY <2>1, <2>2, <1>1 DEF Forks, Top
<1>10. Queues'
  <2>1. ASSUME NEW d \in DOMAIN chain, At(d, "DIR_WAIT") PROVE d \in DOMAIN chain' /\ chain'[d] = chain[d]
    <3>1. d # c /\ d # p
      BY <1>1, <2>1 DEF At
    <3> QED BY <1>1, <3>1
  <2> QED BY <1>1, <1>4, <2>1, QueuesStay
<1>11. Lockers'
  <2> SUFFICES ASSUME NEW n \in Mods, NEW v \in Ways(n)
               PROVE  LET d == lock[n][v].by IN
                      /\ d \in DOMAIN chain' \union {<<>>}
                      /\ Len(d) > 1 => \E i \in 1 .. Len(chain'[d]) :
                           HoldsAt(chain'[d], i) /\ Where(chain'[d][i]) = n /\ chain'[d][i].way = v
    BY <1>1 DEF Lockers
  <2>1. PICK d : d = lock[n][v].by
    OBVIOUS
  <2>2. /\ d \in DOMAIN chain \union {<<>>}
        /\ Len(d) > 1 => \E i \in 1 .. Len(chain[d]) :
             HoldsAt(chain[d], i) /\ Where(chain[d][i]) = n /\ chain[d][i].way = v
    BY <1>4, <2>1 DEF Lockers
  <2>3. ~HoldsAt(chain[c], 1)
    <3>1. chain[c][1].pc = "WRITE_REQUEST_REPLY"
      BY <1>1, <1>3
    <3> QED BY <3>1 DEF HoldsAt, Holding, Keeps, First, AccessKeeps, FindKeeps, ReadKeeps, WriteKeeps, AccessFirst, EvictFirst
  <2>4. d # c
    <3>1. SUFFICES ASSUME d = c PROVE FALSE
      OBVIOUS
    <3>2. PICK i \in 1 .. Len(chain[c]) : HoldsAt(chain[c], i)
      BY <1>3, <2>2, <3>1
    <3>3. i = 1
      BY <1>3, <3>2
    <3> QED BY <2>3, <3>2, <3>3
  <2>5. ASSUME Len(d) > 1
        PROVE  \E i \in 1 .. Len(chain'[d]) : HoldsAt(chain'[d], i) /\ Where(chain'[d][i]) = n /\ chain'[d][i].way = v
    <3>1. PICK r, r2 : r = chain[d] /\ r2 = chain'[d]
      OBVIOUS
    <3>2. PICK i \in 1 .. Len(r) : HoldsAt(r, i) /\ Where(r[i]) = n /\ r[i].way = v
      BY <2>2, <2>5, <3>1
    <3>3. i \in 1 .. Len(r2) /\ HoldsAt(r2, i) /\ r2[i] = r[i]
      <4>1. CASE d = p
        <5>1. r = s /\ r2 = t
          BY <1>1, <1>2, <3>1, <4>1
        <5> QED BY <5>1, <3>2, <1>5, Zenon DEF Informed
      <4>2. CASE d # p
        <5>1. d \in DOMAIN chain \ {c, p}
          <6>1. Len(<<>>) = 0
            OBVIOUS
          <6>2. d # <<>>
            BY <2>5, <6>1
          <6> QED BY <2>2, <2>4, <4>2, <6>2
        <5>2. r2 = r
          BY <1>1, <3>1, <5>1
        <5> QED BY <3>2, <5>2
      <4> QED BY <4>1, <4>2
    <3> QED BY <3>1, <3>2, <3>3, Zenon
  <2> QED BY <1>1, <2>1, <2>2, <2>4, <2>5
<1> QED BY <1>7, <1>9, <1>10, <1>11

\* EV_MOD_NMOESI_INVALIDATE_FINISH keeps the invariant.
LEMMA InvalidateFinishInv ==
  ASSUME Inv, NEW c \in DOMAIN chain, InvalidateFinish(c)
  PROVE  Inv'
<1>1. PICK f, p, g, m, w, a, s, last, t :
        /\ f = Top(c) /\ p = Front(c) /\ g = Top(p) /\ m = g.mod /\ w = g.way /\ a = g.addr /\ s = chain[p]
        /\ last = (\A d \in DOMAIN chain \ {c} : Front(d) # p)
        /\ t = IF last THEN Front(s) ELSE s
  OBVIOUS
<1>2. chain[c] # <<>> /\ f.pc = "WRITE_REQUEST_REPLY"
  BY <1>1 DEF InvalidateFinish, At
<1>3. /\ chain' = [d \in DOMAIN chain \ {c} |-> Step(p, t)[d]]
      /\ block' = IF g.reply = "ack_data" THEN SetBlock(m, w, a, "M") ELSE block
      /\ fresh' = IF f.reply = "ack_data" THEN Filled(m, a, f.data) ELSE fresh
      /\ UNCHANGED <<dir, lock, access>>
  BY <1>1 DEF InvalidateFinish
<1>4. Forked(c, f, p)
  <2>1. f.pc \in WritePcs /\ f.pc \in ReadPcs \union WritePcs
    BY <1>2 DEF WritePcs
  <2>2. f \in RequestFrames
    BY <1>1, <1>2, <2>1, RequestIs
  <2>3. ~f.up
    BY <1>2, <2>2 DEF RequestFrames
  <2>4. Forked(c, f, Front(c))
    BY <1>1, <1>2, <2>1, <2>3, ForkedIs
  <2> QED BY <1>1, <2>4
<1>5. /\ p \in DOMAIN chain /\ p # c /\ s # <<>> /\ g.pc = "INVALIDATE_FINISH" /\ Len(c) > 1
  BY <1>1, <1>4 DEF Forked
<1>6. Invalidating(p, g, Caller(p))
  <2>1. Top(p).pc \in InvalidatePcs
    BY <1>1, <1>5 DEF InvalidatePcs
  <2> QED BY <1>1, <1>5, <2>1, InvalidatingIs
<1>7. /\ m \in Mods /\ w \in Ways(m) /\ a \in Blocks /\ lock[m][w].by = p /\ Carries(block[m][w], a) /\ Len(s) > 1
  BY <1>1, <1>5, <1>6 DEF Invalidating, FactOfInvalidate
<1>8. Memory /\ fresh \subseteq Mods \X Blocks /\ access \in [Mods -> Seq(Threads)] /\ Entries /\ Served
      /\ TreeAssumption /\ Lines /\ Chains
  BY TreeAssumption DEF Inv, Typed
<1>9. Reread(m, w) /\ Memory' /\ (block' = block \/ block'[m][w].state = "M")
  <2>1. CASE block' = block
    BY <2>1, <1>3, <1>8 DEF Reread, Memory
  <2>2. CASE block' = SetBlock(m, w, a, "M")
    <3>1. PICK st : st = "M" /\ st \in States
      BY DEF States
    <3>2. block' = SetBlock(m, w, a, st) /\ a \in Blocks \union {None}
      BY <2>2, <3>1, <1>7
    <3>3. /\ DOMAIN block' = Mods /\ \A n \in Mods : block'[n] \in [Ways(n) -> LineRecs]
          /\ block'[m][w].tag = a /\ block'[m][w].state = st /\ block'[m][w].trans = block[m][w].trans
          /\ \A n \in Mods : \A v \in Ways(n) : n # m \/ v # w => block'[n][v] = block[n][v]
      BY <1>7, <1>8, <3>1, <3>2, SetBlockIs
    <3>4. Memory'
      BY <3>3, <1>3, <1>8 DEF Memory
    <3> QED BY <3>1, <3>3, <3>4, <1>7 DEF Reread, Carries
  <2> QED BY <2>1, <2>2, <1>3
<1>10. Informed(p, s, t, lock', block', dir')
  <2>1. Shape(p, s) /\ Hold(p, s, lock, block) /\ Facts(s, block, dir)
    BY <1>1, <1>5, <1>8 DEF Chains
  <2>2. s[Len(s)].pc = "INVALIDATE_FINISH"
    BY <1>1, <1>5 DEF Top, Last
  <2>3. PICK bl : bl = block'
    OBVIOUS
  <2>4. Hold(p, s, lock, bl) /\ Facts(s, bl, dir)
    BY <1>5, <1>7, <1>9, <2>1, <2>2, <2>3, RereadKept
  <2>5. Well(p, s, lock, bl, dir)
    BY <2>1, <2>4 DEF Well
  <2>6. Informed(p, s, t, lock, bl, dir)
    <3>1. CASE last
      <4>1. Low \in [Mods -> Mods \union {None}]
        BY TreeAssumption DEF TreeAssumption
      <4>2. Informed(p, s, Front(s), lock, bl, dir)
        BY <1>7, <2>2, <2>5, <4>1, LastAnswer
      <4> QED BY <1>1, <3>1, <4>2
    <3>2. CASE ~last
      <4>1. t = s
        BY <1>1, <3>2
      <4>2. Informed(p, s, s, lock, bl, dir)
        BY <1>5, <2>5 DEF Informed
      <4> QED BY <4>1, <4>2
    <3> QED BY <3>1, <3>2
  <2> QED BY <1>3, <2>3, <2>6
<1>11. /\ DOMAIN chain' = DOMAIN chain \ {c} /\ chain'[p] = t
       /\ \A d \in DOMAIN chain \ {c, p} : chain'[d] = chain[d]
  BY <1>3, <1>5 DEF Step
<1>12. Answer(c, f, p, g, t, m, w)
  BY <1>1, <1>2, <1>3, <1>4, <1>5, <1>7, <1>9, <1>10, <1>11 DEF Answer
<1>13. Chains' /\ Forks' /\ Queues' /\ Lockers'
  BY <1>2, <1>12, AnswerKept
<1>14. Settled(m, w)
  <2>1. LineOk(m, block[m][w], dir[m][w])
    BY <1>7, <1>8 DEF Lines, LineOk
  <2>2. LineOk(m, block'[m][w], dir'[m][w])
    BY <2>1, <1>3, <1>7, <1>9 DEF LineOk, Reread, Carries
  <2> QED BY <2>2, <1>3, <1>7, <1>9 DEF Settled, Elsewhere, Still, Reread, Carries
<1>15. Lines' /\ OneMatch'
  BY <1>7, <1>14, SettledKept
<1>16. Typed'
  <2>1. fresh' \subseteq Mods \X Blocks
    BY <1>3, <1>7, <1>8, FreshIs
  <2>2. Served'
    <3>1. ASSUME NEW u \in Threads PROVE <<u>> # c
      <4>1. Len(<<u>>) = 1
        OBVIOUS
      <4>2. ~(1 > 1)
        OBVIOUS
      <4> QED BY <1>5, <4>1, <4>2, Zenon
    <3> QED BY <3>1, <1>8, <1>11 DEF Served
  <2>3. Entries' /\ access' \in [Mods -> Seq(Threads)]
    BY <1>3, <1>8 DEF Entries
  <2> QED BY <1>9, <2>1, <2>2, <2>3 DEF Typed
<1> QED BY <1>13, <1>15, <1>16 DEF Inv

-----------------------------------------------------------------------------
(* The theorems.                                                             *)

\* Empty caches and no access in flight satisfy the invariant.
LEMMA InitInv ==
  ASSUME Init
  PROVE  Inv
<1>1. /\ block = [m \in Mods |-> [w \in Ways(m) |-> [tag |-> None, state |-> "I", trans |-> None]]]
      /\ dir = [m \in Mods |-> [w \in Ways(m) |-> [owner |-> None, sharers |-> {}]]]
      /\ lock = [m \in Mods |-> [w \in Ways(m) |-> [by |-> <<>>, queue |-> <<>>]]]
      /\ access = [m \in Mods |-> <<>>]
      /\ chain = [c \in {<<t>> : t \in Threads} |-> <<>>]
      /\ fresh = {<<MainMemory, a>> : a \in Blocks}
  BY DEF Init
<1>2. \A m \in Mods : \A w \in Ways(m) :
        /\ block[m][w] = [tag |-> None, state |-> "I", trans |-> None]
        /\ dir[m][w] = [owner |-> None, sharers |-> {}]
        /\ lock[m][w] = [by |-> <<>>, queue |-> <<>>]
  BY <1>1
<1>3. Memory
  BY <1>1 DEF Memory, LineRecs, DirRecs, States
<1>4. Entries
  <2>1. [by |-> <<>>, queue |-> <<>>] \in LockRecs
    BY DEF LockRecs, Names
  <2> QED BY <1>1, <2>1 DEF Entries
<1>5. MainMemory \in Mods
  <2>1. \E m \in Mods : Low[m] = None
    <3>1. Cardinality({m \in Mods : Low[m] = None}) = 1
      BY TreeAssumption DEF TreeAssumption
    <3>2. {m \in Mods : Low[m] = None} # {}
      <4>1. ASSUME {m \in Mods : Low[m] = None} = {} PROVE FALSE
        <5>1. Cardinality({}) = 1
          BY <3>1, <4>1
        <5>2. Cardinality({}) = 0
          BY FS_EmptySet
        <5> QED BY <5>1, <5>2
      <4> QED BY <4>1
    <3> QED BY <3>2
  <2> QED BY <2>1 DEF MainMemory
<1>6. Typed
  <2>1. Served
    BY <1>1 DEF Served
  <2>2. access \in [Mods -> Seq(Threads)]
    BY <1>1
  <2>3. fresh \subseteq Mods \X Blocks
    BY <1>1, <1>5
  <2> QED BY <1>3, <1>4, <2>1, <2>2, <2>3 DEF Typed
<1>7. Chains
  <2>1. ASSUME NEW c \in DOMAIN chain PROVE Shape(c, chain[c]) /\ Hold(c, chain[c], lock, block) /\ Facts(chain[c], block, dir)
    <3>1. PICK s : s = chain[c]
      OBVIOUS
    <3>2. s = <<>>
      BY <1>1, <3>1
    <3>3. s \in Seq(Frames) /\ Len(s) = 0
      BY <3>2
    <3>4. \A i \in 1 .. Len(s) : FALSE
      BY <3>3
    <3>5. Shape(c, s)
      BY <3>2, <3>3 DEF Shape
    <3>6. Hold(c, s, lock, block)
      BY <3>4 DEF Hold
    <3>7. Facts(s, block, dir)
      BY <3>4 DEF Facts
    <3> QED BY <3>1, <3>5, <3>6, <3>7
  <2> QED BY <2>1 DEF Chains
<1>8. Forks
  <2>1. ASSUME NEW d \in DOMAIN chain PROVE d \in Seq(Threads \union Mods) /\ Len(d) = 1 /\ d[1] \in Threads
    <3>1. PICK t \in Threads : d = <<t>>
      BY <1>1
    <3> QED BY <3>1
  <2>2. 1 >= 1 /\ ~(1 > 1)
    OBVIOUS
  <2> QED BY <2>1, <2>2, Zenon DEF Forks
<1>9. Queues
  <2> SUFFICES ASSUME NEW m \in Mods, NEW w \in Ways(m), NEW q, q = lock[m][w].queue
               PROVE  /\ q \in Seq(DOMAIN chain)
                      /\ \A i \in 1 .. Len(q) : At(q[i], "DIR_WAIT") /\ Top(q[i]).mod = m /\ Top(q[i]).way = w
                      /\ \A i, j \in 1 .. Len(q) : q[i] = q[j] => i = j
    BY DEF Queues
  <2>1. q = <<>>
    BY <1>2
  <2>2. q \in Seq(DOMAIN chain) /\ Len(q) = 0
    BY <2>1
  <2>3. \A i \in 1 .. Len(q) : FALSE
    BY <2>2
  <2> QED BY <2>2, <2>3
<1>10. Lockers
  <2>1. \A m \in Mods : \A w \in Ways(m) : lock[m][w].by = <<>>
    BY <1>2
  <2>2. ~(Len(<<>>) > 1)
    OBVIOUS
  <2> QED BY <2>1, <2>2, Zenon DEF Lockers
<1>11. Lines
  BY <1>2 DEF Lines
<1>12. OneMatch
  BY <1>2 DEF OneMatch, Matches
<1> QED BY <1>6, <1>7, <1>8, <1>9, <1>10, <1>11, <1>12 DEF Inv

\* Each handler whose assertions hold keeps the invariant.
LEMMA RunInv ==
  ASSUME Inv, CodeAssertions, NEW c \in DOMAIN chain, Run(c)
  PROVE  Inv'
<1>1. ASSUME NEW pc, At(c, pc) PROVE Asserts(Top(c))
  BY <1>1, Zenon DEF CodeAssertions, Tops, At
<1>2. CASE AccessLock(c) \/ AccessFinish(c)
  BY <1>2, AccessLockInv, AccessFinishInv
<1>3. CASE LoadAction(c) \/ PrefetchAction(c)
  BY <1>3, LoadActionInv
<1>4. CASE LoadMiss(c) \/ PrefetchMiss(c)
  BY <1>4, LoadMissInv
<1>5. CASE LoadUnlock(c) \/ StoreUnlock(c) \/ NcStoreUnlock(c)
  BY <1>5, UnlockInv
<1>6. CASE StoreAction(c)
  BY <1>6, StoreActionInv
<1>7. CASE NcStoreWriteback(c)
  BY <1>7, NcStoreWritebackInv
<1>8. CASE NcStoreAction(c)
  BY <1>8, NcStoreActionInv
<1>9. CASE NcStoreMiss(c)
  BY <1>9, NcStoreMissInv
<1>10. CASE MessageAction(c)
  BY <1>10, MessageActionInv
<1>11. CASE FindAndLockBusy(c)
  BY <1>11, FindAndLockBusyInv
<1>12. CASE FindAndLockWait(c)
  <2>1. At(c, "FIND_AND_LOCK")
    BY <1>12 DEF FindAndLockWait
  <2>2. Asserts(Top(c))
    BY <2>1, <1>1
  <2> QED BY <2>2, <1>12, FindAndLockWaitInv
<1>13. CASE FindAndLockGrant(c)
  <2>1. At(c, "FIND_AND_LOCK")
    BY <1>13 DEF FindAndLockGrant
  <2>2. Asserts(Top(c))
    BY <2>1, <1>1
  <2> QED BY <2>2, <1>13, FindAndLockGrantInv
<1>14. CASE FindAndLockAction(c)
  BY <1>14, FindAndLockActionInv
<1>15. CASE FindAndLockFinish(c)
  <2>1. At(c, "FIND_AND_LOCK_FINISH")
    BY <1>15 DEF FindAndLockFinish
  <2>2. Asserts(Top(c))
    BY <2>1, <1>1
  <2> QED BY <2>2, <1>15, FindAndLockFinishInv
<1>16. CASE Invalidate(c)
  BY <1>16, InvalidateInv
<1>17. CASE InvalidateFinish(c)
  BY <1>17, InvalidateFinishInv
<1>18. CASE EvictAction(c)
  BY <1>18, EvictActionInv
<1>19. CASE EvictProcess(c)
  <2>1. At(c, "EVICT_PROCESS") \/ At(c, "EVICT_PROCESS_NONCOHERENT")
    BY <1>19 DEF EvictProcess
  <2>2. Asserts(Top(c))
    BY <2>1, <1>1
  <2> QED BY <2>2, <1>19, EvictProcessInv
<1>20. CASE EvictReply(c)
  <2>1. At(c, "EVICT_REPLY_RECEIVE")
    BY <1>20 DEF EvictReply
  <2>2. Asserts(Top(c))
    BY <2>1, <1>1
  <2> QED BY <2>2, <1>20, EvictReplyInv
<1>21. CASE ReadRequestAction(c)
  <2>1. At(c, "READ_REQUEST_ACTION")
    BY <1>21 DEF ReadRequestAction
  <2>2. Asserts(Top(c))
    BY <2>1, <1>1
  <2> QED BY <2>2, <1>21, ReadRequestActionInv
<1>22. CASE ReadRequestUpdownMiss(c)
  BY <1>22, ReadRequestUpdownMissInv
<1>23. CASE ReadRequestUpdownFinish(c)
  BY <1>23, ReadRequestUpdownFinishInv
<1>24. CASE ReadRequestDownupFinish(c)
  BY <1>24, ReadRequestDownupFinishInv
<1>25. CASE WriteRequestAction(c)
  <2>1. At(c, "WRITE_REQUEST_ACTION")
    BY <1>25 DEF WriteRequestAction
  <2>2. Asserts(Top(c))
    BY <2>1, <1>1
  <2> QED BY <2>2, <1>25, WriteRequestActionInv
<1>26. CASE WriteRequestUpdown(c)
  BY <1>26, WriteRequestUpdownInv
<1>27. CASE WriteRequestUpdownFinish(c)
  BY <1>27, WriteRequestUpdownFinishInv
<1>28. CASE WriteRequestDownup(c)
  <2>1. At(c, "WRITE_REQUEST_EXCLUSIVE")
    BY <1>28 DEF WriteRequestDownup
  <2>2. Asserts(Top(c))
    BY <2>1, <1>1
  <2> QED BY <2>2, <1>28, WriteRequestDownupInv
<1> QED BY <1>2, <1>3, <1>4, <1>5, <1>6, <1>7, <1>8, <1>9, <1>10, <1>11, <1>12, <1>13, <1>14, <1>15, <1>16,
           <1>17, <1>18, <1>19, <1>20, <1>21, <1>22, <1>23, <1>24, <1>25, <1>26, <1>27, <1>28, Zenon DEF Run

\* So does a step that changes nothing.
LEMMA StutterInv ==
  ASSUME Inv, UNCHANGED vars
  PROVE  Inv'
<1>1. block' = block /\ dir' = dir /\ lock' = lock /\ access' = access /\ chain' = chain /\ fresh' = fresh
  BY DEF vars
<1>2. Chains' /\ Typed'
  BY <1>1 DEF Inv, Chains, Typed, Memory, Entries, Served
<1>3. Forks'
  BY <1>1, Zenon DEF Inv, Forks, Top
<1>4. Queues'
  <2>1. Queues /\ \A d \in DOMAIN chain : At(d, "DIR_WAIT") => d \in DOMAIN chain' /\ chain'[d] = chain[d]
    BY <1>1 DEF Inv
  <2> QED BY <1>1, <2>1, QueuesStay
<1>5. Lockers'
  BY <1>1, Zenon DEF Inv, Lockers
<1>6. Lines'
  BY <1>1, Zenon DEF Inv, Lines
<1>7. OneMatch'
  <2>1. \A m \in Mods, a \in Blocks : Matches(m, a)' = Matches(m, a)
    BY <1>1 DEF Matches
  <2>2. OneMatch
    BY DEF Inv
  <2> QED BY <2>1, <2>2, Zenon DEF OneMatch
<1> QED BY <1>2, <1>3, <1>4, <1>5, <1>6, <1>7 DEF Inv

\* As long as no assertion of a handler has failed, Inv holds: the inductive invariant, from
\* which the two theorems below follow.
THEOREM Invariant == Spec /\ []CodeAssertions => []Inv
<1>1. Init => Inv
  BY InitInv
<1>2. Inv /\ CodeAssertions /\ [Next]_vars => Inv'
  <2> SUFFICES ASSUME Inv, CodeAssertions, [Next]_vars PROVE Inv'
    OBVIOUS
  <2>1. ASSUME NEW t \in Threads, NEW k \in Kinds, NEW a \in Blocks, Start(t, k, a) PROVE Inv'
    BY <2>1, StartInv
  <2>2. ASSUME NEW c \in DOMAIN chain, Run(c) PROVE Inv'
    BY <2>2, RunInv
  <2>3. CASE UNCHANGED vars
    BY <2>3, StutterInv
  <2> QED BY <2>1, <2>2, <2>3 DEF Next
<1> QED BY <1>1, <1>2, PTL DEF Spec

\* Lines, directory entries, locks and access lists stay well formed, as long as the handlers'
\* assertions hold.
THEOREM TypeCorrect == Spec /\ []CodeAssertions => []TypeOK
<1>1. Inv => TypeOK
  <2> SUFFICES ASSUME Inv PROVE TypeOK
    OBVIOUS
  <2>1. ASSUME NEW m \in Mods, NEW w \in Ways(m)
        PROVE  /\ block[m][w] \in [tag : Blocks \union {None}, state : {"N", "M", "O", "E", "S", "I"},
                                   trans : Blocks \union {None}]
               /\ dir[m][w] \in [owner : Mods \union {None}, sharers : SUBSET Mods]
    BY <2>1 DEF Inv, Typed, Memory, LineRecs, DirRecs, States
  <2>2. ASSUME NEW m \in Mods, NEW w \in Ways(m)
        PROVE  lock[m][w].by \in DOMAIN chain \union {<<>>} /\ lock[m][w].queue \in Seq(DOMAIN chain)
    BY <2>2 DEF Inv, Lockers, Queues
  <2>3. \A m \in Mods : access[m] \in Seq(Threads)
    BY DEF Inv, Typed
  <2>4. {<<t>> : t \in Threads} \subseteq DOMAIN chain /\ fresh \subseteq Mods \X Blocks
    BY DEF Inv, Typed, Served
  <2>5. ASSUME NEW c \in DOMAIN chain, NEW i \in DOMAIN chain[c] PROVE chain[c][i].mod \in Mods
    <3>1. chain[c] \in Seq(Frames)
      BY DEF Inv, Chains, Shape
    <3>2. chain[c][i] \in Frames
      BY <3>1
    <3>3. \A f \in Frames : f.mod \in Mods
      BY DEF Frames, AccessFrames, FindFrames, EvictFrames, InvalidateFrames, RequestFrames, MessageFrames, Caches
    <3> QED BY <3>2, <3>3
  <2> QED BY <2>1, <2>2, <2>3, <2>4, <2>5 DEF TypeOK
<1> QED BY <1>1, Invariant, PTL

\* A block is never valid in two ways of a module, whatever interleaves, as long as the
\* handlers' assertions hold.
THEOREM WaysUnique == Spec /\ []CodeAssertions => []UniqueWay
<1>1. Inv => UniqueWay
  <2> SUFFICES ASSUME Inv, NEW m \in Mods, NEW v \in Ways(m), NEW w \in Ways(m), v # w,
                      block[m][v].state # "I", block[m][w].state # "I"
               PROVE  block[m][v].tag # block[m][w].tag
    BY DEF UniqueWay
  <2>1. block[m][v].tag \in Blocks /\ block[m][w].tag \in Blocks
    BY DEF Inv, Lines
  <2>2. ASSUME block[m][v].tag = block[m][w].tag PROVE FALSE
    <3>1. PICK a \in Blocks : a = block[m][v].tag
      BY <2>1
    <3>2. v \in Matches(m, a) /\ w \in Matches(m, a)
      BY <2>2, <3>1 DEF Matches
    <3> QED BY <3>2 DEF Inv, OneMatch
  <2> QED BY <2>2
<1> QED BY <1>1, Invariant, PTL
=============================================================================
