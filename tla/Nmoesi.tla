-------------------------------- MODULE Nmoesi --------------------------------
(***************************************************************************)
(* The NMOESI directory protocol of nmoesi-protocol.c over a tree of       *)
(* memory modules: the handlers of loads, stores, non-coherent stores,     *)
(* prefetches, find-and-lock, evict, read request, write request,          *)
(* invalidate and message, with the directory locks of directory.c and the *)
(* transient tags of cache.c.                                              *)
(*                                                                         *)
(* An in-flight access is a chain of `struct mod_stack_t': the code pushes *)
(* a stack to call a handler, and mod_stack_return pops it and schedules   *)
(* the event its creator named.  INVALIDATE is the one handler that forks: *)
(* it sends a write request to each sharer and counts the answers.  A      *)
(* chain is named by the thread it serves and the sharers it was forked    *)
(* for; a frame's pc is the event the stack will be scheduled with next.   *)
(*                                                                         *)
(* A message in flight is the frame it will be delivered to, not stepped   *)
(* yet: the network may delay every message for ever and reorders them     *)
(* freely.  Ports and coalescing are not in this module.                   *)
(***************************************************************************)
EXTENDS Naturals, FiniteSets, SequencesExt

CONSTANTS
  Mods,           \* memory modules: caches and the main memory
  Low,            \* Low[m]: the module below m; None for the main memory
  Assoc,          \* Assoc[m]: ways of m (every module has a single set)
  Blocks,         \* block addresses
  Kinds,          \* what is accessed: "load", "store", "nc_store", "prefetch"
  Threads,        \* each has at most one access in flight
  Home,           \* Home[t]: the first-level module that thread t accesses
  PeerTransfers,  \* mem_peer_transfers, option PeerTransfers of the memory configuration
  None

Leaf(m)  == \A n \in Mods : Low[n] # m
Ways(m)  == 1..Assoc[m]
NoWay    == 0

Dirty    == {"M", "O", "N"}

ASSUME TreeAssumption ==
  /\ Low \in [Mods -> Mods \union {None}] /\ None \notin Mods
  /\ Cardinality({m \in Mods : Low[m] = None}) = 1
  /\ Assoc \in [Mods -> Nat \ {0}]
  /\ Home \in [Threads -> {m \in Mods : Leaf(m) /\ Low[m] # None}]
  /\ PeerTransfers \in BOOLEAN
  /\ Kinds \subseteq {"load", "store", "nc_store", "prefetch"}

VARIABLES
  block,   \* block[m][w]: tag, state and transient tag of a line
  dir,     \* dir[m][w]: owner and sharers of the line above m
  lock,    \* lock[m][w]: the chain that holds the entry, and the chains that wait
  access,  \* access[m]: threads with an access in flight in m, oldest first
  chain,   \* chain[c]: the frames of c, the running one last
  fresh    \* pairs <<m, a>>: m's copy of a holds what was stored last (ghost)

vars == <<block, dir, lock, access, chain, fresh>>

MainMemory == CHOOSE m \in Mods : Low[m] = None
Main(m)    == Low[m] = None
Top(c)     == Last(chain[c])
At(c, pc)  == chain[c] # <<>> /\ Top(c).pc = pc
Owns(c, m, w) == lock[m][w].by = c

-----------------------------------------------------------------------------
(* Frames.  A call leaves in the caller the event to resume at (pc) and the *)
(* return values the callee clears first (r).                              *)

AccessFrame(k, m, a) ==
  [pc |-> "LOCK", kind |-> k, mod |-> m, addr |-> a, way |-> NoWay, state |-> "I",
   err |-> FALSE, shared |-> FALSE, data |-> "none"]

FindFrame(m, a, blocking, way) ==
  [pc |-> "FIND_AND_LOCK", mod |-> m, addr |-> a, blocking |-> blocking, way |-> way,
   hit |-> FALSE, state |-> "I", err |-> FALSE]

EvictFrame(m, w, a) ==
  [pc |-> "EVICT_INVALID", mod |-> m, addr |-> a, srcWay |-> w, way |-> w,
   reply |-> "none", state |-> "I", data |-> "none", err |-> FALSE]

InvalidateFrame(m, w, a, except) ==
  [pc |-> "INVALIDATE", mod |-> m, way |-> w, addr |-> a, except |-> except,
   reply |-> "none"]

RequestFrame(pc, m, target, a, up, peer) ==
  [pc |-> pc, mod |-> m, target |-> target, addr |-> a, up |-> up, peer |-> peer, nc |-> FALSE,
   way |-> NoWay, state |-> "I", err |-> FALSE, shared |-> FALSE, reply |-> "none",
   data |-> "none", viaPeer |-> FALSE, retain |-> FALSE]

\* MESSAGE: the owner of a block gives up being its owner.
MessageFrame(m, target, a) ==
  [pc |-> "MESSAGE_ACTION", mod |-> m, target |-> target, addr |-> a, way |-> NoWay,
   state |-> "I", err |-> FALSE]

\* Down-up requests do not block.
BugRequest(pc, m, target, a, up, peer) ==
  <<RequestFrame(pc, m, target, a, up, peer), FindFrame(target, a, FALSE, NoWay)>>

\* READ_REQUEST / WRITE_REQUEST and the find-and-lock of its receiver: up-down
\* requests do not block on a locked entry, down-up ones do.
Request(pc, m, target, a, up, peer) ==
  <<RequestFrame(pc, m, target, a, up, peer), FindFrame(target, a, ~up, NoWay)>>

Goto(c, f)         == [chain[c] EXCEPT ![Len(chain[c])] = f]
Call(c, f, frames) == Goto(c, f) \o frames
Caller(c)          == chain[c][Len(chain[c]) - 1]
Return(c, f)       == [Front(chain[c]) EXCEPT ![Len(chain[c]) - 1] = f]
Step(c, s)         == [chain EXCEPT ![c] = s]

\* The frame f as it goes on at pc, after a call that may fail, or with the error of its callee.
To(f, pc)     == [f EXCEPT !.pc = pc]
Anew(f, pc)   == [f EXCEPT !.pc = pc, !.err = FALSE]
Failed(f)     == [f EXCEPT !.err = TRUE]

SetPeer(peer, state) == IF state = "O" \/ PeerTransfers THEN peer ELSE None

\* dir_entry_unlock: the first waiter is taken off the queue and will repeat
\* FIND_AND_LOCK one cycle later; the entry is free for anybody until then.
Unlocked(m, w) ==
  [lock EXCEPT ![m][w] = [by |-> <<>>, queue |-> IF @.queue = <<>> THEN <<>> ELSE Tail(@.queue)]]

\* Definitions named Bug... are mistakes the properties must detect.  BugWoken takes the
\* waiter off the queue and schedules nothing.
BugWoken(chains, m, w) == chains
Woken(chains, m, w) ==
  LET q == lock[m][w].queue
  IN  IF q = <<>> THEN chains
      ELSE [chains EXCEPT ![Head(q)] = [@ EXCEPT ![Len(@)].pc = "FIND_AND_LOCK"]]

\* c goes on with the frames s, or also unlocks an entry.
Resume(c, s)        == chain' = Step(c, s) /\ UNCHANGED lock
Release(c, s, m, w) == chain' = Woken(Step(c, s), m, w) /\ lock' = Unlocked(m, w)

\* dir_entry_clear_sharer, and the owner if it is one of S; BugUnshared is
\* dir_entry_clear_all_sharers.
BugUnshared(e, S) == [owner |-> IF e.owner \in S THEN None ELSE e.owner, sharers |-> {}]
Unshared(e, S)    == [owner |-> IF e.owner \in S THEN None ELSE e.owner, sharers |-> e.sharers \ S]

\* cache_set_block
SetBlock(m, w, a, s) == [block EXCEPT ![m][w].tag = a, ![m][w].state = s]

CopyOf(m, a)      == IF <<m, a>> \in fresh THEN "fresh" ELSE "stale"
Filled(m, a, d)   == IF d = "fresh" THEN fresh \union {<<m, a>>} ELSE fresh \ {<<m, a>>}
Dropped(m, a)     == IF Main(m) THEN fresh ELSE fresh \ {<<m, a>>}

-----------------------------------------------------------------------------
(* Loads, stores and prefetches of the first-level modules.                 *)

\* mod_access and the first event of the access
Start(t, k, a) ==
  /\ chain[<<t>>] = <<>>
  /\ chain' = Step(<<t>>, <<AccessFrame(k, Home[t], a)>>)
  /\ access' = [access EXCEPT ![Home[t]] = Append(@, t)]
  /\ UNCHANGED <<block, dir, lock, fresh>>

\* Accesses in flight in the same module that are older than t's.
Older(t) ==
  LET s == access[Home[t]]
  IN  {s[i] : i \in 1 .. SelectInSeq(s, LAMBDA u : u = t) - 1}

\* A store waits for every older access, the others for older stores and, but for
\* prefetches, for older accesses to their block.
MayLock(t, f) ==
  \A u \in Older(t) : LET g == chain[<<u>>][1] IN
    /\ f.kind # "store" /\ g.kind # "store"
    /\ f.kind # "prefetch" => g.addr # f.addr

Locked(k) == CASE k = "load"     -> "LOAD_ACTION"
               [] k = "store"    -> "STORE_ACTION"
               [] k = "prefetch" -> "PREFETCH_ACTION"
               [] k = "nc_store" -> "NC_STORE_WRITEBACK"

AccessLock(c) ==
  LET f == Top(c) IN
  /\ At(c, "LOCK")
  /\ MayLock(c[1], f)
  /\ Resume(c, Call(c, Anew(f, Locked(f.kind)),
                    <<FindFrame(f.mod, f.addr, f.kind # "prefetch", f.way)>>))
  /\ UNCHANGED <<block, dir, access, fresh>>

\* mod_get_retry_latency is random: nothing is assumed of it.
Retry(f) == Anew(f, "LOCK")

LoadAction(c) ==
  LET f == Top(c) IN
  /\ At(c, "LOAD_ACTION")
  /\ Resume(c, IF f.err THEN Goto(c, Retry(f))
               ELSE IF f.state # "I" THEN Goto(c, To(f, "LOAD_UNLOCK"))
               ELSE Call(c, [f EXCEPT !.pc = "LOAD_MISS", !.shared = FALSE],
                         Request("READ_REQUEST_ACTION", f.mod, Low[f.mod], f.addr, TRUE, None)))
  /\ UNCHANGED <<block, dir, access, fresh>>

LoadMiss(c) ==
  LET f == Top(c) IN
  /\ At(c, "LOAD_MISS")
  /\ \/ /\ f.err
        /\ Release(c, Goto(c, Retry(f)), f.mod, f.way)
        /\ UNCHANGED <<block, fresh>>
     \/ /\ ~f.err
        /\ block' = SetBlock(f.mod, f.way, f.addr, IF f.shared THEN "S" ELSE "E")
        /\ fresh' = Filled(f.mod, f.addr, f.data)
        /\ Resume(c, Goto(c, To(f, "LOAD_UNLOCK")))
  /\ UNCHANGED <<dir, access>>

\* LOAD_UNLOCK and PREFETCH_UNLOCK
LoadUnlock(c) ==
  LET f == Top(c) IN
  /\ At(c, "LOAD_UNLOCK")
  /\ Release(c, Goto(c, To(f, "FINISH")), f.mod, f.way)
  /\ UNCHANGED <<block, dir, access, fresh>>

StoreAction(c) ==
  LET f == Top(c) IN
  /\ At(c, "STORE_ACTION")
  /\ Resume(c, IF f.err THEN Goto(c, Retry(f))
               ELSE IF f.state \in {"M", "E"} THEN Goto(c, To(f, "STORE_UNLOCK"))
               ELSE Call(c, To(f, "STORE_UNLOCK"),
                         Request("WRITE_REQUEST_ACTION", f.mod, Low[f.mod], f.addr, TRUE, None)))
  /\ UNCHANGED <<block, dir, access, fresh>>

\* The store writes part of the block: its copy is the latest if the bytes it did
\* not write are, and every other copy is stale from here on.
StoreUnlock(c) ==
  LET f    == Top(c)
      base == IF f.state = "I" THEN f.data ELSE CopyOf(f.mod, f.addr)
  IN
  /\ At(c, "STORE_UNLOCK")
  /\ \/ /\ f.err
        /\ Release(c, Goto(c, Retry(f)), f.mod, f.way)
        /\ UNCHANGED <<block, fresh>>
     \/ /\ ~f.err
        /\ block' = SetBlock(f.mod, f.way, f.addr, "M")
        /\ fresh' = {p \in fresh : p[2] # f.addr}
                      \union (IF base = "fresh" THEN {<<f.mod, f.addr>>} ELSE {})
        /\ Release(c, Goto(c, To(f, "FINISH")), f.mod, f.way)
  /\ UNCHANGED <<dir, access>>

\* A prefetch gives up where another access retries.
PrefetchAction(c) ==
  LET f == Top(c) IN
  /\ At(c, "PREFETCH_ACTION")
  /\ Resume(c, IF f.err THEN Goto(c, To(f, "FINISH"))
               ELSE IF f.state # "I" THEN Goto(c, To(f, "LOAD_UNLOCK"))
               ELSE Call(c, [f EXCEPT !.pc = "PREFETCH_MISS", !.shared = FALSE],
                         Request("READ_REQUEST_ACTION", f.mod, Low[f.mod], f.addr, TRUE, None)))
  /\ UNCHANGED <<block, dir, access, fresh>>

PrefetchMiss(c) ==
  LET f == Top(c) IN
  /\ At(c, "PREFETCH_MISS")
  /\ \/ /\ f.err
        /\ Release(c, Goto(c, To(f, "FINISH")), f.mod, f.way)
        /\ UNCHANGED <<block, fresh>>
     \/ /\ ~f.err
        /\ block' = SetBlock(f.mod, f.way, f.addr, IF f.shared THEN "S" ELSE "E")
        /\ fresh' = Filled(f.mod, f.addr, f.data)
        /\ Resume(c, Goto(c, To(f, "LOAD_UNLOCK")))
  /\ UNCHANGED <<dir, access>>

\* mod_access_finish and the end of the access
AccessFinish(c) ==
  LET m == Top(c).mod IN
  /\ At(c, "FINISH")
  /\ \E i \in DOMAIN access[m] :
       access[m][i] = c[1] /\ access' = [access EXCEPT ![m] = RemoveAt(@, i)]
  /\ Resume(c, <<>>)
  /\ UNCHANGED <<block, dir, fresh>>

-----------------------------------------------------------------------------
(* Non-coherent stores.  What they write is nobody else's business, so that *)
(* fresh only follows what a fill brings.                                   *)

\* A dirty block is written back first, its entry still locked.
NcStoreWriteback(c) ==
  LET f == Top(c) IN
  /\ At(c, "NC_STORE_WRITEBACK")
  /\ Resume(c, IF f.err THEN Goto(c, Retry(f))
               ELSE IF f.state \notin {"M", "O"} THEN Goto(c, To(f, "NC_STORE_ACTION"))
               ELSE Call(c, Anew(f, "NC_STORE_ACTION"),
                         <<EvictFrame(f.mod, f.way, f.addr),
                           InvalidateFrame(f.mod, f.way, f.addr, None)>>))
  /\ UNCHANGED <<block, dir, access, fresh>>

\* The retry keeps the entry locked.
NcStoreAction(c) ==
  LET f == Top(c)
      low == Low[f.mod]
      read == Request("READ_REQUEST_ACTION", f.mod, low, f.addr, TRUE, SetPeer(f.mod, f.state))
      miss == Anew(f, "NC_STORE_MISS")
  IN
  /\ At(c, "NC_STORE_ACTION")
  /\ Resume(c, IF f.err THEN Goto(c, Retry(f))
               ELSE IF f.state \in {"S", "N"} THEN Goto(c, To(f, "NC_STORE_UNLOCK"))
               ELSE IF f.state = "E"
               THEN Call(c, miss, <<MessageFrame(f.mod, low, f.addr), FindFrame(low, f.addr, FALSE, NoWay)>>)
               ELSE Call(c, miss, <<[read[1] EXCEPT !.nc = TRUE], read[2]>>))
  /\ UNCHANGED <<block, dir, access, fresh>>

NcStoreMiss(c) ==
  LET f == Top(c) IN
  /\ At(c, "NC_STORE_MISS")
  /\ \/ /\ f.err
        /\ Release(c, Goto(c, Retry(f)), f.mod, f.way)
     \/ /\ ~f.err
        /\ Resume(c, Goto(c, To(f, "NC_STORE_UNLOCK")))
  /\ UNCHANGED <<block, dir, access, fresh>>

NcStoreUnlock(c) ==
  LET f == Top(c) IN
  /\ At(c, "NC_STORE_UNLOCK")
  /\ block' = SetBlock(f.mod, f.way, f.addr, "N")
  /\ fresh' = IF f.state \in {"E", "S", "N"} THEN fresh ELSE Filled(f.mod, f.addr, f.data)
  /\ Release(c, Goto(c, To(f, "FINISH")), f.mod, f.way)
  /\ UNCHANGED <<dir, access>>

\* message_clear_owner, the only message there is
MessageAction(c) ==
  LET f == Top(c) IN
  /\ At(c, "MESSAGE_ACTION")
  /\ \/ /\ f.err
        /\ Resume(c, Return(c, Failed(Caller(c))))
        /\ UNCHANGED dir
     \/ /\ ~f.err
        /\ dir' = [dir EXCEPT ![f.target][f.way].owner = None]
        /\ Release(c, Front(chain[c]), f.target, f.way)
  /\ UNCHANGED <<block, access, fresh>>

-----------------------------------------------------------------------------
(* Find and lock.                                                           *)

\* A block that is being brought is not seen.
BugMatches(m, a) == {w \in Ways(m) : block[m][w].tag = a /\ block[m][w].state # "I"}

\* mod_find_block: a transient tag counts as a hit while the entry is locked.
Matches(m, a) ==
  {w \in Ways(m) : \/ block[m][w].tag = a /\ block[m][w].state # "I"
                   \/ block[m][w].trans = a /\ lock[m][w].by # <<>>}

\* On a miss the way assigned earlier is kept, else the replacement policy
\* (LRU, FIFO or random) chooses.
Victims(f) ==
  IF Matches(f.mod, f.addr) # {} THEN {Min(Matches(f.mod, f.addr))}
  ELSE IF f.way # NoWay THEN {f.way} ELSE Ways(f.mod)

FindAndLockBusy(c) ==
  LET f == Top(c) IN
  /\ At(c, "FIND_AND_LOCK") /\ ~f.blocking
  /\ \E w \in Victims(f) : lock[f.mod][w].by # <<>>
  /\ Resume(c, Return(c, Failed(Caller(c))))
  /\ UNCHANGED <<block, dir, access, fresh>>

\* dir_entry_lock on a locked entry: wait at the tail, remember the way.
FindAndLockWait(c) ==
  LET f == Top(c) IN
  /\ At(c, "FIND_AND_LOCK") /\ f.blocking
  /\ \E w \in Victims(f) :
       /\ lock[f.mod][w].by # <<>>
       /\ lock' = [lock EXCEPT ![f.mod][w].queue = Append(@, c)]
       /\ chain' = Step(c, [Goto(c, [f EXCEPT !.pc = "DIR_WAIT", !.way = w])
                              EXCEPT ![Len(chain[c]) - 1] = [Caller(c) EXCEPT !.way = w]])
  /\ UNCHANGED <<block, dir, access, fresh>>

FindAndLockGrant(c) ==
  LET f == Top(c) IN
  /\ At(c, "FIND_AND_LOCK")
  /\ \E w \in Victims(f) :
       /\ lock[f.mod][w].by = <<>>
       /\ lock' = [lock EXCEPT ![f.mod][w].by = c]
       /\ block' = [block EXCEPT ![f.mod][w].trans = f.addr]
       /\ chain' = Step(c, Goto(c, [f EXCEPT !.pc = "FIND_AND_LOCK_ACTION", !.way = w,
                                             !.hit = Matches(f.mod, f.addr) # {},
                                             !.state = block[f.mod][w].state]))
  /\ UNCHANGED <<dir, access, fresh>>

\* A main memory holds every block: a miss there is a miss of the directory only.
Found(c, s) ==
  LET f == Top(c) IN
  /\ Resume(c, Return(c, [Caller(c) EXCEPT !.err = FALSE, !.way = f.way,
                                    !.state = IF Main(f.mod) /\ s = "I" THEN "E" ELSE s]))
  /\ block' = IF Main(f.mod) /\ s = "I" THEN SetBlock(f.mod, f.way, f.addr, "E") ELSE block

FindAndLockAction(c) ==
  LET f == Top(c)
      b == block[f.mod][f.way]
  IN
  /\ At(c, "FIND_AND_LOCK_ACTION")
  /\ \/ /\ ~f.hit /\ f.state # "I"
        /\ Resume(c, Call(c, Anew(f, "FIND_AND_LOCK_FINISH"),
                          <<EvictFrame(f.mod, f.way, b.tag),
                            InvalidateFrame(f.mod, f.way, b.tag, None)>>))
        /\ UNCHANGED block
     \/ /\ f.hit \/ f.state = "I"
        /\ Found(c, f.state)
  /\ UNCHANGED <<dir, access, fresh>>

FindAndLockFinish(c) ==
  LET f == Top(c) IN
  /\ At(c, "FIND_AND_LOCK_FINISH")
  /\ \/ /\ f.err
        /\ Release(c, Return(c, Failed(Caller(c))), f.mod, f.way)
        /\ UNCHANGED block
     \/ /\ ~f.err
        /\ Found(c, block[f.mod][f.way].state)
  /\ UNCHANGED <<dir, access, fresh>>

-----------------------------------------------------------------------------
(* Evict and invalidate.                                                    *)

\* Every sharer but except_mod is forgotten at once and told to invalidate.
Invalidate(c) ==
  LET f == Top(c)
      e == dir[f.mod][f.way]
      S == e.sharers \ {f.except}
      sent == {Append(c, s) : s \in S}
  IN
  /\ At(c, "INVALIDATE")
  /\ dir' = [dir EXCEPT ![f.mod][f.way] = Unshared(@, S)]
  /\ chain' = IF S = {} THEN Step(c, Front(chain[c]))
              ELSE [d \in DOMAIN chain \union sent |->
                      IF d \in sent THEN Request("WRITE_REQUEST_ACTION", f.mod, Last(d), f.addr, FALSE, None)
                      ELSE Step(c, Goto(c, To(f, "INVALIDATE_FINISH")))[d]]
  /\ UNCHANGED <<block, lock, access, fresh>>

\* The answer of one sharer.  The reply is the one that ranks highest of those computed
\* so far, not only of those that have arrived.
InvalidateFinish(c) ==
  LET p == Front(c)
      f == Top(c)
      g == Top(p)
      last == \A d \in DOMAIN chain \ {c} : Front(d) # p
      rest == Step(p, IF last THEN Front(chain[p]) ELSE chain[p])
  IN
  /\ At(c, "WRITE_REQUEST_REPLY")
  /\ chain' = [d \in DOMAIN chain \ {c} |-> rest[d]]
  /\ block' = IF g.reply = "ack_data" THEN SetBlock(g.mod, g.way, g.addr, "M") ELSE block
  /\ fresh' = IF f.reply = "ack_data" THEN Filled(g.mod, g.addr, f.data) ELSE fresh
  /\ UNCHANGED <<dir, lock, access>>

\* The state is read again: the invalidation may have brought data.
EvictAction(c) ==
  LET f == Top(c)
      s == block[f.mod][f.srcWay].state
  IN
  /\ At(c, "EVICT_INVALID")
  /\ \/ /\ Main(f.mod) \/ s = "I"
        /\ block' = SetBlock(f.mod, f.srcWay, None, "I")
        /\ Resume(c, Return(c, [Caller(c) EXCEPT !.err = FALSE]))
     \/ /\ ~Main(f.mod) /\ s # "I"
        /\ Resume(c, Call(c, [f EXCEPT !.pc = IF s = "N" THEN "EVICT_PROCESS_NONCOHERENT"
                                                         ELSE "EVICT_PROCESS",
                                       !.state = s,
                                       !.reply = IF s \in Dirty THEN "ack_data" ELSE "ack",
                                       !.data = CopyOf(f.mod, f.addr)],
                          <<FindFrame(Low[f.mod], f.addr, FALSE, f.way)>>))
        /\ UNCHANGED block
  /\ UNCHANGED <<dir, access, fresh>>

\* What data make of a block: only EVICT_PROCESS_NONCOHERENT may find it in O, S or N.
Merged(s) == CASE s \in {"E", "M"} -> "M" [] s = "O" -> "O" [] s \in {"S", "N"} -> "N"

EvictProcess(c) ==
  LET f   == Top(c)
      low == Low[f.mod]
  IN
  /\ At(c, "EVICT_PROCESS") \/ At(c, "EVICT_PROCESS_NONCOHERENT")
  /\ \/ /\ f.err
        /\ Resume(c, Return(c, Failed(Caller(c))))
        /\ UNCHANGED <<block, dir, fresh>>
     \/ /\ ~f.err
        /\ block' = IF f.reply = "ack_data"
                    THEN SetBlock(low, f.way, f.addr, Merged(f.state)) ELSE block
        /\ fresh' = IF f.reply = "ack_data" THEN Filled(low, f.addr, f.data) ELSE fresh
        /\ dir' = [dir EXCEPT ![low][f.way] = Unshared(@, {f.mod})]
        /\ Release(c, Goto(c, To(f, "EVICT_REPLY_RECEIVE")), low, f.way)
  /\ UNCHANGED access

EvictReply(c) ==
  LET f == Top(c) IN
  /\ At(c, "EVICT_REPLY_RECEIVE")
  /\ block' = SetBlock(f.mod, f.srcWay, None, "I")
  /\ fresh' = Dropped(f.mod, f.addr)
  /\ Resume(c, Return(c, [Caller(c) EXCEPT !.err = FALSE]))
  /\ UNCHANGED <<dir, access>>

-----------------------------------------------------------------------------
(* Read requests.                                                           *)

ReadRequestAction(c) ==
  LET f == Top(c)
      o == dir[f.target][f.way].owner
      clear  == [f EXCEPT !.err = FALSE, !.shared = FALSE]
      finish == IF f.up THEN "READ_REQUEST_UPDOWN_FINISH" ELSE "READ_REQUEST_DOWNUP_FINISH"
      peer   == IF f.up THEN SetPeer(f.mod, f.state) ELSE None
  IN
  /\ At(c, "READ_REQUEST_ACTION")
  /\ \/ /\ f.err
        /\ Resume(c, Return(c, Failed(Caller(c))))
     \/ /\ ~f.err /\ f.up /\ f.state = "I"
        /\ Resume(c, Call(c, To(clear, "READ_REQUEST_UPDOWN_MISS"),
                          Request("READ_REQUEST_ACTION", f.target, Low[f.target], f.addr, TRUE, None)))
     \/ /\ ~f.err /\ (f.up => f.state # "I") /\ o \notin {None, f.mod}
        /\ Resume(c, Call(c, To(clear, finish),
                          Request("READ_REQUEST_ACTION", f.target, o, f.addr, FALSE, peer)))
     \/ /\ ~f.err /\ (f.up => f.state # "I") /\ o \in {None, f.mod}
        /\ Resume(c, Goto(c, To(f, finish)))
  /\ UNCHANGED <<block, dir, access, fresh>>

ReadRequestUpdownMiss(c) ==
  LET f == Top(c) IN
  /\ At(c, "READ_REQUEST_UPDOWN_MISS")
  /\ \/ /\ f.err
        /\ Release(c, Return(c, Failed(Caller(c))), f.target, f.way)
        /\ UNCHANGED <<block, fresh>>
     \/ /\ ~f.err
        /\ block' = SetBlock(f.target, f.way, f.addr, IF f.shared THEN "S" ELSE "E")
        /\ fresh' = Filled(f.target, f.addr, f.data)
        /\ Resume(c, Goto(c, [f EXCEPT !.pc = "READ_REQUEST_UPDOWN_FINISH", !.data = "none"]))
  /\ UNCHANGED <<dir, access>>

\* Whether a requester must take the block as shared; BugIsShared miscounts.
BugIsShared(f, sharers) ==
  Cardinality(sharers) > 2 \/ f.nc \/ f.shared \/ f.state \in {"O", "N", "S"}
IsShared(f, sharers) ==
  Cardinality(sharers) > 1 \/ f.nc \/ f.shared \/ f.state \in {"O", "N", "S"}

\* The data of an owner went to the requester itself (viaPeer) or came to target.
ReadRequestUpdownFinish(c) ==
  LET f       == Top(c)
      e       == dir[f.target][f.way]
      owner   == IF f.retain \/ e.owner = f.mod THEN e.owner ELSE None
      sharers == e.sharers \union {f.mod}
      shared  == IsShared(f, sharers)
      filled  == IF f.data = "none" \/ f.viaPeer THEN fresh ELSE Filled(f.target, f.addr, f.data)
      data    == IF f.viaPeer THEN f.data
                 ELSE IF <<f.target, f.addr>> \in filled THEN "fresh" ELSE "stale"
  IN
  /\ At(c, "READ_REQUEST_UPDOWN_FINISH")
  /\ dir' = [dir EXCEPT ![f.target][f.way] =
               [owner |-> IF shared THEN owner ELSE f.mod, sharers |-> sharers]]
  /\ fresh' = filled
  /\ Release(c, Return(c, [Caller(c) EXCEPT !.shared = shared, !.data = data]), f.target, f.way)
  /\ UNCHANGED <<block, access>>

\* f.reply is what the owner above answered: nothing when there is no owner.
ReadRequestDownupFinish(c) ==
  LET f      == Top(c)
      owned  == /\ f.peer # None
                /\ f.reply = "ack_data" \/ (f.reply = "none" /\ f.state \in {"M", "O"})
      filled == IF f.reply = "ack_data" THEN Filled(f.target, f.addr, f.data) ELSE fresh
      reply  == IF f.peer # None THEN "ack_data_sent_to_peer"
                ELSE IF f.reply # "none" THEN f.reply
                ELSE IF f.state \in Dirty THEN "ack_data" ELSE "ack"
      data   == IF <<f.target, f.addr>> \in filled THEN "fresh" ELSE "stale"
  IN
  /\ At(c, "READ_REQUEST_DOWNUP_FINISH")
  /\ block' = SetBlock(f.target, f.way, f.addr, IF owned THEN "O" ELSE "S")
  /\ dir' = IF f.reply = "none" THEN dir ELSE [dir EXCEPT ![f.target][f.way].owner = None]
  /\ fresh' = filled
  /\ Release(c, Return(c, [Caller(c) EXCEPT !.reply = reply, !.retain = owned,
                                            !.viaPeer = f.peer # None,
                                            !.data = IF reply = "ack" THEN "none" ELSE data]),
             f.target, f.way)
  /\ UNCHANGED access

-----------------------------------------------------------------------------
(* Write requests.                                                          *)

WriteRequestAction(c) ==
  LET f == Top(c) IN
  /\ At(c, "WRITE_REQUEST_ACTION")
  /\ Resume(c, IF f.err THEN Return(c, Failed(Caller(c)))
               ELSE Call(c, To(f, "WRITE_REQUEST_EXCLUSIVE"),
                         <<InvalidateFrame(f.target, f.way, f.addr, f.mod)>>))
  /\ UNCHANGED <<block, dir, access, fresh>>

\* f.state is the state the block had when the entry was locked.
WriteRequestUpdown(c) ==
  LET f == Top(c) IN
  /\ At(c, "WRITE_REQUEST_EXCLUSIVE") /\ f.up
  /\ Resume(c, IF f.state \in {"M", "E"} THEN Goto(c, To(f, "WRITE_REQUEST_UPDOWN_FINISH"))
               ELSE Call(c, To(f, "WRITE_REQUEST_UPDOWN_FINISH"),
                         Request("WRITE_REQUEST_ACTION", f.target, Low[f.target],
                                 f.addr, TRUE, None)))
  /\ UNCHANGED <<block, dir, access, fresh>>

WriteRequestUpdownFinish(c) ==
  LET f      == Top(c)
      filled == IF f.state = "I" THEN Filled(f.target, f.addr, f.data) ELSE fresh
  IN
  /\ At(c, "WRITE_REQUEST_UPDOWN_FINISH")
  /\ \/ /\ f.err
        /\ Release(c, Return(c, Failed(Caller(c))), f.target, f.way)
        /\ UNCHANGED <<block, dir, fresh>>
     \/ /\ ~f.err
        /\ block' = SetBlock(f.target, f.way, f.addr, "E")
        /\ dir' = [dir EXCEPT ![f.target][f.way] =
                     [owner |-> f.mod, sharers |-> @.sharers \union {f.mod}]]
        /\ fresh' = filled
        /\ Release(c, Return(c, [Caller(c) EXCEPT
                                   !.data = IF <<f.target, f.addr>> \in filled THEN "fresh" ELSE "stale"]),
                   f.target, f.way)
  /\ UNCHANGED access

\* The reply is noted in the stack of the INVALIDATE at once (mod_stack_set_reply); the
\* message with the data follows.
WriteRequestDownup(c) ==
  LET f     == Top(c)
      p     == Front(c)
      reply == IF f.state \in Dirty THEN "ack_data" ELSE "ack"
      noted == [chain EXCEPT ![p][Len(chain[p])].reply = IF @ = "ack_data" THEN @ ELSE reply,
                             ![c] = Goto(c, [f EXCEPT !.pc = "WRITE_REQUEST_REPLY", !.reply = reply,
                                                      !.data = CopyOf(f.target, f.addr)])]
  IN
  /\ At(c, "WRITE_REQUEST_EXCLUSIVE") /\ ~f.up
  /\ block' = SetBlock(f.target, f.way, None, "I")
  /\ fresh' = Dropped(f.target, f.addr)
  /\ lock' = Unlocked(f.target, f.way)
  /\ chain' = Woken(noted, f.target, f.way)
  /\ UNCHANGED <<dir, access>>

-----------------------------------------------------------------------------
(* The system.  All caches start empty and main memory holds every block.   *)

Init ==
  /\ block = [m \in Mods |-> [w \in Ways(m) |-> [tag |-> None, state |-> "I", trans |-> None]]]
  /\ dir = [m \in Mods |-> [w \in Ways(m) |-> [owner |-> None, sharers |-> {}]]]
  /\ lock = [m \in Mods |-> [w \in Ways(m) |-> [by |-> <<>>, queue |-> <<>>]]]
  /\ access = [m \in Mods |-> <<>>]
  /\ chain = [c \in {<<t>> : t \in Threads} |-> <<>>]
  /\ fresh = {<<MainMemory, a>> : a \in Blocks}

Run(c) ==
  \/ AccessLock(c) \/ LoadAction(c) \/ LoadMiss(c) \/ LoadUnlock(c)
  \/ StoreAction(c) \/ StoreUnlock(c) \/ AccessFinish(c)
  \/ PrefetchAction(c) \/ PrefetchMiss(c)
  \/ NcStoreWriteback(c) \/ NcStoreAction(c) \/ NcStoreMiss(c) \/ NcStoreUnlock(c)
  \/ MessageAction(c)
  \/ FindAndLockBusy(c) \/ FindAndLockWait(c) \/ FindAndLockGrant(c)
  \/ FindAndLockAction(c) \/ FindAndLockFinish(c)
  \/ Invalidate(c) \/ InvalidateFinish(c)
  \/ EvictAction(c) \/ EvictProcess(c) \/ EvictReply(c)
  \/ ReadRequestAction(c) \/ ReadRequestUpdownMiss(c)
  \/ ReadRequestUpdownFinish(c) \/ ReadRequestDownupFinish(c)
  \/ WriteRequestAction(c) \/ WriteRequestUpdown(c)
  \/ WriteRequestUpdownFinish(c) \/ WriteRequestDownup(c)

Next ==
  \/ \E t \in Threads, k \in Kinds, a \in Blocks : Start(t, k, a)
  \/ \E c \in DOMAIN chain : Run(c)

Spec == Init /\ [][Next]_vars

-----------------------------------------------------------------------------
(* Properties.                                                              *)

Tops         == {Top(c) : c \in {d \in DOMAIN chain : chain[d] # <<>>}}
\* The lower module has let go of the line, the reply that will invalidate it is on its way.
Leaving(m, w) == \E f \in Tops : f.pc = "EVICT_REPLY_RECEIVE" /\ f.mod = m /\ f.srcWay = w
Copies(m, a) == {w \in Ways(m) : block[m][w].tag = a /\ block[m][w].state # "I" /\ ~Leaving(m, w)}
State(m, a)  == IF Copies(m, a) = {} THEN "I" ELSE block[m][Min(Copies(m, a))].state

\* Type invariant: lines, directory entries, locks and access lists of every module,
\* and one chain per thread plus those forked by invalidations.
TypeOK ==
  /\ \A m \in Mods : \A w \in Ways(m) :
       /\ block[m][w] \in [tag : Blocks \union {None}, state : {"N", "M", "O", "E", "S", "I"},
                           trans : Blocks \union {None}]
       /\ dir[m][w] \in [owner : Mods \union {None}, sharers : SUBSET Mods]
       /\ lock[m][w].by \in DOMAIN chain \union {<<>>}
       /\ lock[m][w].queue \in Seq(DOMAIN chain)
  /\ \A m \in Mods : access[m] \in Seq(Threads)
  /\ {<<t>> : t \in Threads} \subseteq DOMAIN chain
  /\ \A c \in DOMAIN chain : \A i \in DOMAIN chain[c] : chain[c][i].mod \in Mods
  /\ fresh \subseteq Mods \X Blocks

Unused(m, w) == dir[m][w] = [owner |-> None, sharers |-> {}]

\* The assert() and fatal() calls of the handlers: a way is one of the module, a victim
\* without state has no sharer, an eviction leaves the line invalid or fails with the line
\* untouched, data reaches a block in E or M, a down-up request finds the block in a state that
\* can answer it and never fails to lock, the requester of a block does not own it, and a
\* writer ends as the only sharer.
Asserts(f) ==
  /\ f.pc = "FIND_AND_LOCK" => Victims(f) \subseteq Ways(f.mod)
  /\ f.pc = "FIND_AND_LOCK_ACTION" /\ ~f.hit /\ f.state = "I" => Unused(f.mod, f.way)
  /\ f.pc = "FIND_AND_LOCK_FINISH" => (f.err <=> block[f.mod][f.way].state # "I")
  /\ f.pc = "EVICT_PROCESS" /\ ~f.err /\ f.reply = "ack_data" => f.state \in {"E", "M"}
  /\ f.pc = "EVICT_PROCESS_NONCOHERENT" /\ ~f.err => f.state # "I"
  /\ f.pc = "MESSAGE_ACTION" /\ ~f.err => dir[f.target][f.way].owner = f.mod
  /\ f.pc = "EVICT_REPLY_RECEIVE" => Unused(f.mod, f.srcWay)
  /\ f.pc \in {"READ_REQUEST_ACTION", "WRITE_REQUEST_ACTION"} /\ f.err => f.up
  /\ f.pc = "READ_REQUEST_ACTION" /\ ~f.err =>
       IF ~f.up THEN f.state \notin {"I", "S", "N"}
       ELSE IF f.state = "I" THEN Unused(f.target, f.way)
       ELSE dir[f.target][f.way].owner # f.mod
  /\ f.pc = "WRITE_REQUEST_EXCLUSIVE" /\ ~f.up => f.state # "I" /\ Unused(f.target, f.way)
  /\ f.pc = "WRITE_REQUEST_UPDOWN_FINISH" /\ ~f.err => dir[f.target][f.way].sharers \subseteq {f.mod}

\* No assert() or fatal() of a handler ever fails.
CodeAssertions == \A f \in Tops : Asserts(f)

\* m is n or lies below it.
Below(m, n) == \/ m = n
               \/ n # None /\ (Low[n] = m \/ (Low[n] # None /\ Low[Low[n]] = m))

\* A module with a block in M or E excludes every valid copy that is neither above nor
\* below it; an O copy tolerates S copies only.
SingleWriter ==
  \A m, n \in Mods, a \in Blocks : ~Below(m, n) /\ ~Below(n, m) =>
    /\ State(m, a) \in {"M", "E"} => State(n, a) = "I"
    /\ State(m, a) = "O" => State(n, a) \in {"I", "S"}

\* The lower directory knows every valid line that nobody is working on, unless the
\* chain that holds the lower entry is about to invalidate it.
Inclusion ==
  \A m \in Mods, a \in Blocks : ~Main(m) =>
    \A w \in Ways(m) :
      block[m][w].tag = a /\ block[m][w].state # "I" /\ lock[m][w].by = <<>> =>
        \E v \in Ways(Low[m]) :
          /\ block[Low[m]][v].tag = a /\ block[Low[m]][v].state # "I"
          /\ m \in dir[Low[m]][v].sharers \/ lock[Low[m]][v].by # <<>>

\* A block is never valid in two ways of a module.
UniqueWay ==
  \A m \in Mods : \A v, w \in Ways(m) :
    v # w /\ block[m][v].state # "I" /\ block[m][w].state # "I" => block[m][v].tag # block[m][w].tag

\* An access that sleeps on an entry is in its queue while the entry is locked; when it is
\* free, an earlier waiter has been woken that will lock, and so unlock, that same entry:
\* its lookup cannot end elsewhere.
NoLostWakeup ==
  \A c \in DOMAIN chain : At(c, "DIR_WAIT") =>
    LET m == Top(c).mod
        w == Top(c).way
    IN  /\ c \in ToSet(lock[m][w].queue)
        /\ \/ lock[m][w].by # <<>>
           \/ \E f \in Tops : f.pc = "FIND_AND_LOCK" /\ f.mod = m /\ f.blocking /\ Victims(f) = {w}

\* What a first-level module would hand to a load is what was stored last.
LoadsLatest ==
  \A m \in Mods, a \in Blocks : Leaf(m) /\ Copies(m, a) # {} => <<m, a>> \in fresh

\* "Modified or owned entries send data" (WRITE_REQUEST_DOWNUP): when the reply of an
\* invalidated module is computed, a module in M or O is not taken for a clean one.
DirtySendsData ==
  \A f \in Tops :
    /\ f.pc = "WRITE_REQUEST_EXCLUSIVE" /\ ~f.up
    /\ block[f.target][f.way].state \in {"M", "O"}
    => f.state \in Dirty

\* "lock error, retrying in %d cycles" (NC_STORE_ACTION): an access that starts over does not
\* wait for an entry which it has locked itself.
NeverWaitsForItself ==
  \A c \in DOMAIN chain : At(c, "DIR_WAIT") => ~Owns(c, Top(c).mod, Top(c).way)

\* "If state is E/S, just an ack needs to be sent" (EVICT_ACTION): an eviction without data
\* leaves behind a lower module that has what the evicted line has.
AckSuffices ==
  \A f \in Tops :
    /\ f.pc = "EVICT_PROCESS" /\ ~f.err /\ f.reply = "ack"
    /\ <<f.mod, f.addr>> \in fresh
    => <<Low[f.mod], f.addr>> \in fresh

=============================================================================
