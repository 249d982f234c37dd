------------------------------ MODULE FpgaTransfer ------------------------------
(***************************************************************************)
(* How an FPGA task reads its input from memory and writes its output       *)
(* (nmoesi-protocol.c).  fpga_mod_access splits a transfer at the borders of  *)
(* the blocks of the memory into chunks; each chunk takes one of the ports    *)
(* of the interconnect or waits for one in memoplist.  Behind AXI or a DMA     *)
(* ("burst") a chunk is moved in bursts of Length beats of Width bytes, else   *)
(* ("large") its block is read or written at once.  Beats and blocks access    *)
(* the memory word by word; when all words of one are there its bytes are     *)
(* copied.                                                                 *)
(*                                                                         *)
(* Each of these is a stack of its own that returns to the one above it.     *)
(* Its name here is the path of places in the task's buffer: <<t>> a           *)
(* transfer, <<t, 8>> its chunk at 8, then bursts and beats.  The memory is the *)
(* cache protocol: external, it answers in any order, MemoryLatency cycles     *)
(* or more after the access.  The handlers for load and store differ in the   *)
(* burst's extra cycles alone.                                             *)
(*                                                                         *)
(* Tasks and Accesses bound the runs.                                       *)
(***************************************************************************)
EXTENDS Naturals, Integers, Sequences, FiniteSets, SequencesExt, Functions, FiniteSetsExt, EventList

CONSTANTS
  Gran, Width, Length, Extra, Port, Inter, Latency,  \* struct interconnect_t; Extra[load]: rextra, wextra
  MemoryLatency,  \* the memory's shortest time
  Tasks,
  Accesses,       \* records [load, addr, size] that a task may ask for
  None

Word == 4

\* fpga_mod_access and the configuration check none of this.  A transfer of size 0 and a rest
\* of less than a word are never answered, and a next chunk that comes after the end of all
\* those before it (Inter) finds the transfer's stack freed.
ASSUME TransferAssumption ==
  /\ Gran \in Nat \ {0} /\ Gran % Word = 0 /\ Width \in Nat \ {0} /\ Width % Word = 0
  /\ Length \in Nat \ {0} /\ Port \in Nat \ {0} /\ Latency \in Nat /\ MemoryLatency \in Nat
  /\ Extra \in [BOOLEAN -> Nat] /\ Inter \in Nat
  /\ Accesses \subseteq [load : BOOLEAN, addr : Nat, size : Nat] /\ None \notin Accesses
  /\ \A a \in Accesses : a.size > 0 /\ a.size % Word = 0 /\ a.addr % Word = 0
  /\ Inter <= Latency + Min({Extra[TRUE], Extra[FALSE]}) + 1
  /\ Inter <= Latency + MemoryLatency

VARIABLES
  path,      \* mod->axi | mod->dma: "burst", else "large"
  access,    \* access[t]: what task t has asked for, or None
  stk,       \* the stacks: addr, buf, size, offset; left: burst_count, or transfer_count of a
             \* burst; count: transfer_count of a transfer, comcount, modcount
  portuse,   \* interconnect->portuse
  memoplist, \* interconnect->memoplist
  memory,    \* memory[s]: words of the stack s that the memory is at
  image,     \* image[t][o]: address of the memory's byte that is exchanged with byte o of the buffer
  told,      \* number of EV_FPGA_LOAD_FINISH and EV_FPGA_STORE_FINISH of task t
  events     \* pending events, each with its stack

vars == <<path, access, stk, portuse, memoplist, memory, image, told, events>>

TypeOK ==
  /\ path \in {"burst", "large"}
  /\ access \in [Tasks -> Accesses \union {None}]
  /\ DOMAIN stk \subseteq Seq(Tasks \union Nat)
  /\ \A s \in DOMAIN stk : stk[s] \in [addr : Nat, buf : Nat, size : Int, offset : Nat, left : Nat, count : Nat]
  /\ portuse \in 0..Port
  /\ memoplist \in Seq(DOMAIN stk)
  /\ \A s \in DOMAIN memory : s \in DOMAIN stk /\ memory[s] <= stk[s].count
  /\ told \in [Tasks -> 0..1]

Init ==
  /\ path \in {"burst", "large"}
  /\ access = [t \in Tasks |-> None]
  /\ stk = <<>> /\ memory = <<>>
  /\ portuse = 0 /\ memoplist = <<>> /\ events = <<>>
  /\ image = [t \in Tasks |-> <<>>]
  /\ told = [t \in Tasks |-> 0]

-----------------------------------------------------------------------------
(* Stacks and handlers.  Definitions named Bug... are mistakes the            *)
(* properties must detect.                                                 *)

Event(ev, s, left) == [ev |-> ev, stack |-> s, left |-> left]

\* mod_stack_create, for the bytes of p from off on
Stack(p, off, size, left) ==
  [addr |-> p.addr + off, buf |-> p.buf + off, size |-> size, offset |-> 0, left |-> left, count |-> 0]

Handles(ev) == IsDue(events) /\ Head(events).ev = ev
Cur == Head(events).stack
S   == stk[Cur]

\* f with x at k
Put(f, k, x)      == [i \in DOMAIN f \union {k} |-> IF i = k THEN x ELSE f[i]]

\* mod_stack_return of the stack s of ss, with the event ev for the one above it
Freed(ss, s)      == Restrict(ss, DOMAIN ss \ {s})
Return(s, ev)     == Event(ev, Front(s), 0)

IsLoad(s)         == access[s[1]].load

-----------------------------------------------------------------------------
(* Chunks: fpga_mod_access, EV_FPGA_MEM_LOAD_PRE, EV_FPGA_MEM_LARGE_LOAD      *)

Chunk(s) == Min({s.size, Gran - (s.addr % Gran)})

\* The first event of a transfer, and then one every Inter cycles, with the events es pending.
Pre(t, s, es) ==
  IF s.size <= 0 THEN events' = es /\ stk' = Put(stk, <<t>>, s)
  ELSE
    LET chunk == Chunk(s)
        id    == <<t, s.buf>>
    IN  /\ stk' = Put(Put(stk, <<t>>, [Stack(s, chunk, s.size - chunk, 0) EXCEPT !.count = s.count + 1]),
                      id, Stack(s, 0, chunk, 0))
        /\ events' = ScheduledAll(es, <<Event("Chunk", id, Latency), Event("Pre", <<t>>, Inter)>>)

Request(t, a) ==
  /\ access[t] = None
  /\ access' = [access EXCEPT ![t] = a]
  /\ image' = [image EXCEPT ![t] = [o \in 0..(a.size - 1) |-> None]]
  /\ Pre(t, Stack([addr |-> a.addr, buf |-> 0], 0, a.size, 0), events)
  /\ UNCHANGED <<path, portuse, memoplist, memory, told>>

NextChunk ==
  /\ Handles("Pre")
  /\ Pre(Cur[1], S, Tail(events))
  /\ UNCHANGED <<path, access, portuse, memoplist, memory, image, told>>

\* A chunk takes a port: EV_FPGA_MEM_LOAD, EV_FPGA_MEM_LARGE_LOAD_START.  BugFull admits one
\* too many, BugBursts leaves out a rest.
BugFull == portuse > Port
Full    == portuse = Port
BugBursts(size) == size \div (Length * Width)
Bursts(size)    == (size - 1) \div (Length * Width) + 1

TakePort ==
  /\ Handles("Chunk")
  /\ \/ /\ Full
        /\ memoplist' = Append(memoplist, Cur)
        /\ events' = Tail(events)
        /\ UNCHANGED <<stk, portuse>>
     \/ /\ ~Full
        /\ portuse' = portuse + 1
        /\ stk' = IF path = "burst" THEN [stk EXCEPT ![Cur].left = Bursts(S.size)] ELSE stk
        /\ events' = Scheduled(Tail(events), Event(IF path = "burst" THEN "Bursts" ELSE "Words", Cur, 0))
        /\ UNCHANGED memoplist
  /\ UNCHANGED <<path, access, memory, image, told>>

\* The chunk that gets the port, which competes with those that come in the same cycle.
\* BugWoken leaves it in the list.
BugWoken == <<>>
Woken    == IF memoplist = <<>> THEN <<>> ELSE <<Event("Chunk", Head(memoplist), 0)>>

FreePort ==
  /\ memoplist' = SubSeq(memoplist, Len(Woken) + 1, Len(memoplist))
  /\ portuse' = portuse - 1

-----------------------------------------------------------------------------
(* Bursts and beats: EV_FPGA_MEM_LOAD_START, _TRANSFER_START, _TRANSFER_FINISH, *)
(* EV_FPGA_MEM_LOAD_FINISH                                                 *)

NextBurst ==
  /\ Handles("Bursts")
  /\ \/ /\ S.left = 0
        /\ events' = Scheduled(Tail(events), Event("Finish", Cur, 0))
        /\ UNCHANGED stk
     \/ /\ S.left > 0
        /\ LET id == Append(Cur, S.buf + S.offset) IN
           /\ stk' = Put([stk EXCEPT ![Cur].offset = @ + Length * Width, ![Cur].left = @ - 1,
                                    ![Cur].size = @ - Length * Width],
                          id, Stack(S, S.offset, S.size, Length))
           /\ events' = Scheduled(Tail(events), Event("Beats", id, Extra[IsLoad(Cur)]))
  /\ UNCHANGED <<path, access, portuse, memoplist, memory, image, told>>

\* BugBeatEvents lets the beats come at half the speed.
BugBeatEvents(burst, beat) == <<Event("Words", beat, 1), Event("Beats", burst, 2)>>
BeatEvents(burst, beat)    == <<Event("Words", beat, 1), Event("Beats", burst, 1)>>

NextBeat ==
  /\ Handles("Beats")
  /\ \/ /\ S.left = 0
        /\ events' = Tail(events)
        /\ UNCHANGED stk
     \/ /\ S.left > 0
        /\ LET id == Append(Cur, S.buf + S.offset) IN
           /\ stk' = Put([stk EXCEPT ![Cur].offset = @ + Width, ![Cur].left = @ - 1,
                                    ![Cur].size = @ - Width, ![Cur].count = @ + 1],
                          id, Stack(S, S.offset, S.size, 0))
           /\ events' = ScheduledAll(Tail(events), BeatEvents(Cur, id))
  /\ UNCHANGED <<path, access, portuse, memoplist, memory, image, told>>

BeatFinish ==
  /\ Handles("BeatFinish")
  /\ \/ /\ S.count > 1
        /\ stk' = [stk EXCEPT ![Cur].count = @ - 1]
        /\ events' = Tail(events)
     \/ /\ S.count = 1
        /\ stk' = Freed(stk, Cur)
        /\ events' = Scheduled(Tail(events), Return(Cur, "Bursts"))
  /\ UNCHANGED <<path, access, portuse, memoplist, memory, image, told>>

ChunkFinish ==
  /\ Handles("Finish")
  /\ FreePort
  /\ stk' = Freed(stk, Cur)
  /\ events' = ScheduledAll(Tail(events), Append(Woken, Return(Cur, "PreFinish")))
  /\ UNCHANGED <<path, access, memory, image, told>>

-----------------------------------------------------------------------------
(* Words: EV_FPGA_MEM_LOAD_TRANSFER_ACTION and _ACTION_FINISH,                 *)
(* EV_FPGA_MEM_LARGE_LOAD_ACTION and _ACTION_FINISH                          *)

\* Beyond the end of the chunk the beats of a burst are empty.  BugIsEmpty forgets the end.
BugIsEmpty(s) == s.size < 0
IsEmpty(s)    == s.size <= 0
Words(s) == IF path = "large" THEN Gran \div Word ELSE Min({Width \div Word, s.size \div Word})

AccessWords ==
  /\ Handles("Words")
  /\ \/ /\ path = "burst" /\ IsEmpty(S)
        /\ stk' = Freed(stk, Cur)
        /\ events' = Scheduled(Tail(events), Return(Cur, "BeatFinish"))
     \/ /\ path = "large" \/ ~IsEmpty(S)
        /\ stk' = [stk EXCEPT ![Cur].count = Words(S)]
        /\ events' = IF Words(S) = 0 THEN Tail(events)
                     ELSE Scheduled(Tail(events), Event("Memory", Cur, MemoryLatency))
  /\ UNCHANGED <<path, access, portuse, memoplist, memory, image, told>>

\* The memory has had its shortest time and may answer.
Memory ==
  /\ Handles("Memory")
  /\ memory' = Put(memory, Cur, S.count)
  /\ events' = Tail(events)
  /\ UNCHANGED <<path, access, stk, portuse, memoplist, image, told>>

Answer(s) ==
  /\ memory' = IF memory[s] > 1 THEN [memory EXCEPT ![s] = @ - 1] ELSE Freed(memory, s)
  /\ events' = Scheduled(events, Event("WordFinish", s, 0))
  /\ UNCHANGED <<path, access, stk, portuse, memoplist, image, told>>

\* mem_read_copy or mem_write_copy of n bytes
Copied(s, n) ==
  LET t == Cur[1] IN
  [image EXCEPT ![t] = [o \in DOMAIN image[t] |->
     IF o \in s.buf..(s.buf + n - 1) THEN s.addr + o - s.buf ELSE image[t][o]]]

\* After the last word.  The large handlers free the stack first and read its interconnect
\* afterwards; here its memory still holds it.
WordFinish ==
  /\ Handles("WordFinish")
  /\ \/ /\ S.count > 1
        /\ stk' = [stk EXCEPT ![Cur].count = @ - 1]
        /\ events' = Tail(events)
        /\ UNCHANGED <<image, portuse, memoplist>>
     \/ /\ S.count = 1 /\ path = "burst"
        /\ stk' = Freed(stk, Cur)
        /\ image' = Copied(S, Min({Width, S.size}))
        /\ events' = Scheduled(Tail(events), Return(Cur, "BeatFinish"))
        /\ UNCHANGED <<portuse, memoplist>>
     \/ /\ S.count = 1 /\ path = "large"
        /\ stk' = Freed(stk, Cur)
        /\ image' = Copied(S, S.size)
        /\ FreePort
        /\ events' = ScheduledAll(Tail(events), <<Return(Cur, "PreFinish")>> \o Woken)
  /\ UNCHANGED <<path, access, memory, told>>

-----------------------------------------------------------------------------
\* The end: EV_FPGA_MEM_LOAD_PRE_FINISH, EV_FPGA_MEM_LARGE_LOAD_FINISH.  The task is told.
PreFinish ==
  /\ Handles("PreFinish")
  /\ events' = Tail(events)
  /\ \/ /\ S.count > 1
        /\ stk' = [stk EXCEPT ![Cur].count = @ - 1]
        /\ UNCHANGED told
     \/ /\ S.count = 1
        /\ stk' = Freed(stk, Cur)
        /\ told' = [told EXCEPT ![Cur[1]] = @ + 1]
  /\ UNCHANGED <<path, access, portuse, memoplist, memory, image>>

Tick ==
  /\ events # <<>> /\ IsQuiet(events)
  /\ events' = Elapsed(events)
  /\ UNCHANGED <<path, access, stk, portuse, memoplist, memory, image, told>>

Step ==
  \/ NextChunk \/ TakePort \/ NextBurst \/ NextBeat \/ BeatFinish \/ ChunkFinish
  \/ AccessWords \/ Memory \/ WordFinish \/ PreFinish
  \/ Tick
  \/ \E s \in DOMAIN memory : Answer(s)

Next == Step \/ \E t \in Tasks, a \in Accesses : Request(t, a)

Spec == Init /\ [][Next]_vars

\* The engine handles events and moves the time.  That the memory answers is assumed.
FairSpec == Spec /\ WF_vars(Step)

-----------------------------------------------------------------------------
\* No event and no place in memoplist is for a stack that is freed: a transfer outlives its
\* chunks and the event that looks for the next one, a burst its beats and its last event.
NoDangling ==
  /\ \A i \in DOMAIN events : events[i].stack \in DOMAIN stk
  /\ ToSet(memoplist) \union DOMAIN memory \subseteq DOMAIN stk
  /\ \A s \in DOMAIN stk : Len(s) > 1 => Front(s) \in DOMAIN stk

\* When a task is told that its transfer has ended, each byte of its buffer has been exchanged
\* with its own byte of the memory, and it is told once.
AllCopied ==
  \A t \in Tasks :
    /\ told[t] <= 1
    /\ told[t] = 1 => \A o \in DOMAIN image[t] : image[t][o] = access[t].addr + o

\* The chunks that hold a port: portuse counts them, and there are never more than ports.
Coming  == {events[i].stack : i \in {i \in DOMAIN events : events[i].ev = "Chunk"}}
Holding == {s \in DOMAIN stk : Len(s) = 2} \ (Coming \union ToSet(memoplist))
PortsHeld == portuse = Cardinality(Holding) /\ portuse <= Port

\* While chunks wait in memoplist each port is taken, or a chunk that will take it is on its
\* way in this cycle: no port idles, though a newcomer may overtake who was woken.
NoIdlePort ==
  memoplist # <<>> =>
    portuse + Cardinality({i \in DOMAIN events : events[i].ev = "Chunk" /\ events[i].left = 0}) >= Port

\* Every transfer ends and its task is told.
Answered == \A t \in Tasks : access[t] # None ~> told[t] = 1

=============================================================================
