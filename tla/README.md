# A TLA+ verification of HeteroSim

HeteroSim simulates x86 multicores joined to an FPGA. It is Multi2Sim (`m2s/src`) with an
FPGA emulator and timing model (`arch/fpga`), a reworked memory system (`mem-system`) and
changes in the x86 model that let a program talk to the FPGA. This directory holds TLA+
modules of the parts where events interleave, the TLC runs that check them, and proofs
checked by TLAPS. `PROJECT.json` maps each definition to source lines and lists the runs,
mutants, hazards, findings and theorems. Paths below are relative to `m2s/src`.

Everything in the simulator is an event: a handler runs to its end, then schedules others
(`esim_schedule_event`). So one handler execution is one action, and concurrency is the
order of events. The order of events in one cycle is a detail nothing should depend on, and
the latencies come from configuration files. The models of the protocol, the locks, the access
list and the kernels allow every order. `Network` and `FpgaTransfer` keep the order and the cycles
of the engine, because there properties of the code rest on them.

## Inventory

| Component | State | Operations | What is hard | What makes it correct |
|---|---|---|---|---|
| NMOESI protocol: `mem-system/nmoesi-protocol.c`, `directory.c`, `cache.c` | line state, tag and transient tag; owner and sharers; lock and queue of an entry; stacks in flight | load, store, find-and-lock, evict, read and write request (up-down, down-up), invalidate, peer, message, nc-store, prefetch | requests of several accesses interleave at several levels; retries; state read before a wait and used after it | assertions of the handlers, one writer, inclusion, loads see the last store, no lost wake-up |
| Ports and directory locks: `module.c`, `directory.c` | ports, their waiting list, lock bits and queues | `mod_lock_port`, `mod_unlock_port`, `dir_entry_lock`, `dir_entry_unlock`, FIND_AND_LOCK | a port is handed over while others arrive; a woken stack must lock the entry its followers wait for | counters agree, no idle port while someone waits, exclusion, wake-ups kept, waiting ends |
| Access list: `module.c`, `mod-stack.c` | accesses in flight in a module, write list, hash lists, waiting list of each stack | start, finish, coalesce, wait, wake up | coalescing and waiting must together keep program order | waiting is for older accesses, order per block, everything finishes |
| Register interconnect: `fpga_reg_handler` in `nmoesi-protocol.c` | `portuse`, `memoplist` | register load and store: start, wait, transfer, finish | newcomers and list compete for a port | ports counted, order of register stores |
| FPGA kernels and tasks: `arch/fpga` | kernel state, task lists, finish registers, `ctx->flush`, `cpu_running` | create, execute, load, store, finish, `FPGARun` | several programs share a kernel; flushes; arguments read at three times | one task per kernel, creation order, arguments of one call, finish means stored, progress |
| FPGA memory transfers: `fpga_mod_access` in `module.c`, FPGA load and store handlers in `nmoesi-protocol.c` | stacks of the transfer, its chunks, bursts and beats, with their counters; `portuse`, `memoplist`; the buffer | split a transfer, take a port, burst, beat, word, finish | each stack is freed by its last event while others may refer to it; sizes that are no multiple of a block or beat; ports | told once and with every byte in its place, no freed stack used, ports neither lost nor idle, transfers end |
| Event engine: `lib/esim/esim.c`, `lib/util/heap.c`, the loop in `m2s.c` | event heap, list of end events, time | schedule, process, drain | events of one cycle, time rounded to a domain's cycle, time set back while draining, handlers that go on scheduling at the end | each event runs once, by time and then by arrival, in its cycle; the end leaves nothing |
| Network: `network/` | buffers with wake-up lists, links, buses with lanes, switches; the routing table | send, output, input, receive; routing | stalls of two kinds, arbitration that is decided once in a cycle, buffers that fill up, circles of routes | order, each message once, one continuation, one transfer at a time, delivery |
| DRAM, local memory, prefetcher, MMU | tables and queues | see `PROJECT.json` | little interaction | functional |
| x86 model | the pipeline | register accesses and flushes (`fetch.c`, `issue.c`) | speculation | outside these models but for the program side of `FpgaKernel` |
| ARM, MIPS, GPUs, drivers, `m2c`, LegUp, Verilator | - | - | inherited or vendored | not modelled |

How they interact: the x86 issue stage starts loads and stores (`mod_access`), register
accesses (`fpga_reg_access`) and flushes (`mem_flush`) in a first-level module, where they
share the access list. A memory access takes a port and a directory entry with
FIND_AND_LOCK, then goes through the protocol; every call of the protocol is again a
FIND_AND_LOCK in the module it reaches. The end of a register store to a start register
creates a task; `FPGARun` gives it to its kernel; the task's transfers are accesses in the
FPGA's module; its end raises a register that the program polls.

## Modules

- `ModuleLocking` - abstract: who uses a port, who holds an entry. `FindAndLock` implements it: the
  code's ports, lists, lock bits and queues. `FindAndLockProofs` holds the theorems.
- `Nmoesi` - the protocol over a tree of modules. `MCNmoesi...` give it a tree, `NmoesiProofs` holds theorems.
- `AccessList` - the access list of a first-level module and the register interconnect.
  `AccessListProofs` holds its theorems.
- `FpgaKernel` - programs, kernels and tasks. `FpgaKernelProofs` holds its theorems.
- `FpgaTransfer` - the memory transfers of tasks. `MCFpgaTransfer` gives it the accesses,
  `FpgaTransferProofs` holds its theorems.
- `EventSchedule` - abstract: what the engine promises. `EventEngine` implements it with the heap;
  `EventEngineProofs` holds the theorems. `EventList` is the same promise as operators on a
  sequence of pending events, which `Network` and `FpgaTransfer` use; `EventListProofs` has lemmas on them.
- `NetChannels` - abstract: channels between end nodes. `Network` implements it, over the routes that
  `Routing` computes. `MCNetwork` gives it networks, `NetworkProofs` holds the theorems.

`TypeOK` of a module documents its variables. The runs check that of `FindAndLock`, and the proofs include those of
`FindAndLock`, `Nmoesi`, `AccessList`, `FpgaKernel`, `EventEngine`, `FpgaTransfer` and `Network`.

Definitions whose name begins with `Bug` are plausible mistakes. They are not part of any
specification; `PROJECT.json` names, for every property of a passing run, one which
breaks that property when it replaces the definition it mutates.

### FindAndLock

A stack is one call of FIND_AND_LOCK; `pc` is the event it will be scheduled with or the list
it sleeps in. Actions are the events; `FIND_AND_LOCK_PORT` has one per outcome (busy, wait,
grant). `mod_unlock_port` calls `mod_lock_port` for the head of the list: one step here, too.
FIND_AND_LOCK_FINISH with an eviction error and the caller's later unlock are both `Unlock`.

The lookup is left open: any entry may be found, except that a stack which was assigned a
way before it slept finds that one. That assumption is about tags, so `Nmoesi` checks it:
its `NoLostWakeup` demands that a woken access can only end at the entry it was woken for
(`Victims(f) = {w}`). Which of several free ports is taken makes no difference, so `\E`.

### Nmoesi

A chain of frames is a chain of `mod_stack_t`; `Return` is `mod_stack_return`. `Invalidate`
forks one chain per sharer. Merged into one action, because nothing but the stack itself
sees what is between: events that the code schedules with no delay and no state change
(e.g. WRITE_REQUEST_EXCLUSIVE to WRITE_REQUEST_UPDOWN), the receipt of a message with the
FIND_AND_LOCK it calls, a reply with the event of the caller it leads to. A message in flight
is a frame that has not been stepped yet, so messages are delayed and reordered at will.

Left out, and where it is: ports (`FindAndLock`), coalescing (`AccessList`), peer messages
(they add latency, no state), sub-blocks and several sets (one set, blocks of one size).
The replacement policy is any way. `Kinds` says which accesses the threads make: a non-coherent store
writes its block back first when it is held in another dirty state and tells the lower
module with a message; a prefetch is a load that gives up instead of retrying. `fresh` is a ghost: the simulator's caches carry no
data, and the set says which copies a real memory with these messages would have right.

The code waits a random time before a retry (`mod_get_retry_latency`); nothing is assumed
about it, and no liveness is claimed for the protocol: two accesses may obstruct one another
for ever if the random numbers are unlucky.

`Asserts` collects the `assert` and `fatal` calls of the handlers, and `CodeAssertions` says that none fails. The handlers
themselves are not guarded by them, since the default build compiles assertions away (`configure.ac:101`).
`TreeAssumption` excludes one system, the main memory alone: every thread accesses a cache.

Two properties leave out moments which the protocol cannot avoid. While the reply to an eviction is on its way the evicted line
still has its state although the lower module has let go of it: `SingleWriter` passes over such a line (`Leaving`).
`Inclusion` speaks of lines whose entry nobody holds locked.

### AccessList

Accesses are numbered in list order, which is the order of their ids: the first event of an
access is executed at once by `mod_access` and `fpga_reg_access`. (Accesses that
flushes and FPGA transfers schedule with ids allocated before are not in this model.)
A memory access with nothing older to wait for is RUN until it finishes. Whether it has a
port of the module at the moment another store asks to be coalesced with it (`port_locked`)
is left open: the code sets and clears it several times during an access.
Lock events repeat after a wake-up until there is nothing older; retries, which repeat them
with nothing to wait for, are skipped. Slaves finish in the order they were woken, which
the event engine guarantees for events of no delay (`EventEngine`). The MSHR limit and
prefetches are left out.

### FpgaKernel

A program writes argument registers, may flush, writes the start register (`CreateTask`) and
polls the finish register (`SeeFinish`) before it does anything else. One value stands for
all registers of a call: sizes are read at creation, the source at `FPGAKernelExecute`, the
destination at `FPGATaskStoreData`, and `ArgumentsKept` compares them. `FPGARun`'s loop over the
kernels is split into one action per kernel; kernels do not touch one another's state.
A flush is `ctx->flush` going up and, when its last load has come back, down. Transfers end
once (`AllCopied` of `FpgaTransfer`). `CpuStop` is `X86CpuRun` finding no context left; the
limit on cycles is not modelled. The register stores of one program are taken in order,
which the interconnect does not promise (see the observations). Where a kernel's registers lie in one 64-byte block, as
in the repository's sample configurations, `mod_in_flight_address` does order them.
The loops of `WriteArgs` and `CreateTask` are what the repository's sample does with a kernel
(`m2s/samples/memory/example-1`: its registers, finish included, lie within the bounds
`FPGATaskFinish` tests).

### EventEngine

One iteration of `m2s_loop` is `ProcessEvents`, one `Handle` per event, and `EndIteration`, which moves
the time by one cycle or finds that `esim_finish` was set; `esim_process_all_events` is `Drain`, `EndEvent`,
`LastDrain`. While a handler runs (`running`), and while the architectures run (phase `run`), events
are scheduled. The heap is the array of `heap.c`; `heap_insert` and `heap_extract` are recursive functions on
it. `at` and `after` are what an event was scheduled with, for the properties. The mapping to `EventSchedule`
forgets the places in the array (`ToSet(heap)`), so the refinement says that `elem[0]` is always the event which
`esim.h:135` promises.

### Network

A message is in a buffer, and one event, pending or in a wake-up list, goes on with it. `Retry`,
`NotHead`, `OverLink`, `OverBus`, `Arrive`, `ThroughSwitch`, `Receive` and `Return` are the branches of
`net_try_send_ev` and `net_event_handler`; the early returns of a handler are disjuncts that say where the
event goes: `RetryAfter` some cycles, or `WaitOn` a buffer. The busy fields of the code are absolute times; here they are the cycles left, so that
the states are finite. A `fatal` of a handler ends the program: the model has no step there. `chan` has what links, lanes and nodes keep; the arbiters (`LinkPick`, `LanePick`,
`SwitchPick`) are round robin from the last one served and decide once in a cycle.
`Routing` has the routing table: Floyd-Warshall in the loops' order or the entries of a `Routes` section, and
the search for cycles by colours of buffers, a recursive function whose argument is a buffer with the colours so far.
`WellFormed` is what the network's configuration is tested for when it is read. `InitRouting` takes both outcomes of `strcmp`.

### FpgaTransfer

A stack's name is its path from the task's transfer, so `Front` is the stack it returns to. Counters and the
places in the buffer are the code's. `image` records for each byte of the buffer the memory address it
was exchanged with. `TransferAssumption` lists what the configuration must satisfy and nothing
checks: see the observations. The cache protocol is external: it answers any access, in any order.

## Runs

| Run | Instance | Shows |
|---|---|---|
| `FindAndLock` | 3 accesses, 2 ports, 2 entries, fairness | all safety properties, the refinement, `PortGranted`, `WaiterWoken` |
| `NmoesiSharedL2` | 2 caches, one with two ways, over a shared second level of one way, 2 blocks, loads and stores, symmetry of the blocks | assertions, one writer, inclusion, `LoadsLatest`, `UniqueWay`, `NoLostWakeup` |
| `NmoesiPrivateL2` | 2 caches, a private second level each, 1 block, all four kinds of access | assertions of the handlers across two levels, with write-backs and messages of non-coherent stores |
| `NmoesiStaleState` | as `NmoesiPrivateL2` | violation of `DirtySendsData` |
| `NmoesiCleanEviction` | as `NmoesiSharedL2`, without peer transfers | violation of `AckSuffices` |
| `NmoesiNcStore` | as `NmoesiPrivateL2` | violation of `NeverWaitsForItself` |
| `AccessList` | 4 accesses of five kinds, 2 blocks, 1 interconnect port, fairness | order, no circular wait, completion |
| `FpgaKernel` | 2 programs, 2 kernels, 3 tasks, 1 flush each, fairness | all its properties |
| `FpgaKernelFlush` | 1 program, 1 kernel, every flush ends | violation of `RunningHasTask` |
| `EventEngine` | 5 events of two domains, 1 end event, fairness | `OnTime`, `NothingLeft`, `ImplementsSchedule`, `Terminates` |
| `Network` | 3 messages, 2 sizes, 4 networks, fairness; the routing table of every graph of three switches | order and delivery, wake-ups, the code's assertions, routes and cycles |
| `FpgaTransfer` | 2 tasks, 2 ports, bursts or not, fairness | bytes, ports, freed stacks, end |

Bounds. Three accesses are the fewest of which one can hold an entry, one be woken for it
and one still sleep behind; two entries let a wake-up go wrong; with two ports and three
accesses one waits for a port. The proofs remove these bounds. The protocol instances have ways
so few that accesses to two blocks evict one another at each level, or, with one block, write it back
(`NmoesiPrivateL2`), which reaches every handler;
a thread may start any number of accesses one after the other, since the state has no
counter. `AccessList` bounds accesses by `MaxAccess`: four are a holder, two that wait or
coalesce and a newcomer. `FpgaKernel` bounds tasks by `MaxTasks` (two tasks of a program and one of
another queue at one kernel) and flushes by `MaxFlush`. `EventEngine` has cycle times 2 and 3, of which
neither divides the other, delays of 0 or 1 cycle, five events (a heap of three levels), a
limit of 3 events per drain (`MaxFinal`) and a main loop that ends by time 4 or stalls. `Network` has buffers of the
size of the larger message, so that two messages never fit if one is large: two sources that
meet at a switch, virtual channels with routes of their own, a bus with two sources and two
destinations, and a bus with two lanes before a switch; three messages are one that moves, one
that waits for it and one behind. `FpgaTransfer` has blocks of 8 bytes, beats of 4 and bursts of 2
beats, a load of 12 bytes (two chunks, the last one short) and a store of 8 bytes at address 4 (two
chunks, both short), so with 2 ports of two transfers chunks wait, and both paths. `CHECK_DEADLOCK` is off
only where such a bound ends the behaviour, and in `NmoesiPrivateL2`, where the system really
stops (finding 3).

Fairness. `FairSpec` of `FindAndLock` and of `AccessList`: each scheduled event is handled
(the event engine never drops one), and who holds an entry or a memory access is answered.
It does not say that a waiter ever wins the entry: others may take it first for
ever, and `WaiterWoken` only claims the wake-up. `FpgaKernel`: `FPGARun` runs every cycle, events
are handled; `FairFlushSpec` adds that flushes end. Nothing is assumed of a program, which
may stop after any step. `TasksFinish` holds of the behaviours in which no flush ever
catches an idle kernel with a task; the others are the finding. `EventEngine`: the engine is the main thread
and takes its next step; handlers schedule what they like up to the bounds. `Network`: the engine takes the
next event or moves the time; what memory sends is not assumed. The formula is weak
fairness written out, since a step is possible exactly while an event is pending. `FpgaTransfer`: the same, and that
the memory answers each access in the end, which is an assumption on the cache protocol.
`Delivered` holds of networks for which no cycle of routes was reported.

## Findings

1. `NmoesiStaleState`. WRITE_REQUEST_DOWNUP answers by the state found when the entry was
   locked. When a module above had the block in M, INVALIDATE has since made this block M, and the answer
   is an ack without data. As the simulator's caches carry no data the effect is on message sizes and
   traffic; a protocol built like this would lose a store.
2. `NmoesiCleanEviction`. Without peer transfers, the second level gets the owner's dirty data on
   a read request and stays in E, so a later eviction sends no data to memory.

   `LoadsLatest` passes in `NmoesiSharedL2` because that instance keeps away from both: peer
   transfers are on, and the second level holds no more blocks than the directory of main
   memory, so it always evicts a block before memory could invalidate it. With `PeerTransfers`
   off, or with a second way in the second level, TLC finds `LoadsLatest` violated, too, as a
   consequence of the findings. What the run shows is that nothing else loses a store.
3. `NmoesiNcStore`. A non-coherent store that finds its block in a dirty state locks the entry and
   evicts. When the eviction fails the handler schedules its lock event again and keeps the entry locked; the
   second FIND_AND_LOCK of the same access then sleeps in the queue of the entry it holds itself.
4. `FpgaKernelFlush`. The kernel is set to running, then the flush is tested. The kernel
   never becomes idle again.

Observations made while modelling, which no run states:

- `mod_lock_port`'s branch that puts down-up requests first (`module.c:548`) is dead: no caller has a
  down-up stack there.
- Register stores do not wait for older register stores (`module.c:732` looks for memory stores): an access taken from
  `memoplist` starts over, may find its port taken by a newer one, and goes to the end of the list.
  A start register can be written before an argument register.
- A load may be coalesced with a prefetch (`module.c:840`), which finishes at once if its block is in flight
  already (`nmoesi-protocol.c:944`) and gives up if it cannot lock; the load finishes with it, even before
  an older store to the block.
- `fpga_mod_access` never ends a transfer of size 0 or one whose last piece is shorter than a word (`nmoesi-protocol.c:3398`),
  and the next chunk of a transfer, `Inter` cycles later, finds the transfer freed if all earlier
  chunks are over by then (`nmoesi-protocol.c:3422`). The handlers without bursts read a stack after they freed it
  (`nmoesi-protocol.c:4239`); the model reads what was there.
- `mod_mem_access` has no caller; the handler of its stores tests `EV_MOD_NMOESI_STORE` (`nmoesi-protocol.c:4635`).
- The search for cycles of routes follows output buffers; circles through the input buffers of buses are
  missed (`routing-table.c:47`). A `Routes` section is used only if `strcmp` returns exactly 1
  (`network.c:101`).

## Proofs

For any sets of stacks and entries and any number of ports (`NumPortsAssumption`,
`NoneAssumption`; no assumption of finiteness on `Stacks`):

- `Invariance`: `IInv == TypeOK /\ PortInv /\ DirInv` is inductive. `PortInv` joins
  `PortAccounting` and `NoIdlePort`, because each `mod_unlock_port` needs both: the counter
  must be right for a called stack to find a port, and the list must have exactly the stacks
  that wait. `DirInv` joins `EntryExclusion`, `SleepersQueued`, `NoLostWakeup` and
  `Assigned` (who sleeps or holds has been assigned a way), without which the entry a stack
  unlocks or looks up again is unknown. There is one lemma per action, on top of lemmas on
  queues, on cardinality of the taken ports and on `UnlockPort`.
- `TypeCorrect`, `PortsCorrect`, `PortsBusy`, `MutualExclusion`, `NoLostSleeper`,
  `WakeupKept`: the invariants of the run, as consequences.
- `Refinement`: `Spec => ImplementsLocking`. The mapping takes the stacks with a port to
  `using` and the unique holder of an entry to `holder`; every step is an abstract step
  or a stutter, given `IInv`.

For any sets of kernels and programs and any number of tasks (`FpgaKernelProofs`, from
`NoneAssumption` and `BoundsAssumption`):

- `TypeInvariant`: needs `Numbered` (which tasks exist) and `Placed` (a task in a list is in
  the state of that list, and the ready list is increasing, so that taking its head takes the
  task out of it); without them the registers a task reads could be those of no program.
- `OneTaskAtATime`, `InCreationOrder`: `KernelInv` adds `Ordered`, which says of the two lists and
  the active task what `CreationOrder` says of their concatenation.
- `ArgumentsOfOneCall`, `FinishIsStored`: `ProgramInv` adds `Called` and `OneCall`: the unfinished
  task of a program is one, it is the one the program polls, its finish register is still
  lowered, and the argument registers still hold what it was created with.

For any tree of modules, any numbers of ways, blocks and threads (`NmoesiProofs`, from `TreeAssumption`), as long as the
handlers' assertions hold: the theorems have the form `Spec /\ []CodeAssertions => []P`. The runs check `CodeAssertions` on
both trees; the proof cites an assertion only in the handler that makes it.

- `Invariant`: `Inv` is inductive. Its parts: `Typed`; `Chains`, which says of each chain that its frames call one another as the
  code does (`Shape`), that each frame which holds an entry has it locked, with its block as transient tag, and no two
  frames hold the same one (`Hold`), and that what a frame knows of a line is true of it (`Facts`); `Forks` (a forked chain is a
  request for the block of the invalidation that waits for it); `Queues` (who is in the queue of an entry sleeps
  there, once); `Lockers` (an entry is locked by a chain, by a forked one with a frame that holds it); `Lines`; `OneMatch` (at
  most one way of a module matches a block, by its tag or by the transient tag of a locked entry).
  A chain that goes on may change a line only while it holds it, or evicts or invalidates it for a frame that does, so what
  other chains know stays true; this needs `Hold`, and `Hold` needs `Shape` to tell which frames hold. The transient tag of
  a locked entry is what makes a second miss for the block find the way that the first one has chosen: without
  `OneMatch` in the invariant `UniqueWay` is not inductive. There is one lemma per handler.
- `TypeCorrect` and `WaysUnique` (`UniqueWay`) are consequences.

For the engine with its binary heap, any set of frequency domains and heaps of any size (`EventEngineProofs`, from
`Domains`: cycle times are positive and the main loop's is the least of them; and from `HandlerAssumption`: the handler of an end
event and the absence of one are no events):

- Sifting is recursive on the places of the array. The prover cannot do induction over data, so what it computes is
  argued by the least counterexample, and the least number of a set of naturals exists because `<` is well-founded:
  `RecursionDefined` shows that a function defined by descent to a smaller place exists, which makes the
  equations of `Inserted` and `Extracted` usable. `Risen` and `Sunk` say what the array
  looks like when the sift has reached a place: it is a heap but for that place.
  `InsertKeepsHeap` and `ExtractKeepsHeap`: a heap in the order of time and arrival stays
  one, with the event added or the root taken, and nothing else lost or doubled.
- `EngineInvariance`: `EngineInv == TypeOK /\ IsHeap(heap) /\ Arrived /\ Emptied`. `Arrived`: sequence numbers are below
  the counter, so no two events compare equal. `Emptied`: what the phases of draining have left behind them.
  `EngineTypeCorrect` and `EndsEmpty` (`NothingLeft`) follow.
- `Refinement`: `Spec => ImplementsSchedule`. The root of a heap is the least of its elements (`RootIsLeast`), which is
  the event that the abstract schedule takes.
- `NothingOverdue`, `EngineOnTime`: the schedule's own invariant, carried over by the refinement, is
  `ScheduleInv == Typed /\ Ahead /\ NotLate /\ Punctual` (`ScheduleInvariance`). `Rounding` is the lemma on integer division it rests on: rounding down
  loses less than one cycle of the domain. `Ahead` (an event for a later cycle lies after the time it was scheduled at)
  and `NotLate` (`NeverLate`) are what `Punctual` (`OnTime`) needs when the event is taken.

For any number of tasks and ports, any accesses, and any sizes and latencies within `TransferAssumption`
(`FpgaTransferProofs`, on the lemmas of `EventListProofs` about counting events and about how a list changes):

- `TransferInvariance`: `TransferInv` is inductive. Its parts: `Typed`; `Queued` (events are ordered by time and each is of a
  kind its stack may have); `Counted` (the counter of a stack is no less than the
  stacks below it and the events that will decrement it; a chunk has one event or place at a time; a beat's or block's
  words are pending, at the memory or answered, one at a time);
  `Held` (while a transfer looks for its next chunk, one chunk below it is far enough from its end:
  `Slack` is the time an event of each kind has at least to go, and this is where `Inter` must be
  small); `Continues` (likewise a burst while its next beat is pending); `Bytes` (names are not used twice; each byte of a
  transfer that is not exchanged is owed by a stack whose fields cover it). `Held`
  and `Continues` are what keeps a counter from reaching zero too early; without them `Counted` is not enough for a stack
  to outlive its events. There is one lemma per action.
- `NothingDangles` (`NoDangling`) and `EverythingCopied` (`AllCopied`) are consequences.
- `PortInvariance` adds `PortInv`: `portuse` is the number of chunks that neither come nor wait, and if some wait,
  `portuse` and the chunks due in this cycle together are no fewer than the ports. `Neutral` says that most steps leave the
  events of chunks alone. `PortsAreHeld`, `NoPortIdles` and `TransferTypeCorrect` are consequences.

For any number of accesses, blocks and interconnect ports (`AccessListProofs`, from
`BoundsAssumption`):

- `ListInvariance`: `ListInv == TypeOK /\ PortBound /\ EnteredInOrder /\ Listed /\ WaitsForOlder` is
  inductive. Accesses enter the list in their order, so what is found in flight is older; the waiting list an access
  is in says whether it waits; register accesses alone use ports and are never coalesced. The oldest and youngest of a
  set exist because `<` is well-founded on the naturals. `TypeCorrect`, `PortsCounted`, `NoCircle` are its parts.
- `OrderKept`: `ProgramOrder` follows from `RunsClear`; `OrderInv` adds `SlavesClear` (between an access and its master
  there are only conflicting accesses that have finished or have the same master, which is what
  `mod_can_coalesce` must look for) and `WokenClear` (coalesced accesses that were woken finish in order).

For any network the configuration can describe, with any nodes, links, buses, virtual channels, sizes and routes, and
any number of messages (`NetworkProofs`, from `RoutingAssumption` and `NetworkAssumption`):

- `Invariant`: `NetInv /\ TransferInv` is inductive. Its parts: `Base` (the types, and of the routing table either the
  invariant of Floyd-Warshall - after the rounds for a set of intermediate nodes no distance is longer than
  by way of them, and an entry's output buffer reaches its next hop - or that listed routes use buffers of
  their own node); `Filled` (the count of a buffer is the sum of the sizes in it and no more than its size); `Once` (a
  message on its way has one event, in the list of pending events or in one wake-up list; others have none); `AllSound`
  (an event agrees with where its message is, and one in a wake-up list has a reason to be there); `TransferInv`
  (each message that moves has the link, or the lane of a bus, that it was given, and that is busy as long as it moves,
  so no two messages share one). The sum of a list of sizes and
  the routes themselves are recursive: they are functions which an invariant says exist, in place of induction over data.
- `Continuation`, `Wakeups`, `Assertions`, `Transfers`, `Routes`, `TypeCorrect`: the invariants `OneContinuation`,
  `NoLostWakeup`, `CodeAssertions`, `OneTransfer`, `ShortestRoutes` and `TypeOK`.
- `InOrder`: `Spec => ImplementsChannels`. For one destination the table gives each buffer one next buffer, so two messages
  from one node to another take the same way; `OrderInv` says that the one sent later is in no buffer that the
  earlier one has still to reach, and behind it in a buffer both are in. Buffers are first in, first out, so they cannot pass
  one another. It needs no absence of cycles and no particular arbitration.

Only model-checked: liveness (`PortGranted`, `WaiterWoken`, `Completes`, `TasksFinish`, `Terminates`,
`Delivered`, `Answered`), which is beyond the prover; `Routing.CyclesFound`, whose search is a recursive function
on all colourings of the buffers, which would need induction over data; `CodeAssertions`, `SingleWriter`, `Inclusion`, `LoadsLatest`
and `NoLostWakeup` of `Nmoesi`, which relate directories and lines of two levels while requests are between them, and need a
strengthening over pairs of chains.

## Plan

Order: what the system depends on most comes first.

1. Done: `FindAndLock` with its abstraction and proofs; `Nmoesi` with all kinds of access; `AccessList`; `FpgaKernel`
   with its proofs; the first theorems on `Nmoesi`; `EventSchedule` and `EventEngine` with their proofs; `NetChannels`, `Routing` and `Network` with their
   proofs; `FpgaTransfer` with its proofs.
2. `Heterosim`: `AccessList`'s register stores composed with `FpgaKernel`'s `CreateTask`, to see what
   the order of register stores does to the arguments of a task.
3. Prefetches in `AccessList`, with what a load coalesced with one may be promised; the split of a flush (EV_MOD_FLUSH) in `FpgaTransfer`'s manner;
   several sets in `Nmoesi`.
4. Proofs: `Inclusion` of `Nmoesi` and the assertions that the theorems on it assume.

## Not modelled

The repository vendors far more code than HeteroSim's own: LegUp with LLVM, Verilator with generated C++,
run-time libraries and headers, four GPU models, and the ARM and MIPS models that Multi2Sim brings along. The models are
about the memory system, the FPGA, the network and the engine, the part in which events of several actors interleave,
so they cover a small share of all lines.

- Parsing of configuration files and reports: start-up and output, no behaviour in between.
- DRAM: the memory system does not call it. Local memory protocol: used by the GPU models only.
- Prefetcher: a heuristic about which prefetches to issue; `Nmoesi` has prefetches at any time.
- MMU, memory image, speculative memory: sequential tables.
- x86 pipeline: far beyond a protocol model; its register accesses and flushes are in `FpgaKernel`.
- GPUs, other CPUs, drivers, `m2c`, LegUp, Verilator: not used with the FPGA, or vendored.
- `net_send_ev` of the stand-alone network simulator, `esim_dump`, `esim_empty`, `mod_mem_access`, waiting lists without callers.
