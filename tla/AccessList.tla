------------------------------ MODULE AccessList ------------------------------
(***************************************************************************)
(* The accesses in flight in a first-level module: which one waits for     *)
(* which, which one is coalesced, and the ports of the FPGA interconnect.  *)
(* Loads, stores and non-coherent stores of memory and the loads and stores*)
(* of kernel registers share the module's access list: the first and last  *)
(* events of their handlers in nmoesi-protocol.c, with mod_can_coalesce,   *)
(* mod_in_flight_address and mod_in_flight_write of module.c.  Prefetches  *)
(* are left out.                                                           *)
(*                                                                         *)
(* Accesses are numbered in the order in which they enter the list, which  *)
(* is the order of their ids: mod_access and fpga_reg_access execute the   *)
(* first event at once.  A memory access that has nothing older to wait for*)
(* is RUN: it locks and releases ports of the module (port_locked), waits  *)
(* for directory entries and retries, which FindAndLock and Nmoesi model;  *)
(* here port_locked of such an access is left open.                        *)
(***************************************************************************)
EXTENDS Naturals, FiniteSets, SequencesExt

CONSTANTS
  MaxAccess,  \* bound: accesses of a behaviour
  Blocks,
  Port        \* interconnect->port: register accesses served together

ASSUME BoundsAssumption == MaxAccess \in Nat /\ Port \in Nat \ {0} /\ Blocks # {}

Accesses  == 1..MaxAccess
Kinds     == {"load", "store", "nc_store", "reg_load", "reg_store"}
Registers == {"reg_load", "reg_store"}

VARIABLES
  kind, blk,   \* kind and block of an access
  pc,          \* next event of an access, or what it waits for
  waitsFor,    \* the access in whose waiting list it is; 0 for none
  portuse,     \* interconnect->portuse
  memoplist    \* register accesses that wait for a port of the interconnect

vars == <<kind, blk, pc, waitsFor, portuse, memoplist>>

Init ==
  /\ kind = [a \in Accesses |-> "load"]
  /\ blk = [a \in Accesses |-> CHOOSE b \in Blocks : TRUE]
  /\ pc = [a \in Accesses |-> "NEW"]
  /\ waitsFor = [a \in Accesses |-> 0]
  /\ portuse = 0
  /\ memoplist = <<>>

InFlight  == {a \in Accesses : pc[a] \notin {"NEW", "DONE"}}
Before(a) == {b \in InFlight : b < a}

\* The oldest or youngest access of a set, 0 for none.
Oldest(S)   == IF S = {} THEN 0 ELSE Min(S)
Youngest(S) == IF S = {} THEN 0 ELSE Max(S)

-----------------------------------------------------------------------------
(* What an access waits for.  Definitions named Bug... are mistakes the       *)
(* properties must detect.                                                   *)

\* Accesses to the block are not compared by age.
BugInFlightAddress(a) == Oldest({b \in InFlight : blk[b] = blk[a]})

\* mod_in_flight_address: the first of its hash list
InFlightAddress(a) == Oldest({b \in Before(a) : blk[b] = blk[a]})

\* mod_in_flight_write: memory stores only
InFlightWrite(a) == Youngest({b \in Before(a) : kind[b] = "store"})

Older(a) ==
  CASE kind[a] = "store"    -> Youngest(Before(a))
    [] kind[a] = "reg_load" -> InFlightAddress(a)
    [] OTHER                -> IF InFlightWrite(a) # 0 THEN InFlightWrite(a) ELSE InFlightAddress(a)

MasterOf(s) == IF pc[s] = "SLAVE" THEN waitsFor[s] ELSE s

\* Any store to the block will do, not only the last access.
BugCoalesceStore(k, b, S, locked) ==
  LET s == Youngest({x \in S : kind[x] = k /\ blk[x] = b})
  IN  IF s # 0 /\ ~(pc[s] = "RUN" /\ locked) THEN MasterOf(s) ELSE 0

\* A store, of kind k, only coalesces with the last access, if that is of the same kind, to the
\* same block, and its port is not locked at this moment.
CoalesceStore(k, b, S, locked) ==
  LET s == Youngest(S)
  IN  IF s # 0 /\ kind[s] = k /\ blk[s] = b /\ ~(pc[s] = "RUN" /\ locked)
      THEN MasterOf(s) ELSE 0

\* A load coalesces with the youngest load to the block that has only loads after it.
CoalesceLoad(b, S) ==
  LET s == Youngest({x \in S : blk[x] = b /\ \A y \in S : y >= x => kind[y] = "load"})
  IN  IF s # 0 THEN MasterOf(s) ELSE 0

Master(k, b, locked) ==
  CASE k = "load"                 -> CoalesceLoad(b, InFlight)
    [] k \in {"store", "nc_store"} -> CoalesceStore(k, b, InFlight, locked)
    [] OTHER                      -> 0

-----------------------------------------------------------------------------
(* Handlers.                                                                 *)

\* LOAD, STORE, EV_FPGA_REG_LOAD, EV_FPGA_REG_STORE
Issue(a, k, b, locked) ==
  LET m == Master(k, b, locked) IN
  /\ pc[a] = "NEW" /\ \A x \in Accesses : x < a => pc[x] # "NEW"
  /\ kind' = [kind EXCEPT ![a] = k]
  /\ blk' = [blk EXCEPT ![a] = b]
  /\ pc' = [pc EXCEPT ![a] = IF m # 0 THEN "SLAVE" ELSE "LOCK"]
  /\ waitsFor' = [waitsFor EXCEPT ![a] = m]
  /\ UNCHANGED <<portuse, memoplist>>

\* LOAD_LOCK, STORE_LOCK, EV_FPGA_REG_LOAD_START, EV_FPGA_REG_STORE_START
Wait(a) ==
  /\ pc[a] = "LOCK" /\ Older(a) # 0
  /\ pc' = [pc EXCEPT ![a] = "WAIT"]
  /\ waitsFor' = [waitsFor EXCEPT ![a] = Older(a)]
  /\ UNCHANGED <<kind, blk, portuse, memoplist>>

FindAndLock(a) ==
  /\ pc[a] = "LOCK" /\ kind[a] \notin Registers /\ Older(a) = 0
  /\ pc' = [pc EXCEPT ![a] = "RUN"]
  /\ UNCHANGED <<kind, blk, waitsFor, portuse, memoplist>>

PortFree == portuse # Port

Enqueue(a) ==
  /\ pc[a] = "LOCK" /\ kind[a] \in Registers /\ Older(a) = 0
  /\ ~PortFree
  /\ pc' = [pc EXCEPT ![a] = "QUEUED"]
  /\ memoplist' = Append(memoplist, a)
  /\ UNCHANGED <<kind, blk, waitsFor, portuse>>

Transfer(a) ==
  /\ pc[a] = "LOCK" /\ kind[a] \in Registers /\ Older(a) = 0
  /\ PortFree
  /\ pc' = [pc EXCEPT ![a] = "RUN"]
  /\ portuse' = portuse + 1
  /\ UNCHANGED <<kind, blk, waitsFor, memoplist>>

\* mod_stack_wakeup_stack: waiting accesses look again, coalesced ones finish.
Wake(a, x) ==
  IF x = a THEN "DONE"
  ELSE IF waitsFor[x] # a THEN pc[x]
  ELSE IF pc[x] = "SLAVE" THEN "FINISH" ELSE "LOCK"

Released(a) == [x \in Accesses |-> IF waitsFor[x] = a THEN 0 ELSE waitsFor[x]]

\* LOAD_FINISH and STORE_FINISH; coalesced accesses are handled in the order in which
\* they were woken.
Finish(a) ==
  /\ kind[a] \notin Registers
  /\ pc[a] \in {"RUN", "FINISH"}
  /\ \A b \in Before(a) : ~(pc[b] = "FINISH" /\ blk[b] = blk[a])
  /\ pc' = [x \in Accesses |-> Wake(a, x)]
  /\ waitsFor' = Released(a)
  /\ UNCHANGED <<kind, blk, portuse, memoplist>>

\* The port is freed, the list forgotten.
BugFinishRegister(a) ==
  /\ kind[a] \in Registers /\ pc[a] = "RUN"
  /\ pc' = [x \in Accesses |-> Wake(a, x)]
  /\ waitsFor' = Released(a)
  /\ portuse' = portuse - 1
  /\ UNCHANGED <<kind, blk, memoplist>>

\* EV_FPGA_REG_LOAD_FINISH, EV_FPGA_REG_STORE_FINISH: the first of the list starts over,
\* and competes for the port with newer accesses.
FinishRegister(a) ==
  /\ kind[a] \in Registers /\ pc[a] = "RUN"
  /\ pc' = [x \in Accesses |-> IF memoplist # <<>> /\ x = Head(memoplist)
                               THEN "LOCK" ELSE Wake(a, x)]
  /\ memoplist' = IF memoplist # <<>> THEN Tail(memoplist) ELSE memoplist
  /\ waitsFor' = Released(a)
  /\ portuse' = portuse - 1
  /\ UNCHANGED <<kind, blk>>

Step(a) ==
  \/ Wait(a) \/ FindAndLock(a)
  \/ Enqueue(a) \/ Transfer(a) \/ Finish(a) \/ FinishRegister(a)

Next ==
  \/ \E a \in Accesses, k \in Kinds, b \in Blocks, locked \in BOOLEAN : Issue(a, k, b, locked)
  \/ \E a \in Accesses : Step(a)

Spec == Init /\ [][Next]_vars

\* Every scheduled event is handled, and the memory system answers.
FairSpec == Spec /\ \A a \in Accesses : WF_vars(Step(a))

-----------------------------------------------------------------------------
(* Properties.                                                               *)

\* Type invariant.
TypeOK ==
  /\ kind \in [Accesses -> Kinds]
  /\ blk \in [Accesses -> Blocks]
  /\ pc \in [Accesses -> {"NEW", "LOCK", "WAIT", "SLAVE", "RUN", "QUEUED", "FINISH", "DONE"}]
  /\ waitsFor \in [Accesses -> Accesses \union {0}]
  /\ portuse \in Nat
  /\ memoplist \in Seq(Accesses)

\* The interconnect never carries more register accesses than it has ports, portuse counts
\* them, and the list holds each access that waits for a port once.
PortBound ==
  /\ portuse = Cardinality({a \in Accesses : pc[a] = "RUN" /\ kind[a] \in Registers})
  /\ portuse <= Port
  /\ IsInjective(memoplist)
  /\ ToSet(memoplist) = {a \in Accesses : pc[a] = "QUEUED"}

\* Waiting is for an older access that is still in flight, so no circle of accesses waits.
WaitsForOlder ==
  \A a \in Accesses : pc[a] \in {"WAIT", "SLAVE"} =>
    /\ waitsFor[a] \in Before(a)
    /\ pc[a] = "SLAVE" => /\ blk[waitsFor[a]] = blk[a] /\ kind[waitsFor[a]] = kind[a]
                          /\ pc[waitsFor[a]] # "SLAVE"

\* Through waits, ports and coalescing the program order is kept where the code promises
\* it: accesses to one block finish in order, a store finishes after every older access,
\* a load, a non-coherent store and a register store after every older (coherent) store.
ProgramOrder ==
  \A a, b \in Accesses :
    /\ a < b /\ pc[b] = "DONE"
    /\ \/ blk[a] = blk[b]
       \/ kind[b] = "store"
       \/ kind[a] = "store" /\ kind[b] # "reg_load"
    => pc[a] = "DONE"

\* Every access finishes: no wake-up is lost between waiting lists, coalesced accesses and
\* the list of the interconnect.  As a behaviour has MaxAccess accesses at most, this is to say
\* that again and again nothing is in flight.
Completes == []<>(InFlight = {})

=============================================================================
