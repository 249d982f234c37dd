------------------------------ MODULE FindAndLock ------------------------------
(***************************************************************************)
(* Ports and directory entries of one memory module: FIND_AND_LOCK of      *)
(* nmoesi-protocol.c with mod_lock_port and mod_unlock_port of module.c    *)
(* and dir_entry_lock and dir_entry_unlock of directory.c.                 *)
(*                                                                         *)
(* A stack is one call of FIND_AND_LOCK, its pc the event it will be       *)
(* scheduled with next, or the list it sleeps in.  What the lookup finds   *)
(* is left open (Nmoesi.tla has the tags): any entry, except that a stack  *)
(* which has waited for an entry finds that one again.                     *)
(***************************************************************************)
EXTENDS Naturals, Sequences, FiniteSets, Functions

CONSTANTS
  Stacks,    \* calls of FIND_AND_LOCK that may be in flight together
  Entries,   \* directory entries (set, way) of the module
  NumPorts,  \* mod->num_ports
  None

Ports == 1..NumPorts
Kinds == {"access", "updown", "downup"}

ASSUME NumPortsAssumption == NumPorts \in Nat \ {0}
ASSUME NoneAssumption == None \notin Stacks /\ None \notin Entries /\ None \notin Ports

VARIABLES
  pc,           \* pc[s]: next event of s, or the list it waits in
  kind,         \* kind[s]: who calls: a load or store, an up-down or a down-up request
  way,          \* way[s]: stack->way, None when not assigned
  port,         \* port[s]: stack->port
  ports,        \* ports[p]: mod->ports[p].stack
  numLocked,    \* mod->num_locked_ports
  portWaiting,  \* mod->port_waiting_list
  dirLock,      \* dirLock[e]: dir_lock->lock
  lockQueue     \* lockQueue[e]: dir_lock->lock_queue

portVars == <<port, ports, numLocked, portWaiting>>
dirVars  == <<dirLock, lockQueue>>
vars     == <<pc, kind, way, portVars, dirVars>>

\* A load or store and a down-up request wait for a locked entry, an up-down
\* request (and the one an eviction makes) gives up.
Blocking(s) == kind[s] # "updown"

\* mod_stack_create clears request_dir, and no creator of a FIND_AND_LOCK stack sets it.
RequestDir(s) == "invalid"

Init ==
  /\ pc = [s \in Stacks |-> "IDLE"]
  /\ kind = [s \in Stacks |-> "access"]
  /\ way = [s \in Stacks |-> None]
  /\ port = [s \in Stacks |-> None]
  /\ ports = [p \in Ports |-> None]
  /\ numLocked = 0
  /\ portWaiting = <<>>
  /\ dirLock = [e \in Entries |-> FALSE]
  /\ lockQueue = [e \in Entries |-> <<>>]

-----------------------------------------------------------------------------
(* mod_unlock_port: the freed port goes to the first stack of the waiting    *)
(* list.  Which of several free ports a stack takes makes no difference.     *)
(* Definitions named Bug... are mistakes the properties must detect.         *)

\* The scan for a free port runs one past the array, or takes a port unseen.
BugFreePastEnd(pp) == {p \in 1 .. NumPorts + 1 : p > NumPorts \/ pp[p] = None}
BugFreeUnseen(pp)  == Ports

Free(pp) == {p \in Ports : pp[p] = None}

\* The port is freed, the waiting list forgotten.
BugUnlockPortForgets(s, next) ==
  /\ ports' = [ports EXCEPT ![port[s]] = None]
  /\ port' = [port EXCEPT ![s] = None]
  /\ numLocked' = numLocked - 1
  /\ pc' = [pc EXCEPT ![s] = next]
  /\ UNCHANGED portWaiting

UnlockPort(s, next) ==
  LET freed == [ports EXCEPT ![port[s]] = None]
      h     == Head(portWaiting)
  IN
  \/ /\ portWaiting = <<>>
     /\ ports' = freed
     /\ port' = [port EXCEPT ![s] = None]
     /\ numLocked' = numLocked - 1
     /\ pc' = [pc EXCEPT ![s] = next]
     /\ UNCHANGED portWaiting
  \/ /\ portWaiting # <<>>
     /\ \E p \in Free(freed) :
          /\ ports' = [freed EXCEPT ![p] = h]
          /\ port' = [port EXCEPT ![s] = None, ![h] = p]
     /\ pc' = [pc EXCEPT ![s] = next, ![h] = "FIND_AND_LOCK_PORT"]
     /\ portWaiting' = Tail(portWaiting)
     /\ UNCHANGED numLocked

-----------------------------------------------------------------------------
(* A handler creates the stack and schedules FIND_AND_LOCK.                  *)
Call(s, k) ==
  /\ pc[s] = "IDLE"
  /\ pc' = [pc EXCEPT ![s] = "FIND_AND_LOCK"]
  /\ kind' = [kind EXCEPT ![s] = k]
  /\ way' = [way EXCEPT ![s] = None]
  /\ UNCHANGED <<portVars, dirVars>>

\* mod_lock_port
FindAndLock(s) ==
  /\ pc[s] = "FIND_AND_LOCK"
  /\ \/ /\ numLocked >= NumPorts
        /\ portWaiting' = IF RequestDir(s) = "down_up" THEN <<s>> \o portWaiting
                          ELSE Append(portWaiting, s)
        /\ pc' = [pc EXCEPT ![s] = "PORT_WAITING"]
        /\ UNCHANGED <<port, ports, numLocked>>
     \/ /\ numLocked < NumPorts
        /\ \E p \in Free(ports) :
             /\ ports' = [ports EXCEPT ![p] = s]
             /\ port' = [port EXCEPT ![s] = p]
        /\ numLocked' = numLocked + 1
        /\ pc' = [pc EXCEPT ![s] = "FIND_AND_LOCK_PORT"]
        /\ UNCHANGED portWaiting
  /\ UNCHANGED <<kind, way, dirVars>>

\* The way assigned before the wait is ignored.
BugFoundAnew(s) == Entries

\* The entries the lookup of s may end at.
Found(s) == IF way[s] = None THEN Entries ELSE {way[s]}

\* Locked, and s does not block: return an error.
FindAndLockPortBusy(s) ==
  /\ pc[s] = "FIND_AND_LOCK_PORT" /\ ~Blocking(s)
  /\ \E e \in Found(s) : dirLock[e]
  /\ UnlockPort(s, "IDLE")
  /\ UNCHANGED <<kind, way, dirVars>>

\* Locked, and s blocks: sleep in the queue of the entry, without the port.
FindAndLockPortWait(s) ==
  /\ pc[s] = "FIND_AND_LOCK_PORT" /\ Blocking(s)
  /\ \E e \in Found(s) :
       /\ dirLock[e]
       /\ lockQueue' = [lockQueue EXCEPT ![e] = Append(@, s)]
       /\ way' = [way EXCEPT ![s] = e]
  /\ UnlockPort(s, "DIR_WAITING")
  /\ UNCHANGED <<kind, dirLock>>

\* The lock bit is not tested.
BugGrantAlways(s) ==
  /\ pc[s] = "FIND_AND_LOCK_PORT"
  /\ \E e \in Found(s) :
       /\ dirLock' = [dirLock EXCEPT ![e] = TRUE]
       /\ way' = [way EXCEPT ![s] = e]
  /\ pc' = [pc EXCEPT ![s] = "FIND_AND_LOCK_ACTION"]
  /\ UNCHANGED <<kind, portVars, lockQueue>>

FindAndLockPortGrant(s) ==
  /\ pc[s] = "FIND_AND_LOCK_PORT"
  /\ \E e \in Found(s) :
       /\ ~dirLock[e]
       /\ dirLock' = [dirLock EXCEPT ![e] = TRUE]
       /\ way' = [way EXCEPT ![s] = e]
  /\ pc' = [pc EXCEPT ![s] = "FIND_AND_LOCK_ACTION"]
  /\ UNCHANGED <<kind, portVars, lockQueue>>

\* The port is free again; the entry stays locked for an eviction and the caller.
FindAndLockAction(s) ==
  /\ pc[s] = "FIND_AND_LOCK_ACTION"
  /\ UnlockPort(s, "LOCKED")
  /\ UNCHANGED <<kind, way, dirVars>>

\* The waiters are not woken.
BugUnlockSilent(s) ==
  /\ pc[s] = "LOCKED"
  /\ dirLock' = [dirLock EXCEPT ![way[s]] = FALSE]
  /\ pc' = [pc EXCEPT ![s] = "IDLE"]
  /\ UNCHANGED <<kind, way, portVars, lockQueue>>

\* dir_entry_unlock, by FIND_AND_LOCK_FINISH when the eviction failed or by the
\* caller when it is done: the first waiter will start over, and the entry is free.
Unlock(s) ==
  LET e == way[s]
      q == lockQueue[e]
  IN
  /\ pc[s] = "LOCKED"
  /\ dirLock' = [dirLock EXCEPT ![e] = FALSE]
  /\ \/ /\ q = <<>>
        /\ pc' = [pc EXCEPT ![s] = "IDLE"]
        /\ UNCHANGED lockQueue
     \/ /\ q # <<>>
        /\ pc' = [pc EXCEPT ![s] = "IDLE", ![Head(q)] = "FIND_AND_LOCK"]
        /\ lockQueue' = [lockQueue EXCEPT ![e] = Tail(q)]
  /\ UNCHANGED <<kind, way, portVars>>

Step(s) ==
  \/ FindAndLock(s) \/ FindAndLockPortBusy(s) \/ FindAndLockPortWait(s)
  \/ FindAndLockPortGrant(s) \/ FindAndLockAction(s) \/ Unlock(s)

Next ==
  \/ \E s \in Stacks, k \in Kinds : Call(s, k)
  \/ \E s \in Stacks : Step(s)

Spec == Init /\ [][Next]_vars

\* Every scheduled event is handled, and a handler that holds an entry releases it.
FairSpec == Spec /\ \A s \in Stacks : WF_vars(Step(s))

-----------------------------------------------------------------------------
(* Properties.                                                               *)

Events  == {"IDLE", "FIND_AND_LOCK", "PORT_WAITING", "FIND_AND_LOCK_PORT", "DIR_WAITING",
            "FIND_AND_LOCK_ACTION", "LOCKED"}
Ported  == {s \in Stacks : pc[s] \in {"FIND_AND_LOCK_PORT", "FIND_AND_LOCK_ACTION"}}
Holds(s, e) == pc[s] \in {"FIND_AND_LOCK_ACTION", "LOCKED"} /\ way[s] = e

\* Type invariant.
TypeOK ==
  /\ pc \in [Stacks -> Events]
  /\ kind \in [Stacks -> Kinds]
  /\ way \in [Stacks -> Entries \union {None}]
  /\ port \in [Stacks -> Ports \union {None}]
  /\ ports \in [Ports -> Stacks \union {None}]
  /\ numLocked \in Nat
  /\ portWaiting \in Seq(Stacks)
  /\ dirLock \in [Entries -> BOOLEAN]
  /\ lockQueue \in [Entries -> Seq(Stacks)]

\* The assertions of mod_lock_port and mod_unlock_port: the counter counts the taken
\* ports, a stack knows its port exactly when the port knows the stack, and those are the
\* stacks between FIND_AND_LOCK_PORT and FIND_AND_LOCK_ACTION.
PortAccounting ==
  /\ numLocked = Cardinality({p \in Ports : ports[p] # None})
  /\ \A s \in Stacks, p \in Ports : port[s] = p <=> ports[p] = s
  /\ \A s \in Stacks : port[s] # None <=> s \in Ported

\* Nobody waits for a port while one is free, and nobody waits twice.
NoIdlePort ==
  /\ portWaiting # <<>> => numLocked = NumPorts
  /\ IsInjective(portWaiting)
  /\ Range(portWaiting) = {s \in Stacks : pc[s] = "PORT_WAITING"}

\* A directory entry is locked exactly while one stack holds it.
EntryExclusion ==
  /\ \A s, t \in Stacks, e \in Entries : Holds(s, e) /\ Holds(t, e) => s = t
  /\ \A e \in Entries : dirLock[e] <=> \E s \in Stacks : Holds(s, e)

\* Nobody sleeps on a free entry unless a stack that waited for it is on its way to lock
\* it: the wake-up that dir_entry_unlock gives to one waiter is never lost for the others.
NoLostWakeup ==
  \A e \in Entries : lockQueue[e] # <<>> /\ ~dirLock[e] =>
    \E s \in Stacks : way[s] = e /\ pc[s] \in {"FIND_AND_LOCK", "PORT_WAITING", "FIND_AND_LOCK_PORT"}

\* Each sleeping stack is in one queue, once: the queue of the entry it will look up.
SleepersQueued ==
  /\ \A e \in Entries : IsInjective(lockQueue[e])
  /\ \A e \in Entries : Range(lockQueue[e]) = {s \in Stacks : pc[s] = "DIR_WAITING" /\ way[s] = e}

\* The abstract module: who uses a port and who holds an entry.
Holder == [e \in Entries |-> IF \E s \in Stacks : Holds(s, e)
                             THEN CHOOSE s \in Stacks : Holds(s, e) ELSE None]
Abstract == INSTANCE ModuleLocking WITH using <- Ported, holder <- Holder

\* FIND_AND_LOCK with its lists, queues and retries behaves as the abstract module: an
\* entry passes from one access to another only by way of an unlock, and is only ever
\* taken through a port.
ImplementsLocking == Abstract!Spec

\* A stack that waits for a port gets one: no stack keeps a port while it sleeps.
PortGranted == \A s \in Stacks : pc[s] = "PORT_WAITING" ~> pc[s] = "FIND_AND_LOCK_PORT"

\* A stack that sleeps on an entry is woken, though others may lock the entry before it does.
WaiterWoken == \A s \in Stacks : pc[s] = "DIR_WAITING" ~> pc[s] = "FIND_AND_LOCK"
=============================================================================
