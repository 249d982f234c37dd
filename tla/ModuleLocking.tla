---------------------------- MODULE ModuleLocking ----------------------------
(***************************************************************************)
(* What a memory module promises to its accesses: an access looks its      *)
(* block up while it uses one of the ports, takes a directory entry only   *)
(* then and only when nobody holds it, and gives the entry back after it   *)
(* has left the port.  FindAndLock.tla implements it with port lists,      *)
(* queues and retries.                                                     *)
(***************************************************************************)
EXTENDS Naturals, FiniteSets

CONSTANTS Stacks, Entries, NumPorts, None

VARIABLES
  using,   \* the stacks that use a port
  holder   \* holder[e]: the stack that holds entry e, or None

Init == using = {} /\ holder = [e \in Entries |-> None]

Enter(s) ==
  /\ s \notin using /\ Cardinality(using) < NumPorts
  /\ using' = using \union {s}
  /\ UNCHANGED holder

\* The port may pass to another stack in the same step.
Leave(s) ==
  /\ s \in using
  /\ \/ using' = using \ {s}
     \/ \E t \in Stacks \ using : using' = (using \ {s}) \union {t}
  /\ UNCHANGED holder

Lock(s, e) ==
  /\ s \in using /\ holder[e] = None
  /\ \A x \in Entries : holder[x] # s
  /\ holder' = [holder EXCEPT ![e] = s]
  /\ UNCHANGED using

Unlock(s, e) ==
  /\ s \notin using /\ holder[e] = s
  /\ holder' = [holder EXCEPT ![e] = None]
  /\ UNCHANGED using

Next ==
  \/ \E s \in Stacks : Enter(s) \/ Leave(s)
  \/ \E s \in Stacks, e \in Entries : Lock(s, e) \/ Unlock(s, e)

Spec == Init /\ [][Next]_<<using, holder>>
=============================================================================
