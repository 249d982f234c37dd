-------------------------- MODULE FindAndLockProofs --------------------------
(***************************************************************************)
(* Safety of FindAndLock for any number of stacks, entries and ports.      *)
(***************************************************************************)
EXTENDS FindAndLock, FiniteSetTheorems, TLAPS

\* A stack that holds or awaits an entry has been assigned it.
Assigned ==
  \A s \in Stacks : pc[s] \in {"DIR_WAITING", "FIND_AND_LOCK_ACTION", "LOCKED"} => way[s] \in Entries

PortInv == PortAccounting /\ NoIdlePort
DirInv  == Assigned /\ EntryExclusion /\ SleepersQueued /\ NoLostWakeup
IInv    == TypeOK /\ PortInv /\ DirInv

-----------------------------------------------------------------------------
(* Queues.                                                                   *)

LEMMA AppendFacts ==
  ASSUME NEW S, NEW q \in Seq(S), NEW x \in S
  PROVE  /\ Append(q, x) \in Seq(S) /\ Append(q, x) # <<>>
         /\ Range(Append(q, x)) = Range(q) \union {x}
         /\ IsInjective(q) /\ x \notin Range(q) => IsInjective(Append(q, x))
<1>1. /\ Append(q, x) \in Seq(S) /\ Append(q, x) # <<>>
      /\ Len(q) \in Nat
      /\ DOMAIN q = 1..Len(q) /\ DOMAIN Append(q, x) = 1..(Len(q) + 1)
      /\ \A i \in 1..Len(q) : Append(q, x)[i] = q[i]
      /\ Append(q, x)[Len(q) + 1] = x
  OBVIOUS
<1>2. Range(Append(q, x)) = Range(q) \union {x}
  <2>1. ASSUME NEW y \in Range(Append(q, x)) PROVE y \in Range(q) \union {x}
    BY <1>1 DEF Range
  <2>2. ASSUME NEW y \in Range(q) PROVE y \in Range(Append(q, x))
    BY <1>1 DEF Range
  <2>3. x \in Range(Append(q, x))
    BY <1>1 DEF Range
  <2> QED BY <2>1, <2>2, <2>3
<1>3. ASSUME IsInjective(q), x \notin Range(q) PROVE IsInjective(Append(q, x))
  BY <1>1, <1>3 DEF Range, IsInjective
<1> QED BY <1>1, <1>2, <1>3

LEMMA TailFacts ==
  ASSUME NEW S, NEW q \in Seq(S), q # <<>>
  PROVE  /\ Head(q) \in S /\ Head(q) \in Range(q) /\ Tail(q) \in Seq(S)
         /\ IsInjective(q) => /\ IsInjective(Tail(q))
                              /\ Range(Tail(q)) = Range(q) \ {Head(q)}
<1>1. /\ Tail(q) \in Seq(S) /\ Len(q) \in Nat \ {0}
      /\ DOMAIN q = 1..Len(q) /\ DOMAIN Tail(q) = 1..(Len(q) - 1)
      /\ \A i \in 1..(Len(q) - 1) : Tail(q)[i] = q[i + 1]
      /\ Head(q) = q[1] /\ q[1] \in S
  OBVIOUS
<1>2. Head(q) \in Range(q)
  BY <1>1 DEF Range
<1>3. ASSUME IsInjective(q)
      PROVE  IsInjective(Tail(q)) /\ Range(Tail(q)) = Range(q) \ {Head(q)}
  <2>1. IsInjective(Tail(q))
    BY <1>1, <1>3 DEF IsInjective
  <2>2. ASSUME NEW y \in Range(Tail(q)) PROVE y \in Range(q) \ {Head(q)}
    BY <1>1, <1>3 DEF IsInjective, Range
  <2>3. ASSUME NEW y \in Range(q) \ {Head(q)} PROVE y \in Range(Tail(q))
    <3>1. PICK i \in 1..Len(q) : y = q[i]
      BY <1>1 DEF Range
    <3>2. i # 1 /\ i - 1 \in 1..(Len(q) - 1) /\ q[i] = Tail(q)[i - 1]
      BY <1>1, <3>1
    <3> QED BY <1>1, <3>1, <3>2 DEF Range
  <2> QED BY <2>1, <2>2, <2>3
<1> QED BY <1>1, <1>2, <1>3

-----------------------------------------------------------------------------
(* Counting ports.                                                           *)

Taken(pp) == {p \in Ports : pp[p] # None}

LEMMA TakenFacts ==
  ASSUME NEW pp \in [Ports -> Stacks \union {None}]
  PROVE  /\ Cardinality(Taken(pp)) \in Nat
         /\ Cardinality(Taken(pp)) <= NumPorts
         /\ Cardinality(Taken(pp)) < NumPorts <=> Free(pp) # {}
         /\ \A p \in Free(pp), s \in Stacks :
              Cardinality(Taken([pp EXCEPT ![p] = s])) = Cardinality(Taken(pp)) + 1
         /\ \A p \in Taken(pp) :
              Cardinality(Taken([pp EXCEPT ![p] = None])) = Cardinality(Taken(pp)) - 1
<1>1. IsFiniteSet(Ports) /\ Cardinality(Ports) = NumPorts
  BY NumPortsAssumption, FS_Interval, SMT DEF Ports
<1>2. Taken(pp) \in SUBSET Ports
  BY DEF Taken
<1>3. /\ IsFiniteSet(Taken(pp)) /\ Cardinality(Taken(pp)) <= NumPorts
      /\ NumPorts = Cardinality(Taken(pp)) => Ports = Taken(pp)
  BY <1>1, <1>2, FS_Subset
<1>4. Cardinality(Taken(pp)) \in Nat
  BY <1>3, FS_CardinalityType
<1>5. Free(pp) = {} <=> Taken(pp) = Ports
  BY DEF Free, Taken
<1>6. Cardinality(Taken(pp)) < NumPorts <=> Free(pp) # {}
  BY <1>1, <1>3, <1>4, <1>5, NumPortsAssumption
<1>7. ASSUME NEW p \in Free(pp), NEW s \in Stacks
      PROVE  Cardinality(Taken([pp EXCEPT ![p] = s])) = Cardinality(Taken(pp)) + 1
  <2>1. Taken([pp EXCEPT ![p] = s]) = Taken(pp) \union {p} /\ p \notin Taken(pp)
    BY NoneAssumption DEF Taken, Free
  <2> QED BY <1>3, <2>1, FS_AddElement, ZenonT(60)
<1>8. ASSUME NEW p \in Taken(pp)
      PROVE  Cardinality(Taken([pp EXCEPT ![p] = None])) = Cardinality(Taken(pp)) - 1
  <2>1. Taken([pp EXCEPT ![p] = None]) = Taken(pp) \ {p}
    BY DEF Taken
  <2> QED BY <1>3, <2>1, FS_RemoveElement
<1> QED BY <1>3, <1>4, <1>6, <1>7, <1>8

-----------------------------------------------------------------------------
(* Ports.                                                                    *)

\* What mod_unlock_port does to everything but the caller: at most the first waiter
\* moves on, with the port.
LEMMA UnlockPortFacts ==
  ASSUME TypeOK, PortInv,
         NEW s \in Stacks, s \in Ported,
         NEW next \in {"IDLE", "DIR_WAITING", "LOCKED"},
         UnlockPort(s, next)
  PROVE  /\ pc' \in [Stacks -> Events] /\ pc'[s] = next
         /\ \A t \in Stacks \ {s} :
              \/ pc'[t] = pc[t]
              \/ pc[t] = "PORT_WAITING" /\ pc'[t] = "FIND_AND_LOCK_PORT"
         /\ port' \in [Stacks -> Ports \union {None}]
         /\ ports' \in [Ports -> Stacks \union {None}]
         /\ numLocked' \in Nat /\ portWaiting' \in Seq(Stacks)
         /\ PortInv'
<1> DEFINE p == port[s]
           freed == [ports EXCEPT ![p] = None]
<1>1. p \in Ports /\ ports[p] = s /\ p \in Taken(ports)
  BY NoneAssumption DEF TypeOK, PortInv, PortAccounting, Taken
<1>2. /\ freed \in [Ports -> Stacks \union {None}]
      /\ Cardinality(Taken(freed)) = numLocked - 1
      /\ numLocked = Cardinality(Taken(ports)) /\ numLocked <= NumPorts
  <2>1. freed \in [Ports -> Stacks \union {None}] /\ ports \in [Ports -> Stacks \union {None}]
    BY DEF TypeOK
  <2>2. numLocked = Cardinality(Taken(ports))
    BY DEF PortInv, PortAccounting, Taken
  <2> QED BY <1>1, <2>1, <2>2, TakenFacts
<1>3. numLocked \in Nat /\ numLocked - 1 \in Nat /\ numLocked - 1 < NumPorts
  <2>1. Cardinality(Taken(freed)) \in Nat
    BY <1>2, TakenFacts
  <2> QED BY <1>2, <2>1, NumPortsAssumption DEF TypeOK
<1>4. CASE portWaiting = <<>>
  <2>1. /\ ports' = freed /\ port' = [port EXCEPT ![s] = None]
        /\ numLocked' = numLocked - 1 /\ pc' = [pc EXCEPT ![s] = next]
        /\ portWaiting' = <<>>
    BY <1>4 DEF UnlockPort
  <2>2. numLocked' = Cardinality({q \in Ports : ports'[q] # None})
    BY <1>2, <2>1 DEF Taken
  <2>3. \A t \in Stacks, q \in Ports : port'[t] = q <=> ports'[q] = t
    BY <1>1, <2>1, NoneAssumption DEF TypeOK, PortInv, PortAccounting
  <2>4. \A t \in Stacks : port'[t] # None <=> t \in Ported'
    BY <2>1 DEF TypeOK, PortInv, PortAccounting, Ported
  <2>5. NoIdlePort'
    <3>1. \A t \in Stacks : pc'[t] # "PORT_WAITING"
      BY <1>4, <2>1 DEF TypeOK, PortInv, NoIdlePort, Range
    <3> QED BY <1>4, <2>1, <3>1 DEF NoIdlePort, Range, IsInjective, PortInv
  <2>6. pc' \in [Stacks -> Events]
    BY <2>1 DEF TypeOK, Events
  <2>7. PortInv'
    BY <2>2, <2>3, <2>4, <2>5 DEF PortInv, PortAccounting
  <2> QED BY <1>2, <1>3, <2>1, <2>6, <2>7 DEF TypeOK
<1>5. CASE portWaiting # <<>>
  <2> DEFINE h == Head(portWaiting)
  <2>1. /\ h \in Stacks /\ h \in Range(portWaiting) /\ Tail(portWaiting) \in Seq(Stacks)
        /\ IsInjective(Tail(portWaiting))
        /\ Range(Tail(portWaiting)) = Range(portWaiting) \ {h}
    BY <1>5, TailFacts DEF TypeOK, PortInv, NoIdlePort
  <2>2. pc[h] = "PORT_WAITING" /\ h # s /\ port[h] = None /\ numLocked = NumPorts
    BY <1>5, <2>1 DEF PortInv, PortAccounting, NoIdlePort, Ported
  <2>3. PICK q \in Free(freed) :
           /\ ports' = [freed EXCEPT ![q] = h]
           /\ port' = [port EXCEPT ![s] = None, ![h] = q]
    BY <1>5 DEF UnlockPort
  <2>4. /\ pc' = [pc EXCEPT ![s] = next, ![h] = "FIND_AND_LOCK_PORT"]
        /\ portWaiting' = Tail(portWaiting) /\ numLocked' = numLocked
    BY <1>5 DEF UnlockPort
  <2>5. q \in Ports /\ freed[q] = None
    BY DEF Free
  <2>6. numLocked' = Cardinality({r \in Ports : ports'[r] # None})
    <3>1. Cardinality(Taken(ports')) = Cardinality(Taken(freed)) + 1
      BY <1>2, <2>1, <2>3, TakenFacts
    <3> QED BY <1>2, <1>3, <2>4, <3>1 DEF Taken
  <2>7. \A t \in Stacks, r \in Ports : port'[t] = r <=> ports'[r] = t
    <3>1. \A t \in Stacks, r \in Ports : t # s => (port[t] = r <=> freed[r] = t)
      BY <1>1, NoneAssumption DEF TypeOK, PortInv, PortAccounting
    <3>2. \A r \in Ports : freed[r] # s
      BY <1>1, NoneAssumption DEF TypeOK, PortInv, PortAccounting
    <3>3. \A t \in Stacks : port'[t] = IF t = h THEN q ELSE IF t = s THEN None ELSE port[t]
      BY <2>2, <2>3 DEF TypeOK
    <3>4. \A r \in Ports : ports'[r] = IF r = q THEN h ELSE freed[r]
      BY <1>2, <2>3
    <3> QED BY <2>1, <2>2, <2>5, <3>1, <3>2, <3>3, <3>4, NoneAssumption DEF TypeOK
  <2>8. \A t \in Stacks : port'[t] # None <=> t \in Ported'
    BY <2>1, <2>2, <2>3, <2>4, <2>5, NoneAssumption DEF TypeOK, PortInv, PortAccounting, Ported
  <2>9. NoIdlePort'
    <3>1. \A t \in Stacks : pc'[t] = "PORT_WAITING" <=> pc[t] = "PORT_WAITING" /\ t # h
      BY <2>1, <2>2, <2>4 DEF TypeOK, Ported
    <3>2. Range(portWaiting) = {t \in Stacks : pc[t] = "PORT_WAITING"}
      BY DEF PortInv, NoIdlePort
    <3>3. Range(portWaiting') = {t \in Stacks : pc'[t] = "PORT_WAITING"}
      BY <2>1, <2>4, <3>1, <3>2
    <3> QED BY <2>1, <2>2, <2>4, <3>3 DEF NoIdlePort
  <2>10. pc' \in [Stacks -> Events]
    BY <2>1, <2>4 DEF TypeOK, Events
  <2>11. /\ port' \in [Stacks -> Ports \union {None}]
         /\ ports' \in [Ports -> Stacks \union {None}]
    BY <1>2, <2>1, <2>3, <2>5 DEF TypeOK
  <2>12. PortInv'
    BY <2>6, <2>7, <2>8, <2>9 DEF PortInv, PortAccounting
  <2>13. /\ pc'[s] = next
         /\ \A t \in Stacks \ {s} :
              \/ pc'[t] = pc[t]
              \/ pc[t] = "PORT_WAITING" /\ pc'[t] = "FIND_AND_LOCK_PORT"
    BY <2>1, <2>2, <2>4 DEF TypeOK
  <2> QED BY <1>3, <2>1, <2>4, <2>10, <2>11, <2>12, <2>13
<1> QED BY <1>4, <1>5

-----------------------------------------------------------------------------
(* Directory entries.                                                        *)

\* A stack changes nothing for the directory by moving between the events at which
\* it neither holds an entry nor sleeps on one.
Moving == {"IDLE", "FIND_AND_LOCK", "PORT_WAITING", "FIND_AND_LOCK_PORT"}
Coming == {"FIND_AND_LOCK", "PORT_WAITING", "FIND_AND_LOCK_PORT"}

LEMMA DirStable ==
  ASSUME TypeOK, DirInv, way' = way, dirVars' = dirVars,
         \A t \in Stacks :
           \/ pc'[t] = pc[t]
           \/ pc[t] \in Moving /\ pc'[t] \in Coming
           \/ /\ pc[t] \in Moving /\ pc'[t] \in Moving
              /\ way[t] # None => way[t] \in Entries /\ dirLock[way[t]]
           \/ pc[t] = "FIND_AND_LOCK_ACTION" /\ pc'[t] = "LOCKED"
  PROVE  DirInv'
<1>1. Assigned'
  BY DEF Assigned, DirInv, Moving, Coming
<1>2. \A t \in Stacks, e \in Entries : Holds(t, e)' <=> Holds(t, e)
  BY DEF Holds, Moving, Coming
<1>3. EntryExclusion'
  BY <1>2 DEF EntryExclusion, DirInv, dirVars
<1>4. \A t \in Stacks : pc'[t] = "DIR_WAITING" <=> pc[t] = "DIR_WAITING"
  BY DEF Moving, Coming
<1>5. SleepersQueued'
  BY <1>4 DEF SleepersQueued, DirInv, dirVars
<1>6. NoLostWakeup'
  <2> SUFFICES ASSUME NEW e \in Entries, lockQueue[e] # <<>>, ~dirLock[e]
               PROVE  \E t \in Stacks : way[t] = e /\ pc'[t] \in Coming
    BY DEF NoLostWakeup, dirVars, Coming
  <2>1. PICK t \in Stacks : way[t] = e /\ pc[t] \in Coming
    BY DEF DirInv, NoLostWakeup, Coming
  <2>2. pc'[t] \in Coming
    BY <2>1, NoneAssumption DEF Coming
  <2> QED BY <2>1, <2>2
<1> QED BY <1>1, <1>3, <1>5, <1>6 DEF DirInv

-----------------------------------------------------------------------------
LEMMA InitIInv == Init => IInv
<1> SUFFICES ASSUME Init PROVE IInv
  OBVIOUS
<1>1. TypeOK
  BY DEF Init, TypeOK, Events, Kinds
<1>2. PortAccounting
  <2>1. {p \in Ports : ports[p] # None} = {}
    BY DEF Init
  <2> QED BY <2>1, FS_EmptySet, NoneAssumption DEF Init, PortAccounting, Ported
<1>3. NoIdlePort /\ SleepersQueued
  <2>1. Range(<<>>) = {} /\ IsInjective(<<>>)
    BY DEF Range, IsInjective
  <2> QED BY <2>1 DEF Init, NoIdlePort, SleepersQueued
<1>4. Assigned /\ EntryExclusion /\ NoLostWakeup
  BY DEF Init, Assigned, EntryExclusion, NoLostWakeup, Holds
<1> QED BY <1>1, <1>2, <1>3, <1>4 DEF IInv, PortInv, DirInv

LEMMA CallStep ==
  ASSUME IInv, NEW s \in Stacks, NEW k \in Kinds, Call(s, k)
  PROVE  IInv'
<1>1. TypeOK'
  BY DEF IInv, TypeOK, Call, portVars, dirVars, Events
<1>2. PortInv'
  BY DEF IInv, TypeOK, PortInv, PortAccounting, NoIdlePort, Ported, Call, portVars
<1>3. Assigned' /\ EntryExclusion' /\ SleepersQueued'
  BY SMTT(30) DEF IInv, TypeOK, DirInv, Assigned, EntryExclusion, SleepersQueued, Holds, Call, dirVars
<1>4. NoLostWakeup'
  BY DEF IInv, TypeOK, DirInv, NoLostWakeup, Call, dirVars
<1> QED BY <1>1, <1>2, <1>3, <1>4 DEF IInv, DirInv

LEMMA FindAndLockStep ==
  ASSUME IInv, NEW s \in Stacks, FindAndLock(s)
  PROVE  IInv'
<1> USE DEF IInv
<1>1. CASE numLocked >= NumPorts
  <2>1. /\ portWaiting' = Append(portWaiting, s)
        /\ pc' = [pc EXCEPT ![s] = "PORT_WAITING"]
        /\ pc[s] = "FIND_AND_LOCK"
        /\ UNCHANGED <<port, ports, numLocked, kind, way, dirVars>>
    BY <1>1, NumPortsAssumption DEF FindAndLock, RequestDir, TypeOK
  <2>2. /\ Append(portWaiting, s) \in Seq(Stacks)
        /\ Range(Append(portWaiting, s)) = Range(portWaiting) \union {s}
        /\ IsInjective(portWaiting) /\ s \notin Range(portWaiting)
             => IsInjective(Append(portWaiting, s))
    BY AppendFacts DEF TypeOK
  <2>3. TypeOK'
    BY <2>1, <2>2 DEF TypeOK, dirVars, Events
  <2>4. PortAccounting'
    BY <2>1 DEF TypeOK, PortInv, PortAccounting, Ported
  <2>5. numLocked = NumPorts
    <3>1. numLocked = Cardinality(Taken(ports))
      BY DEF PortInv, PortAccounting, Taken
    <3>2. Cardinality(Taken(ports)) <= NumPorts
      BY TakenFacts DEF TypeOK
    <3> QED BY <1>1, <3>1, <3>2, NumPortsAssumption DEF TypeOK
  <2>6. NoIdlePort'
    BY <2>1, <2>2, <2>5 DEF TypeOK, PortInv, NoIdlePort
  <2>7. DirInv'
    <3>1. \A t \in Stacks : pc'[t] = pc[t] \/ (pc[t] \in Moving /\ pc'[t] \in Coming)
      BY <2>1 DEF TypeOK, Moving, Coming
    <3> QED BY <2>1, <3>1, DirStable
  <2> QED BY <2>3, <2>4, <2>6, <2>7 DEF PortInv
<1>2. CASE numLocked < NumPorts
  <2>1. PICK p \in Free(ports) :
           /\ ports' = [ports EXCEPT ![p] = s]
           /\ port' = [port EXCEPT ![s] = p]
    BY <1>2, NumPortsAssumption DEF FindAndLock, TypeOK
  <2>2. /\ numLocked' = numLocked + 1
        /\ pc' = [pc EXCEPT ![s] = "FIND_AND_LOCK_PORT"]
        /\ pc[s] = "FIND_AND_LOCK"
        /\ UNCHANGED <<portWaiting, kind, way, dirVars>>
    BY <1>2, NumPortsAssumption DEF FindAndLock, TypeOK
  <2>3. p \in Ports /\ ports[p] = None
    BY DEF Free
  <2>4. TypeOK'
    BY <2>1, <2>2, <2>3 DEF TypeOK, dirVars, Events
  <2>5. numLocked' = Cardinality({q \in Ports : ports'[q] # None})
    <3>1. Cardinality(Taken(ports')) = Cardinality(Taken(ports)) + 1
      BY <2>1, TakenFacts DEF TypeOK
    <3> QED BY <2>2, <3>1 DEF PortInv, PortAccounting, Taken
  <2>6. \A t \in Stacks, q \in Ports : port'[t] = q <=> ports'[q] = t
    <3>1. port[s] = None
      BY <2>2 DEF TypeOK, PortInv, PortAccounting, Ported
    <3> QED BY <2>1, <2>3, <3>1, NoneAssumption DEF TypeOK, PortInv, PortAccounting
  <2>7. \A t \in Stacks : port'[t] # None <=> t \in Ported'
    BY <2>1, <2>2, <2>3, NoneAssumption DEF TypeOK, PortInv, PortAccounting, Ported
  <2>8. NoIdlePort'
    <3>1. portWaiting = <<>>
      BY <1>2, NumPortsAssumption DEF TypeOK, PortInv, NoIdlePort
    <3> QED BY <2>2, <3>1 DEF TypeOK, PortInv, NoIdlePort
  <2>9. DirInv'
    <3>1. \A t \in Stacks : pc'[t] = pc[t] \/ (pc[t] \in Moving /\ pc'[t] \in Coming)
      BY <2>2 DEF TypeOK, Moving, Coming
    <3> QED BY <2>2, <3>1, DirStable
  <2> QED BY <2>4, <2>5, <2>6, <2>7, <2>8, <2>9 DEF PortInv, PortAccounting
<1> QED BY <1>1, <1>2, NumPortsAssumption DEF TypeOK

LEMMA BusyStep ==
  ASSUME IInv, NEW s \in Stacks, FindAndLockPortBusy(s)
  PROVE  IInv'
<1>1. /\ pc[s] = "FIND_AND_LOCK_PORT" /\ UnlockPort(s, "IDLE")
      /\ kind' = kind /\ way' = way /\ dirVars' = dirVars
      /\ way[s] # None => way[s] \in Entries /\ dirLock[way[s]]
  BY DEF FindAndLockPortBusy, IInv, TypeOK, Found
<1>2. /\ TypeOK /\ PortInv /\ DirInv /\ s \in Ported
  BY <1>1 DEF IInv, Ported
<1>3. PICK next \in {"IDLE", "DIR_WAITING", "LOCKED"} : next = "IDLE"
  OBVIOUS
<1>4. /\ pc' \in [Stacks -> Events] /\ pc'[s] = "IDLE"
      /\ \A t \in Stacks \ {s} :
           \/ pc'[t] = pc[t]
           \/ pc[t] = "PORT_WAITING" /\ pc'[t] = "FIND_AND_LOCK_PORT"
      /\ port' \in [Stacks -> Ports \union {None}]
      /\ ports' \in [Ports -> Stacks \union {None}]
      /\ numLocked' \in Nat /\ portWaiting' \in Seq(Stacks)
      /\ PortInv'
  BY <1>1, <1>2, <1>3, UnlockPortFacts
<1>5. TypeOK'
  BY <1>1, <1>2, <1>4 DEF TypeOK, dirVars
<1>6. \A t \in Stacks :
        \/ pc'[t] = pc[t]
        \/ pc[t] \in Moving /\ pc'[t] \in Coming
        \/ /\ pc[t] \in Moving /\ pc'[t] \in Moving
           /\ way[t] # None => way[t] \in Entries /\ dirLock[way[t]]
  BY <1>1, <1>4 DEF Moving, Coming
<1>7. DirInv'
  BY <1>1, <1>2, <1>6, DirStable
<1> QED BY <1>4, <1>5, <1>7 DEF IInv

LEMMA WaitStep ==
  ASSUME IInv, NEW s \in Stacks, FindAndLockPortWait(s)
  PROVE  IInv'
<1>1. PICK e \in Entries :
         /\ e \in Found(s) /\ dirLock[e]
         /\ lockQueue' = [lockQueue EXCEPT ![e] = Append(@, s)]
         /\ way' = [way EXCEPT ![s] = e]
  BY DEF FindAndLockPortWait, Found, IInv, TypeOK
<1>2. /\ pc[s] = "FIND_AND_LOCK_PORT" /\ UnlockPort(s, "DIR_WAITING")
      /\ kind' = kind /\ dirLock' = dirLock
      /\ TypeOK /\ PortInv /\ DirInv /\ s \in Ported
  BY DEF FindAndLockPortWait, IInv, Ported
<1>3. PICK next \in {"IDLE", "DIR_WAITING", "LOCKED"} : next = "DIR_WAITING"
  OBVIOUS
<1>4. /\ pc' \in [Stacks -> Events] /\ pc'[s] = "DIR_WAITING"
      /\ \A t \in Stacks \ {s} :
           \/ pc'[t] = pc[t]
           \/ pc[t] = "PORT_WAITING" /\ pc'[t] = "FIND_AND_LOCK_PORT"
      /\ port' \in [Stacks -> Ports \union {None}]
      /\ ports' \in [Ports -> Stacks \union {None}]
      /\ numLocked' \in Nat /\ portWaiting' \in Seq(Stacks)
      /\ PortInv'
  BY <1>2, <1>3, UnlockPortFacts
<1>5. /\ Append(lockQueue[e], s) \in Seq(Stacks)
      /\ Range(Append(lockQueue[e], s)) = Range(lockQueue[e]) \union {s}
      /\ IsInjective(lockQueue[e]) /\ s \notin Range(lockQueue[e])
           => IsInjective(Append(lockQueue[e], s))
  BY <1>2, AppendFacts DEF TypeOK
<1>6. TypeOK'
  BY <1>1, <1>2, <1>4, <1>5 DEF TypeOK
<1>7. Assigned' /\ EntryExclusion'
  <2>1. \A t \in Stacks, x \in Entries : Holds(t, x)' <=> Holds(t, x)
    BY <1>1, <1>2, <1>4 DEF Holds, TypeOK
  <2>2. EntryExclusion'
    BY <1>2, <2>1 DEF EntryExclusion, DirInv
  <2>3. Assigned'
    BY <1>1, <1>2, <1>4 DEF Assigned, DirInv, TypeOK
  <2> QED BY <2>2, <2>3
<1>8. SleepersQueued'
  <2>1. \A t \in Stacks : pc'[t] = "DIR_WAITING" <=> pc[t] = "DIR_WAITING" \/ t = s
    BY <1>4 DEF TypeOK
  <2>2. \A t \in Stacks : way'[t] = IF t = s THEN e ELSE way[t]
    BY <1>1, <1>2 DEF TypeOK
  <2>3. \A x \in Entries : lockQueue'[x] = IF x = e THEN Append(lockQueue[e], s) ELSE lockQueue[x]
    BY <1>1, <1>2 DEF TypeOK
  <2>4. s \notin Range(lockQueue[e])
    BY <1>2 DEF SleepersQueued, DirInv
  <2>5. \A x \in Entries : IsInjective(lockQueue'[x])
    BY <1>2, <1>5, <2>3, <2>4 DEF SleepersQueued, DirInv
  <2>6. ASSUME NEW x \in Entries
        PROVE  Range(lockQueue'[x]) = {t \in Stacks : pc'[t] = "DIR_WAITING" /\ way'[t] = x}
    <3>1. Range(lockQueue[x]) = {t \in Stacks : pc[t] = "DIR_WAITING" /\ way[t] = x}
      BY <1>2 DEF SleepersQueued, DirInv
    <3>2. CASE x = e
      BY <1>2, <1>5, <2>1, <2>2, <2>3, <3>1, <3>2
    <3>3. CASE x # e
      BY <1>2, <2>1, <2>2, <2>3, <3>1, <3>3
    <3> QED BY <3>2, <3>3
  <2> QED BY <2>5, <2>6 DEF SleepersQueued
<1>9. NoLostWakeup'
  <2> SUFFICES ASSUME NEW x \in Entries, lockQueue'[x] # <<>>, ~dirLock[x]
               PROVE  \E t \in Stacks : way'[t] = x /\ pc'[t] \in Coming
    BY <1>2 DEF NoLostWakeup, Coming
  <2>1. x # e /\ lockQueue[x] # <<>>
    BY <1>1, <1>2 DEF TypeOK
  <2>2. PICK t \in Stacks : way[t] = x /\ pc[t] \in Coming
    BY <1>2, <2>1 DEF DirInv, NoLostWakeup, Coming
  <2>3. t # s
    BY <1>1, <2>1, <2>2, NoneAssumption DEF Found
  <2> QED BY <1>1, <1>2, <1>4, <2>2, <2>3 DEF TypeOK, Coming
<1> QED BY <1>4, <1>6, <1>7, <1>8, <1>9 DEF IInv, DirInv

LEMMA GrantStep ==
  ASSUME IInv, NEW s \in Stacks, FindAndLockPortGrant(s)
  PROVE  IInv'
<1>1. PICK e \in Entries :
         /\ e \in Found(s) /\ ~dirLock[e]
         /\ dirLock' = [dirLock EXCEPT ![e] = TRUE]
         /\ way' = [way EXCEPT ![s] = e]
  BY DEF FindAndLockPortGrant, Found, IInv, TypeOK
<1>2. /\ pc[s] = "FIND_AND_LOCK_PORT" /\ pc' = [pc EXCEPT ![s] = "FIND_AND_LOCK_ACTION"]
      /\ kind' = kind /\ lockQueue' = lockQueue
      /\ port' = port /\ ports' = ports /\ numLocked' = numLocked /\ portWaiting' = portWaiting
      /\ TypeOK /\ PortInv /\ DirInv
  BY DEF FindAndLockPortGrant, IInv, portVars
<1>3. TypeOK'
  BY <1>1, <1>2 DEF TypeOK, Events
<1>4. PortInv'
  BY <1>2 DEF TypeOK, PortInv, PortAccounting, NoIdlePort, Ported
<1>5. Assigned'
  BY <1>1, <1>2 DEF TypeOK, Assigned, DirInv
<1>6. EntryExclusion'
  <2>1. \A t \in Stacks : ~Holds(t, e)
    BY <1>1, <1>2 DEF DirInv, EntryExclusion
  <2>2. \A t \in Stacks, x \in Entries : Holds(t, x)' <=> Holds(t, x) \/ (t = s /\ x = e)
    BY <1>1, <1>2 DEF Holds, TypeOK
  <2>3. \A x \in Entries : dirLock'[x] <=> dirLock[x] \/ x = e
    BY <1>1, <1>2 DEF TypeOK
  <2>4. \A t, u \in Stacks, x \in Entries : Holds(t, x)' /\ Holds(u, x)' => t = u
    BY <1>2, <2>1, <2>2 DEF DirInv, EntryExclusion
  <2>5. \A x \in Entries : dirLock'[x] <=> \E t \in Stacks : Holds(t, x)'
    BY <1>2, <2>2, <2>3 DEF DirInv, EntryExclusion
  <2> QED BY <2>4, <2>5 DEF EntryExclusion
<1>7. SleepersQueued'
  BY <1>1, <1>2 DEF TypeOK, DirInv, SleepersQueued
<1>8. NoLostWakeup'
  <2> SUFFICES ASSUME NEW x \in Entries, lockQueue[x] # <<>>, ~dirLock'[x]
               PROVE  \E t \in Stacks : way'[t] = x /\ pc'[t] \in Coming
    BY <1>2 DEF NoLostWakeup, Coming
  <2>1. x # e /\ ~dirLock[x]
    BY <1>1, <1>2 DEF TypeOK
  <2>2. PICK t \in Stacks : way[t] = x /\ pc[t] \in Coming
    BY <1>2, <2>1 DEF DirInv, NoLostWakeup, Coming
  <2>3. t # s
    BY <1>1, <2>1, <2>2, NoneAssumption DEF Found
  <2> QED BY <1>1, <1>2, <2>2, <2>3 DEF TypeOK
<1> QED BY <1>3, <1>4, <1>5, <1>6, <1>7, <1>8 DEF IInv, DirInv

LEMMA ActionStep ==
  ASSUME IInv, NEW s \in Stacks, FindAndLockAction(s)
  PROVE  IInv'
<1>1. /\ pc[s] = "FIND_AND_LOCK_ACTION" /\ UnlockPort(s, "LOCKED")
      /\ kind' = kind /\ way' = way /\ dirVars' = dirVars
      /\ TypeOK /\ PortInv /\ DirInv /\ s \in Ported
  BY DEF FindAndLockAction, IInv, Ported
<1>2. PICK next \in {"IDLE", "DIR_WAITING", "LOCKED"} : next = "LOCKED"
  OBVIOUS
<1>3. /\ pc' \in [Stacks -> Events] /\ pc'[s] = "LOCKED"
      /\ \A t \in Stacks \ {s} :
           \/ pc'[t] = pc[t]
           \/ pc[t] = "PORT_WAITING" /\ pc'[t] = "FIND_AND_LOCK_PORT"
      /\ port' \in [Stacks -> Ports \union {None}]
      /\ ports' \in [Ports -> Stacks \union {None}]
      /\ numLocked' \in Nat /\ portWaiting' \in Seq(Stacks)
      /\ PortInv'
  BY <1>1, <1>2, UnlockPortFacts
<1>4. TypeOK'
  BY <1>1, <1>3 DEF TypeOK, dirVars
<1>5. \A t \in Stacks :
        \/ pc'[t] = pc[t]
        \/ pc[t] \in Moving /\ pc'[t] \in Coming
        \/ pc[t] = "FIND_AND_LOCK_ACTION" /\ pc'[t] = "LOCKED"
  BY <1>1, <1>3 DEF Moving, Coming
<1>6. DirInv'
  BY <1>1, <1>5, DirStable
<1> QED BY <1>3, <1>4, <1>6 DEF IInv

LEMMA UnlockStep ==
  ASSUME IInv, NEW s \in Stacks, Unlock(s)
  PROVE  IInv'
<1> DEFINE e == way[s]
           q == lockQueue[e]
           h == Head(q)
<1>1. /\ pc[s] = "LOCKED" /\ dirLock' = [dirLock EXCEPT ![e] = FALSE]
      /\ kind' = kind /\ way' = way
      /\ port' = port /\ ports' = ports /\ numLocked' = numLocked /\ portWaiting' = portWaiting
      /\ TypeOK /\ PortInv /\ DirInv
  BY DEF Unlock, IInv, portVars
<1>2. e \in Entries /\ Holds(s, e) /\ q \in Seq(Stacks)
  BY <1>1 DEF DirInv, Assigned, Holds, TypeOK
<1>3. \A t \in Stacks \ {s} : ~Holds(t, e)
  BY <1>1, <1>2 DEF DirInv, EntryExclusion
<1>4. \A x \in Entries : dirLock'[x] <=> dirLock[x] /\ x # e
  BY <1>1, <1>2 DEF TypeOK
<1>5. CASE q = <<>>
  <2>1. pc' = [pc EXCEPT ![s] = "IDLE"] /\ lockQueue' = lockQueue
    BY <1>5 DEF Unlock
  <2>2. TypeOK'
    BY <1>1, <1>2, <2>1 DEF TypeOK, Events
  <2>3. PortInv'
    BY <1>1, <2>1 DEF TypeOK, PortInv, PortAccounting, NoIdlePort, Ported
  <2>4. Assigned' /\ SleepersQueued'
    BY <1>1, <2>1 DEF TypeOK, DirInv, Assigned, SleepersQueued
  <2>5. EntryExclusion'
    <3>1. \A t \in Stacks, x \in Entries : Holds(t, x)' <=> Holds(t, x) /\ t # s
      BY <1>1, <2>1 DEF Holds, TypeOK
    <3>2. \A x \in Entries : x # e => ~Holds(s, x)
      BY DEF Holds
    <3> QED BY <1>1, <1>2, <1>3, <1>4, <3>1, <3>2 DEF DirInv, EntryExclusion
  <2>6. NoLostWakeup'
    <3> SUFFICES ASSUME NEW x \in Entries, lockQueue[x] # <<>>, ~dirLock'[x]
                 PROVE  \E t \in Stacks : way[t] = x /\ pc'[t] \in Coming
      BY <1>1, <2>1 DEF NoLostWakeup, Coming
    <3>1. PICK t \in Stacks : way[t] = x /\ pc[t] \in Coming
      BY <1>1, <1>4, <1>5 DEF DirInv, NoLostWakeup, Coming
    <3> QED BY <1>1, <2>1, <3>1 DEF TypeOK, Coming
  <2> QED BY <2>2, <2>3, <2>4, <2>5, <2>6 DEF IInv, DirInv
<1>6. CASE q # <<>>
  <2>1. /\ pc' = [pc EXCEPT ![s] = "IDLE", ![h] = "FIND_AND_LOCK"]
        /\ lockQueue' = [lockQueue EXCEPT ![e] = Tail(q)]
    BY <1>6 DEF Unlock
  <2>2. /\ h \in Stacks /\ h \in Range(q) /\ Tail(q) \in Seq(Stacks)
        /\ IsInjective(Tail(q)) /\ Range(Tail(q)) = Range(q) \ {h}
    BY <1>1, <1>2, <1>6, TailFacts DEF DirInv, SleepersQueued
  <2>3. pc[h] = "DIR_WAITING" /\ way[h] = e /\ h # s
    BY <1>1, <1>2, <2>2 DEF DirInv, SleepersQueued
  <2>4. \A t \in Stacks : pc'[t] = IF t = h THEN "FIND_AND_LOCK" ELSE IF t = s THEN "IDLE" ELSE pc[t]
    BY <1>1, <2>1, <2>2, <2>3 DEF TypeOK
  <2>5. TypeOK'
    BY <1>1, <1>2, <2>1, <2>2 DEF TypeOK, Events
  <2>6. PortInv'
    <3>1. /\ Ported' = Ported
          /\ \A t \in Stacks : pc'[t] = "PORT_WAITING" <=> pc[t] = "PORT_WAITING"
      BY <1>1, <2>3, <2>4 DEF Ported
    <3>2. PortAccounting'
      BY <1>1, <3>1 DEF PortInv, PortAccounting
    <3>3. NoIdlePort'
      BY <1>1, <3>1 DEF PortInv, NoIdlePort
    <3> QED BY <3>2, <3>3 DEF PortInv
  <2>7. Assigned'
    BY <1>1, <2>4 DEF DirInv, Assigned
  <2>8. EntryExclusion'
    <3>1. \A t \in Stacks, x \in Entries : Holds(t, x)' <=> Holds(t, x) /\ t # s
      BY <1>1, <2>3, <2>4 DEF Holds
    <3>2. \A x \in Entries : x # e => ~Holds(s, x)
      BY DEF Holds
    <3> QED BY <1>1, <1>2, <1>3, <1>4, <3>1, <3>2 DEF DirInv, EntryExclusion
  <2>9. SleepersQueued'
    <3>1. \A x \in Entries : lockQueue'[x] = IF x = e THEN Tail(q) ELSE lockQueue[x]
      BY <1>1, <2>1 DEF TypeOK
    <3>2. \A x \in Entries : IsInjective(lockQueue'[x])
      BY <1>1, <2>2, <3>1 DEF DirInv, SleepersQueued
    <3>3. ASSUME NEW x \in Entries
          PROVE  Range(lockQueue'[x]) = {t \in Stacks : pc'[t] = "DIR_WAITING" /\ way'[t] = x}
      <4>1. Range(lockQueue[x]) = {t \in Stacks : pc[t] = "DIR_WAITING" /\ way[t] = x}
        BY <1>1 DEF DirInv, SleepersQueued
      <4>2. \A t \in Stacks : pc'[t] = "DIR_WAITING" <=> pc[t] = "DIR_WAITING" /\ t # h
        BY <1>1, <2>4
      <4>3. CASE x = e
        BY <1>1, <2>2, <3>1, <4>1, <4>2, <4>3
      <4>4. CASE x # e
        BY <1>1, <2>3, <3>1, <4>1, <4>2, <4>4
      <4> QED BY <4>3, <4>4
    <3> QED BY <3>2, <3>3 DEF SleepersQueued
  <2>10. NoLostWakeup'
    <3> SUFFICES ASSUME NEW x \in Entries, lockQueue'[x] # <<>>, ~dirLock'[x]
                 PROVE  \E t \in Stacks : way[t] = x /\ pc'[t] \in Coming
      BY <1>1 DEF NoLostWakeup, Coming
    <3>1. CASE x = e
      BY <2>2, <2>3, <2>4, <3>1 DEF Coming
    <3>2. CASE x # e
      <4>1. PICK t \in Stacks : way[t] = x /\ pc[t] \in Coming
        BY <1>1, <1>4, <2>1, <3>2 DEF DirInv, NoLostWakeup, Coming, TypeOK
      <4> QED BY <1>1, <2>4, <4>1 DEF Coming
    <3> QED BY <3>1, <3>2
  <2> QED BY <2>5, <2>6, <2>7, <2>8, <2>9, <2>10 DEF IInv, DirInv
<1> QED BY <1>5, <1>6

LEMMA NextIInv == IInv /\ [Next]_vars => IInv'
<1> SUFFICES ASSUME IInv, [Next]_vars PROVE IInv'
  OBVIOUS
<1>1. CASE Next
  <2>1. ASSUME NEW s \in Stacks, NEW k \in Kinds, Call(s, k) PROVE IInv'
    BY <2>1, CallStep
  <2>2. ASSUME NEW s \in Stacks, Step(s) PROVE IInv'
    BY <2>2, FindAndLockStep, BusyStep, WaitStep, GrantStep, ActionStep, UnlockStep DEF Step
  <2> QED BY <1>1, <2>1, <2>2 DEF Next
<1>2. CASE UNCHANGED vars
  BY <1>2 DEF vars, portVars, dirVars, IInv, TypeOK, PortInv, PortAccounting, NoIdlePort, Ported,
              DirInv, Assigned, EntryExclusion, SleepersQueued, NoLostWakeup, Holds
<1> QED BY <1>1, <1>2

\* The inductive invariant holds in every reachable state of the ports and the
\* directory of a module.
THEOREM Invariance == Spec => []IInv
BY InitIInv, NextIInv, PTL DEF Spec

\* Every field the handlers of FIND_AND_LOCK use keeps its type.
THEOREM TypeCorrect == Spec => []TypeOK
<1>1. IInv => TypeOK
  BY DEF IInv
<1> QED BY <1>1, Invariance, PTL

\* mod_lock_port and mod_unlock_port never trip their assertions: the counter, the port
\* array and the stacks always agree.
THEOREM PortsCorrect == Spec => []PortAccounting
<1>1. IInv => PortAccounting
  BY DEF IInv, PortInv
<1> QED BY <1>1, Invariance, PTL

\* A stack waits for a port only while all of them are taken, and it is on the list once.
THEOREM PortsBusy == Spec => []NoIdlePort
<1>1. IInv => NoIdlePort
  BY DEF IInv, PortInv
<1> QED BY <1>1, Invariance, PTL

\* Two accesses never hold the same directory entry.
THEOREM MutualExclusion == Spec => []EntryExclusion
<1>1. IInv => EntryExclusion
  BY DEF IInv, DirInv
<1> QED BY <1>1, Invariance, PTL

\* A sleeping access is in the queue of its entry, once, so an unlock will find it.
THEOREM NoLostSleeper == Spec => []SleepersQueued
<1>1. IInv => SleepersQueued
  BY DEF IInv, DirInv
<1> QED BY <1>1, Invariance, PTL

\* No wake-up of dir_entry_unlock is lost: a free entry that accesses wait for has one
\* of its former waiters on the way to it, which locks it or finds it locked.
THEOREM WakeupKept == Spec => []NoLostWakeup
<1>1. IInv => NoLostWakeup
  BY DEF IInv, DirInv
<1> QED BY <1>1, Invariance, PTL

-----------------------------------------------------------------------------
(* FindAndLock implements ModuleLocking: every step of a handler is a step   *)
(* of the abstract module or leaves it as it is.                           *)

HolderOK ==
  /\ Holder \in [Entries -> Stacks \union {None}]
  /\ \A s \in Stacks, e \in Entries : Holder[e] = s <=> Holds(s, e)
  /\ \A e \in Entries : Holder[e] = None <=> ~dirLock[e]

LEMMA HolderFacts == IInv => HolderOK
<1> SUFFICES ASSUME TypeOK, EntryExclusion PROVE HolderOK
  BY DEF IInv, DirInv
<1>1. ASSUME NEW e \in Entries, NEW s \in Stacks, Holds(s, e) PROVE Holder[e] = s
  <2>1. Holder[e] = CHOOSE t \in Stacks : Holds(t, e)
    BY <1>1 DEF Holder
  <2>2. Holder[e] \in Stacks /\ Holds(Holder[e], e)
    BY <1>1, <2>1
  <2> QED BY <1>1, <2>2 DEF EntryExclusion
<1>2. ASSUME NEW e \in Entries, ~\E s \in Stacks : Holds(s, e) PROVE Holder[e] = None
  BY <1>2 DEF Holder
<1>3. \A e \in Entries : dirLock[e] <=> \E s \in Stacks : Holds(s, e)
  BY DEF EntryExclusion
<1>4. \A e \in Entries : Holder[e] \in Stacks \union {None}
  BY <1>1, <1>2
<1>5. Holder \in [Entries -> Stacks \union {None}]
  BY <1>4 DEF Holder
<1>6. \A s \in Stacks, e \in Entries : Holder[e] = s <=> Holds(s, e)
  BY <1>1, <1>2, NoneAssumption
<1>7. \A e \in Entries : Holder[e] = None <=> ~dirLock[e]
  BY <1>1, <1>2, <1>3, NoneAssumption
<1> QED BY <1>5, <1>6, <1>7 DEF HolderOK

\* As many stacks are at a port as ports are taken.
LEMMA PortedCount ==
  ASSUME TypeOK, PortAccounting
  PROVE  Cardinality(Ported) = numLocked
<1> DEFINE T == Taken(ports)
           f == [p \in T |-> ports[p]]
<1>1. IsFiniteSet(T) /\ Cardinality(T) = numLocked
  <2>1. IsFiniteSet(Ports) /\ T \in SUBSET Ports
    BY NumPortsAssumption, FS_Interval, SMT DEF Ports, Taken
  <2>2. IsFiniteSet(T)
    BY <2>1, FS_Subset
  <2> QED BY <2>2 DEF PortAccounting, Taken
<1>2. f \in [T -> Ported]
  BY NoneAssumption DEF TypeOK, PortAccounting, Taken
<1>3. \A p, q \in T : f[p] = f[q] => p = q
  <2>1. \A p \in T : p \in Ports /\ ports[p] \in Stacks /\ port[ports[p]] = p
    BY NoneAssumption DEF TypeOK, PortAccounting, Taken
  <2> QED BY <2>1
<1>4. \A s \in Ported : \E p \in T : f[p] = s
  BY NoneAssumption DEF TypeOK, PortAccounting, Taken, Ported
<1>5. f \in Bijection(T, Ported)
  BY <1>2, <1>3, <1>4 DEF Bijection, Injection, Surjection, IsInjective
<1> QED BY <1>1, <1>5, FS_Bijection DEF ExistsBijection

LEMMA SameHolder ==
  ASSUME HolderOK, HolderOK',
         \A s \in Stacks, e \in Entries : Holds(s, e)' <=> Holds(s, e)
  PROVE  Holder' = Holder
BY DEF HolderOK

-----------------------------------------------------------------------------
LEMMA InitAbstract == Init => Abstract!Init
<1> SUFFICES ASSUME Init PROVE Abstract!Init
  OBVIOUS
<1>1. Ported = {}
  BY DEF Init, Ported
<1>2. \A e \in Entries : ~\E s \in Stacks : Holds(s, e)
  BY DEF Init, Holds
<1> QED BY <1>1, <1>2 DEF Abstract!Init, Holder

\* A stack that leaves its port keeps what it holds.
LEMMA LeaveAbstract ==
  ASSUME IInv, HolderOK, HolderOK',
         NEW s \in Stacks, s \in Ported,
         NEW next \in {"IDLE", "DIR_WAITING", "LOCKED"},
         UnlockPort(s, next),
         \A t \in Stacks, e \in Entries : Holds(t, e)' <=> Holds(t, e)
  PROVE  Abstract!Leave(s)
<1>1. Holder' = Holder
  BY SameHolder
<1>2. TypeOK /\ PortInv
  BY DEF IInv
<1>3. CASE portWaiting = <<>>
  <2>1. pc' = [pc EXCEPT ![s] = next]
    BY <1>3 DEF UnlockPort
  <2>2. Ported' = Ported \ {s}
    BY <1>2, <2>1 DEF Ported, TypeOK
  <2> QED BY <1>1, <2>2 DEF Abstract!Leave
<1>4. CASE portWaiting # <<>>
  <2> DEFINE h == Head(portWaiting)
  <2>1. pc' = [pc EXCEPT ![s] = next, ![h] = "FIND_AND_LOCK_PORT"]
    BY <1>4 DEF UnlockPort
  <2>2. h \in Stacks /\ h \in Range(portWaiting)
    BY <1>2, <1>4, TailFacts DEF TypeOK
  <2>3. pc[h] = "PORT_WAITING"
    BY <1>2, <2>2 DEF PortInv, NoIdlePort
  <2>4. h \in Stacks \ Ported /\ Ported' = (Ported \ {s}) \union {h}
    BY <1>2, <2>1, <2>2, <2>3 DEF Ported, TypeOK
  <2> QED BY <1>1, <2>4 DEF Abstract!Leave
<1> QED BY <1>3, <1>4

LEMMA StepAbstract ==
  ASSUME IInv, HolderOK, HolderOK', [Next]_vars
  PROVE  [Abstract!Next]_<<Ported, Holder>>
<1> TypeOK /\ PortInv /\ DirInv
  BY DEF IInv
<1>1. ASSUME NEW s \in Stacks, NEW k \in Kinds, Call(s, k)
      PROVE  UNCHANGED <<Ported, Holder>>
  <2>1. \A t \in Stacks, e \in Entries : Holds(t, e)' <=> Holds(t, e)
    BY <1>1 DEF Call, Holds, TypeOK
  <2>2. Ported' = Ported
    BY <1>1 DEF Call, Ported, TypeOK
  <2> QED BY <2>1, <2>2, SameHolder
<1>2. ASSUME NEW s \in Stacks, FindAndLock(s)
      PROVE  Abstract!Enter(s) \/ UNCHANGED <<Ported, Holder>>
  <2>1. \A t \in Stacks, e \in Entries : Holds(t, e)' <=> Holds(t, e)
    BY <1>2 DEF FindAndLock, Holds, TypeOK
  <2>2. Holder' = Holder
    BY <2>1, SameHolder
  <2>3. CASE numLocked >= NumPorts
    <3>1. Ported' = Ported
      BY <1>2, <2>3, NumPortsAssumption DEF FindAndLock, Ported, TypeOK
    <3> QED BY <2>2, <3>1
  <2>4. CASE numLocked < NumPorts
    <3>1. pc[s] = "FIND_AND_LOCK" /\ pc' = [pc EXCEPT ![s] = "FIND_AND_LOCK_PORT"]
      BY <1>2, <2>4, NumPortsAssumption DEF FindAndLock, TypeOK
    <3>2. s \notin Ported /\ Ported' = Ported \union {s}
      BY <3>1 DEF Ported, TypeOK
    <3>3. Cardinality(Ported) < NumPorts
      BY <2>4, PortedCount DEF PortInv
    <3>4. Abstract!Cardinality(Ported) = Cardinality(Ported)
      BY DEF Abstract!Cardinality, Cardinality
    <3> QED BY <2>2, <3>2, <3>3, <3>4 DEF Abstract!Enter
  <2> QED BY <2>3, <2>4, NumPortsAssumption DEF TypeOK
<1>3. ASSUME NEW s \in Stacks, FindAndLockPortBusy(s)
      PROVE  Abstract!Leave(s)
  <2>1. pc[s] = "FIND_AND_LOCK_PORT" /\ s \in Ported /\ UnlockPort(s, "IDLE") /\ way' = way
    BY <1>3 DEF FindAndLockPortBusy, Ported
  <2>2. PICK next \in {"IDLE", "DIR_WAITING", "LOCKED"} : next = "IDLE"
    OBVIOUS
  <2>3. /\ pc'[s] = "IDLE"
        /\ \A t \in Stacks \ {s} :
             \/ pc'[t] = pc[t]
             \/ pc[t] = "PORT_WAITING" /\ pc'[t] = "FIND_AND_LOCK_PORT"
    BY <2>1, <2>2, UnlockPortFacts
  <2>4. \A t \in Stacks, e \in Entries : Holds(t, e)' <=> Holds(t, e)
    BY <2>1, <2>3 DEF Holds
  <2> QED BY <2>1, <2>2, <2>4, LeaveAbstract
<1>4. ASSUME NEW s \in Stacks, FindAndLockPortWait(s)
      PROVE  Abstract!Leave(s)
  <2>1. /\ pc[s] = "FIND_AND_LOCK_PORT" /\ s \in Ported /\ UnlockPort(s, "DIR_WAITING")
        /\ \A t \in Stacks \ {s} : way'[t] = way[t]
    BY <1>4 DEF FindAndLockPortWait, Ported, TypeOK
  <2>2. PICK next \in {"IDLE", "DIR_WAITING", "LOCKED"} : next = "DIR_WAITING"
    OBVIOUS
  <2>3. /\ pc'[s] = "DIR_WAITING"
        /\ \A t \in Stacks \ {s} :
             \/ pc'[t] = pc[t]
             \/ pc[t] = "PORT_WAITING" /\ pc'[t] = "FIND_AND_LOCK_PORT"
    BY <2>1, <2>2, UnlockPortFacts
  <2>4. \A t \in Stacks, e \in Entries : Holds(t, e)' <=> Holds(t, e)
    BY <2>1, <2>3 DEF Holds
  <2> QED BY <2>1, <2>2, <2>4, LeaveAbstract
<1>5. ASSUME NEW s \in Stacks, FindAndLockPortGrant(s)
      PROVE  \E e \in Entries : Abstract!Lock(s, e)
  <2>1. PICK e \in Entries : /\ ~dirLock[e] /\ way' = [way EXCEPT ![s] = e]
                             /\ pc[s] = "FIND_AND_LOCK_PORT"
                             /\ pc' = [pc EXCEPT ![s] = "FIND_AND_LOCK_ACTION"]
    BY <1>5 DEF FindAndLockPortGrant, Found, TypeOK
  <2>2. \A t \in Stacks, x \in Entries : Holds(t, x)' <=> Holds(t, x) \/ (t = s /\ x = e)
    BY <2>1 DEF Holds, TypeOK
  <2>3. Ported' = Ported /\ s \in Ported
    BY <2>1 DEF Ported, TypeOK
  <2>4. Holder[e] = None /\ \A x \in Entries : Holder[x] # s
    BY <2>1 DEF HolderOK, Holds
  <2>5. Holder'[e] = s /\ \A x \in Entries \ {e} : Holder'[x] = Holder[x]
    BY <2>2 DEF HolderOK
  <2>6. Holder' = [Holder EXCEPT ![e] = s]
    BY <2>5 DEF HolderOK
  <2> QED BY <2>3, <2>4, <2>6 DEF Abstract!Lock
<1>6. ASSUME NEW s \in Stacks, FindAndLockAction(s)
      PROVE  Abstract!Leave(s)
  <2>1. pc[s] = "FIND_AND_LOCK_ACTION" /\ s \in Ported /\ UnlockPort(s, "LOCKED") /\ way' = way
    BY <1>6 DEF FindAndLockAction, Ported
  <2>2. PICK next \in {"IDLE", "DIR_WAITING", "LOCKED"} : next = "LOCKED"
    OBVIOUS
  <2>3. /\ pc'[s] = "LOCKED"
        /\ \A t \in Stacks \ {s} :
             \/ pc'[t] = pc[t]
             \/ pc[t] = "PORT_WAITING" /\ pc'[t] = "FIND_AND_LOCK_PORT"
    BY <2>1, <2>2, UnlockPortFacts
  <2>4. \A t \in Stacks, e \in Entries : Holds(t, e)' <=> Holds(t, e)
    BY <2>1, <2>3 DEF Holds
  <2> QED BY <2>1, <2>2, <2>4, LeaveAbstract
<1>7. ASSUME NEW s \in Stacks, Unlock(s)
      PROVE  \E e \in Entries : Abstract!Unlock(s, e)
  <2> DEFINE e == way[s]
  <2>1. pc[s] = "LOCKED" /\ way' = way /\ e \in Entries /\ Holds(s, e) /\ s \notin Ported
    BY <1>7 DEF Unlock, DirInv, Assigned, Holds, Ported
  <2>2. /\ pc'[s] = "IDLE"
        /\ \A t \in Stacks \ {s} :
             \/ pc'[t] = pc[t]
             \/ pc[t] = "DIR_WAITING" /\ pc'[t] = "FIND_AND_LOCK"
    <3>1. CASE lockQueue[e] = <<>>
      BY <1>7, <3>1 DEF Unlock, TypeOK
    <3>2. CASE lockQueue[e] # <<>>
      <4>1. Head(lockQueue[e]) \in Stacks /\ Head(lockQueue[e]) \in Range(lockQueue[e])
        BY <2>1, <3>2, TailFacts DEF TypeOK
      <4>2. pc[Head(lockQueue[e])] = "DIR_WAITING"
        BY <2>1, <4>1 DEF DirInv, SleepersQueued
      <4> QED BY <1>7, <2>1, <3>2, <4>1, <4>2 DEF Unlock, TypeOK
    <3> QED BY <3>1, <3>2
  <2>3. \A t \in Stacks, x \in Entries : Holds(t, x)' <=> Holds(t, x) /\ t # s
    BY <2>1, <2>2 DEF Holds
  <2>4. Ported' = Ported
    BY <2>1, <2>2 DEF Ported
  <2>5. Holder[e] = s
    BY <2>1 DEF HolderOK
  <2>6. \A t \in Stacks : ~Holds(t, e)'
    BY <2>1, <2>3 DEF DirInv, EntryExclusion
  <2>7. Holder'[e] = None
    BY <2>1, <2>6 DEF HolderOK
  <2>8. \A x \in Entries \ {e} : Holder'[x] = Holder[x]
    BY <2>1, <2>3 DEF HolderOK, Holds
  <2>9. Holder' = [Holder EXCEPT ![e] = None]
    BY <2>1, <2>7, <2>8 DEF HolderOK
  <2> QED BY <2>1, <2>4, <2>5, <2>9 DEF Abstract!Unlock
<1>8. CASE UNCHANGED vars
  <2>1. Ported' = Ported /\ \A t \in Stacks, e \in Entries : Holds(t, e)' <=> Holds(t, e)
    BY <1>8 DEF vars, Ported, Holds
  <2> QED BY <2>1, SameHolder
<1> QED BY <1>1, <1>2, <1>3, <1>4, <1>5, <1>6, <1>7, <1>8 DEF Next, Step, Abstract!Next

\* FIND_AND_LOCK, its port lists, queues and retries included, implements the abstract
\* module for any number of accesses, entries and ports.
THEOREM Refinement == Spec => ImplementsLocking
<1>1. IInv /\ IInv' /\ [Next]_vars => [Abstract!Next]_<<Ported, Holder>>
  <2>1. IInv' => HolderOK'
    BY HolderFacts, PTL
  <2> QED BY <2>1, HolderFacts, StepAbstract
<1> QED BY <1>1, InitAbstract, Invariance, PTL DEF Spec, ImplementsLocking, Abstract!Spec
=============================================================================
