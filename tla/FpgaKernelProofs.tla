--------------------------- MODULE FpgaKernelProofs ---------------------------
(***************************************************************************)
(* Proofs about FpgaKernel, for any number of kernels, programs and tasks. *)
(*                                                                         *)
(* A kernel works on one task, in order of creation: Placed says in which  *)
(* list a task of each state is, and Ordered splits CreationOrder into     *)
(* facts about the two lists and the active task.  A program has at most   *)
(* one unfinished task (OneCall), polls its finish register, still lowered,*)
(* and leaves its arguments alone (Called).                                *)
(***************************************************************************)
EXTENDS FpgaKernel, TLAPS

Unfinished(t) == task[t].state \in {"ready"} \union ActiveStates

Numbered ==
  \A t \in Tasks :
    /\ t < currentPid => task[t].ctx \in Contexts /\ task[t].kernel \in Kernels /\ task[t].state # "none"
    /\ t >= currentPid => task[t].state = "none" /\ task[t].ctx = None

Placed ==
  \A k \in Kernels :
    /\ \A i \in 1..Len(ready[k]) :
         ready[k][i] < currentPid /\ task[ready[k][i]].state = "ready" /\ task[ready[k][i]].kernel = k
    /\ Increasing(ready[k])
    /\ \A i \in 1..Len(finished[k]) :
         finished[k][i] < currentPid /\ task[finished[k][i]].state = "finished"

Ordered ==
  \A k \in Kernels :
    /\ Increasing(finished[k])
    /\ \A i \in 1..Len(finished[k]), j \in 1..Len(ready[k]) : finished[k][i] < ready[k][j]
    /\ \A t \in Active(k) : /\ \A i \in 1..Len(finished[k]) : finished[k][i] < t
                            /\ \A i \in 1..Len(ready[k]) : t < ready[k][i]

Called ==
  \A t \in Tasks : Unfinished(t) =>
    /\ polling[task[t].ctx] = task[t].kernel
    /\ ~finish[task[t].ctx][task[t].kernel]
    /\ task[t].size = args[task[t].ctx][task[t].kernel]

OneCall == \A s, t \in Tasks : Unfinished(s) /\ Unfinished(t) /\ task[s].ctx = task[t].ctx => s = t

Lists      == TypeOK /\ Numbered /\ Placed
KernelInv  == Lists /\ OneTask /\ Ordered
ProgramInv == Lists /\ Called /\ OneCall /\ ArgumentsKept

-----------------------------------------------------------------------------
(* What a step does to the tasks.                                            *)

\* The step changes no task but t.
Only(t) == \A s \in Tasks \ {t} : task'[s] = task[s]

\* Task t moves from one state to another.
Moves(t, from, to) ==
  /\ t \in Tasks /\ Only(t) /\ task' \in [Tasks -> TaskRecords]
  /\ task[t].state = from /\ task'[t].state = to
  /\ task'[t].ctx = task[t].ctx /\ task'[t].kernel = task[t].kernel /\ task'[t].size = task[t].size
  /\ task[t].ctx \in Contexts /\ task[t].kernel \in Kernels

LEMMA CreateFacts ==
  ASSUME TypeOK, NEW c \in Contexts, NEW k \in Kernels, CreateTask(c, k)
  PROVE  /\ currentPid \in Tasks /\ currentPid' = currentPid + 1
         /\ Only(currentPid) /\ task' \in [Tasks -> TaskRecords]
         /\ task'[currentPid] = [state |-> "ready", ctx |-> c, kernel |-> k, size |-> args[c][k],
                                 src |-> None, dst |-> None]
         /\ ready' = [ready EXCEPT ![k] = Append(@, currentPid)]
<1> DEFINE rec == [state |-> "ready", ctx |-> c, kernel |-> k, size |-> args[c][k],
                   src |-> None, dst |-> None]
<1>1. currentPid \in Tasks /\ args[c][k] \in Values /\ task \in [Tasks -> TaskRecords]
  BY DEF TypeOK, CreateTask
<1>2. task' = [task EXCEPT ![currentPid] = rec]
  BY DEF CreateTask
<1>3. rec \in TaskRecords
  BY <1>1 DEF TaskRecords, ActiveStates
<1>4. currentPid' = currentPid + 1 /\ ready' = [ready EXCEPT ![k] = Append(@, currentPid)]
  BY DEF CreateTask, Enqueue
<1>5. Only(currentPid) /\ task' \in [Tasks -> TaskRecords] /\ task'[currentPid] = rec
  <2> HIDE DEF rec
  <2> QED BY <1>1, <1>2, <1>3 DEF Only
<1> QED BY <1>1, <1>4, <1>5

LEMMA ExecuteFacts ==
  ASSUME Lists, NEW k \in Kernels, FPGAKernelExecute(k)
  PROVE  /\ state[k] = "idle" /\ state' = [state EXCEPT ![k] = "running"]
         /\ UNCHANGED <<finished, cpuVars, finish>>
         /\ \/ UNCHANGED <<ready, task>>
            \/ \E t \in Tasks :
                 /\ ready[k] # <<>> /\ t = Head(ready[k]) /\ t < currentPid
                 /\ ready' = [ready EXCEPT ![k] = Tail(@)]
                 /\ Moves(t, "ready", "load") /\ task[t].kernel = k
                 /\ task'[t].src = args[task[t].ctx][k] /\ task'[t].dst = task[t].dst
<1> DEFINE t == Head(ready[k])
<1>1. /\ ready[k] # <<>> /\ state[k] = "idle" /\ state' = [state EXCEPT ![k] = "running"]
      /\ UNCHANGED <<finished, cpuVars, finish>>
  BY DEF FPGAKernelExecute, Available
<1>2. ready[k] \in Seq(Tasks) /\ t = ready[k][1] /\ 1 \in 1..Len(ready[k]) /\ t \in Tasks
  BY <1>1 DEF Lists, TypeOK
<1>3. /\ t < currentPid /\ task[t].state = "ready" /\ task[t].kernel = k
      /\ task[t].ctx \in Contexts /\ task[t] \in TaskRecords /\ task \in [Tasks -> TaskRecords]
  <2>1. task \in [Tasks -> TaskRecords]
    BY DEF Lists, TypeOK
  <2>2. t < currentPid /\ task[t].state = "ready" /\ task[t].kernel = k
    <3> HIDE DEF t
    <3> QED BY <1>2 DEF Lists, Placed
  <2>3. task[t].ctx \in Contexts
    <3> HIDE DEF t
    <3> QED BY <1>2, <2>2 DEF Lists, Numbered
  <2> HIDE DEF t
  <2> QED BY <1>2, <2>1, <2>2, <2>3
<1>4. CASE UNCHANGED <<ready, task>>
  BY <1>1, <1>4
<1>5. CASE /\ ready' = [ready EXCEPT ![k] = Tail(@)]
           /\ task' = [task EXCEPT ![t].state = "load", ![t].src = args[task[t].ctx][k]]
  <2> DEFINE rec == [task[t] EXCEPT !.state = "load", !.src = args[task[t].ctx][k]]
  <2>1. args[task[t].ctx][k] \in Values
    BY <1>3 DEF Lists, TypeOK
  <2>2. rec \in TaskRecords /\ rec.state = "load" /\ rec.src = args[task[t].ctx][k]
        /\ rec.ctx = task[t].ctx /\ rec.kernel = k /\ rec.size = task[t].size /\ rec.dst = task[t].dst
    BY <1>3, <2>1 DEF TaskRecords, ActiveStates
  <2>3. task' = [task EXCEPT ![t] = rec]
    BY <1>2, <1>3, <1>5
  <2>4. Only(t) /\ task'[t] = rec /\ task' \in [Tasks -> TaskRecords]
    <3> HIDE DEF rec, t
    <3> QED BY <1>2, <1>3, <2>2, <2>3 DEF Only
  <2> HIDE DEF rec
  <2> QED BY <1>1, <1>2, <1>3, <1>5, <2>2, <2>4, ZenonT(60) DEF Moves
<1> QED
  BY <1>1, <1>4, <1>5 DEF FPGAKernelExecute

LEMMA EventFacts ==
  ASSUME Lists, NEW t \in Tasks, TaskEvent(t)
  PROVE  /\ UNCHANGED <<ready, cpuVars>> /\ t < currentPid /\ task[t].state \in ActiveStates
         /\ \/ /\ Moves(t, "load", "executing") \/ Moves(t, "executing", "store")
               /\ UNCHANGED <<state, finished, finish>>
            \/ /\ Moves(t, "store", "finished")
               /\ state' = [state EXCEPT ![task[t].kernel] = "idle"]
               /\ finished' = [finished EXCEPT ![task[t].kernel] = Append(@, t)]
               /\ finish' = [finish EXCEPT ![task[t].ctx][task[t].kernel] = TRUE]
         /\ task'[t].src = task[t].src
         /\ task'[t].dst \in {task[t].dst, args[task[t].ctx][task[t].kernel]}
<1>1. task[t].state \in ActiveStates /\ task[t] \in TaskRecords /\ task \in [Tasks -> TaskRecords]
  BY DEF TaskEvent, FPGATaskExecute, FPGATaskStoreData, FPGATaskFinish, ActiveStates, Lists, TypeOK
<1>2. t < currentPid /\ task[t].ctx \in Contexts /\ task[t].kernel \in Kernels
  <2>1. t \in Nat /\ currentPid \in Nat
    BY DEF Lists, TypeOK, Tasks
  <2>2. task[t].state # "none"
    BY <1>1 DEF ActiveStates
  <2>3. t < currentPid
    BY <2>1, <2>2 DEF Lists, Numbered
  <2> QED BY <2>3 DEF Lists, Numbered
<1>3. CASE FPGATaskExecute(t)
  <2> DEFINE rec == [task[t] EXCEPT !.state = "executing"]
  <2>1. rec \in TaskRecords /\ rec.state = "executing" /\ rec.src = task[t].src
        /\ rec.ctx = task[t].ctx /\ rec.kernel = task[t].kernel /\ rec.size = task[t].size
        /\ rec.dst = task[t].dst
    BY <1>1 DEF TaskRecords, ActiveStates
  <2>2. task' = [task EXCEPT ![t] = rec]
    BY <1>3 DEF FPGATaskExecute
  <2> HIDE DEF rec
  <2>3. Only(t) /\ task'[t] = rec /\ task' \in [Tasks -> TaskRecords]
    BY <1>1, <2>1, <2>2 DEF Only
  <2>4. Moves(t, "load", "executing")
    BY <1>2, <1>3, <2>1, <2>3 DEF Moves, FPGATaskExecute
  <2> QED BY <1>1, <1>2, <1>3, <2>1, <2>3, <2>4 DEF FPGATaskExecute
<1>4. CASE FPGATaskStoreData(t)
  <2> DEFINE v == args[task[t].ctx][task[t].kernel]
             rec == [task[t] EXCEPT !.state = "store", !.dst = v]
  <2>0. v \in Values
    BY <1>2 DEF Lists, TypeOK
  <2>1. rec \in TaskRecords /\ rec.state = "store" /\ rec.src = task[t].src
        /\ rec.ctx = task[t].ctx /\ rec.kernel = task[t].kernel /\ rec.size = task[t].size
        /\ rec.dst = v
    BY <1>1, <2>0 DEF TaskRecords, ActiveStates
  <2>2. task' = [task EXCEPT ![t] = rec]
    BY <1>1, <1>4 DEF FPGATaskStoreData
  <2> HIDE DEF rec
  <2>3. Only(t) /\ task'[t] = rec /\ task' \in [Tasks -> TaskRecords]
    BY <1>1, <2>1, <2>2 DEF Only
  <2>4. Moves(t, "executing", "store")
    BY <1>2, <1>4, <2>1, <2>3 DEF Moves, FPGATaskStoreData
  <2> QED BY <1>1, <1>2, <1>4, <2>1, <2>3, <2>4 DEF FPGATaskStoreData
<1>5. CASE FPGATaskFinish(t)
  <2> DEFINE rec == [task[t] EXCEPT !.state = "finished"]
  <2>1. rec \in TaskRecords /\ rec.state = "finished" /\ rec.src = task[t].src
        /\ rec.ctx = task[t].ctx /\ rec.kernel = task[t].kernel /\ rec.size = task[t].size
        /\ rec.dst = task[t].dst
    BY <1>1 DEF TaskRecords, ActiveStates
  <2>2. task' = [task EXCEPT ![t] = rec]
    BY <1>5 DEF FPGATaskFinish
  <2> HIDE DEF rec
  <2>3. Only(t) /\ task'[t] = rec /\ task' \in [Tasks -> TaskRecords]
    BY <1>1, <2>1, <2>2 DEF Only
  <2>4. Moves(t, "store", "finished")
    BY <1>2, <1>5, <2>1, <2>3 DEF Moves, FPGATaskFinish
  <2> QED BY <1>1, <1>2, <1>5, <2>1, <2>3, <2>4 DEF FPGATaskFinish
<1> QED BY <1>3, <1>4, <1>5 DEF TaskEvent

-----------------------------------------------------------------------------
(* Types, numbers and lists.                                                 *)

LEMMA AppendIncreasing ==
  ASSUME NEW q \in Seq(Tasks), NEW t \in Tasks
  PROVE  /\ Append(q, t) \in Seq(Tasks) /\ Len(Append(q, t)) = Len(q) + 1 /\ Len(q) \in Nat
         /\ \A i \in 1..Len(q) : Append(q, t)[i] = q[i] /\ q[i] \in Tasks
         /\ Append(q, t)[Len(q) + 1] = t
         /\ Increasing(q) /\ (\A i \in 1..Len(q) : q[i] < t) => Increasing(Append(q, t))
<1>1. /\ Append(q, t) \in Seq(Tasks) /\ Len(Append(q, t)) = Len(q) + 1 /\ Len(q) \in Nat
      /\ \A i \in 1..Len(q) : Append(q, t)[i] = q[i] /\ q[i] \in Tasks
      /\ Append(q, t)[Len(q) + 1] = t
  OBVIOUS
<1>2. ASSUME Increasing(q), \A i \in 1..Len(q) : q[i] < t,
             NEW i \in 1..Len(Append(q, t)), NEW j \in 1..Len(Append(q, t)), i < j
      PROVE  Append(q, t)[i] < Append(q, t)[j]
  <2>1. i \in 1..Len(q) /\ (j \in 1..Len(q) \/ j = Len(q) + 1)
    BY <1>1, <1>2
  <2> QED BY <1>1, <1>2, <2>1 DEF Increasing
<1> QED BY <1>1, <1>2 DEF Increasing

LEMMA TailIncreasing ==
  ASSUME NEW q \in Seq(Tasks), q # <<>>, Increasing(q)
  PROVE  /\ Tail(q) \in Seq(Tasks) /\ Len(Tail(q)) = Len(q) - 1 /\ Len(q) \in Nat \ {0}
         /\ Head(q) = q[1] /\ q[1] \in Tasks
         /\ \A i \in 1..Len(Tail(q)) : /\ i + 1 \in 1..Len(q) /\ Tail(q)[i] = q[i + 1]
                                       /\ Head(q) < Tail(q)[i] /\ Tail(q)[i] \in Tasks
         /\ Increasing(Tail(q))
<1>1. /\ Tail(q) \in Seq(Tasks) /\ Len(Tail(q)) = Len(q) - 1 /\ Len(q) \in Nat \ {0}
      /\ Head(q) = q[1] /\ q[1] \in Tasks
      /\ \A i \in 1..Len(Tail(q)) : Tail(q)[i] = q[i + 1]
  OBVIOUS
<1>2. \A i \in 1..Len(Tail(q)) : i + 1 \in 1..Len(q) /\ q[i + 1] \in Tasks /\ 1 \in 1..Len(q)
  BY <1>1
<1>3. \A i \in 1..Len(Tail(q)) : q[1] < q[i + 1]
  BY <1>1, <1>2 DEF Increasing
<1>4. Increasing(Tail(q))
  BY <1>1, <1>2 DEF Increasing
<1> QED BY <1>1, <1>2, <1>3, <1>4

LEMMA InitLists == Init => Lists
  BY BoundsAssumption DEF Init, Lists, TypeOK, TaskRecords, NoTask, Tasks, Numbered, Placed, Increasing

LEMMA NextLists == Lists /\ [Next]_vars => Lists'
<1> SUFFICES ASSUME Lists, [Next]_vars PROVE Lists'
  OBVIOUS
<1>1. ASSUME UNCHANGED <<emuVars, currentPid>>,
             \/ \E c \in Contexts, k \in Kernels, v \in Values : WriteArgs(c, k, v)
             \/ \E c \in Contexts : Flush(c) \/ FlushFinish(c) \/ SeeFinish(c)
             \/ CpuStop \/ UNCHANGED vars
      PROVE  Lists'
  <2>1. ASSUME NEW c \in Contexts, NEW k \in Kernels, NEW v \in Values, WriteArgs(c, k, v)
        PROVE  TypeOK'
    BY <2>1 DEF Lists, TypeOK, WriteArgs, emuVars
  <2>2. ASSUME NEW c \in Contexts, Flush(c) \/ FlushFinish(c) \/ SeeFinish(c) PROVE TypeOK'
    <3>1. flush' \in [Contexts -> Nat] /\ polling' \in [Contexts -> Kernels \union {None}]
      <4>1. CASE Flush(c)
        BY <4>1 DEF Lists, TypeOK, Flush
      <4>2. CASE FlushFinish(c)
        <5>1. flush[c] \in Nat /\ flush[c] > 0
          BY <4>2 DEF Lists, TypeOK, FlushFinish
        <5>2. flush[c] - 1 \in Nat
          BY <5>1
        <5> QED BY <4>2, <5>2 DEF Lists, TypeOK, FlushFinish
      <4>3. CASE SeeFinish(c)
        BY <4>3 DEF Lists, TypeOK, SeeFinish
      <4> QED BY <2>2, <4>1, <4>2, <4>3
    <3>2. UNCHANGED <<emuVars, finish, currentPid, args, cpuRunning>>
      BY <2>2 DEF Flush, FlushFinish, SeeFinish
    <3> QED BY <3>1, <3>2 DEF Lists, TypeOK, emuVars
  <2>3. ASSUME CpuStop \/ UNCHANGED vars PROVE TypeOK'
    BY <2>3 DEF Lists, TypeOK, CpuStop, emuVars, cpuVars, vars
  <2> QED BY <1>1, <2>1, <2>2, <2>3 DEF Lists, Numbered, Placed, emuVars
<1>2. ASSUME NEW c \in Contexts, NEW k \in Kernels, CreateTask(c, k) PROVE Lists'
  <2>1. /\ currentPid \in Tasks /\ currentPid' = currentPid + 1
        /\ Only(currentPid) /\ task' \in [Tasks -> TaskRecords]
        /\ task'[currentPid] = [state |-> "ready", ctx |-> c, kernel |-> k, size |-> args[c][k],
                                src |-> None, dst |-> None]
        /\ ready' = [ready EXCEPT ![k] = Append(@, currentPid)]
    BY <1>2, CreateFacts DEF Lists
  <2>2. TypeOK /\ UNCHANGED <<state, finished, flush, args, cpuRunning>>
    BY <1>2 DEF CreateTask, Lists
  <2>3. ready[k] \in Seq(Tasks) /\ \A i \in 1..Len(ready[k]) : ready[k][i] < currentPid
    BY DEF Lists, TypeOK, Placed
  <2>4. TypeOK'
    <3>1. ready' \in [Kernels -> Seq(Tasks)]
      BY <2>1, <2>2, <2>3, AppendIncreasing DEF TypeOK
    <3>2. currentPid' \in 1 .. MaxTasks + 1
      BY <2>1, BoundsAssumption DEF Tasks
    <3>3. finish' \in [Contexts -> [Kernels -> BOOLEAN]] /\ polling' \in [Contexts -> Kernels \union {None}]
      BY <1>2, <2>2 DEF CreateTask, TypeOK
    <3> QED BY <2>1, <2>2, <3>1, <3>2, <3>3 DEF TypeOK
  <2>5. Numbered'
    <3> SUFFICES ASSUME NEW t \in Tasks
                 PROVE /\ t < currentPid' => /\ task'[t].ctx \in Contexts /\ task'[t].kernel \in Kernels
                                             /\ task'[t].state # "none"
                       /\ t >= currentPid' => task'[t].state = "none" /\ task'[t].ctx = None
      BY DEF Numbered
    <3>1. CASE t = currentPid
      BY <2>1, <3>1 DEF Tasks
    <3>2. CASE t # currentPid
      BY <2>1, <3>2 DEF Only, Lists, Numbered, Tasks
    <3> QED BY <3>1, <3>2
  <2>6. Placed'
    <3> SUFFICES ASSUME NEW k2 \in Kernels
                 PROVE /\ \A i \in 1..Len(ready'[k2]) :
                            /\ ready'[k2][i] < currentPid' /\ task'[ready'[k2][i]].state = "ready"
                            /\ task'[ready'[k2][i]].kernel = k2
                       /\ Increasing(ready'[k2])
                       /\ \A i \in 1..Len(finished'[k2]) :
                            /\ finished'[k2][i] < currentPid' /\ task'[finished'[k2][i]].state = "finished"
      BY DEF Placed, Increasing
    <3>1. /\ ready[k2] \in Seq(Tasks) /\ finished[k2] \in Seq(Tasks)
          /\ \A i \in 1..Len(ready[k2]) : ready[k2][i] \in Tasks /\ ready[k2][i] < currentPid
          /\ \A i \in 1..Len(finished[k2]) : finished[k2][i] \in Tasks /\ finished[k2][i] < currentPid
      BY DEF Lists, TypeOK, Placed
    <3>2. \A s \in Tasks : s < currentPid => task'[s] = task[s] /\ s < currentPid'
      BY <2>1 DEF Only, Tasks
    <3>3. \A i \in 1..Len(finished'[k2]) :
            finished'[k2][i] < currentPid' /\ task'[finished'[k2][i]].state = "finished"
      BY <2>2, <3>1, <3>2 DEF Lists, Placed
    <3>4. CASE k2 = k
      <4>1. ready'[k2] = Append(ready[k], currentPid) /\ currentPid < currentPid'
        BY <2>1, <2>2, <3>4 DEF TypeOK, Tasks
      <4>2. Increasing(ready[k]) /\ \A i \in 1..Len(ready[k]) :
              task[ready[k][i]].state = "ready" /\ task[ready[k][i]].kernel = k
        BY DEF Lists, Placed
      <4>3. Increasing(ready'[k2])
        BY <2>1, <2>3, <4>1, <4>2, AppendIncreasing, ZenonT(60)
      <4>4. ASSUME NEW i \in 1..Len(ready'[k2])
            PROVE  /\ ready'[k2][i] < currentPid' /\ task'[ready'[k2][i]].state = "ready"
                   /\ task'[ready'[k2][i]].kernel = k2
        <5>1. i \in 1..Len(ready[k]) \/ i = Len(ready[k]) + 1
          BY <2>1, <2>3, <4>1, AppendIncreasing
        <5>2. CASE i \in 1..Len(ready[k])
          <6>1. ready'[k2][i] = ready[k][i]
            BY <2>1, <2>3, <4>1, <5>2, AppendIncreasing, SMTT(30)
          <6> QED BY <3>1, <3>2, <3>4, <4>2, <5>2, <6>1
        <5>3. CASE i = Len(ready[k]) + 1
          <6>1. ready'[k2][i] = currentPid
            BY <2>1, <2>3, <4>1, <5>3, AppendIncreasing
          <6> QED BY <2>1, <3>4, <4>1, <6>1
        <5> QED BY <5>1, <5>2, <5>3
      <4> QED BY <3>3, <4>3, <4>4
    <3>5. CASE k2 # k
      <4>1. ready'[k2] = ready[k2]
        BY <2>1, <2>2, <3>5 DEF TypeOK
      <4> QED BY <3>1, <3>2, <3>3, <4>1 DEF Lists, Placed
    <3> QED BY <3>4, <3>5
  <2> QED BY <2>4, <2>5, <2>6 DEF Lists
<1>3. ASSUME NEW k \in Kernels, FPGAKernelExecute(k) PROVE Lists'
  <2>1. /\ state' = [state EXCEPT ![k] = "running"] /\ UNCHANGED <<finished, cpuVars, finish>>
        /\ TypeOK
    BY <1>3, ExecuteFacts DEF Lists
  <2>2. CASE UNCHANGED <<ready, task>>
    BY <2>1, <2>2 DEF Lists, TypeOK, Numbered, Placed, cpuVars
  <2>3. ASSUME NEW t \in Tasks, ready[k] # <<>>, t = Head(ready[k]), t < currentPid,
               ready' = [ready EXCEPT ![k] = Tail(@)], Moves(t, "ready", "load"), task[t].kernel = k
        PROVE  Lists'
    <3>1. /\ ready[k] \in Seq(Tasks) /\ Increasing(ready[k])
          /\ Tail(ready[k]) \in Seq(Tasks) /\ Increasing(Tail(ready[k]))
      BY <2>3, TailIncreasing DEF Lists, TypeOK, Placed
    <3>2. TypeOK'
      BY <2>1, <2>3, <3>1 DEF TypeOK, Moves, cpuVars
    <3>3. Numbered'
      BY <2>1, <2>3 DEF Lists, Numbered, Moves, Only, cpuVars, TypeOK, Tasks
    <3>4. ASSUME NEW k2 \in Kernels
          PROVE /\ \A i \in 1..Len(ready'[k2]) :
                     /\ ready'[k2][i] < currentPid' /\ task'[ready'[k2][i]].state = "ready"
                     /\ task'[ready'[k2][i]].kernel = k2
                /\ Increasing(ready'[k2])
                /\ \A i \in 1..Len(finished'[k2]) :
                     /\ finished'[k2][i] < currentPid' /\ task'[finished'[k2][i]].state = "finished"
      <4>1. /\ ready[k2] \in Seq(Tasks) /\ finished[k2] \in Seq(Tasks)
            /\ \A i \in 1..Len(ready[k2]) : ready[k2][i] \in Tasks
            /\ \A i \in 1..Len(finished[k2]) : finished[k2][i] \in Tasks
        BY DEF Lists, TypeOK
      <4>2. \A i \in 1..Len(finished'[k2]) :
              finished'[k2][i] < currentPid' /\ task'[finished'[k2][i]].state = "finished"
        <5>1. ASSUME NEW i \in 1..Len(finished[k2])
              PROVE  finished[k2][i] < currentPid /\ task'[finished[k2][i]].state = "finished"
          <6>1. finished[k2][i] < currentPid /\ task[finished[k2][i]].state = "finished"
            BY DEF Lists, Placed
          <6>2. finished[k2][i] # t
            BY <2>3, <6>1 DEF Moves
          <6> QED BY <2>3, <4>1, <6>1, <6>2 DEF Moves, Only
        <5> QED BY <2>1, <5>1 DEF cpuVars
      <4>3. CASE k2 = k
        <5>1. ready'[k2] = Tail(ready[k])
          BY <2>1, <2>3, <4>3 DEF TypeOK
        <5>2. \A i \in 1..Len(Tail(ready[k])) :
                /\ i + 1 \in 1..Len(ready[k]) /\ Tail(ready[k])[i] = ready[k][i + 1]
                /\ t < Tail(ready[k])[i] /\ Tail(ready[k])[i] \in Tasks
          BY <2>3, <3>1, TailIncreasing
        <5>3. ASSUME NEW i \in 1..Len(Tail(ready[k]))
              PROVE  LET s == Tail(ready[k])[i]
                     IN  s < currentPid' /\ task'[s].state = "ready" /\ task'[s].kernel = k
          <6> DEFINE s == Tail(ready[k])[i]
          <6>1. s = ready[k][i + 1] /\ i + 1 \in 1..Len(ready[k]) /\ t < s /\ s \in Tasks
            BY <5>2
          <6>2. s < currentPid /\ task[s].state = "ready" /\ task[s].kernel = k
            BY <6>1 DEF Lists, Placed
          <6>3. task'[s] = task[s]
            <7> HIDE DEF s
            <7> QED BY <2>3, <6>1 DEF Moves, Only, Tasks
          <6> QED BY <2>1, <6>2, <6>3 DEF cpuVars
        <5> QED BY <3>1, <4>2, <4>3, <5>1, <5>3
      <4>4. CASE k2 # k
        <5>1. ready'[k2] = ready[k2]
          BY <2>1, <2>3, <4>4 DEF TypeOK
        <5>2. \A i \in 1..Len(ready[k2]) : task'[ready[k2][i]] = task[ready[k2][i]]
          BY <2>3, <4>1, <4>4 DEF Lists, Placed, Moves, Only
        <5> QED BY <2>1, <4>2, <5>1, <5>2 DEF Lists, Placed, cpuVars
      <4> QED BY <4>3, <4>4
    <3>5. Placed'
      BY <3>4 DEF Placed, Increasing
    <3> QED BY <3>2, <3>3, <3>5 DEF Lists
  <2> QED BY <1>3, <2>2, <2>3, ExecuteFacts
<1>4. ASSUME NEW t \in Tasks, TaskEvent(t) PROVE Lists'
  <2>1. /\ UNCHANGED <<ready, cpuVars>> /\ t < currentPid /\ task[t].state \in ActiveStates
        /\ TypeOK
    BY <1>4, EventFacts DEF Lists
  <2>2. ASSUME NEW to \in {"executing", "store", "finished"}, Moves(t, task[t].state, to)
        PROVE  /\ Numbered'
               /\ \A k \in Kernels :
                    /\ \A i \in 1..Len(ready[k]) :
                         task'[ready[k][i]].state = "ready" /\ task'[ready[k][i]].kernel = k
                    /\ \A i \in 1..Len(finished[k]) : task'[finished[k][i]].state = "finished"
    <3>1. Numbered'
      <4> SUFFICES ASSUME NEW s \in Tasks
                   PROVE /\ s < currentPid => /\ task'[s].ctx \in Contexts /\ task'[s].kernel \in Kernels
                                              /\ task'[s].state # "none"
                         /\ s >= currentPid => task'[s].state = "none" /\ task'[s].ctx = None
        BY <2>1 DEF Numbered, cpuVars
      <4>1. CASE s = t
        BY <2>1, <2>2, <4>1 DEF Moves, TypeOK, Tasks
      <4>2. CASE s # t
        BY <2>2, <4>2 DEF Moves, Only, Lists, Numbered
      <4> QED BY <4>1, <4>2
    <3>2. ASSUME NEW k \in Kernels, NEW i \in 1..Len(ready[k])
          PROVE  task'[ready[k][i]].state = "ready" /\ task'[ready[k][i]].kernel = k
      <4>1. ready[k][i] \in Tasks /\ task[ready[k][i]].state = "ready" /\ task[ready[k][i]].kernel = k
        BY DEF Lists, TypeOK, Placed
      <4>2. ready[k][i] # t
        BY <2>1, <4>1 DEF ActiveStates
      <4> QED BY <2>2, <4>1, <4>2 DEF Moves, Only
    <3>3. ASSUME NEW k \in Kernels, NEW i \in 1..Len(finished[k])
          PROVE  task'[finished[k][i]].state = "finished"
      <4>1. finished[k][i] \in Tasks /\ task[finished[k][i]].state = "finished"
        BY DEF Lists, TypeOK, Placed
      <4>2. finished[k][i] # t
        BY <2>1, <4>1 DEF ActiveStates
      <4> QED BY <2>2, <4>1, <4>2 DEF Moves, Only
    <3> QED BY <3>1, <3>2, <3>3
  <2>3. CASE /\ Moves(t, "load", "executing") \/ Moves(t, "executing", "store")
             /\ UNCHANGED <<state, finished, finish>>
    <3>1. TypeOK'
      BY <2>1, <2>3 DEF TypeOK, Moves, cpuVars
    <3>2. Numbered' /\ Placed'
      BY <2>1, <2>2, <2>3 DEF Moves, Lists, Placed, cpuVars
    <3> QED BY <3>1, <3>2 DEF Lists
  <2>4. CASE /\ Moves(t, "store", "finished")
             /\ state' = [state EXCEPT ![task[t].kernel] = "idle"]
             /\ finished' = [finished EXCEPT ![task[t].kernel] = Append(@, t)]
             /\ finish' = [finish EXCEPT ![task[t].ctx][task[t].kernel] = TRUE]
    <3> DEFINE k == task[t].kernel
    <3>1. /\ k \in Kernels /\ finished[k] \in Seq(Tasks)
          /\ Append(finished[k], t) \in Seq(Tasks) /\ Len(Append(finished[k], t)) = Len(finished[k]) + 1
          /\ Len(finished[k]) \in Nat /\ Append(finished[k], t)[Len(finished[k]) + 1] = t
          /\ \A i \in 1..Len(finished[k]) : Append(finished[k], t)[i] = finished[k][i]
      BY <2>4, AppendIncreasing DEF Moves, Lists, TypeOK
    <3>2. TypeOK'
      BY <2>1, <2>4, <3>1 DEF TypeOK, Moves, cpuVars
    <3>3. Numbered' /\ task[t].state = "store" /\ task'[t].state = "finished"
      BY <2>2, <2>4 DEF Moves
    <3>4. ASSUME NEW k2 \in Kernels, NEW i \in 1..Len(finished'[k2])
          PROVE  finished'[k2][i] < currentPid /\ task'[finished'[k2][i]].state = "finished"
      <4>1. CASE k2 # k
        <5>1. finished'[k2] = finished[k2]
          BY <2>4, <3>1, <4>1 DEF Lists, TypeOK
        <5>2. task'[finished[k2][i]].state = "finished"
          BY <2>2, <2>4, <3>3, <3>4, <5>1
        <5>3. finished[k2][i] < currentPid
          BY <3>4, <5>1 DEF Lists, Placed
        <5> QED BY <5>1, <5>2, <5>3
      <4>2. CASE k2 = k
        <5>1. finished'[k2] = Append(finished[k], t)
          BY <2>1, <2>4, <3>1, <4>2 DEF TypeOK
        <5>2. i \in 1..Len(finished[k]) \/ i = Len(finished[k]) + 1
          BY <3>1, <3>4, <5>1
        <5>3. CASE i \in 1..Len(finished[k])
          <6>1. finished'[k2][i] = finished[k][i]
            BY <3>1, <5>1, <5>3
          <6>2. finished[k][i] < currentPid /\ task'[finished[k][i]].state = "finished"
            BY <2>2, <2>4, <3>1, <3>3, <5>3 DEF Lists, Placed
          <6> QED BY <6>1, <6>2
        <5>4. CASE i = Len(finished[k]) + 1
          BY <2>1, <3>1, <3>3, <5>1, <5>4
        <5> QED BY <5>2, <5>3, <5>4
      <4> QED BY <4>1, <4>2
    <3>5. Placed'
      <4>1. ready' = ready /\ currentPid' = currentPid
        BY <2>1 DEF cpuVars
      <4>2. ASSUME NEW k2 \in Kernels, NEW i \in 1..Len(ready[k2])
            PROVE  /\ ready[k2][i] < currentPid
                   /\ task'[ready[k2][i]].state = "ready" /\ task'[ready[k2][i]].kernel = k2
        <5>1. ready[k2][i] < currentPid
          BY DEF Lists, Placed
        <5>2. Moves(t, task[t].state, "finished")
          BY <2>4, <3>3
        <5> QED BY <2>2, <5>1, <5>2
      <4>3. \A k2 \in Kernels : Increasing(ready[k2])
        BY DEF Lists, Placed
      <4> QED BY <3>4, <4>1, <4>2, <4>3 DEF Placed
    <3> QED BY <3>2, <3>3, <3>5 DEF Lists
  <2> QED BY <1>4, <2>3, <2>4, EventFacts
<1>5. ASSUME \/ \E c \in Contexts, k \in Kernels, v \in Values : WriteArgs(c, k, v)
             \/ \E c \in Contexts : Flush(c) \/ FlushFinish(c) \/ SeeFinish(c)
             \/ CpuStop \/ UNCHANGED vars
      PROVE  Lists'
  <2>1. UNCHANGED <<emuVars, currentPid>>
    BY <1>5 DEF WriteArgs, Flush, FlushFinish, SeeFinish, CpuStop, vars, emuVars, cpuVars
  <2> QED BY <1>1, <1>5, <2>1
<1> QED
  BY <1>2, <1>3, <1>4, <1>5 DEF Next, Program

-----------------------------------------------------------------------------
(* One task at a time, in order of creation.                                 *)

\* No task becomes active but one that is taken from the ready list.
LEMMA ActiveFacts ==
  ASSUME NEW t \in Tasks, Only(t), NEW k \in Kernels
  PROVE  /\ Active(k) \subseteq Tasks /\ Active(k)' \subseteq Tasks
         /\ \A s \in Tasks \ {t} : s \in Active(k)' <=> s \in Active(k)
         /\ t \in Active(k)' <=> task'[t].state \in ActiveStates /\ task'[t].kernel = k
  BY DEF Active, Only, ActiveStates

LEMMA NextKernel == KernelInv /\ [Next]_vars => OneTask' /\ Ordered'
<1> SUFFICES ASSUME KernelInv, [Next]_vars PROVE OneTask' /\ Ordered'
  OBVIOUS
<1> USE DEF KernelInv
<1>1. ASSUME UNCHANGED emuVars PROVE OneTask' /\ Ordered'
  BY <1>1 DEF emuVars, OneTask, Ordered, Active, Increasing
<1>2. ASSUME NEW c \in Contexts, NEW k \in Kernels, CreateTask(c, k) PROVE OneTask' /\ Ordered'
  <2>1. /\ currentPid \in Tasks /\ Only(currentPid) /\ task'[currentPid].state = "ready"
        /\ ready' = [ready EXCEPT ![k] = Append(@, currentPid)]
        /\ UNCHANGED <<state, finished>>
    BY <1>2, CreateFacts DEF Lists, CreateTask
  <2>2. ASSUME NEW k2 \in Kernels PROVE Active(k2)' = Active(k2)
    <3>1. task[currentPid].state = "none"
      BY <2>1 DEF Lists, Numbered, Tasks
    <3> QED BY <2>1, <3>1 DEF Active, ActiveStates, Only
  <2>3. OneTask'
    BY <2>1, <2>2 DEF OneTask
  <2>4. ASSUME NEW k2 \in Kernels, NEW j \in 1..Len(ready'[k2])
        PROVE  \/ j \in 1..Len(ready[k2]) /\ ready'[k2][j] = ready[k2][j]
               \/ ready'[k2][j] = currentPid
    <3>1. CASE k2 = k
      <4>1. ready'[k2] = Append(ready[k2], currentPid) /\ ready[k2] \in Seq(Tasks)
        BY <2>1, <3>1 DEF Lists, TypeOK
      <4>2. j \in 1..Len(ready[k2]) \/ j = Len(ready[k2]) + 1
        BY <2>1, <2>4, <4>1, AppendIncreasing
      <4> QED BY <2>1, <4>1, <4>2, AppendIncreasing
    <3>2. CASE k2 # k
      BY <2>1, <2>4, <3>2 DEF Lists, TypeOK
    <3> QED BY <3>1, <3>2
  <2>5. ASSUME NEW k2 \in Kernels PROVE \A t \in Active(k2) : t < currentPid
    BY DEF Active, ActiveStates, Lists, Numbered, TypeOK, Tasks
  <2>6. Ordered'
    BY <2>1, <2>2, <2>4, <2>5, SMTT(30) DEF Ordered, Lists, Placed, Increasing
  <2> QED BY <2>3, <2>6
<1>3. ASSUME NEW k \in Kernels, FPGAKernelExecute(k) PROVE OneTask' /\ Ordered'
  <2>1. state[k] = "idle" /\ state' = [state EXCEPT ![k] = "running"] /\ finished' = finished
    BY <1>3, ExecuteFacts DEF cpuVars
  <2>2. \A k2 \in Kernels : state'[k2] = "idle" => state[k2] = "idle"
    BY <2>1 DEF Lists, TypeOK
  <2>3. CASE UNCHANGED <<ready, task>>
    BY <2>1, <2>2, <2>3 DEF OneTask, Ordered, Active, Increasing
  <2>4. ASSUME NEW t \in Tasks, ready[k] # <<>>, t = Head(ready[k]), ready' = [ready EXCEPT ![k] = Tail(@)],
               Moves(t, "ready", "load"), task[t].kernel = k
        PROVE  OneTask' /\ Ordered'
    <3>1. Active(k) = {} /\ Active(k)' = {t}
      <4>1. Active(k) = {}
        BY <2>1 DEF OneTask
      <4> QED BY <2>4, <4>1, ActiveFacts DEF Moves, ActiveStates
    <3>2. ASSUME NEW k2 \in Kernels, k2 # k PROVE Active(k2)' = Active(k2) /\ ready'[k2] = ready[k2]
      <4>1. t \notin Active(k2) /\ t \notin Active(k2)'
        BY <2>4, <3>2 DEF Moves, Active
      <4>2. Active(k2)' = Active(k2)
        <5>1. Only(t)
          BY <2>4 DEF Moves
        <5> QED BY <4>1, <5>1, ActiveFacts
      <4> QED BY <2>4, <3>2, <4>2 DEF Lists, TypeOK
    <3>3. OneTask'
      <4>1. state'[k] # "idle"
        BY <2>1 DEF Lists, TypeOK
      <4> QED BY <2>2, <3>1, <3>2, <4>1 DEF OneTask
    <3>4. /\ ready'[k] = Tail(ready[k]) /\ t = ready[k][1] /\ 1 \in 1..Len(ready[k])
          /\ \A i \in 1..Len(Tail(ready[k])) :
               i + 1 \in 1..Len(ready[k]) /\ Tail(ready[k])[i] = ready[k][i + 1] /\ t < Tail(ready[k])[i]
      <4>1. ready[k] \in Seq(Tasks) /\ Increasing(ready[k])
        BY DEF Lists, TypeOK, Placed
      <4>2. ready'[k] = Tail(ready[k])
        BY <2>4 DEF Lists, TypeOK
      <4>3. 1 \in 1..Len(ready[k])
        BY <2>4, <4>1
      <4> QED BY <2>4, <4>1, <4>2, <4>3, TailIncreasing
    <3>5. Ordered'
      <4>1. ASSUME NEW k2 \in Kernels
            PROVE /\ Increasing(finished[k2])
                  /\ \A i \in 1..Len(finished[k2]), j \in 1..Len(ready'[k2]) : finished[k2][i] < ready'[k2][j]
                  /\ \A s \in Active(k2)' : /\ \A i \in 1..Len(finished[k2]) : finished[k2][i] < s
                                           /\ \A i \in 1..Len(ready'[k2]) : s < ready'[k2][i]
        <5>1. CASE k2 = k
          <6>1. /\ Increasing(finished[k])
                /\ \A i \in 1..Len(finished[k]), j \in 1..Len(ready[k]) : finished[k][i] < ready[k][j]
            BY DEF Ordered
          <6> HIDE DEF KernelInv
          <6>2. \A i \in 1..Len(finished[k]) : finished[k][i] < t
            BY <3>4, <6>1
          <6>3. \A i \in 1..Len(finished[k]), j \in 1..Len(ready'[k]) : finished[k][i] < ready'[k][j]
            BY <3>4, <6>1
          <6> QED BY <3>1, <3>4, <5>1, <6>1, <6>2, <6>3
        <5>2. CASE k2 # k
          BY <3>2, <5>2 DEF Ordered
        <5> QED BY <5>1, <5>2
      <4> QED BY <2>1, <4>1 DEF Ordered, Increasing
    <3> QED BY <3>3, <3>5
  <2> QED BY <1>3, <2>3, <2>4, ExecuteFacts
<1>4. ASSUME NEW t \in Tasks, TaskEvent(t) PROVE OneTask' /\ Ordered'
  <2>0. PICK k \in Kernels : k = task[t].kernel
    BY <1>4, EventFacts DEF Moves
  <2>1. ready' = ready /\ t \in Active(k)
    BY <1>4, <2>0, EventFacts DEF Active
  <2>2. Active(k) = {t} /\ state[k] # "idle"
    BY <2>1 DEF OneTask
  <2>3. ASSUME NEW to, Moves(t, task[t].state, to), NEW k2 \in Kernels, k2 # k
        PROVE  Active(k2)' = Active(k2)
    <3>1. t \notin Active(k2) /\ t \notin Active(k2)'
      BY <2>0, <2>3 DEF Moves, Active
    <3> QED BY <2>3, <3>1, ActiveFacts DEF Moves
  <2>4. CASE /\ Moves(t, "load", "executing") \/ Moves(t, "executing", "store")
             /\ UNCHANGED <<state, finished, finish>>
    <3>1. PICK to \in ActiveStates : Moves(t, task[t].state, to)
      BY <2>4 DEF Moves, ActiveStates
    <3>2. Active(k)' = {t}
      BY <2>0, <2>2, <3>1, ActiveFacts DEF Moves
    <3>3. ASSUME NEW k2 \in Kernels PROVE Active(k2)' = Active(k2)
      <4>1. CASE k2 = k
        BY <2>2, <3>2, <4>1
      <4>2. CASE k2 # k
        BY <2>3, <3>1, <4>2
      <4> QED BY <4>1, <4>2
    <3> QED BY <2>1, <2>4, <3>3 DEF OneTask, Ordered, Increasing
  <2>5. CASE /\ Moves(t, "store", "finished")
             /\ state' = [state EXCEPT ![k] = "idle"]
             /\ finished' = [finished EXCEPT ![k] = Append(@, t)]
    <3>1. Moves(t, task[t].state, "finished")
      BY <2>5 DEF Moves
    <3>2. Active(k)' = {}
      BY <2>2, <3>1, ActiveFacts DEF Moves, ActiveStates
    <3>3. ASSUME NEW k2 \in Kernels, k2 # k
          PROVE Active(k2)' = Active(k2) /\ finished'[k2] = finished[k2] /\ state'[k2] = state[k2]
      <4>1. Active(k2)' = Active(k2)
        BY <2>3, <3>1, <3>3
      <4> QED BY <2>5, <3>3, <4>1 DEF Lists, TypeOK
    <3>4. OneTask'
      BY <3>2, <3>3 DEF OneTask
    <3>5. finished'[k] = Append(finished[k], t) /\ finished[k] \in Seq(Tasks)
      BY <2>1, <2>5 DEF Lists, TypeOK
    <3>6. ASSUME NEW i \in 1..Len(finished'[k])
          PROVE  \/ i \in 1..Len(finished[k]) /\ finished'[k][i] = finished[k][i]
                 \/ finished'[k][i] = t
      <4>1. i \in 1..Len(finished[k]) \/ i = Len(finished[k]) + 1
        BY <3>5, <3>6, AppendIncreasing
      <4> QED BY <3>5, <4>1, AppendIncreasing
    <3>7. /\ Increasing(finished[k]) /\ \A i \in 1..Len(finished[k]) : finished[k][i] < t
          /\ \A i \in 1..Len(ready[k]) : t < ready[k][i]
          /\ \A i \in 1..Len(finished[k]), j \in 1..Len(ready[k]) : finished[k][i] < ready[k][j]
      BY <2>1 DEF Ordered
    <3>8. Increasing(finished'[k])
      BY <3>5, <3>7, AppendIncreasing
    <3>9. \A i \in 1..Len(finished'[k]), j \in 1..Len(ready[k]) : finished'[k][i] < ready[k][j]
      BY <3>6, <3>7
    <3>10. ASSUME NEW k2 \in Kernels
           PROVE /\ Increasing(finished'[k2])
                 /\ \A i \in 1..Len(finished'[k2]), j \in 1..Len(ready'[k2]) : finished'[k2][i] < ready'[k2][j]
                 /\ \A s \in Active(k2)' : /\ \A i \in 1..Len(finished'[k2]) : finished'[k2][i] < s
                                          /\ \A i \in 1..Len(ready'[k2]) : s < ready'[k2][i]
      <4>1. CASE k2 = k
        BY <2>1, <3>2, <3>8, <3>9, <4>1
      <4>2. CASE k2 # k
        BY <2>1, <3>3, <4>2 DEF Ordered
      <4> QED BY <4>1, <4>2
    <3>11. Ordered'
      BY <3>10 DEF Ordered, Increasing
    <3> QED BY <3>4, <3>11
  <2> QED BY <1>4, <2>0, <2>4, <2>5, EventFacts
<1>5. ASSUME \/ \E c \in Contexts, k \in Kernels, v \in Values : WriteArgs(c, k, v)
             \/ \E c \in Contexts : Flush(c) \/ FlushFinish(c) \/ SeeFinish(c)
             \/ CpuStop \/ UNCHANGED vars
      PROVE  UNCHANGED emuVars
  BY <1>5 DEF WriteArgs, Flush, FlushFinish, SeeFinish, CpuStop, vars
<1> QED
  BY <1>1, <1>2, <1>3, <1>4, <1>5 DEF Next, Program

LEMMA InitKernel == Init => KernelInv
  BY InitLists DEF Init, KernelInv, OneTask, Ordered, Active, ActiveStates, NoTask, Increasing

LEMMA OrderedInOrder == KernelInv => CreationOrder
<1> SUFFICES ASSUME KernelInv, NEW k \in Kernels PROVE Increasing(finished[k] \o ready[k])
  BY DEF KernelInv, Ordered, CreationOrder
<1>1. finished[k] \in Seq(Tasks) /\ ready[k] \in Seq(Tasks)
  BY DEF KernelInv, Lists, TypeOK
<1>2. /\ Increasing(finished[k]) /\ Increasing(ready[k])
      /\ \A i \in 1..Len(finished[k]), j \in 1..Len(ready[k]) : finished[k][i] < ready[k][j]
  BY DEF KernelInv, Lists, Placed, Ordered
<1> DEFINE f == finished[k]
           r == ready[k]
<1> HIDE DEF f, r
<1>3. SUFFICES ASSUME NEW i \in 1..Len(f \o r), NEW j \in 1..Len(f \o r), i < j
               PROVE  (f \o r)[i] < (f \o r)[j]
  BY DEF Increasing, f, r
<1>4. /\ Len(f \o r) = Len(f) + Len(r) /\ Len(f) \in Nat /\ Len(r) \in Nat
      /\ \A m \in 1..Len(f) : (f \o r)[m] = f[m]
      /\ \A m \in 1..Len(f \o r) : m > Len(f) => m - Len(f) \in 1..Len(r) /\ (f \o r)[m] = r[m - Len(f)]
  <2> HIDE DEF Tasks
  <2>1. f \in Seq(Tasks) /\ r \in Seq(Tasks)
    BY <1>1 DEF f, r
  <2>2. /\ Len(f \o r) = Len(f) + Len(r) /\ Len(f) \in Nat /\ Len(r) \in Nat
        /\ \A m \in 1..Len(f) + Len(r) : (f \o r)[m] = IF m <= Len(f) THEN f[m] ELSE r[m - Len(f)]
    BY <2>1
  <2> QED BY <2>2
<1>5. CASE j <= Len(f)
  <2>1. i \in 1..Len(f) /\ j \in 1..Len(f) /\ (f \o r)[i] = f[i] /\ (f \o r)[j] = f[j]
    BY <1>3, <1>4, <1>5
  <2> QED BY <1>2, <1>3, <2>1 DEF Increasing, f
<1>6. CASE i > Len(f)
  <2>1. /\ i - Len(f) \in 1..Len(r) /\ j - Len(f) \in 1..Len(r) /\ i - Len(f) < j - Len(f)
        /\ (f \o r)[i] = r[i - Len(f)] /\ (f \o r)[j] = r[j - Len(f)]
    BY <1>3, <1>4, <1>6
  <2> QED BY <1>2, <2>1 DEF Increasing, r
<1>7. CASE i <= Len(f) /\ j > Len(f)
  <2>1. i \in 1..Len(f) /\ j - Len(f) \in 1..Len(r) /\ (f \o r)[i] = f[i] /\ (f \o r)[j] = r[j - Len(f)]
    BY <1>3, <1>4, <1>7
  <2> QED BY <1>2, <2>1 DEF f, r
<1> QED BY <1>4, <1>5, <1>6, <1>7

\* Every variable keeps its type, whatever the programs do.
THEOREM TypeInvariant == Spec => []TypeOK
<1>1. Spec => []Lists
  BY InitLists, NextLists, PTL DEF Spec
<1>2. Lists => TypeOK
  BY DEF Lists
<1> QED BY <1>1, <1>2, PTL

LEMMA KernelInvariant == Spec => []KernelInv
<1>1. KernelInv /\ [Next]_vars => KernelInv'
  BY NextLists, NextKernel DEF KernelInv
<1> QED BY InitKernel, <1>1, PTL DEF Spec

\* FPGAKernelExecute gives a kernel no second task before STORE_FINISH of the first, for
\* any number of kernels and programs.
THEOREM OneTaskAtATime == Spec => []OneTask
<1>1. KernelInv => OneTask
  BY DEF KernelInv
<1> QED BY KernelInvariant, <1>1, PTL

\* A kernel finishes its tasks in the order in which its start register was written.
THEOREM InCreationOrder == Spec => []CreationOrder
  BY KernelInvariant, OrderedInOrder, PTL

-----------------------------------------------------------------------------
(* The programs.                                                             *)

\* The step leaves task t alone, and what its program wrote and polls.
Keeps(t) ==
  /\ task'[t].ctx = task[t].ctx /\ task'[t].kernel = task[t].kernel /\ task'[t].size = task[t].size
  /\ polling'[task[t].ctx] = polling[task[t].ctx]
  /\ args'[task[t].ctx][task[t].kernel] = args[task[t].ctx][task[t].kernel]
  /\ finish'[task[t].ctx][task[t].kernel] = finish[task[t].ctx][task[t].kernel]

LEMMA UnfinishedTypes ==
  ASSUME Lists, NEW t \in Tasks, Unfinished(t)
  PROVE  task[t].ctx \in Contexts /\ task[t].kernel \in Kernels /\ t < currentPid
  BY DEF Lists, Numbered, TypeOK, Unfinished, ActiveStates, Tasks

LEMMA InitProgram == Init => ProgramInv
  BY InitLists DEF Init, ProgramInv, Called, OneCall, ArgumentsKept, Unfinished, ActiveStates, NoTask

LEMMA NextProgram == ProgramInv /\ [Next]_vars => Called' /\ OneCall' /\ ArgumentsKept'
<1> SUFFICES ASSUME ProgramInv, [Next]_vars PROVE Called' /\ OneCall' /\ ArgumentsKept'
  OBVIOUS
<1> USE DEF ProgramInv
<1>a. ASSUME UNCHANGED task, \A t \in Tasks : Unfinished(t) => Keeps(t)
      PROVE  Called' /\ OneCall' /\ ArgumentsKept'
  BY <1>a DEF Called, OneCall, ArgumentsKept, Unfinished, Keeps
<1>1. ASSUME NEW c \in Contexts, NEW k \in Kernels, NEW v \in Values, WriteArgs(c, k, v)
      PROVE  Called' /\ OneCall' /\ ArgumentsKept'
  <2>1. ASSUME NEW t \in Tasks, Unfinished(t) PROVE Keeps(t)
    <3>1. task[t].ctx \in Contexts /\ task[t].kernel \in Kernels
      BY <2>1, UnfinishedTypes
    <3>2. polling[c] = None /\ polling[task[t].ctx] = task[t].kernel
      BY <1>1, <2>1 DEF WriteArgs, Runs, Called
    <3>3. task[t].ctx # c
      BY <3>1, <3>2, NoneAssumption
    <3> QED BY <1>1, <3>1, <3>3 DEF WriteArgs, Keeps, emuVars, Lists, TypeOK
  <2> QED BY <1>1, <1>a, <2>1 DEF WriteArgs, emuVars
<1>2. ASSUME NEW c \in Contexts, SeeFinish(c) PROVE Called' /\ OneCall' /\ ArgumentsKept'
  <2>1. ASSUME NEW t \in Tasks, Unfinished(t) PROVE Keeps(t)
    <3>1. task[t].ctx \in Contexts /\ task[t].kernel \in Kernels
      BY <2>1, UnfinishedTypes
    <3>2. task[t].ctx # c
      BY <1>2, <2>1 DEF SeeFinish, Called
    <3> QED BY <1>2, <3>1, <3>2 DEF SeeFinish, Keeps, emuVars, Lists, TypeOK
  <2> QED BY <1>2, <1>a, <2>1 DEF SeeFinish, emuVars
<1>3. ASSUME UNCHANGED <<task, polling, args, finish>> PROVE Called' /\ OneCall' /\ ArgumentsKept'
  BY <1>3, <1>a DEF Keeps
<1>4. ASSUME NEW c \in Contexts, NEW k \in Kernels, CreateTask(c, k)
      PROVE  Called' /\ OneCall' /\ ArgumentsKept'
  <2> DEFINE n == currentPid
  <2>1. /\ n \in Tasks /\ Only(n)
        /\ task'[n] = [state |-> "ready", ctx |-> c, kernel |-> k, size |-> args[c][k],
                       src |-> None, dst |-> None]
    BY <1>4, CreateFacts DEF Lists
  <2>2. /\ polling[c] = None /\ args' = args
        /\ polling' = [polling EXCEPT ![c] = k] /\ finish' = [finish EXCEPT ![c][k] = FALSE]
        /\ polling'[c] = k /\ finish'[c][k] = FALSE
    BY <1>4 DEF CreateTask, Runs, Lists, TypeOK
  <2>3. ASSUME NEW t \in Tasks, Unfinished(t)
        PROVE  task[t].ctx # c /\ t # n /\ Keeps(t) /\ task'[t] = task[t]
    <3>1. task[t].ctx \in Contexts /\ task[t].kernel \in Kernels /\ t < n
      BY <2>3, UnfinishedTypes
    <3>2. task[t].ctx # c
      BY <2>2, <2>3, <3>1, NoneAssumption DEF Called
    <3>3. t # n
      BY <2>1, <3>1 DEF Tasks
    <3>4. task'[t] = task[t]
      BY <2>1, <3>3 DEF Only
    <3> QED BY <2>2, <3>1, <3>2, <3>3, <3>4 DEF Keeps, Lists, TypeOK
  <2>4. ASSUME NEW t \in Tasks PROVE Unfinished(t)' <=> Unfinished(t) \/ t = n
    BY <2>1 DEF Unfinished, Only
  <2>5. Called'
    <3> SUFFICES ASSUME NEW t \in Tasks, Unfinished(t)'
                 PROVE /\ polling'[task'[t].ctx] = task'[t].kernel
                       /\ ~finish'[task'[t].ctx][task'[t].kernel]
                       /\ task'[t].size = args'[task'[t].ctx][task'[t].kernel]
      BY DEF Called
    <3>1. CASE t = n
      BY <2>1, <2>2, <3>1
    <3>2. CASE Unfinished(t)
      BY <2>3, <3>2 DEF Called, Keeps
    <3> QED BY <2>4, <3>1, <3>2
  <2>6. OneCall'
    BY <2>1, <2>3, <2>4 DEF OneCall
  <2>7. ArgumentsKept'
    BY <2>1 DEF ArgumentsKept, Only
  <2> QED BY <2>5, <2>6, <2>7
<1>5. ASSUME NEW k \in Kernels, FPGAKernelExecute(k) PROVE Called' /\ OneCall' /\ ArgumentsKept'
  <2>1. UNCHANGED <<polling, args, finish>>
    BY <1>5, ExecuteFacts DEF cpuVars
  <2>2. CASE UNCHANGED task
    BY <1>3, <2>1, <2>2
  <2>3. ASSUME NEW t \in Tasks, Moves(t, "ready", "load"), task[t].kernel = k,
               task'[t].src = args[task[t].ctx][k], task'[t].dst = task[t].dst
        PROVE  Called' /\ OneCall' /\ ArgumentsKept'
    <3>1. Unfinished(t)
      BY <2>3 DEF Moves, Unfinished
    <3>2. ASSUME NEW s \in Tasks
          PROVE (Unfinished(s)' <=> Unfinished(s)) /\ task'[s].ctx = task[s].ctx
                /\ task'[s].kernel = task[s].kernel /\ task'[s].size = task[s].size
      BY <2>3 DEF Moves, Only, Unfinished, ActiveStates
    <3>3. Called' /\ OneCall'
      BY <2>1, <3>2 DEF Called, OneCall
    <3>4. ArgumentsKept'
      BY <2>3, <3>1 DEF ArgumentsKept, Moves, Only, Called
    <3> QED BY <3>3, <3>4
  <2> QED BY <1>5, <2>2, <2>3, ExecuteFacts
<1>6. ASSUME NEW t \in Tasks, TaskEvent(t) PROVE Called' /\ OneCall' /\ ArgumentsKept'
  <2>1. UNCHANGED <<polling, args>> /\ Unfinished(t)
    BY <1>6, EventFacts DEF cpuVars, Unfinished
  <2>2. ASSUME NEW to, Moves(t, task[t].state, to), task'[t].src = task[t].src,
               task'[t].dst \in {task[t].dst, args[task[t].ctx][task[t].kernel]}
        PROVE  OneCall' /\ ArgumentsKept' /\ \A s \in Tasks : Unfinished(s)' => Unfinished(s)
    <3>1. \A s \in Tasks : /\ Unfinished(s)' => Unfinished(s)
                           /\ task'[s].ctx = task[s].ctx
      BY <2>1, <2>2 DEF Moves, Only, Unfinished
    <3>2. OneCall'
      BY <3>1 DEF OneCall
    <3>3. ArgumentsKept'
      BY <2>1, <2>2 DEF ArgumentsKept, Moves, Only, Called
    <3> QED BY <3>1, <3>2, <3>3
  <2>3. ASSUME Moves(t, "load", "executing") \/ Moves(t, "executing", "store"), UNCHANGED finish
        PROVE  Called'
    <3>1. \A s \in Tasks : /\ Unfinished(s)' => Unfinished(s)
                           /\ task'[s].ctx = task[s].ctx /\ task'[s].kernel = task[s].kernel
                           /\ task'[s].size = task[s].size
      BY <2>1, <2>3 DEF Moves, Only, Unfinished
    <3> QED BY <2>1, <2>3, <3>1 DEF Called
  <2>4. ASSUME Moves(t, "store", "finished"),
               finish' = [finish EXCEPT ![task[t].ctx][task[t].kernel] = TRUE]
        PROVE  Called'
    <3>1. ASSUME NEW s \in Tasks, Unfinished(s)' PROVE s # t /\ task'[s] = task[s] /\ Unfinished(s)
      BY <2>4, <3>1 DEF Moves, Only, Unfinished, ActiveStates
    <3>2. ASSUME NEW s \in Tasks, Unfinished(s)'
          PROVE  finish'[task[s].ctx][task[s].kernel] = finish[task[s].ctx][task[s].kernel]
      <4>1. task[s].ctx # task[t].ctx
        BY <2>1, <3>1, <3>2 DEF OneCall
      <4>2. task[s].ctx \in Contexts /\ task[s].kernel \in Kernels /\ task[t].ctx \in Contexts
        BY <2>1, <3>1, <3>2, UnfinishedTypes
      <4> QED BY <2>4, <4>1, <4>2 DEF Lists, TypeOK
    <3> QED BY <2>1, <3>1, <3>2 DEF Called
  <2> QED BY <1>6, <2>2, <2>3, <2>4, EventFacts DEF Moves
<1>7. ASSUME NEW c \in Contexts, Flush(c) \/ FlushFinish(c) PROVE UNCHANGED <<task, polling, args, finish>>
  BY <1>7 DEF Flush, FlushFinish, emuVars
<1>8. ASSUME CpuStop \/ UNCHANGED vars PROVE UNCHANGED <<task, polling, args, finish>>
  BY <1>8 DEF CpuStop, vars, emuVars, cpuVars
<1> QED
  BY <1>1, <1>2, <1>3, <1>4, <1>5, <1>6, <1>7, <1>8 DEF Next, Program

LEMMA ProgramInvariant == Spec => []ProgramInv
<1>1. ProgramInv /\ [Next]_vars => ProgramInv'
  BY NextLists, NextProgram DEF ProgramInv
<1> QED BY InitProgram, <1>1, PTL DEF Spec

\* The registers of a task are those of one call, however kernels and programs are
\* shared: sizes, source and destination, read at three different times, agree.
THEOREM ArgumentsOfOneCall == Spec => []ArgumentsKept
<1>1. ProgramInv => ArgumentsKept
  BY DEF ProgramInv
<1> QED BY ProgramInvariant, <1>1, PTL

\* The finish register a program polls is raised by its own last task, after its output
\* is stored.
THEOREM FinishIsStored == Spec => []FinishMeansStored
<1>1. ProgramInv => FinishMeansStored
  <2> SUFFICES ASSUME ProgramInv, NEW c \in Contexts, NEW t \in Tasks, task[t].ctx = c,
                      polling[c] = None \/ finish[c][polling[c]]
               PROVE  task[t].state = "finished"
    BY DEF FinishMeansStored
  <2>1. ~Unfinished(t)
    <3> SUFFICES ASSUME Unfinished(t) PROVE FALSE
      OBVIOUS
    <3>1. task[t].kernel \in Kernels
      BY UnfinishedTypes DEF ProgramInv
    <3> QED BY <3>1, NoneAssumption DEF ProgramInv, Called
  <2>2. task[t].state # "none"
    BY NoneAssumption DEF ProgramInv, Lists, Numbered, TypeOK, Tasks
  <2>3. task[t] \in TaskRecords
    BY DEF ProgramInv, Lists, TypeOK
  <2> QED BY <2>1, <2>2, <2>3 DEF TaskRecords, Unfinished
<1> QED BY ProgramInvariant, <1>1, PTL
=============================================================================
