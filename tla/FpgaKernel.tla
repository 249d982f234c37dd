------------------------------ MODULE FpgaKernel ------------------------------
(***************************************************************************)
(* Kernels and tasks of the FPGA (arch/fpga): x86 programs write the       *)
(* argument registers of a kernel and then its start register, which       *)
(* creates a task; FPGARun gives an idle kernel its next ready task; the   *)
(* task loads its input, executes and stores its output, and raises the    *)
(* finish register its program polls.  A program may flush a memory range  *)
(* before it starts a task: the kernel must not load while ctx->flush > 0. *)
(*                                                                         *)
(* A task's state is also its pending event: "load" waits for the transfer *)
(* that ends in EV_FPGA_LOAD_FINISH, and so on.  The registers are those   *)
(* of the program's own memory image (ctx->realmem).  Transfers are taken  *)
(* to end once; the finish register lies among the kernel's registers, as  *)
(* in every configuration of samples/.  No code schedules the events that  *)
(* move a kernel off the chip.                                             *)
(***************************************************************************)
EXTENDS Naturals, Sequences, FiniteSets

CONSTANTS
  Kernels,
  Contexts,   \* x86 contexts, one program each
  MaxTasks,   \* bound: tasks created in a behaviour
  MaxFlush,   \* bound: flushes of a context in progress together
  Values,     \* contents of the argument registers
  None

ASSUME BoundsAssumption == MaxTasks \in Nat /\ MaxFlush \in Nat
ASSUME NoneAssumption   == None \notin Kernels \union Contexts \union Values

Tasks == 1..MaxTasks

VARIABLES
  state,       \* state[k]: kernel->state
  ready,       \* ready[k]: kernel's ready list
  finished,    \* finished[k]: kernel's finished list
  currentPid,  \* emu->current_pid: tasks are numbered as they are created
  task,        \* task[t]: state, program, kernel, and the arguments read so far
  flush,       \* flush[c]: ctx->flush
  args,        \* args[c][k]: argument registers of k as program c wrote them
  finish,      \* finish[c][k]: the finish register of k as program c reads it
  polling,     \* polling[c]: the kernel whose finish register c polls, or None
  cpuRunning   \* emu->cpu_running

emuVars == <<state, ready, finished, task>>
cpuVars == <<currentPid, flush, args, polling, cpuRunning>>
vars    == <<emuVars, cpuVars, finish>>

NoTask == [state |-> "none", ctx |-> None, kernel |-> None, size |-> None, src |-> None, dst |-> None]

Init ==
  /\ state = [k \in Kernels |-> "idle"]
  /\ ready = [k \in Kernels |-> <<>>]
  /\ finished = [k \in Kernels |-> <<>>]
  /\ currentPid = 1
  /\ task = [t \in Tasks |-> NoTask]
  /\ flush = [c \in Contexts |-> 0]
  /\ args \in [Contexts -> [Kernels -> Values]]
  /\ finish = [c \in Contexts |-> [k \in Kernels |-> FALSE]]
  /\ polling = [c \in Contexts |-> None]
  /\ cpuRunning = TRUE

-----------------------------------------------------------------------------
(* The programs.  One that has started a task does nothing else before it    *)
(* sees the finish register raised.                                          *)

Runs(c) == cpuRunning /\ polling[c] = None

WriteArgs(c, k, v) ==
  /\ Runs(c)
  /\ args' = [args EXCEPT ![c][k] = v]
  /\ UNCHANGED <<emuVars, finish, currentPid, flush, polling, cpuRunning>>

\* EV_MOD_FLUSH and the last EV_MOD_FLUSH_FINISH
Flush(c) ==
  /\ Runs(c) /\ flush[c] < MaxFlush
  /\ flush' = [flush EXCEPT ![c] = @ + 1]
  /\ UNCHANGED <<emuVars, finish, currentPid, args, polling, cpuRunning>>

FlushFinish(c) ==
  /\ flush[c] > 0
  /\ flush' = [flush EXCEPT ![c] = @ - 1]
  /\ UNCHANGED <<emuVars, finish, currentPid, args, polling, cpuRunning>>

\* Definitions named Bug... are mistakes the properties must detect.
BugEnqueue(q, t) == <<t>> \o q
Enqueue(q, t)    == Append(q, t)

\* EV_FPGA_REG_STORE_FINISH on the start register: the task is created, with the
\* sizes of its buffers, and enters the ready list.  The program cleared the finish
\* register first.
CreateTask(c, k) ==
  LET t == currentPid IN
  /\ Runs(c) /\ t \in Tasks
  /\ task' = [task EXCEPT ![t] =
                [state |-> "ready", ctx |-> c, kernel |-> k, size |-> args[c][k],
                 src |-> None, dst |-> None]]
  /\ currentPid' = t + 1
  /\ ready' = [ready EXCEPT ![k] = Enqueue(@, t)]
  /\ finish' = [finish EXCEPT ![c][k] = FALSE]
  /\ polling' = [polling EXCEPT ![c] = k]
  /\ UNCHANGED <<state, finished, flush, args, cpuRunning>>

SeeFinish(c) ==
  /\ cpuRunning /\ polling[c] # None
  /\ finish[c][polling[c]]
  /\ polling' = [polling EXCEPT ![c] = None]
  /\ UNCHANGED <<emuVars, finish, currentPid, flush, args, cpuRunning>>

\* X86CpuRun finds that every program has ended; FPGARun stops with it.
CpuStop ==
  /\ \A c \in Contexts : Runs(c)
  /\ cpuRunning' = FALSE
  /\ UNCHANGED <<emuVars, finish, currentPid, flush, args, polling>>

-----------------------------------------------------------------------------
(* The FPGA.                                                                 *)

\* Any kernel with a ready task takes it.
BugAvailable(k) == ready[k] # <<>>
Available(k)    == state[k] = "idle" /\ ready[k] # <<>>

\* FPGARun calls FPGAKernelExecute for every kernel in every cycle; a kernel that is
\* not idle, or has no ready task, is left alone.  The kernel is marked running before
\* the flush counter is tested.
FPGAKernelExecute(k) ==
  LET t == Head(ready[k])
      c == task[t].ctx
  IN
  /\ cpuRunning /\ Available(k)
  /\ state' = [state EXCEPT ![k] = "running"]
  /\ \/ /\ flush[c] > 0
        /\ UNCHANGED <<ready, task>>
     \/ /\ flush[c] = 0
        /\ ready' = [ready EXCEPT ![k] = Tail(@)]
        /\ task' = [task EXCEPT ![t].state = "load", ![t].src = args[c][k]]
  /\ UNCHANGED <<finished, cpuVars, finish>>

\* The finish register is raised when the output is computed, or when the input is
\* loaded, not when the output is stored.
BugStoreData(t) ==
  /\ task[t].state = "executing"
  /\ task' = [task EXCEPT ![t].state = "store", ![t].dst = args[task[t].ctx][task[t].kernel]]
  /\ finish' = [finish EXCEPT ![task[t].ctx][task[t].kernel] = TRUE]
  /\ UNCHANGED <<state, ready, finished, cpuVars>>

BugTaskExecute(t) ==
  /\ task[t].state = "load"
  /\ task' = [task EXCEPT ![t].state = "executing"]
  /\ finish' = [finish EXCEPT ![task[t].ctx][task[t].kernel] = TRUE]
  /\ UNCHANGED <<state, ready, finished, cpuVars>>

\* EV_FPGA_LOAD_FINISH
FPGATaskExecute(t) ==
  /\ task[t].state = "load"
  /\ task' = [task EXCEPT ![t].state = "executing"]
  /\ UNCHANGED <<state, ready, finished, cpuVars, finish>>

\* EV_FPGA_EXECUTE_FINISH
FPGATaskStoreData(t) ==
  /\ task[t].state = "executing"
  /\ task' = [task EXCEPT ![t].state = "store", ![t].dst = args[task[t].ctx][task[t].kernel]]
  /\ UNCHANGED <<state, ready, finished, cpuVars, finish>>

\* The kernel is left running.
BugTaskFinish(t) ==
  LET k == task[t].kernel IN
  /\ task[t].state = "store"
  /\ task' = [task EXCEPT ![t].state = "finished"]
  /\ finished' = [finished EXCEPT ![k] = Append(@, t)]
  /\ finish' = [finish EXCEPT ![task[t].ctx][k] = TRUE]
  /\ UNCHANGED <<state, ready, cpuVars>>

\* EV_FPGA_STORE_FINISH
FPGATaskFinish(t) ==
  LET k == task[t].kernel IN
  /\ task[t].state = "store"
  /\ task' = [task EXCEPT ![t].state = "finished"]
  /\ finished' = [finished EXCEPT ![k] = Append(@, t)]
  /\ finish' = [finish EXCEPT ![task[t].ctx][k] = TRUE]
  /\ state' = [state EXCEPT ![k] = "idle"]
  /\ UNCHANGED <<ready, cpuVars>>

Program(c) ==
  \/ \E k \in Kernels, v \in Values : WriteArgs(c, k, v)
  \/ \E k \in Kernels : CreateTask(c, k)
  \/ Flush(c) \/ FlushFinish(c) \/ SeeFinish(c)

TaskEvent(t) == FPGATaskExecute(t) \/ FPGATaskStoreData(t) \/ FPGATaskFinish(t)

Next ==
  \/ \E c \in Contexts : Program(c)
  \/ CpuStop
  \/ \E k \in Kernels : FPGAKernelExecute(k)
  \/ \E t \in Tasks : TaskEvent(t)

Spec == Init /\ [][Next]_vars

\* FPGARun runs in every cycle, and every scheduled event is handled.
FairSpec ==
  /\ Spec
  /\ \A k \in Kernels : WF_vars(FPGAKernelExecute(k))
  /\ \A t \in Tasks : WF_vars(TaskEvent(t))

\* Moreover every flush ends.
FairFlushSpec == FairSpec /\ \A c \in Contexts : WF_vars(FlushFinish(c))

-----------------------------------------------------------------------------
(* Properties.                                                               *)

ActiveStates == {"load", "executing", "store"}
Active(k)    == {t \in Tasks : task[t].state \in ActiveStates /\ task[t].kernel = k}

TaskRecords == [state : {"none", "ready", "finished"} \union ActiveStates,
                ctx : Contexts \union {None}, kernel : Kernels \union {None},
                size : Values \union {None}, src : Values \union {None},
                dst : Values \union {None}]

\* Type invariant.
TypeOK ==
  /\ state \in [Kernels -> {"idle", "running"}]
  /\ ready \in [Kernels -> Seq(Tasks)]
  /\ finished \in [Kernels -> Seq(Tasks)]
  /\ currentPid \in 1 .. MaxTasks + 1
  /\ task \in [Tasks -> TaskRecords]
  /\ flush \in [Contexts -> Nat]
  /\ args \in [Contexts -> [Kernels -> Values]]
  /\ finish \in [Contexts -> [Kernels -> BOOLEAN]]
  /\ polling \in [Contexts -> Kernels \union {None}]
  /\ cpuRunning \in BOOLEAN

\* A kernel works on one task at a time, and only while it is marked running: no second
\* task is loaded into it before STORE_FINISH of the first.
OneTask ==
  /\ \A k \in Kernels : \A s, t \in Active(k) : s = t
  /\ \A k \in Kernels : state[k] = "idle" => Active(k) = {}

Increasing(q) == \A i, j \in 1..Len(q) : i < j => q[i] < q[j]

\* A kernel serves its tasks in the order in which the start register was written: those
\* finished, the one it works on and those waiting follow one another.
CreationOrder ==
  \A k \in Kernels :
    /\ Increasing(finished[k] \o ready[k])
    /\ \A t \in Active(k) : /\ \A i \in 1..Len(finished[k]) : finished[k][i] < t
                            /\ \A i \in 1..Len(ready[k]) : t < ready[k][i]

\* The sizes (read when the task is created), the source (when it is loaded) and the
\* destination (when it is stored) of a task are those of one call: its program does not
\* touch the registers before it has seen the finish register.
ArgumentsKept ==
  \A t \in Tasks : task[t].src \in {None, task[t].size} /\ task[t].dst \in {None, task[t].size}

\* A program that sees the finish register raised finds the output of its last task
\* stored: the register was raised by that task and not by an earlier one.
FinishMeansStored ==
  \A c \in Contexts, t \in Tasks :
    task[t].ctx = c /\ (polling[c] = None \/ finish[c][polling[c]]) => task[t].state = "finished"

\* A kernel could take a task whose program has a flush in progress.
Caught(k) == Available(k) /\ flush[task[Head(ready[k])].ctx] > 0

\* Every task is executed to its end, unless a flush ever catches a kernel: no task waits
\* for ever behind those of other programs.
TasksFinish ==
  (\A k \in Kernels : []~Caught(k)) => \A t \in Tasks : task[t].state = "ready" ~> task[t].state = "finished"

\* "the kernel is currently running a hardware task" (FPGAKernelRunning in kernel.h): a
\* kernel marked running has a task, or gets one.
RunningHasTask == \A k \in Kernels : state[k] = "running" ~> Active(k) # {}
=============================================================================
