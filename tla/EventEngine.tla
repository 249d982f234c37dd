------------------------------ MODULE EventEngine ------------------------------
(***************************************************************************)
(* The event-driven engine: the main loop's esim_process_events and the    *)
(* end of the simulation, esim_process_all_events (esim.c), over the binary *)
(* heap of heap.c.                                                         *)
(*                                                                         *)
(* The heap is the array itself, elem[0] first: the sifts of heap_insert    *)
(* and heap_extract are recursive functions on it.  An event is known by   *)
(* the sequence number heap_insert gives it; which handler it calls does   *)
(* not matter here, only that the handler may schedule more events.        *)
(*                                                                         *)
(* MaxEvents, MaxEnds, MaxAfter and MaxTime bound the runs: the events      *)
(* and end events scheduled, their delay in cycles, and the time at which   *)
(* the main loop ends at the latest.  esim_dump and esim_empty are not      *)
(* modelled: the first prints, the second has no caller.                   *)
(***************************************************************************)
EXTENDS Integers, Sequences, SequencesExt

CONSTANTS
  CycleTimes,     \* cycle times of the frequency domains (esim_new_domain)
  MaxFinal,       \* ESIM_MAX_FINALIZATION_EVENTS
  None, EndHandler,
  MaxEvents, MaxEnds, MaxAfter, MaxTime

ASSUME EngineAssumption ==
  /\ CycleTimes \subseteq Nat \ {0} /\ CycleTimes # {}
  /\ MaxFinal \in Nat \ {0} /\ {MaxEvents, MaxEnds, MaxAfter, MaxTime} \subseteq Nat

\* esim_cycle_time, kept by esim_domain_create
CycleTime == Min(CycleTimes)

VARIABLES
  heap,      \* the array of heap.c
  seq,       \* heap->time: the number of insertions so far
  ends,      \* number of events in esim_end_event_list
  now,       \* esim_time
  phase,     \* where m2s_loop and esim_process_all_events are
  running,   \* the event whose handler was called last, or EndHandler
  drained    \* count of esim_drain_heap

vars == <<heap, seq, ends, now, phase, running, drained>>

Phases == {"run", "process", "drain", "end", "last drain", "over", "stalled"}
Elem   == [when : Nat, seq : Nat, at : Int, after : Nat]

ASSUME HandlerAssumption == None \notin Elem /\ EndHandler \notin Elem \union {None}

-----------------------------------------------------------------------------
(* The heap.  elem[i] of the code is h[i + 1].                              *)

Parent(i) == i \div 2
Left(i)   == 2 * i
Right(i)  == 2 * i + 1

\* BugLessThan forgets the order of arrival.
BugLessThan(a, b) == a.when < b.when

\* heap_less_than with the FIFO policy
LessThan(a, b) == a.when < b.when \/ (a.when = b.when /\ a.seq < b.seq)

\* heap_insert: up[i] is the array after the new element has come to place i: while it is
\* less than its parent they change places.
Inserted(h, e) ==
  LET up[i \in 1..(Len(h) + 1)] ==
        IF i > 1 /\ LessThan(e, h[Parent(i)]) THEN [up[Parent(i)] EXCEPT ![i] = h[Parent(i)]]
        ELSE [Append(h, e) EXCEPT ![i] = e]
  IN  up[Len(h) + 1]

\* BugExtracted leaves the last element where it was, too.
BugExtracted(h) == [h EXCEPT ![1] = Last(h)]

\* The least of the element e at place i and its children among the first n places of h.
Least(h, n, e, i) ==
  LET at(k) == IF k = i THEN e ELSE h[k]
      three == {i, Left(i), Right(i)} \cap 1..n
  IN  CHOOSE k \in three : \A l \in three : ~LessThan(at(l), at(k))

\* heap_extract: the last element replaces the first, and down[i] is the array after it has
\* come to place i (heapify): while it is not the least it changes places with the child that is.
Extracted(h) ==
  LET n == Len(h) - 1
      next(i) == Least(h, n, h[n + 1], i)
      down[i \in 1..n] ==
        IF next(i) # i THEN [down[next(i)] EXCEPT ![i] = h[next(i)]]
        ELSE [SubSeq(h, 1, n) EXCEPT ![i] = h[n + 1]]
  IN  IF n = 0 THEN <<>> ELSE down[1]

-----------------------------------------------------------------------------
(* esim_schedule_event and esim_schedule_end_event, called by the           *)
(* architectures (phase "run") and by the handlers.                         *)

Callable == phase = "run" \/ running # None

\* BugWhen counts the cycles from the start of the simulation.
BugWhen(ct, n) == ct * n
When(ct, n)    == (now \div ct) * ct + ct * n

ScheduleEvent(ct, n) ==
  /\ Callable /\ seq < MaxEvents
  /\ heap' = Inserted(heap, [when |-> When(ct, n), seq |-> seq, at |-> now, after |-> n])
  /\ seq' = seq + 1
  /\ UNCHANGED <<ends, now, phase, running, drained>>

\* Only the commands of a memory configuration do this, which are events themselves; the
\* end events they leave make none.
ScheduleEndEvent ==
  /\ Callable /\ phase \in {"run", "process", "drain"} /\ ends < MaxEnds
  /\ ends' = ends + 1
  /\ UNCHANGED <<heap, seq, now, phase, running, drained>>

-----------------------------------------------------------------------------
(* One iteration of m2s_loop: arch_run, esim_process_events.                *)

ProcessEvents(forward) ==
  /\ phase = "run"
  /\ forward \/ heap # <<>>
  /\ phase' = "process"
  /\ UNCHANGED <<heap, seq, ends, now, running, drained>>

Due(e) == e.when <= now

Handle ==
  /\ phase = "process"
  /\ heap # <<>> /\ Due(heap[1])
  /\ running' = heap[1]
  /\ heap' = Extracted(heap)
  /\ UNCHANGED <<seq, ends, now, phase, drained>>

\* The loop goes on, or esim_finish was set meanwhile: on a stall main() drains nothing.
\* With nothing to forward the iteration only counts esim_no_forward_cycles.
EndIteration(next) ==
  /\ \/ /\ phase = "process" /\ (heap # <<>> => ~Due(heap[1]))
        /\ now' = now + CycleTime
     \/ /\ phase = "run" /\ heap = <<>>
        /\ UNCHANGED now
  /\ next = "run" => now < MaxTime
  /\ phase' = next /\ running' = None
  /\ UNCHANGED <<heap, seq, ends, drained>>

-----------------------------------------------------------------------------
(* esim_process_all_events                                                  *)

Stalled == drained = MaxFinal

Drain ==
  /\ phase \in {"drain", "last drain"}
  /\ heap # <<>> /\ ~Stalled
  /\ running' = heap[1] /\ now' = heap[1].when
  /\ heap' = Extracted(heap)
  /\ drained' = drained + 1
  /\ UNCHANGED <<seq, ends, phase>>

\* esim_drain_heap returns: empty, or stopped with a warning.  BugDrained takes the second
\* return for the first.
BugDrained == IF phase = "drain" THEN "end" ELSE "over"
Drained    == IF Stalled THEN "stalled" ELSE IF phase = "drain" THEN "end" ELSE "over"

EndDrain ==
  /\ phase \in {"drain", "last drain"}
  /\ heap = <<>> \/ Stalled
  /\ phase' = Drained
  /\ running' = None /\ drained' = 0
  /\ UNCHANGED <<heap, seq, ends, now>>

EndEvent ==
  /\ phase = "end" /\ ends > 0
  /\ ends' = ends - 1
  /\ running' = EndHandler
  /\ UNCHANGED <<heap, seq, now, phase, drained>>

LastDrain ==
  /\ phase = "end" /\ ends = 0
  /\ phase' = "last drain" /\ running' = None
  /\ UNCHANGED <<heap, seq, ends, now, drained>>

-----------------------------------------------------------------------------
Init ==
  /\ heap = <<>> /\ seq = 0 /\ ends = 0
  /\ now = 0 /\ phase = "run" /\ running = None /\ drained = 0

Step ==
  \/ \E forward \in BOOLEAN : ProcessEvents(forward)
  \/ Handle
  \/ \E next \in {"run", "drain", "stalled"} : EndIteration(next)
  \/ Drain \/ EndDrain \/ EndEvent \/ LastDrain

Next ==
  \/ \E ct \in CycleTimes, n \in 0..MaxAfter : ScheduleEvent(ct, n)
  \/ ScheduleEndEvent
  \/ Step

Spec == Init /\ [][Next]_vars

\* The engine is the main thread of the simulator: it always takes its next step.
FairSpec == Spec /\ WF_vars(Step)

-----------------------------------------------------------------------------
Schedule == INSTANCE EventSchedule WITH
  pending  <- ToSet(heap),
  running  <- IF running = EndHandler THEN None ELSE running,
  draining <- phase \notin {"run", "process"}

\* Type invariant: the array, the time, the phase and the event that runs.
TypeOK ==
  /\ heap \in Seq(Elem) /\ seq \in 0..MaxEvents /\ ends \in 0..MaxEnds
  /\ now \in Nat /\ phase \in Phases /\ drained \in 0..MaxFinal
  /\ running \in Elem \union {None, EndHandler}

\* The heap does what a priority queue with the order of arrival does: an event is run
\* once, the earliest first, and of those of the same time the one scheduled first
\* (esim.h:135: "they will execute in the order they were scheduled").
ImplementsSchedule == Schedule!Spec

\* An event runs when its time has come and in the first cycle of the main loop that
\* reaches it; one meant for a later cycle of its domain never runs at the very time it
\* was scheduled, whatever the rounding and though draining sets the time back.
OnTime == Schedule!OnTime

\* Nothing is left when esim_process_all_events returns without its warning, not even what
\* the handlers of the end events scheduled.
NothingLeft == phase = "over" => heap = <<>> /\ ends = 0

\* The simulation ends, with the handlers scheduling as they go: together with NothingLeft,
\* every scheduled event runs unless the end is a stall.
Terminates == <>(phase \in {"over", "stalled"})

=============================================================================
