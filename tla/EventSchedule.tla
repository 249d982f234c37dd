----------------------------- MODULE EventSchedule -----------------------------
(***************************************************************************)
(* What the event-driven engine promises to the simulator: every event is  *)
(* run once, never before its time and at the first main-loop cycle that    *)
(* reaches it, the earlier one first, events of the same time in the order   *)
(* in which they were scheduled.  EventEngine implements this with the       *)
(* binary heap of heap.c.                                                  *)
(***************************************************************************)
EXTENDS Integers

CONSTANTS
  CycleTimes,  \* cycle times of the frequency domains
  CycleTime,   \* that of the fastest one: the main loop's
  MaxAfter,    \* the longest delay, in cycles
  None

\* What an engine must give to the constants, and the theorems assume; EventEngine checks it.
Domains ==
  /\ MaxAfter \in Nat
  /\ CycleTimes \subseteq Nat \ {0}
  /\ CycleTime \in CycleTimes /\ \A ct \in CycleTimes : CycleTime <= ct

VARIABLES
  pending,   \* scheduled events: when is their time, seq their order of arrival,
             \* at and after say when and for how many cycles later they were scheduled
  seq,       \* number of events scheduled so far
  now,       \* esim_time
  running,   \* the event whose handler ran last in this cycle
  draining   \* the main loop has ended: time follows the events

vars == <<pending, seq, now, running, draining>>

Event == [when : Nat, seq : Nat, at : Int, after : Nat]

\* The time of an event of a domain with cycle time ct, n cycles after t.
When(t, ct, n) == (t \div ct) * ct + ct * n

Before(e, f) == e.when < f.when \/ (e.when = f.when /\ e.seq < f.seq)
First(e)     == e \in pending /\ \A f \in pending \ {e} : Before(e, f)

Init ==
  /\ pending = {} /\ seq = 0 /\ now = 0
  /\ running = None /\ draining = FALSE

Schedule ==
  \E ct \in CycleTimes, n \in 0..MaxAfter :
    /\ pending' = pending \union {[when |-> When(now, ct, n), seq |-> seq, at |-> now, after |-> n]}
    /\ seq' = seq + 1
    /\ UNCHANGED <<now, running, draining>>

Run ==
  \E e \in pending :
    /\ First(e) /\ (draining \/ e.when <= now)
    /\ pending' = pending \ {e}
    /\ running' = e
    /\ now' = IF draining THEN e.when ELSE now
    /\ UNCHANGED <<seq, draining>>

Advance ==
  /\ ~draining
  /\ \A e \in pending : e.when > now
  /\ now' = now + CycleTime
  /\ running' = None
  /\ draining' \in BOOLEAN
  /\ UNCHANGED <<pending, seq>>

Drain ==
  /\ draining' = TRUE
  /\ running' = None
  /\ UNCHANGED <<pending, seq, now>>

Next == Schedule \/ Run \/ Advance \/ Drain

Spec == Init /\ [][Next]_vars

-----------------------------------------------------------------------------
\* Type invariant: the pending events, the time and the event that runs.
TypeOK ==
  /\ pending \subseteq Event /\ seq \in Nat /\ now \in Nat
  /\ running \in Event \union {None} /\ draining \in BOOLEAN

\* The first multiple of the main loop's cycle is never missed: while the loop runs, no
\* scheduled event is a whole cycle behind (esim_process_events handles all that is due
\* before it moves the time).
NeverLate ==
  ~draining => \A e \in pending : now < e.when + CycleTime \/ e.at = now

\* An event runs once its time has come, while the loop runs in the first cycle that reaches
\* it; one scheduled for a later cycle of its domain never runs at the time at which it was
\* scheduled, though the time is rounded down to the domain's cycle.
OnTime ==
  running # None =>
    /\ running.when <= now
    /\ ~draining => now < running.when + CycleTime \/ running.at = now
    /\ running.after > 0 => now > running.at

=============================================================================
