------------------------------- MODULE EventList -------------------------------
(***************************************************************************)
(* The pending events as the handlers see them, by what EventSchedule        *)
(* promises: ordered by time and, at the same time, by arrival.  An event is  *)
(* a record whose field left counts the cycles until it is due; the other     *)
(* fields belong to its handler.                                           *)
(***************************************************************************)
EXTENDS Naturals, Sequences, FiniteSets, SequencesExt

\* esim_schedule_event
Scheduled(es, e) == InsertAt(es, Cardinality({i \in DOMAIN es : es[i].left <= e.left}) + 1, e)

\* A handler's calls of it in turn: all[k] has the first k of the new events.
ScheduledAll(es, new) ==
  LET all[k \in 0..Len(new)] == IF k = 0 THEN es ELSE Scheduled(all[k - 1], new[k])
  IN  all[Len(new)]

\* The first event is due: esim_process_events calls its handler.
IsDue(es) == es # <<>> /\ Head(es).left = 0

\* No event of this cycle is left: the time moves on.
IsQuiet(es) == es # <<>> => Head(es).left > 0
OneLess(n)  == IF n = 0 THEN 0 ELSE n - 1
Elapsed(es) == [i \in DOMAIN es |-> [es[i] EXCEPT !.left = OneLess(@)]]

=============================================================================
