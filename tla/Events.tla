------------------------------- MODULE Events -------------------------------
(***************************************************************************)
(* The events of a bulkhead (src/bulklink/events.py) and what a handler    *)
(* can make of them.  Labels, times and durations are left out.            *)
(***************************************************************************)
EXTENDS Naturals, Sequences, FiniteSets

\* BulkheadEvent: state is the parallelism, in_flight, waiting and is_closed
\* that it announces.
Event(kind, from_queue, affected_waiters, state) ==
    [kind |-> kind, from_queue |-> from_queue,
     affected_waiters |-> affected_waiters, state |-> state]

\* Events of one kind from the queue, one for each of the states.
FromQueue(kind, states) ==
    [k \in DOMAIN states |-> Event(kind, TRUE, 0, states[k])]

-----------------------------------------------------------------------------
(* A handler keeps its own gauges, moved by the kinds of the events alone, *)
(* and remembers whether the history it was told is one of a bulkhead.     *)

Gauges(state, drained) == [state |-> state, drained |-> drained, legal |-> TRUE]

\* The state after e, by its kind.
Moved(s, e) ==
    CASE e.kind = "ADMITTED" ->
            [s EXCEPT !.in_flight = @ + 1, !.waiting = IF e.from_queue THEN @ - 1 ELSE @]
      [] e.kind = "QUEUED" -> [s EXCEPT !.waiting = @ + 1]
      [] e.kind \in {"EXPIRED", "CANCELLED", "CLOSED_REJECTION"} ->
            [s EXCEPT !.waiting = IF e.from_queue THEN @ - 1 ELSE @]
      [] e.kind \in {"RELEASED", "ABANDONED"} -> [s EXCEPT !.in_flight = @ - 1]
      [] e.kind = "RESIZED" -> [s EXCEPT !.parallelism = e.state.parallelism]
      [] e.kind = "CLOSED" -> [s EXCEPT !.is_closed = TRUE]
      [] e.kind \in {"SATURATED", "DRAINED"} -> s

\* Whether e may happen in the state s of a bulkhead.
Possible(s, e) ==
    CASE e.kind = "ADMITTED" ->
            ~s.is_closed /\ s.in_flight < s.parallelism /\ (s.waiting > 0 <=> e.from_queue)
      [] e.kind \in {"QUEUED", "SATURATED"} -> ~s.is_closed /\ s.in_flight >= s.parallelism
      [] e.kind \in {"EXPIRED", "CANCELLED"} -> e.from_queue => s.waiting > 0
      [] e.kind = "CLOSED_REJECTION" -> s.is_closed /\ (s.waiting > 0 <=> e.from_queue)
      [] e.kind \in {"RELEASED", "ABANDONED"} -> s.in_flight > 0
      [] e.kind \in {"RESIZED", "CLOSED"} -> ~s.is_closed
      [] e.kind = "DRAINED" -> s.is_closed /\ s.in_flight = 0 /\ s.waiting = 0

\* RELEASED and ABANDONED announce the state after the slot was handed on.
Announces(e, s) == e.kind \in {"RELEASED", "ABANDONED"} \/ e.state = s

Follow(gauges, e) ==
    LET next == Moved(gauges.state, e) IN
    [state |-> next,
     drained |-> gauges.drained \/ e.kind = "DRAINED",
     legal |-> /\ gauges.legal
               /\ Possible(gauges.state, e)
               /\ e.kind = "DRAINED" => ~gauges.drained
               /\ Announces(e, next)]

\* Exactly as many of the waiting are affected as the events that follow tell.
AffectedTold(events) ==
    \A i \in 1..Len(events) :
        events[i].kind \in {"RESIZED", "CLOSED"} =>
            events[i].affected_waiters =
                Cardinality({j \in i+1..Len(events) : events[j].from_queue})

\* The gauges of a handler that was given the events of one operation.
Watch(gauges, events) ==
    LET after[k \in 0..Len(events)] ==
            IF k = 0 THEN gauges ELSE Follow(after[k - 1], events[k])
    IN [after[Len(events)] EXCEPT !.legal = @ /\ AffectedTold(events)]
=============================================================================
