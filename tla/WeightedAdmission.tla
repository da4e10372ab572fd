------------------------- MODULE WeightedAdmission -------------------------
(***************************************************************************)
(* WeightedAdmissionCoordinator (_internal/weighted_coordinator.py under   *)
(* src/bulklink): a FIFO line of operations with costs for a capacity in   *)
(* units.  What differs from Admission.tla is that one departure may let   *)
(* several waiters in or none: there is no handoff of a slot, but a loop   *)
(* that admits from the head of the line while its cost fits.              *)
(*                                                                         *)
(* Each c in Calls is one `async with bulkhead.slot(cost):' of one task;   *)
(* as in Admission.tla a step is what lies between two suspensions.        *)
(***************************************************************************)
EXTENDS Naturals, Sequences, FiniteSets, SequencesExt

CONSTANTS
    Calls,          \* the uses of the bulkhead, each by a task
    Closers,        \* the tasks that call close_and_wait or wait_closed
    Costs,          \* the units an operation may ask for
    Capacities,     \* the values of `capacity'
    WaitingRoom     \* self._waiting_room

ASSUME WeightedAssumption ==
    /\ IsFiniteSet(Calls)
    /\ Costs \subseteq Nat \ {0} /\ Capacities \subseteq Nat \ {0}
    /\ WaitingRoom \in Nat

VARIABLES
    capacity,       \* self._capacity
    waiters,        \* self._waiters, the calls of the entries
    used,           \* self._used, in units
    in_flight,      \* self._in_flight, in operations
    waiting_units,  \* self._waiting_units
    closed,         \* self._closed
    drained,        \* self._drained_event.is_set()
    cost,           \* the cost of each call
    entry,          \* WeightedWaitEntry.state, "none" while it has no entry
    pc,             \* where the task of a call is
    interrupted,    \* the calls whose expiry remembers a cancellation
    shut,           \* where a closer is in close_and_wait or wait_closed
    counters        \* WeightedRuntimeCounters, the totals

lineVars == <<waiters, waiting_units, entry>>
unitVars == <<used, in_flight>>
taskVars == <<pc, interrupted>>
vars == <<capacity, lineVars, unitVars, closed, drained, cost, taskVars, shut, counters>>

\* As in Admission.tla; refused: told of a ValueError.
Suspended == {"waiting", "expiring", "expired", "cancelling"}
Settled == {"finished", "rejected", "refused", "timed_out", "closed", "cancelled"}
CallStates == {"idle", "running", "releasing"} \cup Suspended \cup Settled
WaitStates == {"none", "WAITING", "ADMITTED", "CANCELLED", "EXPIRED", "CLOSED"}
CloserStates == {"idle", "waiting", "returned", "cancelled"}

CounterNames ==
    {"admitted", "admitted_units", "admitted_from_queue", "admitted_from_queue_units",
     "abandoned", "abandoned_units", "queued", "queued_units", "saturated", "expired",
     "expired_before_queue", "cancelled_while_waiting", "closed_before_queue",
     "closed_while_waiting", "finished", "finished_units"}

\* The units of a set of calls, each of which has as many as it costs.
UnitsOf(calls) == Cardinality(UNION {{c} \X (1..cost[c]) : c \in calls})

\* The units of a line, in which nobody stands twice.
Units(line) == UnitsOf(ToSet(line))

\* What is added to the counters: one to a name, and to another so many units.
One(name) == [k \in {name} |-> 1]
OneAndUnits(name, units, n) == [k \in {name, units} |-> IF k = name THEN 1 ELSE n]

\* The counters after the additions of a record are made.
Plus(add) ==
    [k \in CounterNames |-> IF k \in DOMAIN add THEN counters[k] + add[k] ELSE counters[k]]

\* The counters after that, and after k are admitted from the line with their units.
PlusAdmitted(add, k, units) ==
    [Plus(add) EXCEPT !["admitted"] = @ + k, !["admitted_units"] = @ + units,
                      !["admitted_from_queue"] = @ + k,
                      !["admitted_from_queue_units"] = @ + units]

Init ==
    /\ capacity \in Capacities
    /\ waiters = <<>> /\ waiting_units = 0
    /\ used = 0 /\ in_flight = 0
    /\ closed = FALSE /\ drained = FALSE
    /\ cost \in [Calls -> Costs]
    /\ entry = [c \in Calls |-> "none"]
    /\ interrupted = {}
    /\ pc = [c \in Calls |-> "idle"]
    /\ shut = [s \in Closers |-> "idle"]
    /\ counters = [k \in CounterNames |-> 0]

-----------------------------------------------------------------------------
(* Steps of the coordinator, under its lock.                               *)

\* Faulty: looks for room and not at the line.
CanAdmitDirectly_PastLine(c) == used + cost[c] <= capacity

CanAdmitDirectly(c) == waiters = <<>> /\ used + cost[c] <= capacity

\* _admit_available_waiters_locked over a line, the present one or what is left of
\* it, whose entries have the given states, while f operations use u of n units:
\* it admits from the head and stops at the first that does not fit.  What was
\* counted before is in add.
AdmitWaiters(line, states, u, f, n, add) ==
    \E k \in 0..Len(line) :
        LET units == Units(SubSeq(line, 1, k)) IN
        /\ k > 0 => u + units <= n
        /\ k < Len(line) => u + Units(SubSeq(line, 1, k + 1)) > n
        /\ waiters' = SubSeq(line, k + 1, Len(line))
        /\ waiting_units' = waiting_units - (Units(waiters) - Units(line)) - units
        /\ entry' = [c \in Calls |->
                        IF \E i \in 1..k : line[i] = c THEN "ADMITTED" ELSE states[c]]
        /\ used' = u + units /\ in_flight' = f + k
        /\ counters' = PlusAdmitted(add, k, units)

\* Faulty: leaves the line and admits nobody in its place.
LeaveQueue_NoAdmission(c, state, counter) ==
    /\ waiters' = SelectSeq(waiters, LAMBDA d : d # c)
    /\ waiting_units' = waiting_units - cost[c]
    /\ entry' = [entry EXCEPT ![c] = state]
    /\ counters' = Plus(One(counter))
    /\ UNCHANGED unitVars

\* c leaves the line unserved, which may let those behind it in.
LeaveQueue(c, state, counter) ==
    /\ \E i \in 1..Len(waiters) :
          /\ waiters[i] = c
          /\ AdmitWaiters(RemoveAt(waiters, i), [entry EXCEPT ![c] = state],
                          used, in_flight, capacity, One(counter))

\* The drained event is set once a closed coordinator has nothing in flight.
SignalDrained(is_closed, f, u) == drained' = (drained \/ (is_closed /\ f = 0 /\ u = 0))

\* Faulty: an abandoned operation gives one unit back.
ReturnUnits_One(c, count, units) ==
    /\ in_flight > 0 /\ used >= cost[c]
    /\ AdmitWaiters(waiters, entry, used - 1, in_flight - 1, capacity,
                    OneAndUnits(count, units, cost[c]))
    /\ SignalDrained(closed, in_flight', used')

\* Faulty: counts operations and not their units.
ReturnUnits_Uncounted(c, count, units) ==
    /\ in_flight > 0 /\ used >= cost[c]
    /\ AdmitWaiters(waiters, entry, used - cost[c], in_flight - 1, capacity, One(count))
    /\ SignalDrained(closed, in_flight', used')

\* _finish_admitted_locked and _abandon_admitted_locked: the units come back,
\* the line is served, and the drain is looked at.
ReturnUnits(c, count, units) ==
    /\ in_flight > 0 /\ used >= cost[c]
    /\ AdmitWaiters(waiters, entry, used - cost[c], in_flight - 1, capacity,
                    OneAndUnits(count, units, cost[c]))
    /\ SignalDrained(closed, in_flight', used')

-----------------------------------------------------------------------------
(* Admission.                                                              *)

Goto(c, state) == pc' = [pc EXCEPT ![c] = state]

Refuse(c, outcome, add) ==
    /\ Goto(c, outcome)
    /\ counters' = Plus(add)
    /\ UNCHANGED <<lineVars, unitVars>>

GrantDirectly(c) ==
    /\ CanAdmitDirectly(c)
    /\ used' = used + cost[c] /\ in_flight' = in_flight + 1
    /\ counters' = Plus([admitted |-> 1, admitted_units |-> cost[c]])
    /\ Goto(c, "running")
    /\ UNCHANGED lineVars

\* Faulty: one entry more than the room has.
JoinQueue_OneTooMany(c) ==
    /\ ~CanAdmitDirectly(c) /\ Len(waiters) <= WaitingRoom
    /\ waiters' = Append(waiters, c)
    /\ waiting_units' = waiting_units + cost[c]
    /\ entry' = [entry EXCEPT ![c] = "WAITING"]
    /\ counters' = Plus([queued |-> 1, queued_units |-> cost[c]])
    /\ Goto(c, "waiting")
    /\ UNCHANGED unitVars

JoinQueue(c) ==
    /\ ~CanAdmitDirectly(c) /\ Len(waiters) < WaitingRoom
    /\ waiters' = Append(waiters, c)
    /\ waiting_units' = waiting_units + cost[c]
    /\ entry' = [entry EXCEPT ![c] = "WAITING"]
    /\ counters' = Plus([queued |-> 1, queued_units |-> cost[c]])
    /\ Goto(c, "waiting")
    /\ UNCHANGED unitVars

\* A cost above the capacity is refused and not counted.
RejectUnfit(c) ==
    \/ closed /\ Refuse(c, "closed", [closed_before_queue |-> 1])
    \/ ~closed /\ cost[c] > capacity /\ Refuse(c, "refused", <<>>)

\* enter, enter_within and enter_before up to the first await.
Enter(c) ==
    /\ pc[c] = "idle"
    /\ \/ RejectUnfit(c)
       \/ /\ ~closed /\ cost[c] <= capacity
          /\ \/ Refuse(c, "timed_out", [expired_before_queue |-> 1])
             \/ GrantDirectly(c)
             \/ /\ ~CanAdmitDirectly(c) /\ Len(waiters) >= WaitingRoom
                /\ Refuse(c, "rejected", [saturated |-> 1])
             \/ JoinQueue(c)
    /\ UNCHANGED <<capacity, closed, drained, cost, interrupted, shut>>

EnterNow(c) ==
    /\ pc[c] = "idle"
    /\ \/ RejectUnfit(c)
       \/ /\ ~closed /\ cost[c] <= capacity
          /\ \/ GrantDirectly(c)
             \/ ~CanAdmitDirectly(c) /\ Refuse(c, "rejected", [saturated |-> 1])
    /\ UNCHANGED <<capacity, closed, drained, cost, interrupted, shut>>

-----------------------------------------------------------------------------
(* How the await of _enter ends, and the end of the body.                  *)

OnlyControl ==
    UNCHANGED <<capacity, lineVars, unitVars, closed, drained, cost, shut, counters>>

Resume(c) ==
    /\ pc[c] = "waiting"
    /\ \/ entry[c] = "ADMITTED" /\ Goto(c, "running")
       \/ entry[c] = "CLOSED" /\ Goto(c, "closed")
    /\ OnlyControl /\ UNCHANGED interrupted

\* The timer of the wait; a wait without a limit is one whose timer never fires.
Timeout(c) ==
    /\ pc[c] = "waiting"
    /\ Goto(c, "expiring")
    /\ OnlyControl /\ UNCHANGED interrupted

\* The task of _expire_waiter.
RunExpire(c) ==
    /\ pc[c] = "expiring"
    /\ Goto(c, "expired")
    /\ \/ entry[c] = "WAITING" /\ LeaveQueue(c, "EXPIRED", "expired")
       \/ entry[c] # "WAITING" /\ UNCHANGED <<lineVars, unitVars, counters>>
    /\ UNCHANGED <<capacity, closed, drained, cost, interrupted, shut>>

ResumeExpired(c) ==
    /\ pc[c] = "expired"
    /\ \/ c \in interrupted /\ Goto(c, "cancelling")
       \/ c \notin interrupted /\ entry[c] = "ADMITTED" /\ Goto(c, "running")
       \/ c \notin interrupted /\ entry[c] = "CLOSED" /\ Goto(c, "closed")
       \/ c \notin interrupted /\ entry[c] = "EXPIRED" /\ Goto(c, "timed_out")
    /\ OnlyControl
    /\ interrupted' = interrupted \ {c}

Cancel(c) ==
    /\ \/ pc[c] = "waiting" /\ Goto(c, "cancelling") /\ UNCHANGED interrupted
       \/ /\ pc[c] \in {"expiring", "expired"}
          /\ interrupted' = interrupted \cup {c}
          /\ UNCHANGED pc
    /\ OnlyControl

\* The task of _cancel_waiter.
RunCancel(c) ==
    /\ pc[c] = "cancelling"
    /\ Goto(c, "cancelled")
    /\ \/ /\ entry[c] = "WAITING"
          /\ LeaveQueue(c, "CANCELLED", "cancelled_while_waiting")
          /\ UNCHANGED drained
       \/ /\ entry[c] = "ADMITTED"
          /\ ReturnUnits(c, "abandoned", "abandoned_units")
       \/ /\ entry[c] \notin {"WAITING", "ADMITTED"}
          /\ UNCHANGED <<lineVars, unitVars, drained, counters>>
    /\ UNCHANGED <<capacity, closed, cost, interrupted, shut>>

FinishBody(c) ==
    /\ pc[c] = "running"
    /\ Goto(c, "releasing")
    /\ OnlyControl /\ UNCHANGED interrupted

\* The task of release().
RunRelease(c) ==
    /\ pc[c] = "releasing"
    /\ Goto(c, "finished")
    /\ ReturnUnits(c, "finished", "finished_units")
    /\ UNCHANGED <<capacity, closed, cost, interrupted, shut>>

-----------------------------------------------------------------------------
(* Resizing and shutdown.                                                  *)

\* Faulty: does not ask what is waiting.
Resize_Unchecked(n) ==
    /\ ~closed /\ n # capacity
    /\ capacity' = n
    /\ AdmitWaiters(waiters, entry, used, in_flight, n, <<>>)
    /\ UNCHANGED <<closed, drained, cost, taskVars, shut>>

\* A capacity below the largest waiting cost is refused with a ValueError.
Resize(n) ==
    /\ ~closed /\ n # capacity
    /\ \A i \in 1..Len(waiters) : cost[waiters[i]] <= n
    /\ capacity' = n
    /\ AdmitWaiters(waiters, entry, used, in_flight, n, <<>>)
    /\ UNCHANGED <<closed, drained, cost, taskVars, shut>>

\* Faulty: closing an idle coordinator does not signal the drain.
DoClose_NoSignal ==
    \/ closed /\ UNCHANGED <<closed, drained, lineVars, counters>>
    \/ /\ ~closed
       /\ closed' = TRUE
       /\ waiters' = <<>> /\ waiting_units' = waiting_units - Units(waiters)
       /\ entry' = [c \in Calls |-> IF c \in ToSet(waiters) THEN "CLOSED" ELSE entry[c]]
       /\ counters' = Plus([closed_while_waiting |-> Len(waiters)])
       /\ UNCHANGED drained

\* close(): the line is sent away and an idle coordinator is drained.
DoClose ==
    \/ closed /\ UNCHANGED <<closed, drained, lineVars, counters>>
    \/ /\ ~closed
       /\ closed' = TRUE
       /\ waiters' = <<>> /\ waiting_units' = waiting_units - Units(waiters)
       /\ entry' = [c \in Calls |-> IF c \in ToSet(waiters) THEN "CLOSED" ELSE entry[c]]
       /\ counters' = Plus([closed_while_waiting |-> Len(waiters)])
       /\ SignalDrained(TRUE, in_flight, used)

ShutStep(s, from, to) ==
    /\ shut[s] = from
    /\ shut' = [shut EXCEPT ![s] = to]

\* A plain close().
Close ==
    /\ ~closed
    /\ DoClose
    /\ UNCHANGED <<capacity, unitVars, cost, taskVars, shut>>

\* close_and_wait from the moment its cleanup task closes.
CloseAndWait(s) ==
    /\ ShutStep(s, "idle", "waiting")
    /\ DoClose
    /\ UNCHANGED <<capacity, unitVars, cost, taskVars>>

\* wait_closed() by a task that does not close; nobody may have closed yet.
WaitClosed(s) ==
    /\ ShutStep(s, "idle", "waiting")
    /\ UNCHANGED <<capacity, lineVars, unitVars, closed, drained, cost, taskVars, counters>>

ReturnClosed(s) ==
    /\ drained
    /\ ShutStep(s, "waiting", "returned")
    /\ UNCHANGED <<capacity, lineVars, unitVars, closed, drained, cost, taskVars, counters>>

\* The wait is cancelled, or a cancellation remembered during close() is raised.
CancelCloser(s) ==
    /\ ShutStep(s, "waiting", "cancelled")
    /\ UNCHANGED <<capacity, lineVars, unitVars, closed, drained, cost, taskVars, counters>>

\* Nothing is left to happen.
Terminated ==
    /\ closed /\ drained
    /\ \A c \in Calls : pc[c] \in Settled
    /\ \A s \in Closers : shut[s] \in {"returned", "cancelled"}
    /\ UNCHANGED vars

Next ==
    \/ \E c \in Calls :
          \/ Enter(c) \/ EnterNow(c)
          \/ Resume(c) \/ Timeout(c) \/ RunExpire(c) \/ ResumeExpired(c)
          \/ Cancel(c) \/ RunCancel(c)
          \/ FinishBody(c) \/ RunRelease(c)
    \/ \E n \in Capacities : Resize(n)
    \/ Close
    \/ \E s \in Closers :
          CloseAndWait(s) \/ WaitClosed(s) \/ ReturnClosed(s) \/ CancelCloser(s)
    \/ Terminated

Spec == Init /\ [][Next]_vars

\* As in Admission.tla: a task that is ready runs and bodies end; nothing else has
\* to happen.
Fairness ==
    /\ \A c \in Calls :
          WF_vars(\/ Resume(c) \/ RunExpire(c) \/ ResumeExpired(c)
                  \/ RunCancel(c) \/ FinishBody(c) \/ RunRelease(c))
    /\ \A s \in Closers : WF_vars(ReturnClosed(s))

FairSpec == Spec /\ Fairness

-----------------------------------------------------------------------------
(* Properties.                                                             *)

\* The calls that hold units.
Owners ==
    {c \in Calls : \/ pc[c] \in {"running", "releasing"}
                   \/ pc[c] \in Suspended /\ entry[c] = "ADMITTED"}

\* Every variable has its type and the waiting room its bound.
TypeOK ==
    /\ capacity \in Capacities
    /\ waiters \in Seq(Calls) /\ Len(waiters) <= WaitingRoom
    /\ used \in Nat /\ in_flight \in Nat /\ waiting_units \in Nat
    /\ closed \in BOOLEAN /\ drained \in BOOLEAN
    /\ cost \in [Calls -> Costs]
    /\ entry \in [Calls -> WaitStates]
    /\ pc \in [Calls -> CallStates]
    /\ interrupted \subseteq {c \in Calls : pc[c] \in {"expiring", "expired"}}
    /\ shut \in [Closers -> CloserStates]
    /\ counters \in [CounterNames -> Nat]

\* No unit is lost or used twice: `used' and `waiting_units', which are only
\* ever added to and subtracted from, are the sums over those who hold units and
\* those who wait; the line holds exactly the entries that are WAITING.
UnitAccounting ==
    /\ used = UnitsOf(Owners) /\ in_flight = Cardinality(Owners)
    /\ ToSet(waiters) = {c \in Calls : entry[c] = "WAITING"}
    /\ waiting_units = UnitsOf(ToSet(waiters))

\* The head of the line waits only because it does not fit beside those inside,
\* even after a cheaper or costlier call ahead of it gave up; and everybody in line
\* could run alone: no resize strands a cost.
WorkConserving ==
    /\ waiters # <<>> => used + cost[Head(waiters)] > capacity
    /\ \A i \in 1..Len(waiters) : cost[waiters[i]] <= capacity

\* The drained event is set exactly while the bulkhead is closed and empty, so
\* close_and_wait returns then and not before.
DrainExact ==
    /\ drained <=> closed /\ in_flight = 0
    /\ \A s \in Closers : shut[s] = "returned" => closed /\ Owners = {} /\ waiters = <<>>

\* First come, first served, however cheap those behind are: a call is admitted
\* only when all ahead of it have left the line, nobody is admitted past the line,
\* and a step that admits leaves the units within the capacity.
ServesInOrder ==
    /\ \A i, j \in 1..Len(waiters) :
          i < j /\ waiters[j] \in Owners' => entry'[waiters[i]] # "WAITING"
    /\ \A c \in Owners' \ Owners : c \notin ToSet(waiters) => waiters = <<>>
    /\ Owners' \subseteq Owners \/ used' <= capacity'

\* Every step serves in order.
NoOvertaking == [][ServesInOrder]_vars

\* Every call that started is settled for good, the costly ones too, and nobody
\* waits for the drain for ever once somebody has closed.
EverybodySettles ==
    <>[] /\ \A c \in Calls : pc[c] \in {"idle"} \cup Settled
         /\ \A s \in Closers : shut[s] = "waiting" => ~closed

-----------------------------------------------------------------------------
(* Refinement: the coordinator is a weighted bulkhead.                     *)

Abstract == INSTANCE WeightedBulkhead WITH
    Callers <- Calls, Prices <- Costs, Limits <- Capacities, Room <- WaitingRoom,
    price <- cost, owners <- Owners, queue <- waiters, limit <- capacity, open <- ~closed

\* Every step of the coordinator is a step of the abstract weighted bulkhead or
\* leaves owners, line, capacity and openness alone.
ImplementsBulkhead == Abstract!Spec
=============================================================================
