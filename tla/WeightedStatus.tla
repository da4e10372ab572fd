--------------------------- MODULE WeightedStatus ---------------------------
(***************************************************************************)
(* WeightedBulkheadStatus and WeightedBulkheadInterval                     *)
(* (src/bulklink/weighted_status.py): what a snapshot of the weighted      *)
(* coordinator says, and what the difference of two says.  As in           *)
(* Status.tla the checks of since() that depend on the bulkhead are left;  *)
(* peaks and wait durations are not modelled.                              *)
(***************************************************************************)
EXTENDS WeightedAdmission, Integers

\* WeightedAdmissionCoordinator.status(), in one step.
Status ==
    [capacity |-> capacity, used |-> used, in_flight |-> in_flight,
     waiting |-> Len(waiters), waiting_units |-> waiting_units,
     totals |-> counters, is_closed |-> closed]

-----------------------------------------------------------------------------
(* The derived properties of a status.                                     *)

IsDrained(s) == s.is_closed /\ s.used = 0 /\ s.in_flight = 0 /\ s.waiting = 0

\* available is 0, for which a bulkhead that was shrunk need not be exactly full.
IsSaturated(s) == s.used >= s.capacity

-----------------------------------------------------------------------------
(* since(): the interval between two snapshots.                            *)

\* _validate_weighted_interval_snapshots raises ValueError unless this holds.
Comparable(start, end) ==
    /\ start.is_closed => end.is_closed
    /\ \A k \in CounterNames : start.totals[k] <= end.totals[k]

\* WeightedBulkheadInterval._between: how much each total grew.
Interval(start, end) == [k \in CounterNames |-> end.totals[k] - start.totals[k]]

\* settled_waiting: who left the waiting room.
SettledWaiting(i) ==
    i["admitted_from_queue"] + i["cancelled_while_waiting"] + i["expired"]
    + i["closed_while_waiting"]

DirectAdmitted(i) == i["admitted"] - i["admitted_from_queue"]
DirectAdmittedUnits(i) == i["admitted_units"] - i["admitted_from_queue_units"]

\* has_activity leaves the totals in units out, and one in operations.
HasActivity(i) ==
    \E k \in {"admitted", "abandoned", "queued", "saturated", "expired",
              "expired_before_queue", "cancelled_while_waiting",
              "closed_before_queue", "closed_while_waiting", "finished"} : i[k] # 0

-----------------------------------------------------------------------------
(* Properties.                                                             *)

\* What a step told of the operations, in numbers and in units.
OperationsTold(i) ==
    /\ in_flight' - in_flight = i["admitted"] - i["finished"] - i["abandoned"]
    /\ used' - used = i["admitted_units"] - i["finished_units"] - i["abandoned_units"]
    /\ i["admitted_units"] = UnitsOf(Owners' \ Owners)

\* What it told of the line: there is no total of the units that left it unserved.
LineTold(i) ==
    LET unserved == {c \in Calls : /\ entry[c] = "WAITING"
                                   /\ entry'[c] \in {"EXPIRED", "CANCELLED", "CLOSED"}} IN
    /\ Len(waiters') - Len(waiters) = i["queued"] - SettledWaiting(i)
    /\ waiting_units' - waiting_units =
          i["queued_units"] - i["admitted_from_queue_units"] - UnitsOf(unserved)

\* Any later status can be compared with an earlier one, and what the interval
\* says in operations and in units is what happened: active and waiting change
\* by what came less what left, who did not wait was admitted for what it asked,
\* and without activity nobody moved.  A status tells whether wait_closed returns
\* and never calls saturated a bulkhead that would admit the next operation.
SoundStep ==
    LET i == Interval(Status, Status') IN
    /\ Comparable(Status, Status')
    /\ OperationsTold(i) /\ LineTold(i)
    /\ DirectAdmitted(i) = 0 <=> DirectAdmittedUnits(i) = 0
    /\ ~HasActivity(i) => waiters' = waiters /\ Owners' = Owners
    /\ IsDrained(Status') <=> drained'
    /\ IsSaturated(Status) => DirectAdmitted(i) = 0

\* Every step is told soundly.
IntervalIsSound == [][SoundStep]_vars
=============================================================================
