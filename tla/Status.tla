------------------------------- MODULE Status -------------------------------
(***************************************************************************)
(* BulkheadStatus and BulkheadInterval (src/bulklink/status.py): what a    *)
(* snapshot of the coordinator says, and what the difference of two says.  *)
(* label and waiting_room never change and snapshot_index orders the       *)
(* snapshots of one bulkhead, so of the checks of since() those are left   *)
(* that depend on what the bulkhead did in between.  Wait durations are    *)
(* not modelled.                                                           *)
(***************************************************************************)
EXTENDS Admission

\* AdmissionCoordinator.status(), in one step.
Status ==
    [parallelism |-> parallelism, in_flight |-> in_flight, waiting |-> Len(waiters),
     totals |-> counters, peak_in_flight |-> peaks.in_flight,
     peak_waiting |-> peaks.waiting, is_closed |-> closed]

-----------------------------------------------------------------------------
(* The derived properties of a status.                                     *)

IsDrained(s) == s.is_closed /\ s.in_flight = 0 /\ s.waiting = 0

\* Faulty: counts a slot that a resize took away.
IsSaturated_Excess(s) == s.in_flight = s.parallelism

IsSaturated(s) == s.in_flight >= s.parallelism
IsOverCapacity(s) == s.in_flight > s.parallelism

DirectAdmitted(s) == s.totals["admitted"] - s.totals["admitted_from_queue"]

-----------------------------------------------------------------------------
(* since(): the interval between two snapshots.                            *)

\* _validate_interval_snapshots raises ValueError unless this holds.
Comparable(start, end) ==
    /\ start.is_closed => end.is_closed
    /\ \A k \in CounterNames : start.totals[k] <= end.totals[k]
    /\ start.peak_in_flight <= end.peak_in_flight
    /\ start.peak_waiting <= end.peak_waiting

\* BulkheadInterval._between: how much each total grew.
Interval(start, end) == [k \in CounterNames |-> end.totals[k] - start.totals[k]]

\* Faulty: forgets those who were cancelled in line.
SettledWaiting_NoCancelled(i) ==
    i["admitted_from_queue"] + i["expired"] + i["closed_while_waiting"]

\* BulkheadInterval.settled_waiting: who left the waiting room.
SettledWaiting(i) ==
    i["admitted_from_queue"] + i["cancelled_while_waiting"] + i["expired"]
    + i["closed_while_waiting"]

\* has_activity leaves one total out: an admission from the queue is one.
HasActivity(i) == \E k \in CounterNames \ {"admitted_from_queue"} : i[k] # 0

\* What the interval of one step says of it.
SoundStep ==
    LET i == Interval(Status, Status') IN
    /\ Comparable(Status, Status')
    /\ in_flight' - in_flight = i["admitted"] - i["finished"] - i["abandoned"]
    /\ Len(waiters') - Len(waiters) = i["queued"] - SettledWaiting(i)
    /\ ~HasActivity(i) => waiters' = waiters /\ Owners' = Owners

\* Any later status can be compared with an earlier one, and the interval tells
\* what happened to the bulkhead: the active and the waiting change by what came
\* less what left, and without activity nobody moved.  Stated of one step; both
\* parts add up over any number of steps (theorem IntervalsAddUp of StatusProofs).
IntervalIsSound == [][SoundStep]_vars
=============================================================================
