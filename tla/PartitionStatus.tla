--------------------------- MODULE PartitionStatus ---------------------------
(***************************************************************************)
(* PartitionedBulkheadStatus and PartitionedBulkheadInterval               *)
(* (src/bulklink/partitioned_status.py): what a snapshot of the manager    *)
(* says, and what the difference of two says.  The stable fields and the   *)
(* peaks are not modelled.                                                 *)
(***************************************************************************)
EXTENDS PartitionManager, Integers

\* Faulty: counts the callers where it should count the children.
ActivePartitions_Leases == Cardinality({c \in Callers : HasChild(c)})

\* _active_partitions_locked.
ActivePartitions == Cardinality({e \in partitions : borrowers[e] > 0})

\* PartitionCoordinator.status(), in one step.
Status ==
    [partition_count |-> Cardinality(partitions), active_partitions |-> ActivePartitions,
     leased_operations |-> leased, totals |-> totals, is_closed |-> lifecycle # "OPEN"]

IdlePartitions(s) == s.partition_count - s.active_partitions

\* available_partition_slots is 0.
IsAtLimit(s) == s.partition_count >= MaxPartitions

\* _validate_partitioned_interval_snapshots raises ValueError unless this holds.
Comparable(start, end) ==
    /\ start.is_closed => end.is_closed
    /\ \A k \in Totals : start.totals[k] <= end.totals[k]

\* PartitionedBulkheadInterval._between: how much each total grew.
Interval(start, end) == [k \in Totals |-> end.totals[k] - start.totals[k]]

Reclaimed(i) == i["evicted"] + i["discarded"]

HasActivity(i) == \E k \in Totals : i[k] # 0

-----------------------------------------------------------------------------
(* Properties.                                                             *)

Limited == {c \in Callers : pc[c] = "limited"}

\* A report of the manager is true, and so is the difference of two.  Any later
\* status can be compared with an earlier one; the number of children changes by
\* those made less those reclaimed, until shutdown forgets the rest; only idle
\* ones are reclaimed and none is made at the limit, or after closing by a caller
\* that waited for its victim meanwhile; every refusal for the limit is counted,
\* and without activity no key lost or changed its child.  As many partitions are
\* active as there are keys in use.
SoundStep ==
    LET s == Status
        i == Interval(s, Status') IN
    /\ Comparable(s, Status')
    /\ \/ Status'.partition_count - s.partition_count = i["created"] - Reclaimed(i)
       \/ s.is_closed /\ partitions' = {}
    /\ Reclaimed(i) <= IdlePartitions(s)
    /\ i["created"] > 0 => ~IsAtLimit(s)
    /\ s.is_closed => ~HasActivity(i)
    /\ i["limit_rejected"] = Cardinality(Limited' \ Limited)
    /\ HasActivity(i) \/ s.is_closed \/ partitions' = partitions
    /\ s.active_partitions = Cardinality({wanted[c] : c \in {d \in Callers : HasChild(d)}})

\* Every step is told soundly.
IntervalIsSound == [][SoundStep]_vars
=============================================================================
