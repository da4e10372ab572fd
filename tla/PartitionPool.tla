---------------------------- MODULE PartitionPool ----------------------------
(***************************************************************************)
(* What a partitioned bulkhead promises about its partitions, with nothing *)
(* of how one partition makes room for another: at most Room partitions    *)
(* are retained, one per key, and none that a caller uses is taken away.   *)
(*                                                                         *)
(* The module is the abstract specification of PartitionManager.tla, which *)
(* models src/bulklink/_internal/partitioned_coordinator.py and implements *)
(* this module.                                                            *)
(***************************************************************************)
EXTENDS Naturals, FiniteSets

CONSTANTS
    Users,      \* who may use a partition
    Names,      \* the partition keys
    Room,       \* the most partitions retained
    NoName      \* what a caller without a partition uses

VARIABLES
    retained,   \* the keys whose partition exists
    using,      \* the key of the partition each caller uses
    accepting   \* FALSE for ever once the pool is closed

pool == <<retained, using, accepting>>

Unused(n) == \A u \in Users : using[u] # n

Init ==
    /\ retained = {}
    /\ using = [u \in Users |-> NoName]
    /\ accepting = TRUE

\* A caller takes the partition of its key, which may be a new one.
Borrow(u, n) ==
    /\ accepting
    /\ using[u] = NoName
    /\ n \in retained \/ Cardinality(retained) < Room
    /\ using' = [using EXCEPT ![u] = n]
    /\ retained' = retained \cup {n}
    /\ UNCHANGED accepting

GiveBack(u) ==
    /\ using[u] # NoName
    /\ using' = [using EXCEPT ![u] = NoName]
    /\ UNCHANGED <<retained, accepting>>

\* Partitions that nobody uses make room.
Reclaim(N) ==
    /\ accepting
    /\ \A n \in N : Unused(n)
    /\ retained' = retained \ N
    /\ UNCHANGED <<using, accepting>>

Close ==
    /\ accepting' = FALSE
    /\ UNCHANGED <<retained, using>>

\* After the last caller has left a closed pool forgets its keys.
Clear ==
    /\ ~accepting
    /\ \A n \in Names : Unused(n)
    /\ retained' = {}
    /\ UNCHANGED <<using, accepting>>

Next ==
    \/ \E u \in Users : GiveBack(u) \/ \E n \in Names : Borrow(u, n)
    \/ \E N \in SUBSET Names : Reclaim(N)
    \/ Close
    \/ Clear

Spec == Init /\ [][Next]_pool
=============================================================================
