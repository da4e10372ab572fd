------------------------------ MODULE Bulkhead ------------------------------
(***************************************************************************)
(* What a bulkhead promises its callers, with nothing of how it is done:   *)
(* at most `limit' callers are let in at a time, the others wait in line,  *)
(* free capacity never sits beside a waiting caller, and a closed bulkhead *)
(* lets nobody in.  Every change of the owners or of the line is one       *)
(* atomic step that ends with the line served.                             *)
(*                                                                         *)
(* The module is the abstract specification of Admission.tla, which models *)
(* src/bulklink/_internal/coordinator.py and implements this module.       *)
(***************************************************************************)
EXTENDS Naturals, Sequences, SequencesExt

CONSTANTS
    Callers,    \* who may ask for a slot
    Limits,     \* the capacities a resize may choose
    Room        \* the longest line

VARIABLES
    owners,     \* the callers that hold a slot
    queue,      \* the callers in line, first come first
    limit,      \* the capacity at the moment
    open        \* FALSE for ever once the bulkhead is closed

bulkhead == <<owners, queue, limit, open>>

Lesser(m, n) == IF m < n THEN m ELSE n

\* How many of a line q get a slot beside the owners O when n slots exist.
Served(O, q, n) ==
    IF n <= Cardinality(O) THEN 0 ELSE Lesser(Len(q), n - Cardinality(O))

\* The first callers of q take the slots that O leaves free; the rest wait.
Serve(O, q, n) ==
    LET k == Served(O, q, n)
    IN  /\ owners' = O \cup ToSet(SubSeq(q, 1, k))
        /\ queue'  = SubSeq(q, k + 1, Len(q))

Init ==
    /\ owners = {}
    /\ queue = <<>>
    /\ limit \in Limits
    /\ open = TRUE

\* A caller arrives at the end of the line, which is served at once.
Arrive(c) ==
    /\ open
    /\ c \notin owners
    /\ c \notin ToSet(queue)
    /\ Serve(owners, Append(queue, c), limit)
    /\ Len(queue') <= Room
    /\ UNCHANGED <<limit, open>>

\* A caller in line gives up (timeout or cancellation).
Withdraw(c) ==
    /\ \E i \in 1..Len(queue) : queue[i] = c /\ queue' = RemoveAt(queue, i)
    /\ UNCHANGED <<owners, limit, open>>

\* An owner leaves and its slot serves the line.
Leave(c) ==
    /\ c \in owners
    /\ Serve(owners \ {c}, queue, limit)
    /\ UNCHANGED <<limit, open>>

\* The capacity changes: owners stay, new slots serve the line.
Resize(n) ==
    /\ open
    /\ limit' = n
    /\ Serve(owners, queue, n)
    /\ UNCHANGED open

\* Admission ends and the line is sent away; the owners stay.
Close ==
    /\ open
    /\ open' = FALSE
    /\ queue' = <<>>
    /\ UNCHANGED <<owners, limit>>

Next ==
    \/ \E c \in Callers : Arrive(c) \/ Withdraw(c) \/ Leave(c)
    \/ \E n \in Limits : Resize(n)
    \/ Close

Spec == Init /\ [][Next]_bulkhead
=============================================================================
