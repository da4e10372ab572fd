-------------------------- MODULE WeightedBulkhead --------------------------
(***************************************************************************)
(* What a weighted bulkhead promises its callers, with nothing of how it   *)
(* is done: nobody is let in over the capacity, the others wait in line,   *)
(* and the line is served from its head for as long as the head fits: not  *)
(* further, so that cheap callers do not starve a costly one, and not      *)
(* less.  Every change of the owners or of the line is one atomic step     *)
(* that ends with the line served.                                         *)
(*                                                                         *)
(* The module is the abstract specification of WeightedAdmission.tla.      *)
(***************************************************************************)
EXTENDS Naturals, Sequences, FiniteSets, SequencesExt

CONSTANTS
    Callers,    \* who may ask for units
    Prices,     \* how many units a caller may ask for
    Limits,     \* the capacities a resize may choose, in units
    Room        \* the longest line

VARIABLES
    price,      \* the units each caller asks for
    owners,     \* the callers that hold their units
    queue,      \* the callers in line, first come first
    limit,      \* the capacity at the moment
    open        \* FALSE for ever once the bulkhead is closed

bulkhead == <<price, owners, queue, limit, open>>

\* The units of some callers, each of whom has as many as it asks for.
Load(callers) == Cardinality(UNION {{c} \X (1..price[c]) : c \in callers})

\* The owners O and the line q become what is left after the first k of q are let in.
LetIn(O, q, k) ==
    /\ owners' = O \cup ToSet(SubSeq(q, 1, k))
    /\ queue' = SubSeq(q, k + 1, Len(q))

\* The longest start of the line that fits beside O in n units is let in.
Serve(O, q, n) ==
    LET Fits(k) == Load(O \cup ToSet(SubSeq(q, 1, k))) <= n IN
    \E k \in 0..Len(q) :
        /\ k = 0 \/ Fits(k)
        /\ k = Len(q) \/ ~Fits(k + 1)
        /\ LetIn(O, q, k)

Init ==
    /\ price \in [Callers -> Prices]
    /\ owners = {}
    /\ queue = <<>>
    /\ limit \in Limits
    /\ open = TRUE

\* A caller that could run alone arrives at the end of the line.
Arrive(c) ==
    /\ open /\ price[c] <= limit
    /\ c \notin owners /\ c \notin ToSet(queue)
    /\ Serve(owners, Append(queue, c), limit)
    /\ Len(queue') <= Room
    /\ UNCHANGED <<price, limit, open>>

\* A caller in line gives up, which may be what those behind it waited for.
Withdraw(c) ==
    /\ \E i \in 1..Len(queue) : queue[i] = c /\ Serve(owners, RemoveAt(queue, i), limit)
    /\ UNCHANGED <<price, limit, open>>

\* An owner leaves and its units serve the line.
Leave(c) ==
    /\ c \in owners
    /\ Serve(owners \ {c}, queue, limit)
    /\ UNCHANGED <<price, limit, open>>

\* The capacity changes, but never below what somebody in line asks for.
Resize(n) ==
    /\ open
    /\ \A c \in ToSet(queue) : price[c] <= n
    /\ limit' = n
    /\ Serve(owners, queue, n)
    /\ UNCHANGED <<price, open>>

\* Admission ends and the line is sent away; the owners stay.
Close ==
    /\ open
    /\ open' = FALSE
    /\ queue' = <<>>
    /\ UNCHANGED <<price, owners, limit>>

Next ==
    \/ \E c \in Callers : Arrive(c) \/ Withdraw(c) \/ Leave(c)
    \/ \E n \in Limits : Resize(n)
    \/ Close

Spec == Init /\ [][Next]_bulkhead
=============================================================================
