--------------------------- MODULE WeightedProofs ---------------------------
(***************************************************************************)
(* Theorems about WeightedAdmission for every finite set of calls, any     *)
(* costs, capacities and waiting room: no unit is lost or used twice, the  *)
(* head waits only while it does not fit, nobody overtakes, the drain is   *)
(* exact, and the coordinator implements WeightedBulkhead.                 *)
(*                                                                         *)
(* What everything rests on is that a loop which admits from the head of a *)
(* line while its cost fits leaves sums, sets and line in agreement        *)
(* (ServedLine); each departure, expiry, cancellation and resize runs it.  *)
(***************************************************************************)
EXTENDS WeightedStatus, LineProofs

-----------------------------------------------------------------------------
(* Sums of costs.                                                          *)

UnitSet(calls) == UNION {{c} \X (1..cost[c]) : c \in calls}

LEMMA CostType ==
    ASSUME cost \in [Calls -> Costs], NEW c \in Calls
    PROVE  cost[c] \in Nat /\ cost[c] >= 1
<1>1. cost[c] \in Costs
  OBVIOUS
<1>2. cost[c] \in Nat /\ cost[c] # 0
  BY <1>1, WeightedAssumption
<1> QED  BY <1>2

\* Sets without common elements have theirs together.
LEMMA DisjointUnion ==
    ASSUME NEW A, NEW B, IsFiniteSet(A), IsFiniteSet(B), A \cap B = {}
    PROVE  Cardinality(A \cup B) = Cardinality(A) + Cardinality(B)
<1>1. Cardinality(A \cup B) = Cardinality(A) + Cardinality(B) - Cardinality(A \cap B)
  BY FS_Union
<1>2. Cardinality(A \cap B) = 0 /\ Cardinality(A) \in Nat /\ Cardinality(B) \in Nat
  BY FS_EmptySet, FS_CardinalityType
<1> QED  BY <1>1, <1>2

\* The units of a single call, or of none.
LEMMA PairsWithOne ==
    ASSUME NEW c, NEW n \in Nat
    PROVE  IsFiniteSet({c} \X (1..n)) /\ Cardinality({c} \X (1..n)) = n
<1>1. IsFiniteSet({c}) /\ Cardinality({c}) = 1
  BY FS_Singleton
<1>2. IsFiniteSet(1..n) /\ Cardinality(1..n) = n
  <2>1. 1 \in Int /\ n \in Int
    OBVIOUS
  <2>2. IsFiniteSet(1..n) /\ Cardinality(1..n) = IF 1 > n THEN 0 ELSE n - 1 + 1
    BY <2>1, FS_Interval
  <2> QED  BY <2>2
<1>3. /\ IsFiniteSet({c} \X (1..n))
      /\ Cardinality({c} \X (1..n)) = Cardinality({c}) * Cardinality(1..n)
  BY <1>1, <1>2, FS_Product
<1>4. 1 * n = n
  OBVIOUS
<1> QED  BY <1>1, <1>2, <1>3, <1>4

LEMMA CallsFinite ==
    ASSUME NEW S \in SUBSET Calls
    PROVE  IsFiniteSet(S) /\ Cardinality(S) \in Nat
BY WeightedAssumption, FS_Subset, FS_CardinalityType

LEMMA UnitSetFinite ==
    ASSUME cost \in [Calls -> Costs], NEW S \in SUBSET Calls
    PROVE  IsFiniteSet(UnitSet(S))
<1> DEFINE R == {{c} \X (1..cost[c]) : c \in S}
           f == [c \in S |-> {c} \X (1..cost[c])]
<1>1. f \in Surjection(S, R)
  BY DEF Surjection
<1>2. IsFiniteSet(S)
  BY CallsFinite
<1>3. IsFiniteSet(R)
  BY <1>1, <1>2, FS_Surjection
<1>4. ASSUME NEW T \in R PROVE IsFiniteSet(T)
  <2>1. PICK c \in S : T = {c} \X (1..cost[c])
    OBVIOUS
  <2>2. cost[c] \in Nat
    BY CostType
  <2> QED  BY <2>1, <2>2, PairsWithOne
<1>5. IsFiniteSet(UNION R)
  BY <1>3, <1>4, FS_UNION
<1> QED  BY <1>5 DEF UnitSet

LEMMA UnitsType ==
    ASSUME cost \in [Calls -> Costs], NEW S \in SUBSET Calls
    PROVE  UnitsOf(S) \in Nat /\ UnitsOf(S) = Cardinality(UnitSet(S))
BY UnitSetFinite, FS_CardinalityType DEF UnitsOf, UnitSet

\* The units of one call.
LEMMA UnitsOfOne ==
    ASSUME cost \in [Calls -> Costs], NEW c \in Calls
    PROVE  UnitsOf({c}) = cost[c]
<1>1. UnitSet({c}) = {c} \X (1..cost[c])
  BY DEF UnitSet
<1>2. cost[c] \in Nat
  BY CostType
<1>3. Cardinality({c} \X (1..cost[c])) = cost[c]
  BY <1>2, PairsWithOne
<1>4. UnitsOf({c}) = Cardinality(UnitSet({c}))
  BY DEF UnitsOf, UnitSet
<1> QED  BY <1>1, <1>3, <1>4

\* Disjoint sets of calls have their units together.
LEMMA UnitsOfBoth ==
    ASSUME cost \in [Calls -> Costs], NEW S \in SUBSET Calls, NEW T \in SUBSET Calls,
           S \cap T = {}
    PROVE  UnitsOf(S \cup T) = UnitsOf(S) + UnitsOf(T)
<1>1. UnitSet(S \cup T) = UnitSet(S) \cup UnitSet(T)
  BY DEF UnitSet
<1>2. UnitSet(S) \cap UnitSet(T) = {}
  BY DEF UnitSet
<1>3. IsFiniteSet(UnitSet(S)) /\ IsFiniteSet(UnitSet(T))
  BY UnitSetFinite
<1>4. Cardinality(UnitSet(S) \cup UnitSet(T)) = Cardinality(UnitSet(S)) + Cardinality(UnitSet(T))
  BY <1>2, <1>3, DisjointUnion
<1> QED  BY <1>1, <1>4, UnitsType

\* Calls that leave take their units with them.
LEMMA UnitsOfRest ==
    ASSUME cost \in [Calls -> Costs], NEW T \in SUBSET Calls, NEW S \in SUBSET T
    PROVE  UnitsOf(T \ S) = UnitsOf(T) - UnitsOf(S) /\ UnitsOf(S) <= UnitsOf(T)
<1>1. S \cup (T \ S) = T /\ S \cap (T \ S) = {}
  OBVIOUS
<1>2. UnitsOf(T) = UnitsOf(S) + UnitsOf(T \ S)
  BY <1>1, UnitsOfBoth
<1>3. UnitsOf(S) \in Nat /\ UnitsOf(T) \in Nat /\ UnitsOf(T \ S) \in Nat
  BY UnitsType
<1> QED  BY <1>2, <1>3

\* Only nobody has no units: everybody asks for at least one.
LEMMA UnitsOfNobody ==
    ASSUME cost \in [Calls -> Costs], NEW S \in SUBSET Calls
    PROVE  UnitsOf(S) = 0 <=> S = {}
<1>1. CASE S = {}
  BY <1>1, FS_EmptySet DEF UnitsOf
<1>2. ASSUME NEW c \in S PROVE UnitsOf(S) # 0
  <2>1. UnitsOf({c}) <= UnitsOf(S)
    BY UnitsOfRest
  <2> QED  BY <2>1, CostType, UnitsOfOne, UnitsType
<1> QED  BY <1>1, <1>2

-----------------------------------------------------------------------------
(* The inductive invariant.                                                *)

\* Where a call is while it stands in line.
Queued == {"waiting", "expiring", "cancelling"}

\* Nobody stands in line twice or without waiting, and a closed bulkhead has no line.
LineInv ==
    /\ IsInjective(waiters)
    /\ \A c \in Calls : entry[c] = "WAITING" => pc[c] \in Queued
    /\ closed => waiters = <<>>

\* The drain is exact, and whoever returned saw it.
DrainInv ==
    /\ drained <=> closed /\ in_flight = 0
    /\ \A s \in Closers : shut[s] = "returned" => drained

CoreInv == TypeOK /\ UnitAccounting /\ LineInv

WeightedInv == CoreInv /\ WorkConserving /\ DrainInv

-----------------------------------------------------------------------------
(* Serving a line.                                                         *)

\* Whether a call that is at p and whose entry is e holds units.
Holds(p, e) == p \in {"running", "releasing"} \/ (p \in Suspended /\ e = "ADMITTED")

LEMMA OwnersHold == Owners = {c \in Calls : Holds(pc[c], entry[c])}
BY DEF Owners, Holds

\* The first k of a line.
First(line, k) == ToSet(SubSeq(line, 1, k))

\* The totals that count them.
AdmissionTotals ==
    {"admitted", "admitted_units", "admitted_from_queue", "admitted_from_queue_units"}

\* The line is served for owners O and n units: k are let in, the longest start of
\* it that fits, and counted beside what is in add.
Served(O, line, states, n, k, add) ==
    /\ k > 0 => UnitsOf(O \cup First(line, k)) <= n
    /\ k < Len(line) => UnitsOf(O \cup First(line, k + 1)) > n
    /\ Owners' = O \cup First(line, k)
    /\ waiters' = SubSeq(line, k + 1, Len(line))
    /\ entry' = [c \in Calls |-> IF c \in First(line, k) THEN "ADMITTED" ELSE states[c]]
    /\ counters' = PlusAdmitted(add, k, UnitsOf(First(line, k)))

\* What stays true of line and sums, but for the types of the rest.
LineKept ==
    /\ UnitAccounting'
    /\ waiters' \in Seq(Calls) /\ IsInjective(waiters')
    /\ entry' \in [Calls -> WaitStates]
    /\ \A c \in Calls : entry'[c] = "WAITING" => pc'[c] \in Queued
    /\ used' \in Nat /\ in_flight' \in Nat /\ waiting_units' \in Nat
    /\ counters' \in [CounterNames -> Nat]

\* Totals only grow.
LEMMA PlusType ==
    ASSUME counters \in [CounterNames -> Nat], NEW add,
           \A k \in DOMAIN add : add[k] \in Nat
    PROVE  Plus(add) \in [CounterNames -> Nat]
BY DEF Plus

\* How the totals grow when a line is served.
LEMMA CountedTotals ==
    ASSUME counters \in [CounterNames -> Nat], NEW add,
           \A x \in DOMAIN add : add[x] \in Nat,
           NEW k \in Nat, NEW u \in Nat
    PROVE  /\ PlusAdmitted(add, k, u) \in [CounterNames -> Nat]
           /\ \A x \in CounterNames \ AdmissionTotals : PlusAdmitted(add, k, u)[x] = Plus(add)[x]
           /\ \A x \in {"admitted", "admitted_from_queue"} :
                 PlusAdmitted(add, k, u)[x] = Plus(add)[x] + k
           /\ \A x \in {"admitted_units", "admitted_from_queue_units"} :
                 PlusAdmitted(add, k, u)[x] = Plus(add)[x] + u
<1>1. PICK before : before = Plus(add)
  OBVIOUS
<1>2. before \in [CounterNames -> Nat]
  BY <1>1, PlusType
<1>3. AdmissionTotals \subseteq CounterNames
  BY DEF AdmissionTotals, CounterNames
<1>4. PICK after : after = [before EXCEPT !["admitted"] = @ + k, !["admitted_units"] = @ + u,
                                          !["admitted_from_queue"] = @ + k,
                                          !["admitted_from_queue_units"] = @ + u]
  OBVIOUS
<1>5. /\ \A x \in CounterNames \ AdmissionTotals : after[x] = before[x]
      /\ after["admitted"] = before["admitted"] + k
      /\ after["admitted_from_queue"] = before["admitted_from_queue"] + k
      /\ after["admitted_units"] = before["admitted_units"] + u
      /\ after["admitted_from_queue_units"] = before["admitted_from_queue_units"] + u
      /\ after = [x \in CounterNames |-> after[x]]
  BY <1>2, <1>3, <1>4 DEF AdmissionTotals
<1>6. \A x \in CounterNames : before[x] \in Nat
  BY <1>2
<1>7. \A x \in AdmissionTotals : after[x] \in Nat
  BY <1>2, <1>3, <1>5, <1>6 DEF AdmissionTotals
<1>8. after \in [CounterNames -> Nat]
  BY <1>5, <1>6, <1>7
<1>9. PlusAdmitted(add, k, u) = after
  BY <1>1, <1>4 DEF PlusAdmitted
<1> QED  BY <1>1, <1>5, <1>8, <1>9

LEMMA Additions ==
    /\ \A name : \A k \in DOMAIN One(name) : One(name)[k] \in Nat
    /\ \A name, units : \A n \in Nat :
          \A k \in DOMAIN OneAndUnits(name, units, n) : OneAndUnits(name, units, n)[k] \in Nat
BY DEF One, OneAndUnits

\* The front of a line, by position.
LEMMA FrontOfLine ==
    ASSUME NEW line \in Seq(Calls), IsInjective(line), NEW k \in 0..Len(line)
    PROVE  /\ First(line, k) \subseteq ToSet(line) /\ First(line, k) \subseteq Calls
           /\ Cardinality(First(line, k)) = k
           /\ \A c : c \in First(line, k) <=> \E i \in 1..k : line[i] = c
           /\ SubSeq(line, k + 1, Len(line)) \in Seq(Calls)
           /\ IsInjective(SubSeq(line, k + 1, Len(line)))
           /\ Len(SubSeq(line, k + 1, Len(line))) = Len(line) - k
           /\ ToSet(SubSeq(line, k + 1, Len(line))) = ToSet(line) \ First(line, k)
<1> DEFINE front == SubSeq(line, 1, k)
<1>0. Len(line) \in Nat /\ k \in Nat /\ k <= Len(line)
      /\ (\A i \in 1..Len(line) : line[i] \in Calls) /\ ToSet(line) \subseteq Calls
  BY ToSetByPosition, ElementOfSeq
<1>1. /\ SubSeq(line, k + 1, Len(line)) \in Seq(Calls) /\ front \in Seq(Calls)
      /\ Len(SubSeq(line, k + 1, Len(line))) = Len(line) - k /\ Len(front) = k
      /\ IsInjective(SubSeq(line, k + 1, Len(line))) /\ IsInjective(front)
      /\ ToSet(front) \subseteq ToSet(line)
      /\ ToSet(SubSeq(line, k + 1, Len(line))) = ToSet(line) \ ToSet(front)
  <2>1. \A m \in 0..Len(line) :
           /\ SubSeq(line, m + 1, Len(line)) \in Seq(Calls) /\ SubSeq(line, 1, m) \in Seq(Calls)
           /\ Len(SubSeq(line, m + 1, Len(line))) = Len(line) - m /\ Len(SubSeq(line, 1, m)) = m
           /\ IsInjective(SubSeq(line, m + 1, Len(line))) /\ IsInjective(SubSeq(line, 1, m))
           /\ ToSet(SubSeq(line, 1, m)) \subseteq ToSet(line)
           /\ ToSet(SubSeq(line, m + 1, Len(line))) = ToSet(line) \ ToSet(SubSeq(line, 1, m))
    BY DropLine
  <2> QED  BY <2>1, Zenon
<1>2. \A i \in 1..k : front[i] = line[i]
  BY <1>0, SubSeqProperties
<1> HIDE DEF front
<1>3. Cardinality(ToSet(front)) = k
  BY <1>1, LineCardinality
<1>4. \A c : c \in ToSet(front) <=> \E i \in 1..k : front[i] = c
  BY <1>1, ToSetByPosition
<1>5. \A c : c \in ToSet(front) <=> \E i \in 1..k : line[i] = c
  BY <1>2, <1>4
<1> QED  BY <1>0, <1>1, <1>3, <1>5 DEF First, front

LEMMA ServedLine ==
    ASSUME CoreInv, cost' = cost,
           NEW line \in Seq(Calls), IsInjective(line), ToSet(line) \subseteq ToSet(waiters),
           NEW states \in [Calls -> WaitStates],
           ToSet(line) = {c \in Calls : states[c] = "WAITING"},
           \A c \in ToSet(line) : pc'[c] \in Queued,
           NEW O \in SUBSET Calls, O = {c \in Calls : Holds(pc'[c], states[c])},
           NEW u, NEW f, u = UnitsOf(O), f = Cardinality(O), NEW n \in Nat,
           NEW add, \A k \in DOMAIN add : add[k] \in Nat,
           AdmitWaiters(line, states, u, f, n, add)
    PROVE  LineKept /\ \E k \in 0..Len(line) : Served(O, line, states, n, k, add)
<1>1. cost \in [Calls -> Costs] /\ Len(line) \in Nat /\ ToSet(waiters) \subseteq Calls
  BY ToSetByPosition DEF CoreInv, TypeOK
<1>2. PICK k \in 0..Len(line) :
          /\ k > 0 => u + Units(SubSeq(line, 1, k)) <= n
          /\ k < Len(line) => u + Units(SubSeq(line, 1, k + 1)) > n
          /\ waiters' = SubSeq(line, k + 1, Len(line))
          /\ waiting_units' = waiting_units - (Units(waiters) - Units(line))
                              - Units(SubSeq(line, 1, k))
          /\ entry' = [c \in Calls |->
                          IF \E i \in 1..k : line[i] = c THEN "ADMITTED" ELSE states[c]]
          /\ used' = u + Units(SubSeq(line, 1, k)) /\ in_flight' = f + k
          /\ counters' = PlusAdmitted(add, k, Units(SubSeq(line, 1, k)))
  BY DEF AdmitWaiters
<1> DEFINE A == First(line, k)
           R == ToSet(line) \ A
<1>3. /\ A \subseteq ToSet(line) /\ A \subseteq Calls /\ Cardinality(A) = k
      /\ \A c : c \in A <=> \E i \in 1..k : line[i] = c
      /\ waiters' \in Seq(Calls) /\ IsInjective(waiters') /\ ToSet(waiters') = R
  BY <1>2, FrontOfLine
<1>4. entry' = [c \in Calls |-> IF c \in A THEN "ADMITTED" ELSE states[c]]
  BY <1>2, <1>3
<1>5. ToSet(line) \subseteq Calls /\ O \cap ToSet(line) = {}
  BY DEF Holds, Queued
<1>6. Owners' = O \cup A
  <2>1. \A c \in Calls : Holds(pc'[c], entry'[c]) <=> c \in O \cup A
    BY <1>3, <1>4 DEF Holds, Queued, Suspended
  <2>2. Owners' = {c \in Calls : Holds(pc'[c], entry'[c])}
    BY OwnersHold DEF Owners, Holds
  <2> QED  BY <1>3, <2>1, <2>2
<1>7. /\ UnitsOf(O) \in Nat /\ UnitsOf(A) \in Nat /\ UnitsOf(R) \in Nat
      /\ UnitsOf(ToSet(line)) \in Nat
      /\ UnitsOf(O \cup A) = UnitsOf(O) + UnitsOf(A)
      /\ UnitsOf(R) = UnitsOf(ToSet(line)) - UnitsOf(A)
  <2>1. O \cap A = {}
    BY <1>3, <1>5
  <2>2. UnitsOf(O \cup A) = UnitsOf(O) + UnitsOf(A)
    BY <1>1, <1>3, <2>1, UnitsOfBoth
  <2>3. UnitsOf(R) = UnitsOf(ToSet(line)) - UnitsOf(A)
    BY <1>1, <1>3, <1>5, UnitsOfRest
  <2>4. R \in SUBSET Calls /\ ToSet(line) \in SUBSET Calls
    BY <1>5
  <2> QED  BY <1>1, <1>3, <2>2, <2>3, <2>4, UnitsType
<1>8. k < Len(line) => UnitsOf(O \cup First(line, k + 1)) > n
  <2>1. ASSUME k < Len(line)
        PROVE  UnitsOf(O \cup First(line, k + 1)) = UnitsOf(O) + UnitsOf(First(line, k + 1))
    <3>1. k + 1 \in 0..Len(line)
      BY <1>1, <2>1
    <3>2. First(line, k + 1) \subseteq ToSet(line) /\ First(line, k + 1) \subseteq Calls
      BY <3>1, FrontOfLine
    <3>3. O \cap First(line, k + 1) = {}
      BY <1>5, <3>2
    <3> QED  BY <1>1, <3>2, <3>3, UnitsOfBoth
  <2> QED  BY <1>2, <2>1 DEF Units, First
<1>9. Cardinality(O \cup A) = Cardinality(O) + k
  BY <1>3, <1>5, CallsFinite, DisjointUnion
<1>10. /\ used' = UnitsOf(O \cup A) /\ in_flight' = Cardinality(O \cup A)
       /\ waiting_units' = UnitsOf(R)
  <2>1. Units(SubSeq(line, 1, k)) = UnitsOf(A) /\ Units(line) = UnitsOf(ToSet(line))
    BY DEF Units, First
  <2>2. waiting_units = Units(waiters) /\ Units(waiters) \in Nat
    BY <1>1, UnitsType DEF CoreInv, UnitAccounting, Units
  <2> QED  BY <1>2, <1>7, <1>9, <2>1, <2>2
<1>11. k > 0 => UnitsOf(O \cup A) <= n
  BY <1>2, <1>7 DEF Units, First
<1>12. R = {c \in Calls : entry'[c] = "WAITING"}
  BY <1>3, <1>4
<1>13. UnitAccounting'
  <2>1. UnitsOf(Owners)' = UnitsOf(O \cup A)
    BY <1>6 DEF UnitsOf
  <2>2. UnitsOf(ToSet(waiters))' = UnitsOf(R)
    BY <1>3 DEF UnitsOf
  <2> QED  BY <1>3, <1>6, <1>10, <1>12, <2>1, <2>2 DEF UnitAccounting
<1>14. counters' = PlusAdmitted(add, k, UnitsOf(First(line, k)))
  BY <1>2 DEF Units, First
<1>15. counters' \in [CounterNames -> Nat]
  <2>1. counters \in [CounterNames -> Nat] /\ k \in Nat
    BY DEF CoreInv, TypeOK
  <2>2. UnitsOf(First(line, k)) \in Nat
    BY <1>7
  <2> QED  BY <1>14, <2>1, <2>2, CountedTotals
<1>16. LineKept
  <2>1. entry' \in [Calls -> WaitStates]
    BY <1>4 DEF WaitStates
  <2>2. \A c \in Calls : entry'[c] = "WAITING" => pc'[c] \in Queued
    BY <1>12
  <2>3. Cardinality(O \cup A) \in Nat
    BY <1>3, CallsFinite
  <2>4. UnitsOf(O \cup A) \in Nat
    BY <1>7
  <2> QED  BY <1>3, <1>7, <1>10, <1>13, <1>15, <2>1, <2>2, <2>3, <2>4 DEF LineKept
<1>17. Served(O, line, states, n, k, add)
  BY <1>2, <1>4, <1>6, <1>8, <1>11, <1>14 DEF Served
<1> QED  BY <1>16, <1>17

-----------------------------------------------------------------------------
(* The effects a step can have on owners, line, capacity and totals.       *)

Fixed == capacity' = capacity /\ closed' = closed

\* What is counted of operations that are turned away.
Refusals == {"saturated", "expired_before_queue", "closed_before_queue"}

OnlyRefusals ==
    \A k \in CounterNames :
        counters'[k] = counters[k] \/ (k \in Refusals /\ counters'[k] = counters[k] + 1)

Kept ==
    /\ Fixed /\ OnlyRefusals
    /\ Owners' = Owners /\ waiters' = waiters /\ entry' = entry

Granted(c) ==
    /\ Fixed /\ ~closed /\ cost[c] <= capacity
    /\ CanAdmitDirectly(c) /\ c \notin Owners
    /\ Owners' = Owners \cup {c} /\ waiters' = waiters /\ entry' = entry
    /\ counters' = Plus([admitted |-> 1, admitted_units |-> cost[c]])

Joined(c) ==
    /\ Fixed /\ ~closed /\ cost[c] <= capacity
    /\ ~CanAdmitDirectly(c) /\ c \notin Owners /\ c \notin ToSet(waiters)
    /\ Len(waiters) < WaitingRoom
    /\ Owners' = Owners /\ waiters' = Append(waiters, c)
    /\ entry' = [entry EXCEPT ![c] = "WAITING"]
    /\ counters' = Plus([queued |-> 1, queued_units |-> cost[c]])

Withdrawn(c, state, counter) ==
    /\ Fixed /\ ~closed /\ entry[c] = "WAITING"
    /\ \E i \in 1..Len(waiters) :
          /\ waiters[i] = c
          /\ \E k \in 0..Len(RemoveAt(waiters, i)) :
                Served(Owners, RemoveAt(waiters, i), [entry EXCEPT ![c] = state],
                       capacity, k, One(counter))

Departed(c, count, units) ==
    /\ Fixed /\ c \in Owners
    /\ \E k \in 0..Len(waiters) :
          Served(Owners \ {c}, waiters, entry, capacity, k, OneAndUnits(count, units, cost[c]))

Resized(n) ==
    /\ ~closed /\ closed' = closed /\ capacity' = n
    /\ \A d \in ToSet(waiters) : cost[d] <= n
    /\ \E k \in 0..Len(waiters) : Served(Owners, waiters, entry, n, k, <<>>)

ShutDown ==
    /\ ~closed /\ closed' /\ capacity' = capacity
    /\ Owners' = Owners /\ waiters' = <<>>
    /\ entry' = [c \in Calls |-> IF c \in ToSet(waiters) THEN "CLOSED" ELSE entry[c]]
    /\ counters' = Plus([closed_while_waiting |-> Len(waiters)])

Effect ==
    \/ Kept
    \/ \E c \in Calls :
          \/ Granted(c) \/ Joined(c)
          \/ Withdrawn(c, "EXPIRED", "expired")
          \/ Withdrawn(c, "CANCELLED", "cancelled_while_waiting")
          \/ Departed(c, "finished", "finished_units")
          \/ Departed(c, "abandoned", "abandoned_units")
    \/ \E n \in Capacities : Resized(n)
    \/ ShutDown

\* What a step leaves, but for the work it conserves.
Sound == CoreInv' /\ DrainInv' /\ cost' = cost

-----------------------------------------------------------------------------
(* The types of what a step changes around the line.                       *)

\* One task takes a step.
LEMMA TaskTypes ==
    ASSUME TypeOK, NEW c \in Calls, NEW p \in CallStates, pc' = [pc EXCEPT ![c] = p],
           \/ interrupted' = interrupted /\ c \notin interrupted
           \/ interrupted' = interrupted \ {c}
           \/ p \in {"expiring", "expired"} /\ interrupted' \in {interrupted, interrupted \cup {c}}
    PROVE  /\ pc' \in [Calls -> CallStates]
           /\ interrupted' \subseteq {d \in Calls : pc'[d] \in {"expiring", "expired"}}
BY DEF TypeOK

LEMMA CoreAgain ==
    ASSUME CoreInv, LineKept, cost' = cost,
           capacity' \in Capacities, closed' \in BOOLEAN, drained' \in BOOLEAN,
           Len(waiters') <= WaitingRoom, closed' => waiters' = <<>>,
           pc' \in [Calls -> CallStates], shut' \in [Closers -> CloserStates],
           interrupted' \subseteq {c \in Calls : pc'[c] \in {"expiring", "expired"}}
    PROVE  CoreInv'
<1>1. TypeOK'
  BY DEF CoreInv, TypeOK, LineKept
<1>2. LineInv'
  BY DEF LineInv, LineKept
<1>3. UnitAccounting'
  BY DEF LineKept
<1> QED  BY <1>1, <1>2, <1>3 DEF CoreInv

\* A line that is served does not get longer.
LEMMA ServedShorter ==
    ASSUME NEW O, NEW line \in Seq(Calls), IsInjective(line), NEW states, NEW n, NEW add,
           NEW k \in 0..Len(line), Served(O, line, states, n, k, add)
    PROVE  /\ Len(waiters') = Len(line) - k
           /\ line = <<>> => waiters' = <<>>
<1>1. waiters' = SubSeq(line, k + 1, Len(line)) /\ Len(waiters') = Len(line) - k
      /\ waiters' \in Seq(Calls)
  BY FrontOfLine DEF Served
<1>2. ASSUME line = <<>> PROVE waiters' = <<>>
  <2>1. Len(line) = 0 /\ k = 0
    BY <1>2
  <2> QED  BY <1>1, <2>1, EmptySeq
<1> QED  BY <1>1, <1>2

\* The drain looks at the sums, which say that nobody is left.
LEMMA NobodyLeft ==
    ASSUME TypeOK, UnitAccounting
    PROVE  (in_flight = 0 <=> Owners = {}) /\ (used = 0 <=> Owners = {})
<1>1. Owners \in SUBSET Calls /\ cost \in [Calls -> Costs]
  BY DEF Owners, TypeOK
<1>2. UnitsOf(Owners) = 0 <=> Owners = {}
  BY <1>1, UnitsOfNobody
<1>3. Cardinality(Owners) = 0 <=> Owners = {}
  BY <1>1, CallsFinite, FS_EmptySet
<1> QED  BY <1>2, <1>3 DEF UnitAccounting

LEMMA NobodyLeftNext ==
    ASSUME CoreInv'
    PROVE  (in_flight' = 0 <=> Owners' = {}) /\ (used' = 0 <=> Owners' = {})
<1>1. (TypeOK /\ UnitAccounting
          => (in_flight = 0 <=> Owners = {}) /\ (used = 0 <=> Owners = {}))'
  BY NobodyLeft, PTL
<1> QED  BY <1>1 DEF CoreInv

-----------------------------------------------------------------------------
(* What the actions do.                                                    *)

\* Line and sums are left alone.
LEMMA KeptLine ==
    ASSUME CoreInv, Owners' = Owners, UNCHANGED <<cost, lineVars, unitVars>>,
           counters' \in [CounterNames -> Nat],
           \A c \in Calls : entry[c] = "WAITING" => pc'[c] \in Queued
    PROVE  LineKept
<1>1. waiters' = waiters /\ entry' = entry /\ waiting_units' = waiting_units
      /\ used' = used /\ in_flight' = in_flight /\ cost' = cost
  BY DEF lineVars, unitVars
<1>2. UnitAccounting'
  BY <1>1 DEF CoreInv, UnitAccounting, UnitsOf
<1> QED  BY <1>1, <1>2 DEF LineKept, CoreInv, TypeOK, LineInv

\* Steps of one task that touch neither line nor units.
LEMMA TaskKept ==
    ASSUME CoreInv, DrainInv,
           UNCHANGED <<capacity, lineVars, unitVars, closed, drained, cost, shut>>,
           OnlyRefusals,
           counters' \in [CounterNames -> Nat],
           NEW c \in Calls, NEW p \in CallStates, pc' = [pc EXCEPT ![c] = p],
           Holds(p, entry[c]) <=> Holds(pc[c], entry[c]),
           entry[c] = "WAITING" => p \in Queued,
           \/ interrupted' = interrupted /\ c \notin interrupted
           \/ interrupted' = interrupted \ {c}
           \/ p \in {"expiring", "expired"} /\ interrupted' \in {interrupted, interrupted \cup {c}}
    PROVE  Sound /\ Kept
<1>1. TypeOK /\ LineInv /\ UnitAccounting
  BY DEF CoreInv
<1>2. \A d \in Calls : pc'[d] = IF d = c THEN p ELSE pc[d]
  BY <1>1 DEF TypeOK
<1>3. waiters' = waiters /\ entry' = entry /\ cost' = cost /\ shut' = shut
      /\ closed' = closed /\ drained' = drained /\ capacity' = capacity
      /\ in_flight' = in_flight
  BY DEF lineVars, unitVars
<1>4. Owners' = Owners
  <2>1. \A d \in Calls : Holds(pc'[d], entry'[d]) <=> Holds(pc[d], entry[d])
    BY <1>2, <1>3
  <2>2. Owners' = {d \in Calls : Holds(pc'[d], entry'[d])}
    BY DEF Owners, Holds
  <2> QED  BY <2>1, <2>2, OwnersHold
<1>5. \A d \in Calls : entry[d] = "WAITING" => pc'[d] \in Queued
  BY <1>1, <1>2 DEF LineInv
<1>6. LineKept
  BY <1>4, <1>5, KeptLine DEF lineVars, unitVars
<1>7. /\ pc' \in [Calls -> CallStates]
      /\ interrupted' \subseteq {d \in Calls : pc'[d] \in {"expiring", "expired"}}
  BY <1>1, TaskTypes
<1>8. CoreInv'
  BY <1>1, <1>3, <1>6, <1>7, CoreAgain DEF TypeOK, LineInv
<1>9. DrainInv'
  BY <1>3 DEF DrainInv
<1> QED  BY <1>3, <1>4, <1>8, <1>9 DEF Sound, Kept, Fixed

\* Steps of a closer that do not close.
LEMMA CloserKept ==
    ASSUME CoreInv, DrainInv,
           UNCHANGED <<capacity, lineVars, unitVars, closed, drained, cost, taskVars, counters>>,
           NEW s \in Closers, NEW to \in CloserStates, shut' = [shut EXCEPT ![s] = to],
           to = "returned" => drained
    PROVE  Sound /\ Kept
<1>1. TypeOK /\ LineInv /\ UnitAccounting
  BY DEF CoreInv
<1>2. waiters' = waiters /\ entry' = entry /\ cost' = cost /\ counters' = counters
      /\ closed' = closed /\ drained' = drained /\ capacity' = capacity
      /\ in_flight' = in_flight /\ pc' = pc /\ interrupted' = interrupted
  BY DEF lineVars, unitVars, taskVars
<1>3. Owners' = Owners
  BY <1>2 DEF Owners
<1>4. LineKept
  BY <1>1, <1>2, <1>3, KeptLine DEF TypeOK, LineInv
<1>5. CoreInv'
  BY <1>1, <1>2, <1>4, CoreAgain DEF TypeOK, LineInv
<1>6. \A r \in Closers : shut'[r] = IF r = s THEN to ELSE shut[r]
  BY <1>1 DEF TypeOK
<1>7. DrainInv'
  BY <1>2, <1>6 DEF DrainInv
<1> QED  BY <1>2, <1>3, <1>5, <1>7 DEF Sound, Kept, Fixed, OnlyRefusals

\* One in line gives up.
LEMMA LeaveEffect ==
    ASSUME CoreInv, DrainInv, UNCHANGED <<capacity, closed, drained, cost, interrupted, shut>>,
           NEW c \in Calls, entry[c] = "WAITING", c \notin interrupted \/ pc'[c] = "expired",
           NEW p \in {"expired", "cancelled"}, pc' = [pc EXCEPT ![c] = p],
           NEW state \in {"EXPIRED", "CANCELLED"}, NEW counter, LeaveQueue(c, state, counter)
    PROVE  Sound /\ Withdrawn(c, state, counter)
<1>1. TypeOK /\ LineInv /\ UnitAccounting
  BY DEF CoreInv
<1>2. PICK i \in 1..Len(waiters) :
          /\ waiters[i] = c
          /\ AdmitWaiters(RemoveAt(waiters, i), [entry EXCEPT ![c] = state],
                          used, in_flight, capacity, One(counter))
  BY DEF LeaveQueue
<1>3. PICK line : line = RemoveAt(waiters, i)
  OBVIOUS
<1>4. PICK states : states = [entry EXCEPT ![c] = state]
  OBVIOUS
<1>5. PICK u, f, n : u = used /\ f = in_flight /\ n = capacity
  OBVIOUS
<1>6. PICK add : add = One(counter)
  OBVIOUS
<1>7. PICK O : O = Owners
  OBVIOUS
<1>8. AdmitWaiters(line, states, u, f, n, add)
  BY <1>2, <1>3, <1>4, <1>5, <1>6 DEF AdmitWaiters
<1>9. /\ line \in Seq(Calls) /\ IsInjective(line) /\ Len(line) = Len(waiters) - 1
      /\ ToSet(line) = ToSet(waiters) \ {c}
  BY <1>1, <1>2, <1>3, RemoveLine DEF TypeOK, LineInv
<1>10. /\ states \in [Calls -> WaitStates]
       /\ \A d \in Calls : states[d] = IF d = c THEN state ELSE entry[d]
  BY <1>1, <1>4 DEF TypeOK, WaitStates
<1>11. \A d \in Calls : pc'[d] = IF d = c THEN p ELSE pc[d]
  BY <1>1 DEF TypeOK
<1>12. ToSet(line) = {d \in Calls : states[d] = "WAITING"}
  BY <1>1, <1>9, <1>10 DEF UnitAccounting
<1>13. \A d \in ToSet(line) : pc'[d] \in Queued
  BY <1>1, <1>9, <1>11 DEF UnitAccounting, LineInv
<1>14. O \in SUBSET Calls /\ O = {d \in Calls : Holds(pc'[d], states[d])}
  <2>1. ~Holds(pc[c], entry[c]) /\ ~Holds(p, state)
    BY <1>1 DEF LineInv, Holds, Queued
  <2>2. \A d \in Calls : Holds(pc'[d], states[d]) <=> Holds(pc[d], entry[d])
    BY <1>10, <1>11, <2>1
  <2> QED  BY <1>7, <2>2, OwnersHold
<1>15. u = UnitsOf(O) /\ f = Cardinality(O) /\ n \in Nat
  BY <1>1, <1>5, <1>7, WeightedAssumption DEF UnitAccounting, TypeOK
<1>16. \A k \in DOMAIN add : add[k] \in Nat
  BY <1>6, Additions
<1>17. LineKept /\ \E k \in 0..Len(line) : Served(O, line, states, n, k, add)
  BY <1>8, <1>9, <1>10, <1>12, <1>13, <1>14, <1>15, <1>16, ServedLine
<1>18. ~closed /\ closed' = closed /\ capacity' = capacity /\ cost' = cost
  BY <1>1 DEF UnitAccounting, LineInv
<1>19. Len(waiters') <= WaitingRoom
  <2>1. PICK k \in 0..Len(line) : Served(O, line, states, n, k, add)
    BY <1>17
  <2>2. Len(waiters') = Len(line) - k
    BY <1>9, <2>1, ServedShorter
  <2> QED  BY <1>1, <1>9, <2>2, WeightedAssumption DEF TypeOK
<1>20. CoreInv'
  <2>1. /\ pc' \in [Calls -> CallStates]
        /\ interrupted' \subseteq {d \in Calls : pc'[d] \in {"expiring", "expired"}}
    BY <1>1, <1>11 DEF TypeOK, CallStates, Settled, Suspended
  <2> QED  BY <1>1, <1>17, <1>18, <1>19, <2>1, CoreAgain DEF TypeOK
<1>21. DrainInv'
  BY <1>18 DEF DrainInv
<1>22. Withdrawn(c, state, counter)
  <2>1. PICK k \in 0..Len(line) : Served(O, line, states, n, k, add)
    BY <1>17
  <2>2. Served(Owners, RemoveAt(waiters, i), [entry EXCEPT ![c] = state], capacity, k, One(counter))
    BY <2>1, <1>3, <1>4, <1>5, <1>6, <1>7 DEF Served, First, PlusAdmitted, Plus, UnitsOf
  <2>3. k \in 0..Len(RemoveAt(waiters, i))
    BY <1>3
  <2> QED  BY <1>2, <2>2, <2>3, <1>18 DEF Withdrawn, Fixed
<1> QED  BY <1>20, <1>21, <1>22, <1>18 DEF Sound

\* Units come back and the line is served.
LEMMA ReturnEffect ==
    ASSUME CoreInv, DrainInv, UNCHANGED <<capacity, closed, cost, interrupted, shut>>,
           NEW c \in Calls, c \in Owners, c \notin interrupted,
           NEW p \in {"finished", "cancelled"}, pc' = [pc EXCEPT ![c] = p],
           entry[c] # "WAITING",
           NEW count, NEW units, ReturnUnits(c, count, units)
    PROVE  Sound /\ Departed(c, count, units)
<1>1. TypeOK /\ LineInv /\ UnitAccounting /\ cost' = cost
  BY DEF CoreInv
<1>2. PICK line, states : line = waiters /\ states = entry
  OBVIOUS
<1>3. PICK u, f, n : u = used - cost[c] /\ f = in_flight - 1 /\ n = capacity
  OBVIOUS
<1>4. PICK add : add = OneAndUnits(count, units, cost[c])
  OBVIOUS
<1>5. PICK O : O = Owners \ {c}
  OBVIOUS
<1>6. AdmitWaiters(line, states, u, f, n, add)
  <2>1. PICK k \in 0..Len(waiters) :
            /\ k > 0 => (used - cost[c]) + Units(SubSeq(waiters, 1, k)) <= capacity
            /\ k < Len(waiters) => (used - cost[c]) + Units(SubSeq(waiters, 1, k + 1)) > capacity
            /\ waiters' = SubSeq(waiters, k + 1, Len(waiters))
            /\ waiting_units' = waiting_units - (Units(waiters) - Units(waiters))
                                - Units(SubSeq(waiters, 1, k))
            /\ entry' = [d \in Calls |->
                            IF \E i \in 1..k : waiters[i] = d THEN "ADMITTED" ELSE entry[d]]
            /\ used' = (used - cost[c]) + Units(SubSeq(waiters, 1, k))
            /\ in_flight' = (in_flight - 1) + k
            /\ counters' = PlusAdmitted(OneAndUnits(count, units, cost[c]), k,
                                        Units(SubSeq(waiters, 1, k)))
    BY DEF ReturnUnits, AdmitWaiters
  <2>2. k \in 0..Len(line)
    BY <1>2
  <2>3. /\ k > 0 => u + Units(SubSeq(line, 1, k)) <= n
        /\ k < Len(line) => u + Units(SubSeq(line, 1, k + 1)) > n
        /\ waiters' = SubSeq(line, k + 1, Len(line))
        /\ waiting_units' = waiting_units - (Units(waiters) - Units(line))
                            - Units(SubSeq(line, 1, k))
        /\ entry' = [d \in Calls |->
                        IF \E i \in 1..k : line[i] = d THEN "ADMITTED" ELSE states[d]]
        /\ used' = u + Units(SubSeq(line, 1, k)) /\ in_flight' = f + k
        /\ counters' = PlusAdmitted(add, k, Units(SubSeq(line, 1, k)))
    BY <2>1, <1>2, <1>3, <1>4
  <2> QED  BY <2>2, <2>3 DEF AdmitWaiters
<1>7. /\ line \in Seq(Calls) /\ IsInjective(line) /\ ToSet(line) = ToSet(waiters)
      /\ states \in [Calls -> WaitStates] /\ ToSet(line) = {d \in Calls : states[d] = "WAITING"}
  BY <1>1, <1>2 DEF TypeOK, LineInv, UnitAccounting
<1>8. \A d \in Calls : pc'[d] = IF d = c THEN p ELSE pc[d]
  BY <1>1 DEF TypeOK
<1>9. \A d \in ToSet(line) : pc'[d] \in Queued
  BY <1>1, <1>2, <1>7, <1>8 DEF LineInv
<1>10. O \in SUBSET Calls /\ O = {d \in Calls : Holds(pc'[d], states[d])}
  <2>1. ~Holds(p, entry[c])
    BY DEF Holds, Suspended
  <2> QED  BY <1>2, <1>5, <1>8, <2>1, OwnersHold
<1>11. u = UnitsOf(O) /\ f = Cardinality(O) /\ n \in Nat
  <2>1. Owners \in SUBSET Calls /\ {c} \in SUBSET Owners /\ cost \in [Calls -> Costs]
    BY <1>1 DEF Owners, TypeOK
  <2>2. UnitsOf(Owners \ {c}) = UnitsOf(Owners) - UnitsOf({c})
    BY <2>1, UnitsOfRest
  <2>3. UnitsOf({c}) = cost[c]
    BY <2>1, UnitsOfOne
  <2>4. Cardinality(Owners \ {c}) = Cardinality(Owners) - 1
    BY <2>1, CallsFinite, FS_RemoveElement
  <2>5. UnitsOf(O) = UnitsOf(Owners \ {c})
    BY <1>5 DEF UnitsOf
  <2> QED  BY <1>1, <1>3, <1>5, <2>2, <2>3, <2>4, <2>5, WeightedAssumption DEF UnitAccounting, TypeOK
<1>12. \A k \in DOMAIN add : add[k] \in Nat
  <2>1. cost[c] \in Nat
    BY <1>1, CostType DEF TypeOK
  <2> QED  BY <1>4, <2>1 DEF OneAndUnits
<1>13. LineKept /\ \E k \in 0..Len(line) : Served(O, line, states, n, k, add)
  BY <1>1, <1>6, <1>7, <1>9, <1>10, <1>11, <1>12, ServedLine
<1>14. PICK k \in 0..Len(line) : Served(O, line, states, n, k, add)
  BY <1>13
<1>15. Len(waiters') <= WaitingRoom /\ (closed' => waiters' = <<>>)
  <2>1. Len(waiters') = Len(line) - k /\ (line = <<>> => waiters' = <<>>)
    BY <1>7, <1>14, ServedShorter
  <2> QED  BY <1>1, <1>2, <1>7, <2>1, WeightedAssumption DEF TypeOK, LineInv
<1>16. CoreInv'
  <2>1. /\ pc' \in [Calls -> CallStates]
        /\ interrupted' \subseteq {d \in Calls : pc'[d] \in {"expiring", "expired"}}
    BY <1>1, <1>8 DEF TypeOK, CallStates, Settled
  <2>2. drained' \in BOOLEAN
    BY <1>1 DEF ReturnUnits, SignalDrained, TypeOK
  <2> QED  BY <1>1, <1>13, <1>15, <2>1, <2>2, CoreAgain DEF TypeOK
<1>17. DrainInv'
  <2>1. ~drained
    BY <1>1, NobodyLeft DEF DrainInv
  <2>2. drained' <=> closed /\ in_flight' = 0 /\ used' = 0
    BY <1>1, <2>1 DEF ReturnUnits, SignalDrained, TypeOK
  <2>3. in_flight' = 0 <=> used' = 0
    BY <1>16, NobodyLeftNext
  <2> QED  BY <2>1, <2>2, <2>3 DEF DrainInv
<1>18. Departed(c, count, units)
  <2>1. Served(Owners \ {c}, waiters, entry, capacity, k, OneAndUnits(count, units, cost[c]))
    BY <1>14, <1>2, <1>3, <1>4, <1>5 DEF Served, First, PlusAdmitted, Plus, UnitsOf
  <2> QED  BY <1>2, <2>1 DEF Departed, Fixed
<1> QED  BY <1>1, <1>16, <1>17, <1>18 DEF Sound

LEMMA ResizeEffect ==
    ASSUME CoreInv, DrainInv, NEW n \in Capacities, Resize(n)
    PROVE  Sound /\ Resized(n)
<1>1. /\ TypeOK /\ LineInv /\ UnitAccounting
      /\ UNCHANGED <<closed, drained, cost, taskVars, shut>>
      /\ capacity' = n /\ ~closed /\ AdmitWaiters(waiters, entry, used, in_flight, n, <<>>)
  BY DEF CoreInv, Resize
<1>2. PICK line, states : line = waiters /\ states = entry
  OBVIOUS
<1>3. PICK u, f : u = used /\ f = in_flight
  OBVIOUS
<1>4. PICK O : O = Owners
  OBVIOUS
<1>5. AdmitWaiters(line, states, u, f, n, <<>>)
  <2>1. PICK k \in 0..Len(waiters) :
            /\ k > 0 => used + Units(SubSeq(waiters, 1, k)) <= n
            /\ k < Len(waiters) => used + Units(SubSeq(waiters, 1, k + 1)) > n
            /\ waiters' = SubSeq(waiters, k + 1, Len(waiters))
            /\ waiting_units' = waiting_units - (Units(waiters) - Units(waiters))
                                - Units(SubSeq(waiters, 1, k))
            /\ entry' = [d \in Calls |->
                            IF \E i \in 1..k : waiters[i] = d THEN "ADMITTED" ELSE entry[d]]
            /\ used' = used + Units(SubSeq(waiters, 1, k)) /\ in_flight' = in_flight + k
            /\ counters' = PlusAdmitted(<<>>, k, Units(SubSeq(waiters, 1, k)))
    BY <1>1 DEF AdmitWaiters
  <2>2. k \in 0..Len(line)
    BY <1>2
  <2>3. /\ k > 0 => u + Units(SubSeq(line, 1, k)) <= n
        /\ k < Len(line) => u + Units(SubSeq(line, 1, k + 1)) > n
        /\ waiters' = SubSeq(line, k + 1, Len(line))
        /\ waiting_units' = waiting_units - (Units(waiters) - Units(line))
                            - Units(SubSeq(line, 1, k))
        /\ entry' = [d \in Calls |->
                        IF \E i \in 1..k : line[i] = d THEN "ADMITTED" ELSE states[d]]
        /\ used' = u + Units(SubSeq(line, 1, k)) /\ in_flight' = f + k
        /\ counters' = PlusAdmitted(<<>>, k, Units(SubSeq(line, 1, k)))
    BY <2>1, <1>2, <1>3
  <2> QED  BY <2>2, <2>3 DEF AdmitWaiters
<1>6. cost' = cost /\ pc' = pc /\ interrupted' = interrupted
  BY <1>1 DEF taskVars
<1>7. /\ line \in Seq(Calls) /\ IsInjective(line) /\ ToSet(line) = ToSet(waiters)
      /\ states \in [Calls -> WaitStates] /\ ToSet(line) = {d \in Calls : states[d] = "WAITING"}
  BY <1>1, <1>2 DEF TypeOK, LineInv, UnitAccounting
<1>8. \A d \in ToSet(line) : pc'[d] \in Queued
  BY <1>1, <1>2, <1>6, <1>7 DEF LineInv
<1>9. O \in SUBSET Calls /\ O = {d \in Calls : Holds(pc'[d], states[d])}
  BY <1>2, <1>4, <1>6, OwnersHold
<1>10. u = UnitsOf(O) /\ f = Cardinality(O) /\ n \in Nat
  BY <1>1, <1>3, <1>4, WeightedAssumption DEF UnitAccounting, UnitsOf
<1>11. LineKept /\ \E k \in 0..Len(line) : Served(O, line, states, n, k, <<>>)
  <2>1. PICK add : add = <<>>
    OBVIOUS
  <2>2. \A k \in DOMAIN add : add[k] \in Nat
    BY <2>1
  <2>3. AdmitWaiters(line, states, u, f, n, add)
    BY <1>5, <2>1
  <2>4. LineKept /\ \E k \in 0..Len(line) : Served(O, line, states, n, k, add)
    BY <1>6, <1>7, <1>8, <1>9, <1>10, <2>2, <2>3, ServedLine
  <2> QED  BY <2>1, <2>4
<1>12. PICK k \in 0..Len(line) : Served(O, line, states, n, k, <<>>)
  BY <1>11
<1>13. Len(waiters') <= WaitingRoom
  <2>1. Len(waiters') = Len(line) - k
    BY <1>7, <1>12, ServedShorter
  <2> QED  BY <1>1, <1>2, <1>7, <2>1, WeightedAssumption DEF TypeOK
<1>14. CoreInv'
  BY <1>1, <1>6, <1>11, <1>13, CoreAgain DEF TypeOK
<1>15. DrainInv'
  BY <1>1 DEF DrainInv
<1>16. Resized(n)
  <2>1. Served(Owners, waiters, entry, n, k, <<>>)
    BY <1>12, <1>2, <1>4 DEF Served, First, PlusAdmitted, Plus, UnitsOf
  <2>2. \A d \in ToSet(waiters) : cost[d] <= n
    BY <1>1, ToSetByPosition DEF TypeOK, Resize
  <2> QED  BY <1>1, <1>2, <2>1, <2>2 DEF Resized
<1> QED  BY <1>6, <1>14, <1>15, <1>16 DEF Sound

\* close() of an open coordinator.
LEMMA CloseEffect ==
    ASSUME CoreInv, DrainInv, ~closed, DoClose,
           UNCHANGED <<capacity, unitVars, cost, taskVars>>,
           shut' \in [Closers -> CloserStates],
           \A s \in Closers : shut'[s] = "returned" => shut[s] = "returned"
    PROVE  Sound /\ ShutDown
<1>1. /\ TypeOK /\ LineInv /\ UnitAccounting
      /\ closed' = TRUE /\ waiters' = <<>> /\ waiting_units' = waiting_units - Units(waiters)
      /\ entry' = [c \in Calls |-> IF c \in ToSet(waiters) THEN "CLOSED" ELSE entry[c]]
      /\ counters' = Plus([closed_while_waiting |-> Len(waiters)])
      /\ SignalDrained(TRUE, in_flight, used)
      /\ used' = used /\ in_flight' = in_flight /\ pc' = pc /\ interrupted' = interrupted
      /\ cost' = cost /\ capacity' = capacity
  BY DEF CoreInv, DoClose, unitVars, taskVars
<1>2. \A c \in Calls : Holds(pc'[c], entry'[c]) <=> Holds(pc[c], entry[c])
  BY <1>1 DEF UnitAccounting, LineInv, Holds, Queued
<1>3. Owners' = Owners
  <2>1. Owners' = {c \in Calls : Holds(pc'[c], entry'[c])}
    BY DEF Owners, Holds
  <2> QED  BY <1>2, <2>1, OwnersHold
<1>4. waiters' \in Seq(Calls) /\ Len(waiters') = 0 /\ ToSet(waiters') = {} /\ IsInjective(waiters')
  BY <1>1, EmptyLine
<1>5. waiting_units' = 0
  <2>1. waiting_units = Units(waiters) /\ waiting_units \in Nat
    BY <1>1 DEF UnitAccounting, Units, TypeOK
  <2> QED  BY <1>1, <2>1
<1>6. UnitAccounting'
  <2>1. UnitsOf(ToSet(waiters))' = 0
    <3>1. UnitsOf({})' = UnitsOf({})
      BY <1>1 DEF UnitsOf
    <3>2. UnitsOf({}) = 0
      BY <1>1, UnitsOfNobody DEF TypeOK
    <3>3. UnitsOf(ToSet(waiters))' = UnitsOf({})'
      BY <1>4 DEF UnitsOf
    <3> QED  BY <3>1, <3>2, <3>3
  <2>2. UnitsOf(Owners)' = UnitsOf(Owners)
    BY <1>1, <1>3 DEF UnitsOf
  <2>3. \A c \in Calls : entry'[c] # "WAITING"
    BY <1>1 DEF UnitAccounting
  <2> QED  BY <1>1, <1>3, <1>4, <1>5, <2>1, <2>2, <2>3 DEF UnitAccounting
<1>7. counters' \in [CounterNames -> Nat]
  <2> DEFINE add == [closed_while_waiting |-> Len(waiters)]
  <2>1. \A k \in DOMAIN add : add[k] \in Nat
    BY <1>1 DEF TypeOK
  <2>2. counters' = Plus(add) /\ counters \in [CounterNames -> Nat]
    BY <1>1 DEF TypeOK
  <2> HIDE DEF add
  <2> QED  BY <2>1, <2>2 DEF Plus
<1>8. LineKept
  BY <1>1, <1>4, <1>5, <1>6, <1>7 DEF LineKept, TypeOK, WaitStates, UnitAccounting
<1>9. CoreInv'
  BY <1>1, <1>4, <1>8, CoreAgain, WeightedAssumption DEF TypeOK, SignalDrained
<1>10. DrainInv'
  <2>1. ~drained
    BY DEF DrainInv
  <2>2. drained' <=> in_flight = 0 /\ used = 0
    BY <1>1, <2>1 DEF SignalDrained, TypeOK
  <2>3. in_flight = 0 <=> used = 0
    BY <1>1, NobodyLeft
  <2> QED  BY <1>1, <2>1, <2>2, <2>3 DEF DrainInv
<1> QED  BY <1>1, <1>3, <1>9, <1>10 DEF Sound, ShutDown

\* Admission past an empty line.
LEMMA GrantEffect ==
    ASSUME CoreInv, DrainInv, UNCHANGED <<capacity, closed, drained, cost, interrupted, shut>>,
           NEW c \in Calls, pc[c] = "idle", ~closed, cost[c] <= capacity, GrantDirectly(c)
    PROVE  Sound /\ Granted(c)
<1>1. /\ TypeOK /\ LineInv /\ UnitAccounting
      /\ CanAdmitDirectly(c) /\ used' = used + cost[c] /\ in_flight' = in_flight + 1
      /\ counters' = Plus([admitted |-> 1, admitted_units |-> cost[c]])
      /\ pc' = [pc EXCEPT ![c] = "running"]
      /\ waiters' = waiters /\ entry' = entry /\ waiting_units' = waiting_units
      /\ cost' = cost
  BY DEF CoreInv, GrantDirectly, Goto, lineVars
<1>2. \A d \in Calls : pc'[d] = IF d = c THEN "running" ELSE pc[d]
  BY <1>1 DEF TypeOK
<1>3. c \notin Owners /\ Owners' = Owners \cup {c}
  <2>1. ~Holds(pc[c], entry[c]) /\ Holds("running", entry[c])
    BY DEF Holds, Suspended
  <2>2. \A d \in Calls : Holds(pc'[d], entry'[d]) <=> Holds(pc[d], entry[d]) \/ d = c
    BY <1>1, <1>2, <2>1
  <2>3. Owners' = {d \in Calls : Holds(pc'[d], entry'[d])}
    BY DEF Owners, Holds
  <2> QED  BY <2>1, <2>2, <2>3, OwnersHold
<1>4. cost \in [Calls -> Costs] /\ cost[c] \in Nat /\ Owners \in SUBSET Calls /\ {c} \in SUBSET Calls
  BY <1>1, CostType DEF TypeOK, Owners
<1>5. UnitAccounting'
  <2>1. UnitsOf(Owners \cup {c}) = UnitsOf(Owners) + cost[c]
    <3>1. UnitsOf(Owners \cup {c}) = UnitsOf(Owners) + UnitsOf({c})
      BY <1>3, <1>4, UnitsOfBoth
    <3> QED  BY <3>1, <1>4, UnitsOfOne
  <2>2. Cardinality(Owners \cup {c}) = Cardinality(Owners) + 1
    BY <1>3, <1>4, CallsFinite, FS_AddElement
  <2>3. UnitsOf(Owners)' = UnitsOf(Owners \cup {c}) /\ UnitsOf(ToSet(waiters))' = UnitsOf(ToSet(waiters))
    BY <1>1, <1>3 DEF UnitsOf
  <2> QED  BY <1>1, <1>3, <2>1, <2>2, <2>3 DEF UnitAccounting
<1>6. counters' \in [CounterNames -> Nat]
  BY <1>1, <1>4 DEF Plus, TypeOK
<1>7. \A d \in Calls : entry[d] = "WAITING" => pc'[d] \in Queued
  BY <1>1, <1>2 DEF LineInv, Queued
<1>8. LineKept
  BY <1>1, <1>4, <1>5, <1>6, <1>7 DEF LineKept, TypeOK, LineInv
<1>9. CoreInv'
  <2>1. /\ pc' \in [Calls -> CallStates]
        /\ interrupted' \subseteq {d \in Calls : pc'[d] \in {"expiring", "expired"}}
    BY <1>1, <1>2 DEF TypeOK, CallStates
  <2> QED  BY <1>1, <1>8, <2>1, CoreAgain DEF TypeOK, LineInv
<1>10. DrainInv'
  BY DEF DrainInv
<1> QED  BY <1>1, <1>3, <1>9, <1>10 DEF Sound, Granted, Fixed

LEMMA JoinEffect ==
    ASSUME CoreInv, DrainInv, UNCHANGED <<capacity, closed, drained, cost, interrupted, shut>>,
           NEW c \in Calls, pc[c] = "idle", ~closed, cost[c] <= capacity, JoinQueue(c)
    PROVE  Sound /\ Joined(c)
<1>1. /\ TypeOK /\ LineInv /\ UnitAccounting
      /\ ~CanAdmitDirectly(c) /\ Len(waiters) < WaitingRoom
      /\ waiters' = Append(waiters, c) /\ waiting_units' = waiting_units + cost[c]
      /\ entry' = [entry EXCEPT ![c] = "WAITING"]
      /\ counters' = Plus([queued |-> 1, queued_units |-> cost[c]])
      /\ pc' = [pc EXCEPT ![c] = "waiting"]
      /\ used' = used /\ in_flight' = in_flight /\ cost' = cost
  BY DEF CoreInv, JoinQueue, Goto, unitVars
<1>2. \A d \in Calls : /\ pc'[d] = IF d = c THEN "waiting" ELSE pc[d]
                       /\ entry'[d] = IF d = c THEN "WAITING" ELSE entry[d]
  BY <1>1 DEF TypeOK
<1>3. c \notin Owners /\ Owners' = Owners
  <2>1. ~Holds(pc[c], entry[c]) /\ ~Holds("waiting", "WAITING")
    BY DEF Holds, Suspended
  <2>2. \A d \in Calls : Holds(pc'[d], entry'[d]) <=> Holds(pc[d], entry[d])
    BY <1>1, <1>2, <2>1
  <2>3. Owners' = {d \in Calls : Holds(pc'[d], entry'[d])}
    BY DEF Owners, Holds
  <2> QED  BY <2>1, <2>2, <2>3, OwnersHold
<1>4. c \notin ToSet(waiters)
  BY <1>1 DEF UnitAccounting, LineInv, Queued
<1>5. cost \in [Calls -> Costs] /\ cost[c] \in Nat /\ ToSet(waiters) \in SUBSET Calls /\ {c} \in SUBSET Calls
  BY <1>1, CostType, ToSetByPosition DEF TypeOK
<1>6. /\ waiters' \in Seq(Calls) /\ IsInjective(waiters') /\ Len(waiters') = Len(waiters) + 1
      /\ ToSet(waiters') = ToSet(waiters) \cup {c}
  BY <1>1, <1>4, AppendLine DEF TypeOK, LineInv
<1>7. UnitAccounting'
  <2>1. UnitsOf(ToSet(waiters) \cup {c}) = UnitsOf(ToSet(waiters)) + cost[c]
    <3>1. UnitsOf(ToSet(waiters) \cup {c}) = UnitsOf(ToSet(waiters)) + UnitsOf({c})
      BY <1>4, <1>5, UnitsOfBoth
    <3> QED  BY <3>1, <1>5, UnitsOfOne
  <2>2. UnitsOf(Owners)' = UnitsOf(Owners)
        /\ UnitsOf(ToSet(waiters))' = UnitsOf(ToSet(waiters) \cup {c})
    BY <1>1, <1>3, <1>6 DEF UnitsOf
  <2>3. ToSet(waiters') = {d \in Calls : entry'[d] = "WAITING"}
    BY <1>1, <1>2, <1>6 DEF UnitAccounting
  <2> QED  BY <1>1, <1>3, <1>6, <2>1, <2>2, <2>3 DEF UnitAccounting
<1>8. counters' \in [CounterNames -> Nat]
  BY <1>1, <1>5 DEF Plus, TypeOK
<1>9. LineKept
  <2>1. \A d \in Calls : entry'[d] = "WAITING" => pc'[d] \in Queued
    BY <1>1, <1>2 DEF LineInv, Queued
  <2>2. entry' \in [Calls -> WaitStates]
    BY <1>1 DEF TypeOK, WaitStates
  <2>3. waiting_units' \in Nat /\ used' \in Nat /\ in_flight' \in Nat
    BY <1>1, <1>5 DEF TypeOK
  <2> QED  BY <1>6, <1>7, <1>8, <2>1, <2>2, <2>3 DEF LineKept
<1>10. CoreInv'
  <2>1. /\ pc' \in [Calls -> CallStates]
        /\ interrupted' \subseteq {d \in Calls : pc'[d] \in {"expiring", "expired"}}
    BY <1>1, <1>2 DEF TypeOK, CallStates, Suspended
  <2>2. Len(waiters') <= WaitingRoom
    BY <1>1, <1>6, WeightedAssumption DEF TypeOK
  <2> QED  BY <1>1, <1>9, <2>1, <2>2, CoreAgain DEF TypeOK
<1>11. DrainInv'
  BY <1>1 DEF DrainInv
<1> QED  BY <1>1, <1>3, <1>4, <1>10, <1>11 DEF Sound, Joined, Fixed

\* One that is turned away.
LEMMA RefuseEffect ==
    ASSUME CoreInv, DrainInv, UNCHANGED <<capacity, closed, drained, cost, interrupted, shut>>,
           NEW c \in Calls, pc[c] = "idle", NEW p \in Settled,
           \/ Refuse(c, p, <<>>)
           \/ Refuse(c, p, [saturated |-> 1])
           \/ Refuse(c, p, [expired_before_queue |-> 1])
           \/ Refuse(c, p, [closed_before_queue |-> 1])
    PROVE  Sound /\ Kept
<1>1. /\ TypeOK /\ LineInv /\ UNCHANGED <<lineVars, unitVars>> /\ pc' = [pc EXCEPT ![c] = p]
      /\ counters \in [CounterNames -> Nat]
  BY DEF CoreInv, Refuse, Goto, TypeOK
<1>2. OnlyRefusals /\ counters' \in [CounterNames -> Nat]
  <2>1. CASE Refuse(c, p, <<>>)
    BY <1>1, <2>1 DEF Refuse, Plus, OnlyRefusals
  <2>2. CASE Refuse(c, p, [saturated |-> 1])
    BY <1>1, <2>2 DEF Refuse, Plus, OnlyRefusals, Refusals
  <2>3. CASE Refuse(c, p, [expired_before_queue |-> 1])
    BY <1>1, <2>3 DEF Refuse, Plus, OnlyRefusals, Refusals
  <2>4. CASE Refuse(c, p, [closed_before_queue |-> 1])
    BY <1>1, <2>4 DEF Refuse, Plus, OnlyRefusals, Refusals
  <2> QED  BY <2>1, <2>2, <2>3, <2>4
<1>3. /\ ~Holds(p, entry[c]) /\ ~Holds(pc[c], entry[c]) /\ entry[c] # "WAITING"
      /\ c \notin interrupted /\ p \in CallStates
  BY <1>1 DEF Holds, Settled, Suspended, LineInv, Queued, TypeOK, CallStates
<1> QED  BY <1>1, <1>2, <1>3, TaskKept

\* Every step keeps line, sums and drain, and has one of the effects.
LEMMA EveryStep ==
    ASSUME CoreInv, DrainInv, [Next]_vars
    PROVE  Sound /\ Effect
<1>1. TypeOK /\ LineInv /\ UnitAccounting
  BY DEF CoreInv
<1>2. ASSUME UNCHANGED vars PROVE Sound /\ Effect
  <2>1. /\ UNCHANGED <<capacity, lineVars, unitVars, closed, drained, cost, taskVars, counters>>
        /\ shut' = shut
    BY <1>2 DEF vars
  <2>2. waiters' = waiters /\ entry' = entry /\ cost' = cost /\ counters' = counters
        /\ closed' = closed /\ drained' = drained /\ capacity' = capacity
        /\ in_flight' = in_flight /\ pc' = pc /\ interrupted' = interrupted
    BY <2>1 DEF lineVars, unitVars, taskVars
  <2>3. Owners' = Owners
    BY <2>2 DEF Owners
  <2>4. LineKept
    BY <1>1, <2>1, <2>2, <2>3, KeptLine DEF TypeOK, LineInv
  <2>5. CoreInv'
    BY <1>1, <2>1, <2>2, <2>4, CoreAgain DEF TypeOK, LineInv
  <2>6. DrainInv'
    BY <2>1, <2>2 DEF DrainInv
  <2> QED  BY <2>2, <2>3, <2>5, <2>6 DEF Sound, Effect, Kept, Fixed, OnlyRefusals
<1>3. ASSUME NEW c \in Calls, Enter(c) PROVE Sound /\ Effect
  <2>1. pc[c] = "idle" /\ UNCHANGED <<capacity, closed, drained, cost, interrupted, shut>>
    BY <1>3 DEF Enter
  <2>2. CASE GrantDirectly(c) /\ ~closed /\ cost[c] <= capacity
    BY <2>1, <2>2, GrantEffect DEF Effect
  <2>3. CASE JoinQueue(c) /\ ~closed /\ cost[c] <= capacity
    BY <2>1, <2>3, JoinEffect DEF Effect
  <2>4. CASE ~((GrantDirectly(c) \/ JoinQueue(c)) /\ ~closed /\ cost[c] <= capacity)
    <3>1. \E p \in Settled : \/ Refuse(c, p, <<>>)
                             \/ Refuse(c, p, [saturated |-> 1])
                             \/ Refuse(c, p, [expired_before_queue |-> 1])
                             \/ Refuse(c, p, [closed_before_queue |-> 1])
      BY <1>3, <2>4 DEF Enter, RejectUnfit, Settled
    <3> QED  BY <2>1, <3>1, RefuseEffect DEF Effect
  <2> QED  BY <2>2, <2>3, <2>4
<1>4. ASSUME NEW c \in Calls, EnterNow(c) PROVE Sound /\ Effect
  <2>1. pc[c] = "idle" /\ UNCHANGED <<capacity, closed, drained, cost, interrupted, shut>>
    BY <1>4 DEF EnterNow
  <2>2. CASE GrantDirectly(c) /\ ~closed /\ cost[c] <= capacity
    BY <2>1, <2>2, GrantEffect DEF Effect
  <2>3. CASE ~(GrantDirectly(c) /\ ~closed /\ cost[c] <= capacity)
    <3>1. \E p \in Settled : \/ Refuse(c, p, <<>>)
                             \/ Refuse(c, p, [saturated |-> 1])
                             \/ Refuse(c, p, [closed_before_queue |-> 1])
      BY <1>4, <2>3 DEF EnterNow, RejectUnfit, Settled
    <3> QED  BY <2>1, <3>1, RefuseEffect DEF Effect
  <2> QED  BY <2>2, <2>3
<1>5. ASSUME NEW c \in Calls,
             Resume(c) \/ Timeout(c) \/ ResumeExpired(c) \/ Cancel(c) \/ FinishBody(c)
      PROVE  Sound /\ Effect
  <2>1. /\ UNCHANGED <<capacity, lineVars, unitVars, closed, drained, cost, shut>>
        /\ counters' = counters
    BY <1>5 DEF Resume, Timeout, ResumeExpired, Cancel, FinishBody, OnlyControl
  <2>2. OnlyRefusals /\ counters' \in [CounterNames -> Nat]
    BY <1>1, <2>1 DEF OnlyRefusals, TypeOK
  <2>3. \E p \in CallStates :
            /\ pc' = [pc EXCEPT ![c] = p]
            /\ Holds(p, entry[c]) <=> Holds(pc[c], entry[c])
            /\ entry[c] = "WAITING" => p \in Queued
            /\ \/ interrupted' = interrupted /\ c \notin interrupted
               \/ interrupted' = interrupted \ {c}
               \/ p \in {"expiring", "expired"} /\ interrupted' \in {interrupted, interrupted \cup {c}}
    <3> USE DEF CallStates, Settled, Suspended, Goto, Holds, Queued
    <3>1. CASE Resume(c)
      BY <1>1, <3>1 DEF Resume, TypeOK
    <3>2. CASE Timeout(c)
      BY <1>1, <3>2 DEF Timeout, TypeOK
    <3>3. CASE ResumeExpired(c)
      BY <1>1, <3>3 DEF ResumeExpired, TypeOK, LineInv
    <3>4. CASE Cancel(c)
      <4>1. CASE pc[c] = "waiting"
        BY <1>1, <3>4, <4>1 DEF Cancel, TypeOK
      <4>2. CASE pc[c] # "waiting"
        <5>1. /\ pc[c] \in {"expiring", "expired"} /\ interrupted' = interrupted \cup {c}
              /\ pc' = [pc EXCEPT ![c] = pc[c]]
          BY <1>1, <3>4, <4>2 DEF Cancel, TypeOK
        <5> QED  BY <1>1, <5>1 DEF LineInv
      <4> QED  BY <4>1, <4>2
    <3>5. CASE FinishBody(c)
      BY <1>1, <3>5 DEF FinishBody, TypeOK, LineInv
    <3> QED  BY <1>5, <3>1, <3>2, <3>3, <3>4, <3>5
  <2> QED  BY <2>1, <2>2, <2>3, TaskKept DEF Effect
<1>6. ASSUME NEW c \in Calls, RunExpire(c) PROVE Sound /\ Effect
  <2>1. /\ pc[c] = "expiring" /\ pc' = [pc EXCEPT ![c] = "expired"]
        /\ UNCHANGED <<capacity, closed, drained, cost, interrupted, shut>>
    BY <1>6 DEF RunExpire, Goto
  <2>2. CASE entry[c] = "WAITING"
    <3>1. LeaveQueue(c, "EXPIRED", "expired")
      BY <1>6, <2>2 DEF RunExpire
    <3>2. pc'[c] = "expired"
      BY <1>1, <2>1 DEF TypeOK
    <3> QED  BY <2>1, <2>2, <3>1, <3>2, LeaveEffect DEF Effect
  <2>3. CASE entry[c] # "WAITING"
    <3>1. UNCHANGED <<lineVars, unitVars, counters>>
      BY <1>6, <2>3 DEF RunExpire
    <3>2. OnlyRefusals /\ counters' \in [CounterNames -> Nat]
      BY <1>1, <3>1 DEF OnlyRefusals, TypeOK
    <3>3. Holds("expired", entry[c]) <=> Holds(pc[c], entry[c])
      BY <2>1 DEF Holds, Suspended
    <3>4. "expired" \in CallStates /\ interrupted' \in {interrupted, interrupted \cup {c}}
      BY <2>1 DEF CallStates, Suspended
    <3> QED  BY <2>1, <2>3, <3>1, <3>2, <3>3, <3>4, TaskKept DEF Effect
  <2> QED  BY <2>2, <2>3
<1>7. ASSUME NEW c \in Calls, RunCancel(c) PROVE Sound /\ Effect
  <2>1. /\ pc[c] = "cancelling" /\ pc' = [pc EXCEPT ![c] = "cancelled"]
        /\ UNCHANGED <<capacity, closed, cost, interrupted, shut>>
        /\ c \notin interrupted
    BY <1>1, <1>7 DEF RunCancel, Goto, TypeOK
  <2>2. CASE entry[c] = "WAITING"
    <3>1. LeaveQueue(c, "CANCELLED", "cancelled_while_waiting") /\ UNCHANGED drained
      BY <1>7, <2>2 DEF RunCancel
    <3> QED  BY <2>1, <2>2, <3>1, LeaveEffect DEF Effect
  <2>3. CASE entry[c] = "ADMITTED"
    <3>1. ReturnUnits(c, "abandoned", "abandoned_units")
      BY <1>7, <2>3 DEF RunCancel
    <3>2. c \in Owners
      BY <2>1, <2>3 DEF Owners, Suspended
    <3> QED  BY <2>1, <2>3, <3>1, <3>2, ReturnEffect DEF Effect
  <2>4. CASE entry[c] \notin {"WAITING", "ADMITTED"}
    <3>1. UNCHANGED <<lineVars, unitVars, counters, drained>>
      BY <1>7, <2>4 DEF RunCancel
    <3>2. OnlyRefusals /\ counters' \in [CounterNames -> Nat]
      BY <1>1, <3>1 DEF OnlyRefusals, TypeOK
    <3>3. Holds("cancelled", entry[c]) <=> Holds(pc[c], entry[c])
      BY <2>1, <2>4 DEF Holds, Suspended
    <3>4. "cancelled" \in CallStates
      BY DEF CallStates, Settled
    <3> QED  BY <2>1, <2>4, <3>1, <3>2, <3>3, <3>4, TaskKept DEF Effect
  <2> QED  BY <2>2, <2>3, <2>4
<1>8. ASSUME NEW c \in Calls, RunRelease(c) PROVE Sound /\ Effect
  <2>1. /\ pc[c] = "releasing" /\ pc' = [pc EXCEPT ![c] = "finished"]
        /\ ReturnUnits(c, "finished", "finished_units")
        /\ UNCHANGED <<capacity, closed, cost, interrupted, shut>>
    BY <1>8 DEF RunRelease, Goto
  <2>2. c \in Owners /\ c \notin interrupted /\ entry[c] # "WAITING"
    BY <1>1, <2>1 DEF Owners, TypeOK, LineInv, Queued
  <2> QED  BY <2>1, <2>2, ReturnEffect DEF Effect
<1>9. ASSUME NEW n \in Capacities, Resize(n) PROVE Sound /\ Effect
  BY <1>9, ResizeEffect DEF Effect
<1>10. ASSUME Close PROVE Sound /\ Effect
  <2>1. ~closed /\ DoClose /\ UNCHANGED <<capacity, unitVars, cost, taskVars>> /\ shut' = shut
    BY <1>10 DEF Close
  <2> QED  BY <1>1, <2>1, CloseEffect DEF Effect, TypeOK
<1>11. ASSUME NEW s \in Closers, CloseAndWait(s) PROVE Sound /\ Effect
  <2>1. /\ DoClose /\ UNCHANGED <<capacity, unitVars, cost, taskVars>>
        /\ shut' = [shut EXCEPT ![s] = "waiting"]
    BY <1>11 DEF CloseAndWait, ShutStep
  <2>2. CASE closed
    <3>1. UNCHANGED <<closed, drained, lineVars, counters>>
      BY <2>1, <2>2 DEF DoClose
    <3> QED  BY <2>1, <3>1, CloserKept DEF Effect, CloserStates
  <2>3. CASE ~closed
    <3>1. /\ shut' \in [Closers -> CloserStates]
          /\ \A r \in Closers : shut'[r] = "returned" => shut[r] = "returned"
      BY <1>1, <2>1 DEF TypeOK, CloserStates
    <3> QED  BY <2>1, <2>3, <3>1, CloseEffect DEF Effect
  <2> QED  BY <2>2, <2>3
<1>12. ASSUME NEW s \in Closers, WaitClosed(s) \/ ReturnClosed(s) \/ CancelCloser(s)
       PROVE  Sound /\ Effect
  <2>1. UNCHANGED <<capacity, lineVars, unitVars, closed, drained, cost, taskVars, counters>>
    BY <1>12 DEF WaitClosed, ReturnClosed, CancelCloser
  <2>2. \E to \in CloserStates : shut' = [shut EXCEPT ![s] = to] /\ (to = "returned" => drained)
    BY <1>12 DEF WaitClosed, ReturnClosed, CancelCloser, ShutStep, CloserStates
  <2> QED  BY <2>1, <2>2, CloserKept DEF Effect
<1> QED  BY <1>2, <1>3, <1>4, <1>5, <1>6, <1>7, <1>8, <1>9, <1>10, <1>11, <1>12 DEF Next, Terminated

-----------------------------------------------------------------------------
(* Nobody waits beside room enough.                                        *)

\* The head of what is left of a served line does not fit, and those in it are
\* in the line that was served.
LEMMA ServedConserves ==
    ASSUME CoreInv, CoreInv', cost' = cost, NEW line \in Seq(Calls), IsInjective(line),
           NEW O \in SUBSET Calls, O \cap ToSet(line) = {}, NEW states, NEW n \in Nat, NEW add,
           NEW k \in 0..Len(line), Served(O, line, states, n, k, add)
    PROVE  /\ waiters' # <<>> => used' + cost[Head(waiters')] > n
           /\ ToSet(waiters') = ToSet(line) \ First(line, k)
<1> DEFINE A == First(line, k)
<1>1. /\ waiters' = SubSeq(line, k + 1, Len(line)) /\ Owners' = O \cup A
      /\ k < Len(line) => UnitsOf(O \cup First(line, k + 1)) > n
  BY DEF Served
<1>2. /\ A \subseteq ToSet(line) /\ A \subseteq Calls
      /\ (\A c : c \in A <=> \E i \in 1..k : line[i] = c)
      /\ waiters' \in Seq(Calls) /\ Len(waiters') = Len(line) - k
      /\ ToSet(waiters') = ToSet(line) \ A
  BY <1>1, FrontOfLine
<1>3. cost \in [Calls -> Costs] /\ used' = UnitsOf(O \cup A)
  <2>1. used' = UnitsOf(Owners)'
    BY DEF CoreInv, UnitAccounting
  <2>2. UnitsOf(Owners)' = UnitsOf(O \cup A)
    BY <1>1 DEF UnitsOf
  <2> QED  BY <2>1, <2>2 DEF CoreInv, TypeOK
<1>4. ASSUME waiters' # <<>> PROVE used' + cost[Head(waiters')] > n
  <2>1. Len(line) \in Nat /\ k \in Nat /\ k < Len(line) /\ k + 1 \in 1..Len(line)
    <3>1. Len(waiters') # 0
      BY <1>2, <1>4, EmptySeq
    <3> QED  BY <1>2, <3>1, LenProperties
  <2>2. Head(waiters') = line[k + 1]
    <3>1. waiters' \in Seq(Calls) /\ waiters' # <<>>
      BY <1>2, <1>4
    <3>2. \A m \in 1..Len(line) : line[m] \in Calls
      BY ElementOfSeq
    <3>3. SubSeq(line, k + 1, Len(line))[1] = line[k + 1]
      BY <2>1, <3>2, SubSeqProperties
    <3> QED  BY <1>1, <3>1, <3>3, HeadTailProperties
  <2>3. First(line, k + 1) = A \cup {line[k + 1]} /\ line[k + 1] \notin A
    <3>1. k + 1 \in 0..Len(line)
      BY <2>1
    <3>2. \A c : c \in First(line, k + 1) <=> \E i \in 1..(k + 1) : line[i] = c
      BY <3>1, FrontOfLine
    <3>3. \A i, j \in 1..Len(line) : line[i] = line[j] => i = j
      BY ToSetByPosition
    <3> QED  BY <1>2, <2>1, <3>2, <3>3
  <2>4. line[k + 1] \in Calls /\ line[k + 1] \in ToSet(line)
    BY <2>1, ToSetByPosition, ElementOfSeq
  <2> DEFINE x == line[k + 1]
  <2>5. UnitsOf(O \cup First(line, k + 1)) = UnitsOf(O \cup A) + cost[x]
    <3> HIDE DEF x
    <3>1. x \in Calls /\ x \notin O \cup A /\ O \cup First(line, k + 1) = (O \cup A) \cup {x}
      BY <2>3, <2>4 DEF x
    <3>2. UnitsOf((O \cup A) \cup {x}) = UnitsOf(O \cup A) + UnitsOf({x})
      BY <1>2, <1>3, <3>1, UnitsOfBoth
    <3>3. UnitsOf({x}) = cost[x]
      BY <1>3, <3>1, UnitsOfOne
    <3> QED  BY <3>1, <3>2, <3>3
  <2> QED  BY <1>1, <1>3, <2>1, <2>2, <2>5
<1> QED  BY <1>2, <1>4

\* Everybody in line could run alone.
LEMMA CostsFit ==
    ASSUME TypeOK
    PROVE  (\A i \in 1..Len(waiters) : cost[waiters[i]] <= capacity)
           <=> (\A c \in ToSet(waiters) : cost[c] <= capacity)
BY ToSetByPosition DEF TypeOK

LEMMA OwnersNotQueued ==
    ASSUME CoreInv
    PROVE  Owners \in SUBSET Calls /\ Owners \cap ToSet(waiters) = {}
BY DEF CoreInv, UnitAccounting, LineInv, Owners, Queued

LEMMA ConservesNext ==
    ASSUME CoreInv, CoreInv', cost' = cost, WorkConserving, Effect
    PROVE  WorkConserving'
<1>1. /\ TypeOK /\ LineInv /\ UnitAccounting /\ TypeOK' /\ UnitAccounting'
      /\ capacity \in Nat /\ cost \in [Calls -> Costs]
      /\ waiters \in Seq(Calls) /\ IsInjective(waiters)
      /\ \A c \in ToSet(waiters) : cost[c] <= capacity
  BY CostsFit, WeightedAssumption DEF CoreInv, TypeOK, LineInv, WorkConserving
<1>2. SUFFICES /\ waiters' # <<>> => used' + cost[Head(waiters')] > capacity'
               /\ \A c \in ToSet(waiters') : cost[c] <= capacity'
  <2>1. (TypeOK => ((\A i \in 1..Len(waiters) : cost[waiters[i]] <= capacity)
                    <=> (\A c \in ToSet(waiters) : cost[c] <= capacity)))'
    BY CostsFit, PTL
  <2> QED  BY <1>1, <2>1 DEF WorkConserving
<1>3. CASE Kept
  <2>1. used' = used
    <3>1. used' = UnitsOf(Owners)' /\ used = UnitsOf(Owners)
      BY <1>1 DEF UnitAccounting
    <3> QED  BY <1>3, <3>1 DEF Kept, UnitsOf
  <2> QED  BY <1>1, <1>3, <2>1 DEF Kept, Fixed, WorkConserving
<1>4. ASSUME NEW c \in Calls, Granted(c)
      PROVE  /\ waiters' # <<>> => used' + cost[Head(waiters')] > capacity'
             /\ \A d \in ToSet(waiters') : cost[d] <= capacity'
  <2>1. waiters' = <<>>
    BY <1>4 DEF Granted, CanAdmitDirectly
  <2> QED  BY <2>1, EmptyLine
<1>5. ASSUME NEW c \in Calls, Joined(c)
      PROVE  /\ waiters' # <<>> => used' + cost[Head(waiters')] > capacity'
             /\ \A d \in ToSet(waiters') : cost[d] <= capacity'
  <2>1. /\ waiters' = Append(waiters, c) /\ capacity' = capacity /\ c \notin ToSet(waiters)
        /\ cost[c] <= capacity /\ ~(waiters = <<>> /\ used + cost[c] <= capacity)
    BY <1>5 DEF Joined, Fixed, CanAdmitDirectly
  <2>2. used' = used
    <3>1. used' = UnitsOf(Owners)' /\ used = UnitsOf(Owners)
      BY <1>1 DEF UnitAccounting
    <3> QED  BY <1>5, <3>1 DEF Joined, UnitsOf
  <2>3. ToSet(waiters') = ToSet(waiters) \cup {c}
    BY <1>1, <2>1, AppendLine
  <2>4. cost[c] \in Nat /\ used \in Nat
    BY <1>1, CostType DEF TypeOK
  <2>5. Head(waiters') = IF waiters = <<>> THEN c ELSE Head(waiters)
    <3>1. /\ Append(waiters, c) \in Seq(Calls) /\ Append(waiters, c) # <<>>
          /\ Append(waiters, c)[Len(waiters) + 1] = c
          /\ \A i \in 1..Len(waiters) : Append(waiters, c)[i] = waiters[i]
      BY <1>1, AppendProperties
    <3>2. Head(Append(waiters, c)) = Append(waiters, c)[1]
      BY <3>1, HeadTailProperties
    <3>3. CASE waiters = <<>>
      <4>1. Len(waiters) + 1 = 1
        BY <3>3
      <4> QED  BY <2>1, <3>1, <3>2, <3>3, <4>1
    <3>4. CASE waiters # <<>>
      <4>1. Len(waiters) \in Nat /\ Len(waiters) # 0 /\ Head(waiters) = waiters[1]
        BY <1>1, <3>4, EmptySeq, LenProperties, HeadTailProperties
      <4> QED  BY <2>1, <3>1, <3>2, <3>4, <4>1
    <3> QED  BY <3>3, <3>4
  <2>6. used + cost[Head(waiters')] > capacity
    <3>1. CASE waiters = <<>>
      BY <1>1, <2>1, <2>4, <2>5, <3>1
    <3>2. CASE waiters # <<>>
      BY <2>5, <3>2 DEF WorkConserving
    <3> QED  BY <3>1, <3>2
  <2> QED  BY <1>1, <2>1, <2>2, <2>3, <2>6
<1>6. ASSUME NEW c \in Calls, NEW state, NEW counter, Withdrawn(c, state, counter)
      PROVE  /\ waiters' # <<>> => used' + cost[Head(waiters')] > capacity'
             /\ \A d \in ToSet(waiters') : cost[d] <= capacity'
  <2>0. PICK i \in 1..Len(waiters) : \E k \in 0..Len(RemoveAt(waiters, i)) :
            Served(Owners, RemoveAt(waiters, i), [entry EXCEPT ![c] = state],
                   capacity, k, One(counter))
    BY <1>6 DEF Withdrawn
  <2>1. PICK k \in 0..Len(RemoveAt(waiters, i)) :
            Served(Owners, RemoveAt(waiters, i), [entry EXCEPT ![c] = state],
                   capacity, k, One(counter))
    BY <2>0
  <2>2. PICK line, O, n, states : /\ line = RemoveAt(waiters, i) /\ O = Owners
                                  /\ n = capacity /\ states = [entry EXCEPT ![c] = state]
    OBVIOUS
  <2>3. Served(O, line, states, n, k, One(counter)) /\ k \in 0..Len(line) /\ n \in Nat
    BY <1>1, <2>1, <2>2 DEF Served, First, PlusAdmitted, Plus, UnitsOf
  <2>4. line \in Seq(Calls) /\ IsInjective(line) /\ ToSet(line) \subseteq ToSet(waiters)
    BY <1>1, <2>2, RemoveLine
  <2>5. O \in SUBSET Calls /\ O \cap ToSet(line) = {}
    BY <2>2, <2>4, OwnersNotQueued
  <2>6. /\ waiters' # <<>> => used' + cost[Head(waiters')] > n
        /\ ToSet(waiters') = ToSet(line) \ First(line, k)
    BY <2>3, <2>4, <2>5, ServedConserves
  <2> QED  BY <1>1, <1>6, <2>2, <2>4, <2>6 DEF Withdrawn, Fixed
<1>7. ASSUME NEW c \in Calls, NEW count, NEW units, Departed(c, count, units)
      PROVE  /\ waiters' # <<>> => used' + cost[Head(waiters')] > capacity'
             /\ \A d \in ToSet(waiters') : cost[d] <= capacity'
  <2>1. PICK k \in 0..Len(waiters) :
            Served(Owners \ {c}, waiters, entry, capacity, k, OneAndUnits(count, units, cost[c]))
    BY <1>7 DEF Departed
  <2>2. PICK line, O, n, states, add :
            /\ line = waiters /\ O = Owners \ {c} /\ n = capacity /\ states = entry
            /\ add = OneAndUnits(count, units, cost[c])
    OBVIOUS
  <2>3. Served(O, line, states, n, k, add) /\ k \in 0..Len(line) /\ n \in Nat
    BY <1>1, <2>1, <2>2 DEF Served, First, PlusAdmitted, Plus, UnitsOf
  <2>4. /\ line \in Seq(Calls) /\ IsInjective(line) /\ ToSet(line) \subseteq ToSet(waiters)
        /\ O \in SUBSET Calls /\ O \cap ToSet(line) = {}
    BY <1>1, <2>2, OwnersNotQueued
  <2>5. /\ waiters' # <<>> => used' + cost[Head(waiters')] > n
        /\ ToSet(waiters') = ToSet(line) \ First(line, k)
    BY <2>3, <2>4, ServedConserves
  <2> QED  BY <1>1, <1>7, <2>2, <2>4, <2>5 DEF Departed, Fixed
<1>8. ASSUME NEW n \in Capacities, Resized(n)
      PROVE  /\ waiters' # <<>> => used' + cost[Head(waiters')] > capacity'
             /\ \A d \in ToSet(waiters') : cost[d] <= capacity'
  <2>1. PICK k \in 0..Len(waiters) : Served(Owners, waiters, entry, n, k, <<>>)
    BY <1>8 DEF Resized
  <2>2. PICK line, O, states : line = waiters /\ O = Owners /\ states = entry
    OBVIOUS
  <2>3. Served(O, line, states, n, k, <<>>) /\ k \in 0..Len(line) /\ n \in Nat
    BY <2>1, <2>2, WeightedAssumption DEF Served, First, PlusAdmitted, Plus, UnitsOf
  <2>4. /\ line \in Seq(Calls) /\ IsInjective(line) /\ ToSet(line) \subseteq ToSet(waiters)
        /\ O \in SUBSET Calls /\ O \cap ToSet(line) = {}
    BY <1>1, <2>2, OwnersNotQueued
  <2>5. /\ waiters' # <<>> => used' + cost[Head(waiters')] > n
        /\ ToSet(waiters') = ToSet(line) \ First(line, k)
    BY <2>3, <2>4, ServedConserves
  <2> QED  BY <1>1, <1>8, <2>2, <2>4, <2>5 DEF Resized
<1>9. CASE ShutDown
  <2>1. waiters' = <<>>
    BY <1>9 DEF ShutDown
  <2> QED  BY <2>1, EmptyLine
<1> QED  BY <1>3, <1>4, <1>5, <1>6, <1>7, <1>8, <1>9 DEF Effect

-----------------------------------------------------------------------------
(* The invariants.                                                         *)

LEMMA WeightedInit == Init => WeightedInv
<1> SUFFICES ASSUME Init PROVE WeightedInv
  OBVIOUS
<1>1. /\ waiters = <<>> /\ waiters \in Seq(Calls) /\ Len(waiters) = 0
      /\ capacity \in Capacities /\ cost \in [Calls -> Costs]
  BY DEF Init
<1>2. TypeOK
  <2>1. entry \in [Calls -> WaitStates] /\ pc \in [Calls -> CallStates]
        /\ shut \in [Closers -> CloserStates] /\ counters \in [CounterNames -> Nat]
    BY DEF Init, WaitStates, CallStates, CloserStates
  <2>2. interrupted = {} /\ used = 0 /\ in_flight = 0 /\ waiting_units = 0
        /\ closed = FALSE /\ drained = FALSE
    BY DEF Init
  <2>3. waiters \in Seq(Calls) /\ Len(waiters) <= WaitingRoom
    BY <1>1, WeightedAssumption
  <2>4. capacity \in Capacities /\ cost \in [Calls -> Costs]
    BY <1>1
  <2>5. interrupted \subseteq {c \in Calls : pc[c] \in {"expiring", "expired"}}
    BY <2>2
  <2>6. /\ used \in Nat /\ in_flight \in Nat /\ waiting_units \in Nat
        /\ closed \in BOOLEAN /\ drained \in BOOLEAN
    BY <2>2
  <2> QED  BY <2>1, <2>3, <2>4, <2>5, <2>6 DEF TypeOK
<1>3. ToSet(waiters) = {} /\ IsInjective(waiters)
  BY <1>1, EmptyLine
<1>4. Owners = {}
  BY DEF Init, Owners, Suspended
<1>5. UnitsOf({}) = 0 /\ Cardinality({}) = 0
  BY <1>1, UnitsOfNobody, FS_EmptySet
<1>6. UnitAccounting
  BY <1>3, <1>4, <1>5 DEF Init, UnitAccounting
<1>7. LineInv /\ DrainInv /\ WorkConserving
  BY <1>1, <1>3 DEF Init, LineInv, DrainInv, WorkConserving
<1> QED  BY <1>2, <1>6, <1>7 DEF WeightedInv, CoreInv

LEMMA WeightedNext == WeightedInv /\ [Next]_vars => WeightedInv'
<1> SUFFICES ASSUME WeightedInv, [Next]_vars PROVE WeightedInv'
  OBVIOUS
<1>1. CoreInv' /\ DrainInv' /\ cost' = cost /\ Effect
  BY EveryStep DEF WeightedInv, Sound
<1>2. WorkConserving'
  BY <1>1, ConservesNext DEF WeightedInv
<1> QED  BY <1>1, <1>2 DEF WeightedInv

LEMMA WeightedAlways == Spec => []WeightedInv
BY WeightedInit, WeightedNext, PTL DEF Spec

\* Every variable keeps its type and the waiting room its bound.
THEOREM WeightedTypeCorrect == Spec => []TypeOK
<1>1. WeightedInv => TypeOK
  BY DEF WeightedInv, CoreInv
<1> QED  BY <1>1, WeightedAlways, PTL

\* The sums the coordinator keeps, and only ever adds to and subtracts from, are
\* those over the calls that hold units and over the line, whatever came and went:
\* _admit_available_waiters_locked and its callers lose no unit and use none twice.
THEOREM UnitsAreAccounted == Spec => []UnitAccounting
<1>1. WeightedInv => UnitAccounting
  BY DEF WeightedInv, CoreInv
<1> QED  BY <1>1, WeightedAlways, PTL

\* The head of the line never waits beside room for it, whoever left, gave up or
\* resized last, and nobody waits for more units than there are.
THEOREM NobodyWaitsForNothing == Spec => []WorkConserving
<1>1. WeightedInv => WorkConserving
  BY DEF WeightedInv
<1> QED  BY <1>1, WeightedAlways, PTL

\* wait_closed returns when the last unit of a closed bulkhead is back, not earlier.
THEOREM WeightedDrainIsExact == Spec => []DrainExact
<1>1. WeightedInv => DrainExact
  <2> SUFFICES ASSUME WeightedInv PROVE DrainExact
    OBVIOUS
  <2>1. drained <=> closed /\ in_flight = 0
    BY DEF WeightedInv, DrainInv
  <2>2. in_flight = 0 <=> Owners = {}
    BY NobodyLeft DEF WeightedInv, CoreInv
  <2> QED  BY <2>1, <2>2 DEF WeightedInv, CoreInv, DrainInv, LineInv, DrainExact
<1> QED  BY <1>1, WeightedAlways, PTL

-----------------------------------------------------------------------------
(* First come, first served.                                               *)

\* The line keeps its order when one leaves it.
LEMMA OrderKept ==
    ASSUME NEW i \in 1..Len(waiters), waiters \in Seq(Calls), IsInjective(waiters),
           NEW a \in 1..Len(waiters), NEW b \in 1..Len(waiters), a < b, a # i, b # i
    PROVE  \E m, j \in 1..Len(RemoveAt(waiters, i)) :
              m < j /\ RemoveAt(waiters, i)[m] = waiters[a] /\ RemoveAt(waiters, i)[j] = waiters[b]
<1> DEFINE rest == RemoveAt(waiters, i)
<1>1. /\ Len(rest) = Len(waiters) - 1
      /\ \A j \in 1..(Len(waiters) - 1) : rest[j] = IF j < i THEN waiters[j] ELSE waiters[j + 1]
  BY RemoveAtProperties
<1> HIDE DEF rest
<1>2. Len(waiters) \in Nat
  BY LenProperties
<1>3. \A x \in 1..Len(waiters) : x # i =>
          \E m \in 1..Len(rest) : m = (IF x < i THEN x ELSE x - 1) /\ rest[m] = waiters[x]
  <2> TAKE x \in 1..Len(waiters)
  <2>1. CASE x < i
    BY <1>1, <1>2, <2>1
  <2>2. CASE x > i
    <3>1. x - 1 \in 1..(Len(waiters) - 1) /\ ~(x - 1 < i) /\ (x - 1) + 1 = x
      BY <1>2, <2>2
    <3>2. rest[x - 1] = waiters[x] /\ x - 1 \in 1..Len(rest) /\ ~(x < i)
      BY <1>1, <2>2, <3>1
    <3> QED  BY <3>2
  <2> QED  BY <1>2, <2>1, <2>2
<1>4. PICK m \in 1..Len(rest) : m = (IF a < i THEN a ELSE a - 1) /\ rest[m] = waiters[a]
  BY <1>3
<1>5. PICK j \in 1..Len(rest) : j = (IF b < i THEN b ELSE b - 1) /\ rest[j] = waiters[b]
  BY <1>3
<1>6. m < j
  BY <1>2, <1>4, <1>5
<1>7. \E x, y \in 1..Len(rest) : x < y /\ rest[x] = waiters[a] /\ rest[y] = waiters[b]
  BY <1>4, <1>5, <1>6
<1> QED  BY <1>7 DEF rest

\* What a served line lets in, it lets in from its front, out of the line, and
\* within the capacity.
LEMMA ServedInOrder ==
    ASSUME CoreInv', cost' = cost, NEW line \in Seq(Calls), IsInjective(line),
           NEW O \in SUBSET Calls, NEW states, NEW n \in Nat, NEW add,
           NEW k \in 0..Len(line), Served(O, line, states, n, k, add)
    PROVE  /\ \A i, j \in 1..Len(line) : i < j /\ line[j] \in First(line, k)
                                         => entry'[line[i]] = "ADMITTED"
           /\ Owners' = O \cup First(line, k) /\ First(line, k) \subseteq ToSet(line)
           /\ Owners' = O \/ used' <= n
<1>1. /\ First(line, k) \subseteq ToSet(line)
      /\ \A c : c \in First(line, k) <=> \E i \in 1..k : line[i] = c
      /\ First(line, k) \subseteq Calls
  BY FrontOfLine
<1>2. /\ Owners' = O \cup First(line, k)
      /\ k > 0 => UnitsOf(O \cup First(line, k)) <= n
      /\ entry' = [c \in Calls |-> IF c \in First(line, k) THEN "ADMITTED" ELSE states[c]]
  BY DEF Served
<1>3. \A i, j \in 1..Len(line) : line[i] = line[j] => i = j
  BY ToSetByPosition
<1>4. Len(line) \in Nat /\ \A i \in 1..Len(line) : line[i] \in Calls
  BY LenProperties, ElementOfSeq
<1>5. ASSUME NEW i \in 1..Len(line), NEW j \in 1..Len(line), i < j, line[j] \in First(line, k)
      PROVE  entry'[line[i]] = "ADMITTED"
  <2>1. j <= k
    BY <1>1, <1>3, <1>4, <1>5
  <2>2. i \in 1..k
    BY <1>4, <1>5, <2>1
  <2> QED  BY <1>1, <1>2, <1>4, <2>2
<1>6. k = 0 => First(line, k) = {}
  BY <1>1
<1>7. k > 0 => used' <= n
  <2>1. used' = UnitsOf(Owners)'
    BY DEF CoreInv, UnitAccounting
  <2>2. UnitsOf(Owners)' = UnitsOf(O \cup First(line, k))
    BY <1>2 DEF UnitsOf
  <2> QED  BY <1>2, <2>1, <2>2
<1> QED  BY <1>1, <1>2, <1>4, <1>5, <1>6, <1>7

LEMMA EveryStepInOrder ==
    ASSUME WeightedInv, Sound, Effect
    PROVE  ServesInOrder
<1>1. /\ CoreInv /\ CoreInv' /\ cost' = cost
      /\ TypeOK /\ LineInv /\ UnitAccounting
      /\ capacity \in Nat /\ cost \in [Calls -> Costs]
      /\ waiters \in Seq(Calls) /\ IsInjective(waiters)
      /\ Owners \in SUBSET Calls /\ Owners \cap ToSet(waiters) = {}
      /\ \A i \in 1..Len(waiters) : waiters[i] \in ToSet(waiters) /\ waiters[i] \in Calls
      /\ \A i, j \in 1..Len(waiters) : waiters[i] = waiters[j] => i = j
  <2>1. CoreInv /\ CoreInv' /\ cost' = cost /\ TypeOK /\ LineInv /\ UnitAccounting
    BY DEF WeightedInv, Sound, CoreInv
  <2>2. waiters \in Seq(Calls) /\ IsInjective(waiters) /\ cost \in [Calls -> Costs] /\ capacity \in Nat
    BY <2>1, WeightedAssumption DEF TypeOK, LineInv
  <2>3. /\ \A i \in 1..Len(waiters) : waiters[i] \in ToSet(waiters) /\ waiters[i] \in Calls
        /\ \A i, j \in 1..Len(waiters) : waiters[i] = waiters[j] => i = j
    BY <2>2, ToSetByPosition, ElementOfSeq
  <2> QED  BY <2>1, <2>2, <2>3, OwnersNotQueued
<1>2. ASSUME Owners' \subseteq Owners PROVE ServesInOrder
  BY <1>1, <1>2 DEF ServesInOrder
<1>3. CASE Kept
  BY <1>2, <1>3 DEF Kept
<1>4. ASSUME NEW c \in Calls, Granted(c) PROVE ServesInOrder
  <2>1. waiters = <<>> /\ used + cost[c] <= capacity /\ capacity' = capacity
        /\ Owners' = Owners \cup {c} /\ c \notin Owners
    BY <1>4 DEF Granted, CanAdmitDirectly, Fixed
  <2>2. used' = used + cost[c]
    <3>1. used' = UnitsOf(Owners)' /\ used = UnitsOf(Owners)
      BY <1>1 DEF CoreInv, UnitAccounting
    <3>2. UnitsOf(Owners)' = UnitsOf(Owners \cup {c})
      BY <1>1, <2>1 DEF UnitsOf
    <3>3. UnitsOf(Owners \cup {c}) = UnitsOf(Owners) + UnitsOf({c})
      BY <1>1, <2>1, UnitsOfBoth
    <3> QED  BY <1>1, <3>1, <3>2, <3>3, UnitsOfOne
  <2>3. \A i \in 1..Len(waiters) : FALSE
    BY <2>1
  <2> QED  BY <2>1, <2>2, <2>3 DEF ServesInOrder
<1>5. ASSUME NEW c \in Calls, Joined(c) PROVE ServesInOrder
  BY <1>2, <1>5 DEF Joined
<1>6. ASSUME NEW c \in Calls, NEW counter, NEW state \in {"EXPIRED", "CANCELLED"},
             Withdrawn(c, state, counter)
      PROVE  ServesInOrder
  <2>0. PICK i \in 1..Len(waiters) :
            /\ waiters[i] = c
            /\ \E k \in 0..Len(RemoveAt(waiters, i)) :
                  Served(Owners, RemoveAt(waiters, i), [entry EXCEPT ![c] = state],
                         capacity, k, One(counter))
    BY <1>6 DEF Withdrawn
  <2>1. PICK k \in 0..Len(RemoveAt(waiters, i)) :
            Served(Owners, RemoveAt(waiters, i), [entry EXCEPT ![c] = state],
                   capacity, k, One(counter))
    BY <2>0
  <2>2. PICK line, O, n, states : /\ line = RemoveAt(waiters, i) /\ O = Owners
                                  /\ n = capacity /\ states = [entry EXCEPT ![c] = state]
    OBVIOUS
  <2>3. Served(O, line, states, n, k, One(counter)) /\ k \in 0..Len(line) /\ n \in Nat
        /\ O \in SUBSET Calls
    BY <1>1, <2>1, <2>2 DEF Served, First, PlusAdmitted, Plus, UnitsOf
  <2>4. line \in Seq(Calls) /\ IsInjective(line) /\ ToSet(line) = ToSet(waiters) \ {c}
    BY <1>1, <2>0, <2>2, RemoveLine
  <2>5. /\ \A a, b \in 1..Len(line) : a < b /\ line[b] \in First(line, k)
                                      => entry'[line[a]] = "ADMITTED"
        /\ Owners' = O \cup First(line, k) /\ First(line, k) \subseteq ToSet(line)
        /\ Owners' = O \/ used' <= n
    BY <1>1, <2>3, <2>4, ServedInOrder
  <2>6. ASSUME NEW a \in 1..Len(waiters), NEW b \in 1..Len(waiters), a < b,
               waiters[b] \in Owners'
        PROVE  entry'[waiters[a]] # "WAITING"
    <3>1. waiters[b] \in First(line, k) /\ waiters[b] # c /\ b # i
      BY <1>1, <2>0, <2>2, <2>4, <2>5, <2>6
    <3>2. CASE a = i
      <4>1. c \notin First(line, k)
        BY <2>4, <2>5
      <4>2. states[c] = state
        BY <1>1, <2>2 DEF TypeOK
      <4>3. entry'[c] = states[c]
        BY <2>3, <4>1 DEF Served
      <4> QED  BY <2>0, <3>2, <4>2, <4>3
    <3>3. CASE a # i
      <4>1. PICK m, j \in 1..Len(line) : m < j /\ line[m] = waiters[a] /\ line[j] = waiters[b]
        <5>1. \E m, j \in 1..Len(RemoveAt(waiters, i)) :
                 m < j /\ RemoveAt(waiters, i)[m] = waiters[a]
                 /\ RemoveAt(waiters, i)[j] = waiters[b]
          BY <1>1, <2>6, <3>1, <3>3, OrderKept
        <5> QED  BY <2>2, <5>1
      <4> QED  BY <2>5, <3>1, <4>1
    <3> QED  BY <3>2, <3>3
  <2>7. capacity' = n
    BY <1>6, <2>2 DEF Withdrawn, Fixed
  <2> QED  BY <2>2, <2>4, <2>5, <2>6, <2>7 DEF ServesInOrder
<1>7. ASSUME NEW O \in SUBSET Owners, NEW n \in Nat, capacity' = n,
             NEW add, NEW k \in 0..Len(waiters), Served(O, waiters, entry, n, k, add)
      PROVE  ServesInOrder
  <2>1. PICK line, states : line = waiters /\ states = entry
    OBVIOUS
  <2>2. Served(O, line, states, n, k, add) /\ k \in 0..Len(line) /\ O \in SUBSET Calls
    BY <1>1, <1>7, <2>1 DEF Served, First, PlusAdmitted, Plus, UnitsOf
  <2>3. /\ \A a, b \in 1..Len(line) : a < b /\ line[b] \in First(line, k)
                                      => entry'[line[a]] = "ADMITTED"
        /\ Owners' = O \cup First(line, k) /\ First(line, k) \subseteq ToSet(line)
        /\ Owners' = O \/ used' <= n
    BY <1>1, <2>1, <2>2, ServedInOrder
  <2>4. ASSUME NEW a \in 1..Len(waiters), NEW b \in 1..Len(waiters), a < b,
               waiters[b] \in Owners'
        PROVE  entry'[waiters[a]] # "WAITING"
    <3>1. waiters[b] \in First(line, k)
      BY <1>1, <2>3, <2>4
    <3> QED  BY <2>1, <2>3, <2>4, <3>1
  <2> QED  BY <1>7, <2>1, <2>3, <2>4 DEF ServesInOrder
<1>8. ASSUME NEW c \in Calls, NEW count, NEW units, Departed(c, count, units)
      PROVE  ServesInOrder
  <2>1. PICK k \in 0..Len(waiters) :
            Served(Owners \ {c}, waiters, entry, capacity, k, OneAndUnits(count, units, cost[c]))
    BY <1>8 DEF Departed
  <2>2. PICK O, n, add : O = Owners \ {c} /\ n = capacity /\ add = OneAndUnits(count, units, cost[c])
    OBVIOUS
  <2>3. Served(O, waiters, entry, n, k, add)
    BY <2>1, <2>2 DEF Served, First, PlusAdmitted, Plus, UnitsOf
  <2>4. O \in SUBSET Owners /\ n \in Nat /\ capacity' = n
    BY <1>1, <1>8, <2>2 DEF Departed, Fixed
  <2> QED  BY <1>7, <2>3, <2>4
<1>9. ASSUME NEW n \in Capacities, Resized(n) PROVE ServesInOrder
  <2>1. PICK k \in 0..Len(waiters) : Served(Owners, waiters, entry, n, k, <<>>)
    BY <1>9 DEF Resized
  <2>2. PICK O : O = Owners
    OBVIOUS
  <2>3. Served(O, waiters, entry, n, k, <<>>)
    BY <2>1, <2>2 DEF Served, First, PlusAdmitted, Plus, UnitsOf
  <2>4. O \in SUBSET Owners /\ n \in Nat /\ capacity' = n
    BY <1>9, <2>2, WeightedAssumption DEF Resized
  <2> QED  BY <1>7, <2>3, <2>4
<1>10. CASE ShutDown
  BY <1>2, <1>10 DEF ShutDown
<1> QED  BY <1>3, <1>4, <1>5, <1>6, <1>8, <1>9, <1>10 DEF Effect

\* First come, first served, however cheap those behind are: no step admits a call
\* before one ahead of it or past the line, or over the capacity.
THEOREM NobodyOvertakes == Spec => NoOvertaking
<1>1. WeightedInv /\ [Next]_vars => [ServesInOrder]_vars
  <2> SUFFICES ASSUME WeightedInv, [Next]_vars PROVE ServesInOrder
    OBVIOUS
  <2>1. Sound /\ Effect
    BY EveryStep DEF WeightedInv
  <2> QED  BY <2>1, EveryStepInOrder
<1> QED  BY <1>1, WeightedAlways, PTL DEF Spec, NoOvertaking

-----------------------------------------------------------------------------
(* The refinement.                                                         *)

\* The operators WeightedBulkhead takes from the community modules are these.
LEMMA SameOperators ==
    /\ \A S : Abstract!Cardinality(S) = Cardinality(S)
    /\ \A s : Abstract!ToSet(s) = ToSet(s)
    /\ \A s, i : Abstract!RemoveAt(s, i) = RemoveAt(s, i)
<1>1. \A S : Abstract!Cardinality(S) = Cardinality(S)
  BY DEF Abstract!Cardinality, Cardinality
<1>2. \A s : Abstract!ToSet(s) = ToSet(s)
  BY DEF Abstract!ToSet, ToSet
<1>3. \A s, i : Abstract!RemoveAt(s, i) = RemoveAt(s, i)
  BY DEF Abstract!RemoveAt, RemoveAt
<1> QED  BY <1>1, <1>2, <1>3

LEMMA SameLoad == \A S : Abstract!Load(S) = UnitsOf(S)
BY SameOperators DEF Abstract!Load, UnitsOf

\* A line is served as the abstract bulkhead serves it.
LEMMA ServeBy ==
    ASSUME cost \in [Calls -> Costs], NEW O \in SUBSET Calls, NEW n \in Nat,
           NEW line \in Seq(Calls), IsInjective(line), NEW k \in 0..Len(line),
           k > 0 => UnitsOf(O \cup First(line, k)) <= n,
           k < Len(line) => UnitsOf(O \cup First(line, k + 1)) > n,
           Owners' = O \cup First(line, k),
           waiters' = SubSeq(line, k + 1, Len(line))
    PROVE  Abstract!Serve(O, line, n)
<1>1. Len(line) \in Nat /\ k \in Nat /\ k <= Len(line)
  BY LenProperties
<1>2. k = 0 \/ Abstract!Load(O \cup Abstract!ToSet(SubSeq(line, 1, k))) <= n
  <2>1. ASSUME k # 0 PROVE UnitsOf(O \cup First(line, k)) <= n
    BY <1>1, <2>1
  <2> QED  BY <2>1, SameLoad, SameOperators DEF First
<1>3. k = Len(line) \/ ~(Abstract!Load(O \cup Abstract!ToSet(SubSeq(line, 1, k + 1))) <= n)
  <2>1. ASSUME k # Len(line) PROVE ~(UnitsOf(O \cup First(line, k + 1)) <= n)
    <3>1. k < Len(line) /\ k + 1 \in 0..Len(line)
      BY <1>1, <2>1
    <3>2. First(line, k + 1) \subseteq Calls
      BY <3>1, FrontOfLine
    <3>3. UnitsOf(O \cup First(line, k + 1)) \in Nat
      BY <3>2, UnitsType
    <3> QED  BY <3>1, <3>3
  <2> QED  BY <2>1, SameLoad, SameOperators DEF First
<1>4. Abstract!LetIn(O, line, k)
  BY SameOperators DEF Abstract!LetIn, First
<1> QED  BY <1>2, <1>3, <1>4 DEF Abstract!Serve

\* Every step is one of the abstract bulkhead's or changes nothing it has.
LEMMA EveryStepRefines ==
    ASSUME WeightedInv, WeightedInv', Sound, Effect
    PROVE  [Abstract!Next]_(Abstract!bulkhead)
<1>1. /\ cost' = cost /\ TypeOK /\ LineInv /\ UnitAccounting /\ TypeOK' /\ UnitAccounting'
      /\ capacity \in Nat /\ cost \in [Calls -> Costs]
      /\ waiters \in Seq(Calls) /\ IsInjective(waiters) /\ waiters' \in Seq(Calls)
      /\ IsInjective(waiters') /\ Len(waiters') <= WaitingRoom
      /\ Owners \in SUBSET Calls /\ Owners \cap ToSet(waiters) = {}
  BY OwnersNotQueued, WeightedAssumption DEF WeightedInv, Sound, CoreInv, TypeOK, LineInv
<1>3. CASE Kept
  BY <1>1, <1>3 DEF Kept, Fixed, Abstract!bulkhead
<1>4. ASSUME NEW c \in Calls, Granted(c) PROVE Abstract!Next
  <2>1. /\ ~closed /\ cost[c] <= capacity /\ waiters = <<>> /\ used + cost[c] <= capacity
        /\ c \notin Owners /\ Owners' = Owners \cup {c} /\ waiters' = waiters
        /\ capacity' = capacity /\ closed' = closed
    BY <1>4 DEF Granted, CanAdmitDirectly, Fixed
  <2>2. c \notin ToSet(waiters)
    BY <2>1, EmptyLine
  <2>3. PICK line, O, n, k : line = Append(waiters, c) /\ O = Owners /\ n = capacity /\ k = 1
    OBVIOUS
  <2>4. line \in Seq(Calls) /\ Len(line) = 1 /\ IsInjective(line) /\ line = <<c>>
    <3>1. Len(waiters) = 0 /\ Append(waiters, c) = <<c>>
      BY <2>1
    <3>2. line \in Seq(Calls) /\ Len(line) = Len(waiters) + 1 /\ IsInjective(line)
      BY <1>1, <2>2, <2>3, AppendLine
    <3> QED  BY <2>3, <3>1, <3>2
  <2>5. First(line, k) = {c} /\ k \in 0..Len(line) /\ ~(k < Len(line)) /\ k > 0
    <3>1. k \in 0..Len(line) /\ ~(k < Len(line)) /\ k > 0
      BY <2>3, <2>4
    <3>2. \A x : x \in First(line, k) <=> \E i \in 1..k : line[i] = x
      BY <2>4, <3>1, FrontOfLine
    <3>3. \A x : x \in First(line, k) <=> x = c
      BY <2>3, <2>4, <3>2
    <3> QED  BY <3>1, <3>3
  <2>6. UnitsOf(O \cup First(line, k)) <= n
    <3>1. UnitsOf(Owners \cup {c}) = UnitsOf(Owners) + UnitsOf({c})
      BY <1>1, <2>1, UnitsOfBoth
    <3>2. UnitsOf(O \cup First(line, k)) = UnitsOf(Owners \cup {c})
      BY <2>3, <2>5 DEF UnitsOf
    <3>3. UnitsOf({c}) = cost[c] /\ UnitsOf(Owners) = used
      BY <1>1, UnitsOfOne DEF UnitAccounting
    <3> QED  BY <2>1, <2>3, <3>1, <3>2, <3>3
  <2>7. waiters' = SubSeq(line, k + 1, Len(line)) /\ Owners' = O \cup First(line, k)
    BY <2>1, <2>3, <2>4, <2>5
  <2>8. Abstract!Serve(O, line, n)
    <3>1. O \in SUBSET Calls /\ n \in Nat
      BY <1>1, <2>3
    <3> QED  BY <1>1, <2>4, <2>5, <2>6, <2>7, <3>1, ServeBy
  <2>9. Abstract!Serve(Owners, Append(waiters, c), capacity)
    BY <2>3, <2>8 DEF Abstract!Serve, Abstract!LetIn, Abstract!Load
  <2> QED  BY <1>1, <2>1, <2>2, <2>9, SameOperators DEF Abstract!Next, Abstract!Arrive
<1>5. ASSUME NEW c \in Calls, Joined(c) PROVE Abstract!Next
  <2>1. /\ ~closed /\ cost[c] <= capacity /\ c \notin Owners /\ c \notin ToSet(waiters)
        /\ Owners' = Owners /\ waiters' = Append(waiters, c)
        /\ capacity' = capacity /\ closed' = closed
    BY <1>5 DEF Joined, Fixed
  <2>2. PICK line, O, n, k : line = Append(waiters, c) /\ O = Owners /\ n = capacity /\ k = 0
    OBVIOUS
  <2>3. /\ line \in Seq(Calls) /\ Len(line) \in Nat /\ Len(line) >= 1 /\ IsInjective(line)
        /\ line # <<>> /\ line = waiters'
    <3>1. Len(waiters) \in Nat
      BY <1>1, LenProperties
    <3>2. Len(line) = Len(waiters) + 1
      BY <1>1, <2>1, <2>2, AppendLine
    <3> QED  BY <1>1, <2>1, <2>2, <3>1, <3>2
  <2>4. First(line, k + 1) = {Head(line)} /\ Head(line) \in ToSet(line)
    <3>1. k + 1 = 1
      BY <2>2
    <3>2. ToSet(SubSeq(line, 1, 1)) = {Head(line)} /\ Head(line) \in ToSet(line)
      BY <2>3, TailLine
    <3> QED  BY <3>1, <3>2 DEF First
  <2>5. First(line, k) = {} /\ SubSeq(line, k + 1, Len(line)) = line /\ k \in 0..Len(line)
    <3>1. k \in 0..Len(line)
      BY <2>2, <2>3
    <3>2. \A x : x \in First(line, k) <=> \E i \in 1..k : line[i] = x
      BY <2>3, <3>1, FrontOfLine
    <3>3. k + 1 = 1 /\ SubSeq(line, 1, Len(line)) = line
      BY <2>2, <2>3
    <3> QED  BY <2>2, <3>1, <3>2, <3>3
  <2>6. UnitsOf(O \cup First(line, k + 1)) > n
    <3> DEFINE h == Head(line)
    <3>1. h \in ToSet(waiters') /\ h \in Calls /\ h \notin Owners
      <4>1. ToSet(waiters') = ToSet(waiters) \cup {c}
        BY <1>1, <2>1, AppendLine
      <4> QED  BY <1>1, <2>1, <2>3, <2>4, <4>1, ToSetByPosition
    <3>2. used' + cost[Head(waiters')] > capacity'
      BY <1>1, <2>3 DEF WeightedInv, WorkConserving
    <3>3. used' = UnitsOf(Owners)
      BY <1>1, <2>1 DEF UnitAccounting, UnitsOf
    <3> HIDE DEF h
    <3>4. UnitsOf(Owners \cup {h}) = UnitsOf(Owners) + UnitsOf({h})
      BY <1>1, <3>1, UnitsOfBoth
    <3>5. UnitsOf({h}) = cost[h]
      BY <1>1, <3>1, UnitsOfOne
    <3>6. UnitsOf(O \cup First(line, k + 1)) = UnitsOf(Owners \cup {h})
      <4>1. O \cup First(line, k + 1) = Owners \cup {h}
        BY <2>2, <2>4 DEF h
      <4> QED  BY <4>1 DEF UnitsOf
    <3>7. cost[Head(waiters')] = cost[h] /\ capacity' = n
      BY <2>1, <2>2, <2>3 DEF h
    <3> QED  BY <3>2, <3>3, <3>4, <3>5, <3>6, <3>7
  <2>7. Abstract!Serve(O, line, n)
    <3>1. /\ Owners' = O \cup First(line, k) /\ waiters' = SubSeq(line, k + 1, Len(line))
          /\ O \in SUBSET Calls /\ n \in Nat /\ ~(k > 0)
      BY <1>1, <2>1, <2>2, <2>3, <2>5
    <3> QED  BY <1>1, <2>3, <2>5, <2>6, <3>1, ServeBy
  <2>8. Abstract!Serve(Owners, Append(waiters, c), capacity)
    BY <2>2, <2>7 DEF Abstract!Serve, Abstract!LetIn, Abstract!Load
  <2> QED  BY <1>1, <2>1, <2>8, SameOperators DEF Abstract!Next, Abstract!Arrive
<1>6. ASSUME NEW c \in Calls, NEW state, NEW counter, Withdrawn(c, state, counter)
      PROVE  Abstract!Next
  <2>0. PICK i \in 1..Len(waiters) :
            /\ waiters[i] = c
            /\ \E k \in 0..Len(RemoveAt(waiters, i)) :
                  Served(Owners, RemoveAt(waiters, i), [entry EXCEPT ![c] = state],
                         capacity, k, One(counter))
    BY <1>6 DEF Withdrawn
  <2>1. PICK k \in 0..Len(RemoveAt(waiters, i)) :
            Served(Owners, RemoveAt(waiters, i), [entry EXCEPT ![c] = state],
                   capacity, k, One(counter))
    BY <2>0
  <2>2. PICK line, O, n, states : /\ line = RemoveAt(waiters, i) /\ O = Owners
                                  /\ n = capacity /\ states = [entry EXCEPT ![c] = state]
    OBVIOUS
  <2>3. Served(O, line, states, n, k, One(counter)) /\ k \in 0..Len(line)
        /\ n \in Nat /\ O \in SUBSET Calls
    BY <1>1, <2>1, <2>2 DEF Served, First, PlusAdmitted, Plus, UnitsOf
  <2>4. line \in Seq(Calls) /\ IsInjective(line)
    BY <1>1, <2>2, RemoveLine
  <2>5. Abstract!Serve(O, line, n)
    BY <1>1, <2>3, <2>4, ServeBy DEF Served
  <2>6. Abstract!Serve(Owners, RemoveAt(waiters, i), capacity)
    BY <2>2, <2>5 DEF Abstract!Serve, Abstract!LetIn, Abstract!Load
  <2>7. Abstract!Withdraw(c)
    BY <1>1, <1>6, <2>0, <2>6, SameOperators DEF Abstract!Withdraw, Withdrawn, Fixed
  <2> QED  BY <2>7 DEF Abstract!Next
<1>7. ASSUME NEW c \in Calls, NEW count, NEW units, Departed(c, count, units)
      PROVE  Abstract!Next
  <2>1. PICK k \in 0..Len(waiters) :
            Served(Owners \ {c}, waiters, entry, capacity, k, OneAndUnits(count, units, cost[c]))
    BY <1>7 DEF Departed
  <2>2. PICK line, O, n, states, add :
            /\ line = waiters /\ O = Owners \ {c} /\ n = capacity /\ states = entry
            /\ add = OneAndUnits(count, units, cost[c])
    OBVIOUS
  <2>3. Served(O, line, states, n, k, add) /\ k \in 0..Len(line) /\ n \in Nat
        /\ line \in Seq(Calls) /\ IsInjective(line) /\ O \in SUBSET Calls
    BY <1>1, <2>1, <2>2 DEF Served, First, PlusAdmitted, Plus, UnitsOf
  <2>4. Abstract!Serve(O, line, n)
    BY <1>1, <2>3, ServeBy DEF Served
  <2>5. Abstract!Serve(Owners \ {c}, waiters, capacity)
    BY <2>2, <2>4 DEF Abstract!Serve, Abstract!LetIn, Abstract!Load
  <2>6. Abstract!Leave(c)
    BY <1>1, <1>7, <2>5 DEF Abstract!Leave, Departed, Fixed
  <2> QED  BY <2>6 DEF Abstract!Next
<1>8. ASSUME NEW n \in Capacities, Resized(n) PROVE Abstract!Next
  <2>1. PICK k \in 0..Len(waiters) : Served(Owners, waiters, entry, n, k, <<>>)
    BY <1>8 DEF Resized
  <2>2. PICK line, O, states : line = waiters /\ O = Owners /\ states = entry
    OBVIOUS
  <2>3. Served(O, line, states, n, k, <<>>) /\ k \in 0..Len(line) /\ n \in Nat
        /\ line \in Seq(Calls) /\ IsInjective(line) /\ O \in SUBSET Calls
    BY <1>1, <2>1, <2>2, WeightedAssumption DEF Served, First, PlusAdmitted, Plus, UnitsOf
  <2>4. Abstract!Serve(O, line, n)
    BY <1>1, <2>3, ServeBy DEF Served
  <2>5. Abstract!Serve(Owners, waiters, n)
    BY <2>2, <2>4 DEF Abstract!Serve, Abstract!LetIn, Abstract!Load
  <2>6. Abstract!Resize(n)
    BY <1>1, <1>8, <2>5, SameOperators DEF Abstract!Resize, Resized
  <2> QED  BY <2>6 DEF Abstract!Next
<1>9. CASE ShutDown
  <2>1. Abstract!Close
    BY <1>1, <1>9 DEF Abstract!Close, ShutDown
  <2> QED  BY <2>1 DEF Abstract!Next
<1> QED  BY <1>3, <1>4, <1>5, <1>6, <1>7, <1>8, <1>9 DEF Effect

\* The coordinator is a weighted bulkhead: what it does to owners, line, capacity and
\* openness WeightedBulkhead does in one step that leaves the line served as far as
\* it fits and not further.
THEOREM CoordinatorIsWeightedBulkhead == Spec => ImplementsBulkhead
<1>1. Init => Abstract!Init
  <2> SUFFICES ASSUME Init PROVE Abstract!Init
    OBVIOUS
  <2>1. Owners = {}
    BY DEF Init, Owners, Suspended
  <2> QED  BY <2>1 DEF Init, Abstract!Init
<1>2. WeightedInv /\ [Next]_vars => [Abstract!Next]_(Abstract!bulkhead)
  <2> SUFFICES ASSUME WeightedInv, [Next]_vars PROVE [Abstract!Next]_(Abstract!bulkhead)
    OBVIOUS
  <2>1. Sound /\ Effect
    BY EveryStep DEF WeightedInv
  <2>2. WeightedInv'
    BY WeightedNext
  <2> QED  BY <2>1, <2>2, EveryStepRefines
<1> QED  BY <1>1, <1>2, WeightedAlways, PTL DEF Spec, ImplementsBulkhead, Abstract!Spec

-----------------------------------------------------------------------------
(* What two snapshots tell.                                                *)

\* Who left the line in a step without being let in.
Unserved == {c \in Calls : /\ entry[c] = "WAITING"
                           /\ entry'[c] \in {"EXPIRED", "CANCELLED", "CLOSED"}}

\* What remains to show of the interval i of a step.
Told(i) ==
    /\ in_flight' - in_flight = i["admitted"] - i["finished"] - i["abandoned"]
    /\ used' - used = i["admitted_units"] - i["finished_units"] - i["abandoned_units"]
    /\ i["admitted_units"] = UnitsOf(Owners' \ Owners)
    /\ Len(waiters') - Len(waiters)
         = i["queued"] - (i["admitted_from_queue"] + i["cancelled_while_waiting"]
                          + i["expired"] + i["closed_while_waiting"])
    /\ waiting_units' - waiting_units
         = i["queued_units"] - i["admitted_from_queue_units"] - UnitsOf(Unserved)
    /\ i["admitted"] - i["admitted_from_queue"] = 0
         <=> i["admitted_units"] - i["admitted_from_queue_units"] = 0
    /\ ~HasActivity(i) => waiters' = waiters /\ Owners' = Owners
    /\ used >= capacity => i["admitted"] - i["admitted_from_queue"] = 0

LEMMA SoundWhenTold ==
    ASSUME WeightedInv, WeightedInv', closed => closed',
           NEW i, i = [k \in CounterNames |-> counters'[k] - counters[k]],
           \A k \in CounterNames : counters[k] <= counters'[k],
           Told(i)
    PROVE  SoundStep
<1>1. Interval(Status, Status') = i
  BY DEF Interval, Status
<1>2. Comparable(Status, Status')
  BY DEF Comparable, Status
<1>3. OperationsTold(i) /\ LineTold(i)
  BY DEF Told, OperationsTold, LineTold, SettledWaiting, Unserved
<1>4. IsDrained(Status') <=> drained'
  <2>1. IsDrained(Status') <=> closed' /\ used' = 0 /\ in_flight' = 0 /\ Len(waiters') = 0
    BY DEF IsDrained, Status
  <2>2. in_flight' = 0 <=> used' = 0
    BY NobodyLeftNext DEF WeightedInv
  <2>3. closed' => Len(waiters') = 0
    BY DEF WeightedInv, CoreInv, LineInv
  <2>4. drained' <=> closed' /\ in_flight' = 0
    BY DEF WeightedInv, DrainInv
  <2> QED  BY <2>1, <2>2, <2>3, <2>4
<1>5. IsSaturated(Status) <=> used >= capacity
  BY DEF IsSaturated, Status
<1>6. DirectAdmitted(i) = i["admitted"] - i["admitted_from_queue"]
      /\ DirectAdmittedUnits(i) = i["admitted_units"] - i["admitted_from_queue_units"]
  BY DEF DirectAdmitted, DirectAdmittedUnits
<1>7. Told(i)
  OBVIOUS
<1> QED  BY <1>1, <1>2, <1>3, <1>4, <1>5, <1>6, <1>7 DEF SoundStep, Told

\* How much a total grows by an addition.
LEMMA GrowthOf ==
    ASSUME counters \in [CounterNames -> Nat], NEW add, counters' = Plus(add),
           \A k \in DOMAIN add : add[k] \in Nat,
           NEW i, i = [k \in CounterNames |-> counters'[k] - counters[k]]
    PROVE  /\ \A k \in CounterNames : counters[k] <= counters'[k]
           /\ \A k \in CounterNames : i[k] = IF k \in DOMAIN add THEN add[k] ELSE 0
<1>1. \A k \in CounterNames :
         counters'[k] = IF k \in DOMAIN add THEN counters[k] + add[k] ELSE counters[k]
  BY DEF Plus
<1>2. ASSUME NEW k \in CounterNames
      PROVE  counters[k] <= counters'[k] /\ i[k] = IF k \in DOMAIN add THEN add[k] ELSE 0
  <2>1. counters[k] \in Nat /\ i[k] = counters'[k] - counters[k]
    OBVIOUS
  <2>2. CASE k \in DOMAIN add
    BY <1>1, <2>1, <2>2
  <2>3. CASE k \notin DOMAIN add
    BY <1>1, <2>1, <2>3
  <2> QED  BY <2>2, <2>3
<1> QED  BY <1>2

\* A line without duplicates, of those who wait, is served for some of the owners.
Serving(O, line, states, n, k, add) ==
    /\ line \in Seq(Calls) /\ IsInjective(line) /\ ToSet(line) \subseteq ToSet(waiters)
    /\ O \in SUBSET Owners /\ k \in 0..Len(line)
    /\ Served(O, line, states, n, k, add)

\* What is counted of those a served line lets in is what line and sums show.
LEMMA ServedTold ==
    ASSUME CoreInv, CoreInv', cost' = cost, NEW O, NEW line, NEW states, NEW n, NEW k, NEW add,
           Serving(O, line, states, n, k, add)
    PROVE  /\ UnitsOf(First(line, k)) \in Nat /\ (UnitsOf(First(line, k)) = 0 <=> k = 0)
           /\ used' = UnitsOf(O) + UnitsOf(First(line, k)) /\ UnitsOf(O) \in Nat
           /\ in_flight' = Cardinality(O) + k /\ Cardinality(O) \in Nat
           /\ Owners' \ Owners = First(line, k)
           /\ Len(waiters') = Len(line) - k
           /\ waiting_units' = UnitsOf(ToSet(line)) - UnitsOf(First(line, k))
           /\ UnitsOf(ToSet(line)) \in Nat
           /\ k = 0 => waiters' = line /\ Owners' = O
<1>0. /\ line \in Seq(Calls) /\ IsInjective(line) /\ ToSet(line) \subseteq ToSet(waiters)
      /\ O \in SUBSET Owners /\ k \in 0..Len(line)
      /\ Served(O, line, states, n, k, add)
  BY DEF Serving
<1> DEFINE A == First(line, k)
<1>1. /\ TypeOK /\ cost \in [Calls -> Costs] /\ UnitAccounting'
      /\ Owners \in SUBSET Calls /\ Owners \cap ToSet(waiters) = {}
  BY OwnersNotQueued DEF CoreInv, TypeOK
<1>2. Owners' = O \cup A /\ waiters' = SubSeq(line, k + 1, Len(line))
  BY <1>0 DEF Served
<1>3. /\ A \subseteq ToSet(line) /\ A \subseteq Calls /\ Cardinality(A) = k
      /\ Len(waiters') = Len(line) - k /\ ToSet(waiters') = ToSet(line) \ A
      /\ ToSet(line) \subseteq Calls /\ Len(line) \in Nat /\ k \in Nat
  BY <1>0, <1>2, FrontOfLine, ToSetByPosition
<1> HIDE DEF A
<1>4. O \in SUBSET Calls /\ O \cap A = {} /\ Owners' \ Owners = A
  BY <1>0, <1>1, <1>2, <1>3
<1>5. UnitsOf(A) \in Nat /\ UnitsOf(O) \in Nat /\ UnitsOf(ToSet(line)) \in Nat
  BY <1>1, <1>3, <1>4, UnitsType
<1>6. UnitsOf(A) = 0 <=> k = 0
  <2>1. UnitsOf(A) = 0 <=> A = {}
    BY <1>1, <1>3, UnitsOfNobody
  <2>2. Cardinality(A) = 0 <=> A = {}
    BY <1>3, CallsFinite, FS_EmptySet
  <2> QED  BY <1>3, <2>1, <2>2
<1>7. used' = UnitsOf(O) + UnitsOf(A)
  <2>1. used' = UnitsOf(Owners)'
    BY <1>1 DEF UnitAccounting
  <2>2. UnitsOf(Owners)' = UnitsOf(O \cup A)
    BY <1>2 DEF UnitsOf
  <2> QED  BY <1>1, <1>3, <1>4, <2>1, <2>2, UnitsOfBoth
<1>8. in_flight' = Cardinality(O) + k /\ Cardinality(O) \in Nat
  <2>1. in_flight' = Cardinality(O \cup A)
    BY <1>1, <1>2 DEF UnitAccounting
  <2> QED  BY <1>3, <1>4, <2>1, CallsFinite, DisjointUnion
<1>9. waiting_units' = UnitsOf(ToSet(line)) - UnitsOf(A)
  <2>1. waiting_units' = UnitsOf(ToSet(waiters))'
    BY <1>1 DEF UnitAccounting
  <2>2. UnitsOf(ToSet(waiters))' = UnitsOf(ToSet(line) \ A)
    BY <1>3 DEF UnitsOf
  <2> QED  BY <1>1, <1>3, <2>1, <2>2, UnitsOfRest
<1>10. k = 0 => waiters' = line /\ Owners' = O
  <2>1. ASSUME k = 0 PROVE waiters' = line /\ A = {}
    <3>1. SubSeq(line, 1, Len(line)) = line /\ k + 1 = 1
      BY <1>0, <2>1
    <3>2. Cardinality(A) = 0 => A = {}
      BY <1>3, CallsFinite, FS_EmptySet
    <3> QED  BY <1>2, <1>3, <2>1, <3>1, <3>2
  <2> QED  BY <1>2, <2>1
<1> QED  BY <1>3, <1>4, <1>5, <1>6, <1>7, <1>8, <1>9, <1>10 DEF A

\* How the totals grow when a line is served, beside what else is counted.
LEMMA ServedGrowth ==
    ASSUME counters \in [CounterNames -> Nat], NEW line, NEW k \in Nat, NEW add,
           \A x \in DOMAIN add : add[x] \in Nat, DOMAIN add \cap AdmissionTotals = {},
           UnitsOf(First(line, k)) \in Nat,
           counters' = PlusAdmitted(add, k, UnitsOf(First(line, k))),
           NEW i, i = [x \in CounterNames |-> counters'[x] - counters[x]]
    PROVE  /\ \A x \in CounterNames : counters[x] <= counters'[x]
           /\ i["admitted"] = k /\ i["admitted_from_queue"] = k
           /\ i["admitted_units"] = UnitsOf(First(line, k))
           /\ i["admitted_from_queue_units"] = UnitsOf(First(line, k))
           /\ \A x \in CounterNames \ AdmissionTotals :
                 i[x] = IF x \in DOMAIN add THEN add[x] ELSE 0
<1>1. PICK u : u = UnitsOf(First(line, k)) /\ u \in Nat
  OBVIOUS
<1>2. /\ \A x \in CounterNames \ AdmissionTotals : counters'[x] = Plus(add)[x]
      /\ \A x \in {"admitted", "admitted_from_queue"} : counters'[x] = Plus(add)[x] + k
      /\ \A x \in {"admitted_units", "admitted_from_queue_units"} :
            counters'[x] = Plus(add)[x] + u
  BY <1>1, CountedTotals
<1>3. \A x \in CounterNames :
         Plus(add)[x] = IF x \in DOMAIN add THEN counters[x] + add[x] ELSE counters[x]
  BY DEF Plus
<1>4. AdmissionTotals \subseteq CounterNames
  BY DEF AdmissionTotals, CounterNames
<1>5. \A x \in CounterNames : counters[x] \in Nat /\ i[x] = counters'[x] - counters[x]
  OBVIOUS
<1>6. \A x \in AdmissionTotals : Plus(add)[x] = counters[x]
  BY <1>3, <1>4
<1>7. \A x \in AdmissionTotals : counters[x] \in Nat /\ i[x] = counters'[x] - counters[x]
  BY <1>4, <1>5
<1>8. \A x \in {"admitted", "admitted_from_queue"} :
         counters[x] <= counters'[x] /\ i[x] = k
  BY <1>2, <1>6, <1>7 DEF AdmissionTotals
<1>9. \A x \in {"admitted_units", "admitted_from_queue_units"} :
         counters[x] <= counters'[x] /\ i[x] = u
  BY <1>1, <1>2, <1>6, <1>7 DEF AdmissionTotals
<1>10. \A x \in CounterNames \ AdmissionTotals :
          counters[x] <= counters'[x] /\ i[x] = IF x \in DOMAIN add THEN add[x] ELSE 0
  <2> TAKE x \in CounterNames \ AdmissionTotals
  <2>1. counters[x] \in Nat /\ i[x] = counters'[x] - counters[x]
    BY <1>5
  <2>2. counters'[x] = IF x \in DOMAIN add THEN counters[x] + add[x] ELSE counters[x]
    BY <1>2, <1>3
  <2>3. CASE x \in DOMAIN add
    BY <2>1, <2>2, <2>3
  <2>4. CASE x \notin DOMAIN add
    BY <2>1, <2>2, <2>4
  <2> QED  BY <2>3, <2>4
<1>11. \A x \in CounterNames : counters[x] <= counters'[x]
  BY <1>8, <1>9, <1>10 DEF AdmissionTotals
<1> QED  BY <1>1, <1>8, <1>9, <1>10, <1>11

\* The step takes operations away, sends others out of the line unserved, and admits
\* from its front, when the totals i grew by just that.
ServiceTold(i) ==
    /\ in_flight' = (in_flight - (i["finished"] + i["abandoned"])) + i["admitted"]
    /\ used' = (used - (i["finished_units"] + i["abandoned_units"])) + i["admitted_units"]
    /\ Len(waiters') = (Len(waiters) - (i["cancelled_while_waiting"] + i["expired"]))
                         - i["admitted"]
    /\ waiting_units' = (waiting_units - UnitsOf(Unserved)) - i["admitted_units"]
    /\ UnitsOf(Owners' \ Owners) = i["admitted_units"]
    /\ i["admitted_from_queue"] = i["admitted"]
    /\ i["admitted_from_queue_units"] = i["admitted_units"]
    /\ i["queued"] = 0 /\ i["queued_units"] = 0 /\ i["closed_while_waiting"] = 0
    /\ HasActivity(i)

LEMMA ToldOfService ==
    ASSUME NEW i, \A x \in CounterNames : i[x] \in Nat, UnitsOf(Unserved) \in Nat,
           in_flight \in Nat, used \in Nat, waiting_units \in Nat, Len(waiters) \in Nat,
           ServiceTold(i)
    PROVE  Told(i)
<1>0. /\ i["finished"] \in Nat /\ i["abandoned"] \in Nat /\ i["admitted"] \in Nat
      /\ i["finished_units"] \in Nat /\ i["abandoned_units"] \in Nat
      /\ i["admitted_units"] \in Nat
      /\ i["cancelled_while_waiting"] \in Nat /\ i["expired"] \in Nat
  BY DEF CounterNames
<1>1. in_flight' - in_flight = i["admitted"] - i["finished"] - i["abandoned"]
  <2>1. in_flight' = (in_flight - (i["finished"] + i["abandoned"])) + i["admitted"]
    BY DEF ServiceTold
  <2> QED  BY <1>0, <2>1
<1>2. used' - used = i["admitted_units"] - i["finished_units"] - i["abandoned_units"]
  <2>1. used' = (used - (i["finished_units"] + i["abandoned_units"])) + i["admitted_units"]
    BY DEF ServiceTold
  <2> QED  BY <1>0, <2>1
<1>3. Len(waiters') - Len(waiters)
        = i["queued"] - (i["admitted_from_queue"] + i["cancelled_while_waiting"]
                         + i["expired"] + i["closed_while_waiting"])
  <2>1. /\ Len(waiters') = (Len(waiters) - (i["cancelled_while_waiting"] + i["expired"]))
                             - i["admitted"]
        /\ i["admitted_from_queue"] = i["admitted"]
        /\ i["queued"] = 0 /\ i["closed_while_waiting"] = 0
    BY DEF ServiceTold
  <2> QED  BY <1>0, <2>1
<1>4. waiting_units' - waiting_units
        = i["queued_units"] - i["admitted_from_queue_units"] - UnitsOf(Unserved)
  <2>1. /\ waiting_units' = (waiting_units - UnitsOf(Unserved)) - i["admitted_units"]
        /\ i["admitted_from_queue_units"] = i["admitted_units"] /\ i["queued_units"] = 0
    BY DEF ServiceTold
  <2> QED  BY <1>0, <2>1
<1>5. /\ i["admitted"] - i["admitted_from_queue"] = 0
      /\ i["admitted_units"] - i["admitted_from_queue_units"] = 0
  <2>1. /\ i["admitted_from_queue"] = i["admitted"]
        /\ i["admitted_from_queue_units"] = i["admitted_units"]
    BY DEF ServiceTold
  <2> QED  BY <1>0, <2>1
<1> QED  BY <1>1, <1>2, <1>3, <1>4, <1>5 DEF Told, ServiceTold

\* Every step is told soundly: each of the effects, with what is counted for it.
LEMMA EveryStepTold ==
    ASSUME WeightedInv, WeightedInv', Sound, Effect
    PROVE  SoundStep
<1>0. CoreInv /\ CoreInv' /\ cost' = cost
  BY DEF WeightedInv, Sound
<1>1. /\ cost' = cost /\ TypeOK /\ UnitAccounting /\ UnitAccounting'
      /\ counters \in [CounterNames -> Nat] /\ cost \in [Calls -> Costs]
      /\ waiters \in Seq(Calls) /\ IsInjective(waiters)
  BY DEF WeightedInv, Sound, CoreInv, TypeOK, LineInv
<1>1a. /\ capacity \in Nat /\ used \in Nat /\ in_flight \in Nat /\ waiting_units \in Nat
       /\ Len(waiters) \in Nat
  BY <1>1, WeightedAssumption, LenProperties DEF TypeOK
<1>1b. /\ used = UnitsOf(Owners) /\ in_flight = Cardinality(Owners)
       /\ waiting_units = UnitsOf(ToSet(waiters))
  BY <1>1 DEF UnitAccounting
<1>1c. /\ ToSet(waiters) \in SUBSET Calls /\ ToSet(waiters) = {c \in Calls : entry[c] = "WAITING"}
       /\ Owners \in SUBSET Calls /\ Owners \cap ToSet(waiters) = {}
  <2>1. ToSet(waiters) = {c \in Calls : entry[c] = "WAITING"}
    BY <1>1 DEF UnitAccounting
  <2> QED  BY <1>0, <2>1, OwnersNotQueued
<1>2. UnitsOf({}) = 0
  BY <1>1, UnitsOfNobody
<1>3. PICK i : i = [k \in CounterNames |-> counters'[k] - counters[k]]
  OBVIOUS
<1>4. SUFFICES /\ closed => closed'
               /\ \A k \in CounterNames : counters[k] <= counters'[k]
               /\ Told(i)
  BY <1>3, SoundWhenTold
<1> DEFINE Goal == /\ closed => closed'
                   /\ \A k \in CounterNames : counters[k] <= counters'[k]
                   /\ Told(i)
<1>5. ASSUME Owners' = Owners
      PROVE  used' = used /\ in_flight' = in_flight
  BY <1>1, <1>5 DEF UnitAccounting, UnitsOf
<1>6. CASE Kept
  <2>1. /\ Owners' = Owners /\ waiters' = waiters /\ entry' = entry /\ closed' = closed
        /\ used' = used /\ in_flight' = in_flight
    BY <1>5, <1>6 DEF Kept, Fixed
  <2>2. waiting_units' = waiting_units
    BY <1>1, <2>1 DEF UnitAccounting, UnitsOf
  <2>3. \A k \in CounterNames \ Refusals : i[k] = 0 /\ counters[k] <= counters'[k]
    BY <1>1, <1>3, <1>6 DEF Kept, OnlyRefusals
  <2>4. \A k \in CounterNames : counters[k] <= counters'[k]
    BY <1>1, <1>6 DEF Kept, OnlyRefusals
  <2>5. Unserved = {} /\ Owners' \ Owners = {}
    BY <2>1 DEF Unserved
  <2>6. UnitsOf(Unserved) = 0 /\ UnitsOf(Owners' \ Owners) = 0
    BY <1>2, <2>5 DEF UnitsOf
  <2>7. /\ i["admitted"] = 0 /\ i["finished"] = 0 /\ i["abandoned"] = 0
        /\ i["admitted_units"] = 0 /\ i["finished_units"] = 0
        /\ i["abandoned_units"] = 0 /\ i["queued"] = 0
        /\ i["admitted_from_queue"] = 0 /\ i["cancelled_while_waiting"] = 0
        /\ i["expired"] = 0 /\ i["closed_while_waiting"] = 0
        /\ i["queued_units"] = 0 /\ i["admitted_from_queue_units"] = 0
    BY <2>3 DEF CounterNames, Refusals
  <2> QED  BY <1>1a, <2>1, <2>2, <2>4, <2>6, <2>7 DEF Told
<1>7. ASSUME NEW c \in Calls, Granted(c) PROVE Goal
  <2>1. /\ Owners' = Owners \cup {c} /\ c \notin Owners /\ waiters' = waiters /\ entry' = entry
        /\ closed' = closed /\ used + cost[c] <= capacity
        /\ counters' = Plus([admitted |-> 1, admitted_units |-> cost[c]])
    BY <1>7 DEF Granted, Fixed, CanAdmitDirectly
  <2>2. cost[c] \in Nat /\ cost[c] >= 1 /\ UnitsOf({c}) = cost[c]
    BY <1>1, CostType, UnitsOfOne
  <2>3. /\ \A k \in CounterNames : counters[k] <= counters'[k]
        /\ i["admitted"] = 1 /\ i["admitted_units"] = cost[c]
        /\ \A k \in CounterNames \ {"admitted", "admitted_units"} : i[k] = 0
    <3>1. PICK add : add = [admitted |-> 1, admitted_units |-> cost[c]]
      OBVIOUS
    <3>2. /\ DOMAIN add = {"admitted", "admitted_units"}
          /\ add["admitted"] = 1 /\ add["admitted_units"] = cost[c]
      BY <3>1
    <3>3. counters' = Plus(add)
      BY <2>1, <3>1 DEF Plus
    <3>4. \A k \in DOMAIN add : add[k] \in Nat
      BY <2>2, <3>2
    <3>5. /\ \A k \in CounterNames : counters[k] <= counters'[k]
          /\ \A k \in CounterNames : i[k] = IF k \in DOMAIN add THEN add[k] ELSE 0
      BY <1>1, <1>3, <3>3, <3>4, GrowthOf
    <3> QED  BY <3>2, <3>5 DEF CounterNames
  <2>4. used' = used + cost[c] /\ in_flight' = in_flight + 1
    <3>1. UnitsOf(Owners)' = UnitsOf(Owners \cup {c})
      BY <1>1, <2>1 DEF UnitsOf
    <3>2. UnitsOf(Owners \cup {c}) = UnitsOf(Owners) + UnitsOf({c})
      BY <1>1, <1>1c, <2>1, UnitsOfBoth
    <3>3. Cardinality(Owners \cup {c}) = Cardinality(Owners) + 1
      BY <1>1, <1>1c, <2>1, CallsFinite, FS_AddElement
    <3> QED  BY <1>1, <2>1, <2>2, <3>1, <3>2, <3>3 DEF UnitAccounting
  <2>5. waiting_units' = waiting_units
    BY <1>1, <2>1 DEF UnitAccounting, UnitsOf
  <2>6. Unserved = {} /\ Owners' \ Owners = {c}
    BY <2>1 DEF Unserved
  <2>7. UnitsOf(Unserved) = 0 /\ UnitsOf(Owners' \ Owners) = cost[c]
    BY <1>2, <2>2, <2>6 DEF UnitsOf
  <2>8. HasActivity(i)
    BY <2>3 DEF HasActivity
  <2>9. ~(used >= capacity)
    BY <1>1a, <2>1, <2>2
  <2>10. /\ i["admitted"] = 1 /\ i["finished"] = 0 /\ i["abandoned"] = 0
         /\ i["admitted_units"] = cost[c] /\ i["finished_units"] = 0
         /\ i["abandoned_units"] = 0 /\ i["queued"] = 0
         /\ i["admitted_from_queue"] = 0 /\ i["cancelled_while_waiting"] = 0
         /\ i["expired"] = 0 /\ i["closed_while_waiting"] = 0
         /\ i["queued_units"] = 0 /\ i["admitted_from_queue_units"] = 0
    BY <2>3 DEF CounterNames, Refusals
  <2> QED  BY <1>1a, <2>1, <2>2, <2>3, <2>4, <2>5, <2>7, <2>8, <2>9, <2>10 DEF Told
<1>8. ASSUME NEW c \in Calls, Joined(c) PROVE Goal
  <2>1. /\ Owners' = Owners /\ c \notin ToSet(waiters) /\ waiters' = Append(waiters, c)
        /\ entry' = [entry EXCEPT ![c] = "WAITING"] /\ closed' = closed
        /\ used' = used /\ in_flight' = in_flight
        /\ counters' = Plus([queued |-> 1, queued_units |-> cost[c]])
    BY <1>5, <1>8 DEF Joined, Fixed
  <2>2. cost[c] \in Nat /\ UnitsOf({c}) = cost[c]
    BY <1>1, CostType, UnitsOfOne
  <2>3. /\ \A k \in CounterNames : counters[k] <= counters'[k]
        /\ i["queued"] = 1 /\ i["queued_units"] = cost[c]
        /\ \A k \in CounterNames \ {"queued", "queued_units"} : i[k] = 0
    <3>1. PICK add : add = [queued |-> 1, queued_units |-> cost[c]]
      OBVIOUS
    <3>2. /\ DOMAIN add = {"queued", "queued_units"}
          /\ add["queued"] = 1 /\ add["queued_units"] = cost[c]
      BY <3>1
    <3>3. counters' = Plus(add)
      BY <2>1, <3>1 DEF Plus
    <3>4. \A k \in DOMAIN add : add[k] \in Nat
      BY <2>2, <3>2
    <3>5. /\ \A k \in CounterNames : counters[k] <= counters'[k]
          /\ \A k \in CounterNames : i[k] = IF k \in DOMAIN add THEN add[k] ELSE 0
      BY <1>1, <1>3, <3>3, <3>4, GrowthOf
    <3> QED  BY <3>2, <3>5 DEF CounterNames
  <2>4. Len(waiters') = Len(waiters) + 1 /\ ToSet(waiters') = ToSet(waiters) \cup {c}
    BY <1>1, <2>1, AppendLine
  <2>5. waiting_units' = waiting_units + cost[c]
    <3>1. UnitsOf(ToSet(waiters))' = UnitsOf(ToSet(waiters) \cup {c})
      BY <1>1, <2>4 DEF UnitsOf
    <3>2. UnitsOf(ToSet(waiters) \cup {c}) = UnitsOf(ToSet(waiters)) + UnitsOf({c})
      <4>1. ToSet(waiters) \in SUBSET Calls /\ {c} \in SUBSET Calls /\ ToSet(waiters) \cap {c} = {}
        BY <1>1c, <2>1
      <4> QED  BY <1>1, <4>1, UnitsOfBoth
    <3> QED  BY <1>1, <2>2, <3>1, <3>2 DEF UnitAccounting
  <2>6. Unserved = {} /\ Owners' \ Owners = {}
    BY <1>1, <2>1 DEF Unserved, TypeOK
  <2>7. UnitsOf(Unserved) = 0 /\ UnitsOf(Owners' \ Owners) = 0
    BY <1>2, <2>6 DEF UnitsOf
  <2>8. HasActivity(i)
    BY <2>3 DEF HasActivity
  <2>9. /\ i["admitted"] = 0 /\ i["finished"] = 0 /\ i["abandoned"] = 0
        /\ i["admitted_units"] = 0 /\ i["finished_units"] = 0
        /\ i["abandoned_units"] = 0 /\ i["queued"] = 1
        /\ i["admitted_from_queue"] = 0 /\ i["cancelled_while_waiting"] = 0
        /\ i["expired"] = 0 /\ i["closed_while_waiting"] = 0
        /\ i["queued_units"] = cost[c] /\ i["admitted_from_queue_units"] = 0
    BY <2>3 DEF CounterNames, Refusals
  <2> QED  BY <1>1a, <2>1, <2>2, <2>3, <2>4, <2>5, <2>7, <2>8, <2>9 DEF Told
<1>9. ASSUME NEW c \in Calls, NEW state, NEW counter,
             state \in {"EXPIRED", "CANCELLED"},
             counter \in {"expired", "cancelled_while_waiting"},
             Withdrawn(c, state, counter)
      PROVE  Goal
  <2>0. PICK j :
            /\ j \in 1..Len(waiters) /\ waiters[j] = c
            /\ \E k \in 0..Len(RemoveAt(waiters, j)) :
                  Served(Owners, RemoveAt(waiters, j), [entry EXCEPT ![c] = state],
                         capacity, k, One(counter))
    BY <1>9 DEF Withdrawn
  <2>1. PICK m : /\ m \in 0..Len(RemoveAt(waiters, j))
                 /\ Served(Owners, RemoveAt(waiters, j), [entry EXCEPT ![c] = state],
                           capacity, m, One(counter))
    BY <2>0
  <2>2. PICK line, O, n, states, add :
            /\ line = RemoveAt(waiters, j) /\ O = Owners /\ n = capacity
            /\ states = [entry EXCEPT ![c] = state] /\ add = One(counter)
    OBVIOUS
  <2>3. PICK k \in 0..Len(line) : Served(O, line, states, n, k, add) /\ O \in SUBSET Owners
    <3>1. Served(O, line, states, n, m, add) /\ m \in 0..Len(line) /\ O \in SUBSET Owners
      BY <2>1, <2>2 DEF Served, First, PlusAdmitted, Plus, UnitsOf
    <3> QED  BY <3>1
  <2>4. /\ line \in Seq(Calls) /\ IsInjective(line) /\ ToSet(line) = ToSet(waiters) \ {c}
        /\ Len(line) = Len(waiters) - 1 /\ c \in ToSet(waiters)
        /\ ToSet(line) \subseteq ToSet(waiters)
    <3>1. /\ line \in Seq(Calls) /\ IsInjective(line) /\ ToSet(line) = ToSet(waiters) \ {c}
          /\ Len(line) = Len(waiters) - 1
      BY <1>1, <2>0, <2>2, RemoveLine
    <3>2. c \in ToSet(waiters)
      BY <1>1, <2>0, ToSetByPosition
    <3> QED  BY <3>1, <3>2
  <2> DEFINE A == First(line, k)
             U == UnitsOf(A)
  <2>5. /\ U \in Nat /\ (U = 0 <=> k = 0)
        /\ used' = UnitsOf(O) + U /\ in_flight' = Cardinality(O) + k
        /\ Owners' \ Owners = A /\ Len(waiters') = Len(line) - k
        /\ waiting_units' = UnitsOf(ToSet(line)) - U
    <3>1. Serving(O, line, states, n, k, add)
      BY <2>3, <2>4 DEF Serving
    <3> QED  BY <1>0, <3>1, ServedTold
  <2>6. UnitsOf(O) = used /\ Cardinality(O) = in_flight
    BY <1>1a, <1>1b, <2>2 DEF UnitsOf
  <2>7. UnitsOf(ToSet(line)) = waiting_units - cost[c] /\ cost[c] \in Nat
    <3>1. UnitsOf(ToSet(waiters) \ {c}) = UnitsOf(ToSet(waiters)) - UnitsOf({c})
      BY <1>1, <1>1c, <2>4, UnitsOfRest
    <3>2. UnitsOf(ToSet(line)) = UnitsOf(ToSet(waiters) \ {c})
      BY <2>4 DEF UnitsOf
    <3> QED  BY <1>1, <1>1b, <3>1, <3>2, UnitsOfOne, CostType
  <2>8. UnitsOf(Unserved) = cost[c] /\ UnitsOf(Owners' \ Owners) = U
    <3>1. /\ entry' = [d \in Calls |-> IF d \in A THEN "ADMITTED" ELSE states[d]]
          /\ \A d \in Calls : states[d] = IF d = c THEN state ELSE entry[d]
      BY <1>1, <2>2, <2>3 DEF Served, TypeOK
    <3>2. c \notin A /\ A \subseteq Calls
      BY <1>1, <2>3, <2>4, FrontOfLine
    <3>3. Unserved = {c}
      BY <1>1c, <1>9, <2>4, <3>1, <3>2 DEF Unserved
    <3> QED  BY <1>1, <2>5, <3>3, UnitsOfOne DEF UnitsOf
  <2>9. /\ \A x \in CounterNames : counters[x] <= counters'[x]
        /\ i["admitted"] = k /\ i["admitted_from_queue"] = k
        /\ i["admitted_units"] = U /\ i["admitted_from_queue_units"] = U
        /\ \A x \in CounterNames \ AdmissionTotals :
              i[x] = IF x = counter THEN 1 ELSE 0
    <3>0. DOMAIN add = {counter} /\ add[counter] = 1
      BY <2>2 DEF One
    <3>1. (\A x \in DOMAIN add : add[x] \in Nat) /\ DOMAIN add \cap AdmissionTotals = {}
      BY <1>9, <3>0 DEF AdmissionTotals
    <3>2. /\ counters' = PlusAdmitted(add, k, UnitsOf(First(line, k))) /\ k \in Nat
          /\ counters \in [CounterNames -> Nat] /\ UnitsOf(First(line, k)) \in Nat
          /\ i = [x \in CounterNames |-> counters'[x] - counters[x]]
      BY <1>1, <1>3, <2>3, <2>5 DEF Served
    <3>3. /\ \A x \in CounterNames : counters[x] <= counters'[x]
          /\ i["admitted"] = k /\ i["admitted_from_queue"] = k
          /\ i["admitted_units"] = U /\ i["admitted_from_queue_units"] = U
          /\ \A x \in CounterNames \ AdmissionTotals :
                i[x] = IF x \in DOMAIN add THEN add[x] ELSE 0
      BY <3>1, <3>2, ServedGrowth
    <3> QED  BY <3>0, <3>3
  <2>10. HasActivity(i)
    BY <1>9, <2>9 DEF HasActivity, CounterNames, AdmissionTotals
  <2>11. closed' = closed /\ k \in Nat
    BY <1>9, <2>3 DEF Withdrawn, Fixed
  <2> HIDE DEF U
  <2>12. /\ i["finished"] = 0 /\ i["abandoned"] = 0 /\ i["finished_units"] = 0
         /\ i["abandoned_units"] = 0 /\ i["queued"] = 0 /\ i["queued_units"] = 0
         /\ i["closed_while_waiting"] = 0
         /\ i["cancelled_while_waiting"] + i["expired"] = 1
         /\ i["finished"] + i["abandoned"] = 0
         /\ i["finished_units"] + i["abandoned_units"] = 0
    BY <1>9, <2>9 DEF CounterNames, AdmissionTotals
  <2>13. used - 0 = used /\ in_flight - 0 = in_flight
    BY <1>1a
  <2>14. /\ in_flight' = (in_flight - 0) + k /\ used' = (used - 0) + U
         /\ Len(waiters') = (Len(waiters) - 1) - k
         /\ waiting_units' = (waiting_units - cost[c]) - U
    BY <2>4, <2>5, <2>6, <2>7, <2>13
  <2>15. /\ in_flight' = (in_flight - (i["finished"] + i["abandoned"])) + i["admitted"]
         /\ used' = (used - (i["finished_units"] + i["abandoned_units"])) + i["admitted_units"]
         /\ Len(waiters') = (Len(waiters) - (i["cancelled_while_waiting"] + i["expired"]))
                              - i["admitted"]
         /\ waiting_units' = (waiting_units - UnitsOf(Unserved)) - i["admitted_units"]
         /\ UnitsOf(Owners' \ Owners) = i["admitted_units"]
    BY <2>8, <2>9, <2>12, <2>13, <2>14
  <2>16. \A x \in CounterNames : i[x] \in Nat
    BY <2>5, <2>7, <2>9, <2>11 DEF AdmissionTotals
  <2>17. Told(i)
    <3>1. ServiceTold(i)
      BY <2>9, <2>10, <2>12, <2>15 DEF ServiceTold
    <3>2. UnitsOf(Unserved) \in Nat
      BY <2>7, <2>8
    <3> QED  BY <1>1a, <2>16, <3>1, <3>2, ToldOfService
  <2> QED  BY <2>9, <2>11, <2>17
<1>10. ASSUME NEW c \in Calls, Departed(c, "finished", "finished_units")
                               \/ Departed(c, "abandoned", "abandoned_units")
       PROVE  Goal
  <2>0. PICK count \in {"finished", "abandoned"},
             units \in {"finished_units", "abandoned_units"} :
            /\ Departed(c, count, units)
            /\ count = "finished" <=> units = "finished_units"
    BY <1>10
  <2>1. PICK k \in 0..Len(waiters) :
            Served(Owners \ {c}, waiters, entry, capacity, k, OneAndUnits(count, units, cost[c]))
    BY <2>0 DEF Departed
  <2>2. PICK line, O, n, states, add :
            /\ line = waiters /\ O = Owners \ {c} /\ n = capacity /\ states = entry
            /\ add = OneAndUnits(count, units, cost[c])
    OBVIOUS
  <2>3. Served(O, line, states, n, k, add) /\ k \in 0..Len(line) /\ O \in SUBSET Owners
    BY <2>1, <2>2 DEF Served, First, PlusAdmitted, Plus, UnitsOf
  <2>4. /\ line \in Seq(Calls) /\ IsInjective(line) /\ ToSet(line) \subseteq ToSet(waiters)
        /\ c \in Owners /\ closed' = closed
    BY <1>1, <2>0, <2>2 DEF Departed, Fixed
  <2> DEFINE A == First(line, k)
             U == UnitsOf(A)
  <2>5. /\ U \in Nat /\ (U = 0 <=> k = 0)
        /\ used' = UnitsOf(O) + U /\ in_flight' = Cardinality(O) + k
        /\ Owners' \ Owners = A /\ Len(waiters') = Len(line) - k
        /\ waiting_units' = UnitsOf(ToSet(line)) - U
    <3>1. Serving(O, line, states, n, k, add)
      BY <2>3, <2>4 DEF Serving
    <3> QED  BY <1>0, <3>1, ServedTold
  <2>6. UnitsOf(O) = used - cost[c] /\ Cardinality(O) = in_flight - 1 /\ cost[c] \in Nat
    <3>1. UnitsOf(Owners \ {c}) = UnitsOf(Owners) - UnitsOf({c})
      BY <1>1, <1>1c, <2>4, UnitsOfRest
    <3>2. Cardinality(Owners \ {c}) = Cardinality(Owners) - 1
      BY <1>1, <1>1c, <2>4, CallsFinite, FS_RemoveElement
    <3>3. UnitsOf(O) = UnitsOf(Owners \ {c})
      BY <2>2 DEF UnitsOf
    <3> QED  BY <1>1, <1>1b, <2>2, <3>1, <3>2, <3>3, UnitsOfOne, CostType
  <2>7. UnitsOf(ToSet(line)) = waiting_units /\ Len(line) = Len(waiters)
    BY <1>1a, <1>1b, <2>2 DEF UnitsOf
  <2>8. UnitsOf(Unserved) = 0 /\ UnitsOf(Owners' \ Owners) = U
    <3>1. entry' = [d \in Calls |-> IF d \in A THEN "ADMITTED" ELSE entry[d]]
      BY <2>2, <2>3 DEF Served
    <3>2. Unserved = {}
      BY <3>1 DEF Unserved
    <3> QED  BY <1>2, <2>5, <3>2 DEF UnitsOf
  <2>9. /\ \A x \in CounterNames : counters[x] <= counters'[x]
        /\ i["admitted"] = k /\ i["admitted_from_queue"] = k
        /\ i["admitted_units"] = U /\ i["admitted_from_queue_units"] = U
        /\ \A x \in CounterNames \ AdmissionTotals :
              i[x] = IF x = count THEN 1 ELSE IF x = units THEN cost[c] ELSE 0
    <3>1. /\ DOMAIN add = {count, units} /\ add[count] = 1 /\ add[units] = cost[c]
          /\ \A x \in DOMAIN add : add[x] \in Nat
          /\ DOMAIN add \cap AdmissionTotals = {}
      BY <2>2, <2>6 DEF OneAndUnits, AdmissionTotals
    <3>2. /\ counters' = PlusAdmitted(add, k, UnitsOf(First(line, k))) /\ k \in Nat
          /\ counters \in [CounterNames -> Nat] /\ UnitsOf(First(line, k)) \in Nat
          /\ i = [x \in CounterNames |-> counters'[x] - counters[x]]
      BY <1>1, <1>3, <2>3, <2>5 DEF Served
    <3>3. /\ \A x \in CounterNames : counters[x] <= counters'[x]
          /\ i["admitted"] = k /\ i["admitted_from_queue"] = k
          /\ i["admitted_units"] = U /\ i["admitted_from_queue_units"] = U
          /\ \A x \in CounterNames \ AdmissionTotals :
                i[x] = IF x \in DOMAIN add THEN add[x] ELSE 0
      BY <3>1, <3>2, ServedGrowth
    <3> QED  BY <3>1, <3>3
  <2>10. HasActivity(i)
    BY <2>9 DEF HasActivity, CounterNames, AdmissionTotals
  <2>11. k \in Nat
    BY <2>3
  <2> HIDE DEF U
  <2>12. /\ i["cancelled_while_waiting"] = 0 /\ i["expired"] = 0
         /\ i["queued"] = 0 /\ i["queued_units"] = 0 /\ i["closed_while_waiting"] = 0
         /\ i["finished"] + i["abandoned"] = 1
         /\ i["finished_units"] + i["abandoned_units"] = cost[c]
         /\ i["cancelled_while_waiting"] + i["expired"] = 0
    BY <2>0, <2>6, <2>9 DEF CounterNames, AdmissionTotals
  <2>13. Len(waiters) - 0 = Len(waiters) /\ waiting_units - 0 = waiting_units
    BY <1>1a
  <2>14. /\ in_flight' = (in_flight - 1) + k /\ used' = (used - cost[c]) + U
         /\ Len(waiters') = (Len(waiters) - 0) - k
         /\ waiting_units' = (waiting_units - 0) - U
    BY <2>5, <2>6, <2>7, <2>13
  <2>15. /\ in_flight' = (in_flight - (i["finished"] + i["abandoned"])) + i["admitted"]
         /\ used' = (used - (i["finished_units"] + i["abandoned_units"])) + i["admitted_units"]
         /\ Len(waiters') = (Len(waiters) - (i["cancelled_while_waiting"] + i["expired"]))
                              - i["admitted"]
         /\ waiting_units' = (waiting_units - UnitsOf(Unserved)) - i["admitted_units"]
         /\ UnitsOf(Owners' \ Owners) = i["admitted_units"]
    BY <2>8, <2>9, <2>12, <2>13, <2>14
  <2>16. \A x \in CounterNames : i[x] \in Nat
    BY <2>5, <2>6, <2>9, <2>11 DEF AdmissionTotals
  <2>17. Told(i)
    <3>1. ServiceTold(i)
      BY <2>9, <2>10, <2>12, <2>15 DEF ServiceTold
    <3>2. UnitsOf(Unserved) \in Nat
      BY <2>6, <2>8
    <3> QED  BY <1>1a, <2>16, <3>1, <3>2, ToldOfService
  <2> QED  BY <2>4, <2>9, <2>17
<1>11. ASSUME NEW n \in Capacities, Resized(n) PROVE Goal
  <2>1. PICK k \in 0..Len(waiters) : Served(Owners, waiters, entry, n, k, <<>>)
    BY <1>11 DEF Resized
  <2>2. PICK line, O, states, add : line = waiters /\ O = Owners /\ states = entry /\ add = <<>>
    OBVIOUS
  <2>3. Served(O, line, states, n, k, add) /\ k \in 0..Len(line) /\ O \in SUBSET Owners
    BY <2>1, <2>2 DEF Served, First, PlusAdmitted, Plus, UnitsOf
  <2>4. /\ line \in Seq(Calls) /\ IsInjective(line) /\ ToSet(line) \subseteq ToSet(waiters)
        /\ closed' = closed
    BY <1>1, <1>11, <2>2 DEF Resized
  <2> DEFINE A == First(line, k)
             U == UnitsOf(A)
  <2>5. /\ U \in Nat /\ (U = 0 <=> k = 0)
        /\ used' = UnitsOf(O) + U /\ in_flight' = Cardinality(O) + k
        /\ Owners' \ Owners = A /\ Len(waiters') = Len(line) - k
        /\ waiting_units' = UnitsOf(ToSet(line)) - U
        /\ k = 0 => waiters' = line /\ Owners' = O
    <3>1. Serving(O, line, states, n, k, add)
      BY <2>3, <2>4 DEF Serving
    <3> QED  BY <1>0, <3>1, ServedTold
  <2>6. UnitsOf(O) = used /\ Cardinality(O) = in_flight
    BY <1>1a, <1>1b, <2>2 DEF UnitsOf
  <2>7. UnitsOf(ToSet(line)) = waiting_units /\ Len(line) = Len(waiters)
    BY <1>1a, <1>1b, <2>2 DEF UnitsOf
  <2>8. UnitsOf(Unserved) = 0 /\ UnitsOf(Owners' \ Owners) = U
    <3>1. entry' = [d \in Calls |-> IF d \in A THEN "ADMITTED" ELSE entry[d]]
      BY <2>2, <2>3 DEF Served
    <3>2. Unserved = {}
      BY <3>1 DEF Unserved
    <3> QED  BY <1>2, <2>5, <3>2 DEF UnitsOf
  <2>9. /\ \A x \in CounterNames : counters[x] <= counters'[x]
        /\ i["admitted"] = k /\ i["admitted_from_queue"] = k
        /\ i["admitted_units"] = U /\ i["admitted_from_queue_units"] = U
        /\ \A x \in CounterNames \ AdmissionTotals : i[x] = 0
    <3>1. DOMAIN add = {}
      BY <2>2
    <3>2. /\ counters' = PlusAdmitted(add, k, UnitsOf(First(line, k))) /\ k \in Nat
          /\ counters \in [CounterNames -> Nat] /\ UnitsOf(First(line, k)) \in Nat
          /\ i = [x \in CounterNames |-> counters'[x] - counters[x]]
      BY <1>1, <1>3, <2>3, <2>5 DEF Served
    <3> QED  BY <3>1, <3>2, ServedGrowth
  <2>10. k \in Nat /\ (~HasActivity(i) => k = 0)
    BY <2>3, <2>9 DEF HasActivity
  <2> HIDE DEF U
  <2>11. /\ i["admitted"] = k /\ i["finished"] = 0 /\ i["abandoned"] = 0
         /\ i["admitted_units"] = U /\ i["finished_units"] = 0
         /\ i["abandoned_units"] = 0 /\ i["queued"] = 0
         /\ i["admitted_from_queue"] = k /\ i["cancelled_while_waiting"] = 0
         /\ i["expired"] = 0 /\ i["closed_while_waiting"] = 0
         /\ i["queued_units"] = 0 /\ i["admitted_from_queue_units"] = U
    BY <2>9 DEF CounterNames, AdmissionTotals
  <2> QED  BY <1>1a, <2>2, <2>4, <2>5, <2>6, <2>7, <2>8, <2>9, <2>10, <2>11 DEF Told
<1>12. CASE ShutDown
  <2>1. /\ closed' /\ Owners' = Owners /\ waiters' = <<>>
        /\ entry' = [c \in Calls |-> IF c \in ToSet(waiters) THEN "CLOSED" ELSE entry[c]]
        /\ used' = used /\ in_flight' = in_flight
        /\ counters' = Plus([closed_while_waiting |-> Len(waiters)])
    BY <1>5, <1>12 DEF ShutDown
  <2>2. /\ \A k \in CounterNames : counters[k] <= counters'[k]
        /\ i["closed_while_waiting"] = Len(waiters)
        /\ \A k \in CounterNames \ {"closed_while_waiting"} : i[k] = 0
    <3>1. PICK add : add = [closed_while_waiting |-> Len(waiters)]
      OBVIOUS
    <3>2. DOMAIN add = {"closed_while_waiting"} /\ add["closed_while_waiting"] = Len(waiters)
      BY <3>1
    <3>3. counters' = Plus(add)
      BY <2>1, <3>1 DEF Plus
    <3>4. \A k \in DOMAIN add : add[k] \in Nat
      BY <1>1, <3>2
    <3>5. /\ \A k \in CounterNames : counters[k] <= counters'[k]
          /\ \A k \in CounterNames : i[k] = IF k \in DOMAIN add THEN add[k] ELSE 0
      BY <1>1, <1>3, <3>3, <3>4, GrowthOf
    <3> QED  BY <3>2, <3>5 DEF CounterNames
  <2>3. Len(waiters') = 0 /\ waiting_units' = 0
    <3>1. ToSet(waiters') = {}
      BY <2>1, EmptyLine
    <3>2. UnitsOf(ToSet(waiters))' = UnitsOf({})
      BY <1>1, <3>1 DEF UnitsOf
    <3> QED  BY <1>1, <1>2, <2>1, <3>2 DEF UnitAccounting
  <2>4. UnitsOf(Unserved) = waiting_units /\ UnitsOf(Owners' \ Owners) = 0
    <3>1. Unserved = ToSet(waiters) /\ Owners' \ Owners = {}
      BY <1>1c, <2>1 DEF Unserved
    <3> QED  BY <1>1b, <1>2, <3>1 DEF UnitsOf
  <2>5. ~HasActivity(i) => waiters' = waiters
    <3>1. ~HasActivity(i) => Len(waiters) = 0
      BY <2>2 DEF HasActivity
    <3> QED  BY <1>1, <2>1, <3>1, EmptySeq
  <2>6. /\ i["admitted"] = 0 /\ i["finished"] = 0 /\ i["abandoned"] = 0
        /\ i["admitted_units"] = 0 /\ i["finished_units"] = 0
        /\ i["abandoned_units"] = 0 /\ i["queued"] = 0
        /\ i["admitted_from_queue"] = 0 /\ i["cancelled_while_waiting"] = 0
        /\ i["expired"] = 0 /\ i["closed_while_waiting"] = Len(waiters)
        /\ i["queued_units"] = 0 /\ i["admitted_from_queue_units"] = 0
    BY <2>2 DEF CounterNames, Refusals
  <2> QED  BY <1>1a, <2>1, <2>2, <2>3, <2>4, <2>5, <2>6 DEF Told
<1> QED  BY <1>6, <1>7, <1>8, <1>9, <1>10, <1>11, <1>12 DEF Effect

\* Two snapshots of the weighted bulkhead can always be compared, and their difference
\* says, in operations and in units, what happened in between.
THEOREM WeightedIntervalsAreSound == Spec => IntervalIsSound
<1>1. WeightedInv /\ [Next]_vars => [SoundStep]_vars
  <2> SUFFICES ASSUME WeightedInv, [Next]_vars PROVE SoundStep
    OBVIOUS
  <2>1. Sound /\ Effect
    BY EveryStep DEF WeightedInv
  <2>2. WeightedInv'
    BY WeightedNext
  <2> QED  BY <2>1, <2>2, EveryStepTold
<1> QED  BY <1>1, WeightedAlways, PTL DEF Spec, IntervalIsSound
=============================================================================
