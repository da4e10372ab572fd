---------------------------- MODULE StatusProofs ----------------------------
(***************************************************************************)
(* Theorems about the intervals between two statuses of a bulkhead: those  *)
(* of single steps are sound, for every finite set of calls, every set of  *)
(* sizes and every waiting room, and intervals add up.  Each total is the  *)
(* number of calls that met one fate, and they balance with the calls that *)
(* are still there; and what a capacity report makes of them is true.      *)
(***************************************************************************)
EXTENDS CapacityProofs, Diagnostics

\* The values a status has.
Snapshots ==
    [parallelism : Nat, in_flight : Nat, waiting : Nat, totals : [CounterNames -> Nat],
     peak_in_flight : Nat, peak_waiting : Nat, is_closed : BOOLEAN]

\* What since() says of a to c is what it says of a to b and of b to c taken
\* together: the checks of _validate_interval_snapshots pass, the totals are
\* sums, and there was activity if there was any in either part.
THEOREM IntervalsAddUp ==
    ASSUME NEW a \in Snapshots, NEW b \in Snapshots, NEW c \in Snapshots,
           Comparable(a, b), Comparable(b, c)
    PROVE  /\ Comparable(a, c)
           /\ \A k \in CounterNames :
                 Interval(a, c)[k] = Interval(a, b)[k] + Interval(b, c)[k]
           /\ HasActivity(Interval(a, c)) <=>
                 HasActivity(Interval(a, b)) \/ HasActivity(Interval(b, c))
<1>1. ASSUME NEW k \in CounterNames
      PROVE  /\ a.totals[k] \in Nat /\ b.totals[k] \in Nat /\ c.totals[k] \in Nat
             /\ a.totals[k] <= b.totals[k] /\ b.totals[k] <= c.totals[k]
             /\ Interval(a, b)[k] = b.totals[k] - a.totals[k]
             /\ Interval(b, c)[k] = c.totals[k] - b.totals[k]
             /\ Interval(a, c)[k] = c.totals[k] - a.totals[k]
  BY DEF Snapshots, Comparable, Interval
<1>2. Comparable(a, c)
  <2>1. /\ a.is_closed => c.is_closed
        /\ a.peak_in_flight <= c.peak_in_flight /\ a.peak_waiting <= c.peak_waiting
    BY DEF Snapshots, Comparable
  <2>2. \A k \in CounterNames : a.totals[k] <= c.totals[k]
    BY <1>1
  <2> QED  BY <2>1, <2>2 DEF Comparable
<1>3. \A k \in CounterNames : Interval(a, c)[k] = Interval(a, b)[k] + Interval(b, c)[k]
  BY <1>1
<1>4. \A k \in CounterNames :
         Interval(a, c)[k] # 0 <=> Interval(a, b)[k] # 0 \/ Interval(b, c)[k] # 0
  <2> SUFFICES ASSUME NEW k \in CounterNames
               PROVE  Interval(a, c)[k] # 0 <=> Interval(a, b)[k] # 0 \/ Interval(b, c)[k] # 0
    OBVIOUS
  <2>1. \A x, y, z \in Nat : x <= y /\ y <= z => (z - x # 0 <=> y - x # 0 \/ z - y # 0)
    OBVIOUS
  <2> QED  BY <1>1, <2>1
<1>5. HasActivity(Interval(a, c)) <=>
         HasActivity(Interval(a, b)) \/ HasActivity(Interval(b, c))
  <2> DEFINE i == Interval(a, b)
             j == Interval(b, c)
             m == Interval(a, c)
  <2>1. \A k \in CounterNames : m[k] # 0 <=> i[k] # 0 \/ j[k] # 0
    BY <1>4
  <2> HIDE DEF i, j, m
  <2>2. HasActivity(m) <=> HasActivity(i) \/ HasActivity(j)
    BY <2>1 DEF HasActivity
  <2> QED  BY <2>2 DEF i, j, m
<1> QED  BY <1>2, <1>3, <1>5

-----------------------------------------------------------------------------
(* One step.                                                               *)

\* How much the event k is counted when the events in names are, n times each.
Share(k, names, n) == IF k \in names THEN n ELSE 0

\* A step that moves neither line nor capacity moves no slot.
LEMMA Unmoved ==
    ASSUME CapacityInv, [Next]_vars, waiters' = waiters, in_flight' = in_flight
    PROVE  Owners' = Owners
<1>1. StepEffect
  BY EveryStepEffect DEF CapacityInv
<1>2. /\ in_flight \in Nat /\ waiters \in Seq(Calls) /\ Len(waiters) \in Nat
      /\ IsInjective(waiters)
  BY CapacityTypes
<1>3. ASSUME NEW c \in Calls, Granted(c) \/ Returned(c) PROVE FALSE
  BY <1>2, <1>3 DEF Granted, Returned
<1>4. ASSUME NEW c \in Calls, Joined(c) PROVE FALSE
  <2>1. Len(Append(waiters, c)) = Len(waiters) + 1
    BY <1>2, AppendProperties
  <2> QED  BY <1>2, <1>4, <2>1 DEF Joined
<1>5. ASSUME NEW c \in Calls, Withdrawn(c) PROVE Owners' = Owners
  BY <1>5 DEF Withdrawn
<1>6. ASSUME NEW c \in Calls, Handed(c) PROVE FALSE
  <2>1. Len(Tail(waiters)) = Len(waiters) - 1
    BY <1>2, <1>6, TailLine DEF Handed
  <2> QED  BY <1>2, <1>6, <2>1 DEF Handed
<1>7. ASSUME NEW n \in Sizes, Resized(n) PROVE Owners' = Owners
  <2>1. Admissible(n) \in 0..Len(waiters) /\ in_flight' = in_flight + Admissible(n)
    BY <1>7, ResizeCount DEF Resized
  <2>2. Admissible(n) = 0
    BY <1>2, <2>1
  <2>3. ToSet(SubSeq(waiters, 1, 0)) = {}
    <3> DEFINE none == SubSeq(waiters, 1, 0)
    <3>1. none \in Seq(Calls) /\ Len(none) = 0
      <4>1. 0 \in 0..Len(waiters)
        BY <1>2
      <4> QED  BY <1>2, <4>1, DropLine
    <3> HIDE DEF none
    <3>2. \A x : x \in ToSet(none) <=> \E i \in 1..Len(none) : none[i] = x
      BY <3>1, ToSetByPosition
    <3>3. ToSet(none) = {}
      BY <3>1, <3>2
    <3> QED  BY <3>3 DEF none
  <2> QED  BY <1>7, <2>2, <2>3 DEF Resized
<1> QED  BY <1>1, <1>3, <1>4, <1>5, <1>6, <1>7 DEF StepEffect, Kept, ShutDown

\* A step that counts the events in names n times each is sound if capacity and
\* line move by as much.
LEMMA Counted ==
    ASSUME CapacityInv, [Next]_vars, NEW names, NEW n \in Nat,
           counters' = Plus(names, n),
           n # 0 => \E k \in names : k \in CounterNames /\ k # "admitted_from_queue",
           n = 0 => waiters' = waiters,
           in_flight' = in_flight + Share("admitted", names, n)
                        - Share("finished", names, n) - Share("abandoned", names, n),
           Len(waiters') = Len(waiters) + Share("queued", names, n)
               - (Share("admitted_from_queue", names, n)
                  + Share("cancelled_while_waiting", names, n)
                  + Share("expired", names, n)
                  + Share("closed_while_waiting", names, n)),
           closed => closed',
           peaks.in_flight <= peaks'.in_flight, peaks.waiting <= peaks'.waiting
    PROVE  SoundStep
<1> DEFINE i == Interval(Status, Status')
<1>1. /\ counters \in [CounterNames -> Nat]
      /\ in_flight \in Nat /\ Len(waiters) \in Nat
  BY CapacityTypes DEF CapacityInv, LineInv, TypeOK
<1>2. \A k \in CounterNames :
         /\ counters[k] \in Nat /\ counters'[k] = counters[k] + Share(k, names, n)
         /\ Share(k, names, n) \in Nat
  BY <1>1 DEF Plus, Share
<1>3. \A k \in CounterNames : i[k] = Share(k, names, n)
  <2>1. Status.totals = counters /\ Status'.totals = counters'
    BY DEF Status
  <2> QED  BY <1>2, <2>1 DEF Interval
<1>4. Comparable(Status, Status')
  <2>1. \A k \in CounterNames : counters[k] <= counters'[k]
    BY <1>2
  <2> QED  BY <2>1 DEF Comparable, Status
<1> HIDE DEF i
<1>5. {"admitted", "finished", "abandoned", "queued", "admitted_from_queue", "expired",
       "cancelled_while_waiting", "closed_while_waiting"} \subseteq CounterNames
  BY DEF CounterNames
<1>6. /\ i["admitted"] = Share("admitted", names, n) /\ Share("admitted", names, n) \in Nat
      /\ i["finished"] = Share("finished", names, n) /\ Share("finished", names, n) \in Nat
      /\ i["abandoned"] = Share("abandoned", names, n) /\ Share("abandoned", names, n) \in Nat
  BY <1>2, <1>3, <1>5
<1>7. in_flight' - in_flight = i["admitted"] - i["finished"] - i["abandoned"]
  BY <1>1, <1>6
<1>8. /\ i["queued"] = Share("queued", names, n) /\ Share("queued", names, n) \in Nat
      /\ i["admitted_from_queue"] = Share("admitted_from_queue", names, n)
      /\ Share("admitted_from_queue", names, n) \in Nat
      /\ i["cancelled_while_waiting"] = Share("cancelled_while_waiting", names, n)
      /\ Share("cancelled_while_waiting", names, n) \in Nat
      /\ i["expired"] = Share("expired", names, n) /\ Share("expired", names, n) \in Nat
      /\ i["closed_while_waiting"] = Share("closed_while_waiting", names, n)
      /\ Share("closed_while_waiting", names, n) \in Nat
  BY <1>2, <1>3, <1>5
<1>9. Len(waiters') - Len(waiters) = i["queued"] - SettledWaiting(i)
  BY <1>1, <1>8 DEF SettledWaiting
<1>10. ~HasActivity(i) => waiters' = waiters /\ Owners' = Owners
  <2> SUFFICES ASSUME ~HasActivity(i) PROVE waiters' = waiters /\ Owners' = Owners
    OBVIOUS
  <2>1. n = 0
    BY <1>3 DEF HasActivity, Share
  <2>2. waiters' = waiters /\ in_flight' = in_flight
    BY <1>1, <2>1 DEF Share
  <2> QED  BY <2>2, Unmoved
<1> QED  BY <1>4, <1>7, <1>9, <1>10, Zenon DEF SoundStep, i

\* So is one that counts nothing.
LEMMA Uncounted ==
    ASSUME CapacityInv, [Next]_vars, counters' = counters, waiters' = waiters,
           in_flight' = in_flight, closed => closed', peaks' = peaks
    PROVE  SoundStep
<1>1. /\ counters \in [CounterNames -> Nat] /\ peaks \in [in_flight : Nat, waiting : Nat]
      /\ in_flight \in Nat /\ Len(waiters) \in Nat
  BY CapacityTypes DEF CapacityInv, LineInv, TypeOK
<1>2. counters' = Plus({}, 0)
  BY <1>1 DEF Plus
<1>3. peaks.in_flight <= peaks'.in_flight /\ peaks.waiting <= peaks'.waiting
  BY <1>1
<1>4. \A k : Share(k, {}, 0) = 0
  BY DEF Share
<1>5. /\ in_flight' = in_flight + Share("admitted", {}, 0)
                      - Share("finished", {}, 0) - Share("abandoned", {}, 0)
      /\ Len(waiters') = Len(waiters) + Share("queued", {}, 0)
             - (Share("admitted_from_queue", {}, 0)
                + Share("cancelled_while_waiting", {}, 0)
                + Share("expired", {}, 0)
                + Share("closed_while_waiting", {}, 0))
  BY <1>1, <1>4
<1> QED  BY <1>2, <1>3, <1>5, Counted

\* Arrivals: refusals, a direct grant, and joining the line.
LEMMA EnterSound ==
    ASSUME CapacityInv, [Next]_vars, NEW c \in Calls, Enter(c) \/ EnterNow(c)
    PROVE  SoundStep
<1>1. /\ in_flight \in Nat /\ waiters \in Seq(Calls) /\ Len(waiters) \in Nat
      /\ peaks \in [in_flight : Nat, waiting : Nat]
  BY CapacityTypes DEF CapacityInv, LineInv, TypeOK
<1>2. closed' = closed
  BY DEF Enter, EnterNow, drainVars
<1>3. CASE RejectClosed(c) \/ RejectElapsed(c) \/ RejectSaturated(c)
  <2>1. PICK k \in {"closed_before_queue", "expired_before_queue", "saturated"} :
           counters' = Plus({k}, 1)
    BY <1>3 DEF RejectClosed, RejectElapsed, RejectSaturated, Count
  <2>2. /\ waiters' = waiters /\ in_flight' = in_flight /\ peaks' = peaks
    BY <1>3 DEF RejectClosed, RejectElapsed, RejectSaturated, queueVars, capacityVars
  <2>3. k \in CounterNames /\ k # "admitted_from_queue"
    BY DEF CounterNames
  <2>4. \A m \in {"admitted", "finished", "abandoned", "queued", "admitted_from_queue",
                  "expired", "cancelled_while_waiting", "closed_while_waiting"} :
           Share(m, {k}, 1) = 0
    BY DEF Share
  <2>5. /\ in_flight' = in_flight + Share("admitted", {k}, 1)
                        - Share("finished", {k}, 1) - Share("abandoned", {k}, 1)
        /\ Len(waiters') = Len(waiters) + Share("queued", {k}, 1)
               - (Share("admitted_from_queue", {k}, 1)
                  + Share("cancelled_while_waiting", {k}, 1)
                  + Share("expired", {k}, 1)
                  + Share("closed_while_waiting", {k}, 1))
    BY <1>1, <2>2, <2>4
  <2>6. peaks.in_flight <= peaks'.in_flight /\ peaks.waiting <= peaks'.waiting
    BY <1>1, <2>2
  <2> QED  BY <1>2, <2>1, <2>2, <2>3, <2>5, <2>6, Counted
<1>4. CASE GrantDirectly(c)
  <2> DEFINE names == {"admitted"}
  <2>1. /\ counters' = Plus(names, 1) /\ waiters' = waiters /\ in_flight' = in_flight + 1
        /\ peaks' = [peaks EXCEPT !.in_flight = Larger(@, in_flight + 1)]
    BY <1>4 DEF GrantDirectly, AllocateCapacity, Count, queueVars
  <2>2. peaks.in_flight <= peaks'.in_flight /\ peaks.waiting <= peaks'.waiting
    BY <1>1, <2>1 DEF Larger
  <2>3. "admitted" \in names /\ "admitted" \in CounterNames
    BY DEF CounterNames
  <2>4. /\ in_flight' = in_flight + Share("admitted", names, 1)
                        - Share("finished", names, 1) - Share("abandoned", names, 1)
        /\ Len(waiters') = Len(waiters) + Share("queued", names, 1)
               - (Share("admitted_from_queue", names, 1)
                  + Share("cancelled_while_waiting", names, 1)
                  + Share("expired", names, 1)
                  + Share("closed_while_waiting", names, 1))
    BY <1>1, <2>1 DEF Share
  <2> QED  BY <1>2, <2>1, <2>2, <2>3, <2>4, Counted
<1>5. ASSUME NEW limited \in BOOLEAN, JoinQueue(c, limited) PROVE SoundStep
  <2> DEFINE names == {"queued"}
  <2>1. /\ counters' = Plus(names, 1) /\ waiters' = Append(waiters, c)
        /\ in_flight' = in_flight
        /\ peaks' = [peaks EXCEPT !.waiting = Larger(@, Len(waiters) + 1)]
    BY <1>5 DEF JoinQueue, Count, capacityVars
  <2>2. peaks.in_flight <= peaks'.in_flight /\ peaks.waiting <= peaks'.waiting
    BY <1>1, <2>1 DEF Larger
  <2>3. "queued" \in names /\ "queued" \in CounterNames
    BY DEF CounterNames
  <2>4. Len(waiters') = Len(waiters) + 1
    BY <1>1, <2>1, AppendProperties
  <2>5. /\ in_flight' = in_flight + Share("admitted", names, 1)
                        - Share("finished", names, 1) - Share("abandoned", names, 1)
        /\ Len(waiters') = Len(waiters) + Share("queued", names, 1)
               - (Share("admitted_from_queue", names, 1)
                  + Share("cancelled_while_waiting", names, 1)
                  + Share("expired", names, 1)
                  + Share("closed_while_waiting", names, 1))
    BY <1>1, <2>1, <2>4 DEF Share
  <2> QED  BY <1>2, <2>1, <2>2, <2>3, <2>5, Counted
<1> QED  BY <1>3, <1>4, <1>5 DEF Enter, EnterNow

\* A slot is handed on or given up.
LEMMA ReleaseSound ==
    ASSUME CapacityInv, [Next]_vars, NEW outcome \in {"finished", "abandoned"},
           ReleaseCapacity(outcome), closed' = closed, peaks' = peaks
    PROVE  SoundStep
<1>1. /\ in_flight \in Nat /\ waiters \in Seq(Calls) /\ Len(waiters) \in Nat
      /\ IsInjective(waiters) /\ peaks \in [in_flight : Nat, waiting : Nat]
  BY CapacityTypes DEF CapacityInv, LineInv, TypeOK
<1>2. /\ peaks.in_flight <= peaks'.in_flight /\ peaks.waiting <= peaks'.waiting
      /\ outcome \in CounterNames /\ outcome # "admitted_from_queue"
  BY <1>1 DEF CounterNames
<1>3. CASE waiters # <<>> /\ in_flight <= parallelism
  <2> DEFINE names == {outcome, "admitted", "admitted_from_queue"}
  <2>1. counters' = Plus(names, 1) /\ waiters' = Tail(waiters) /\ in_flight' = in_flight
    BY <1>3 DEF ReleaseCapacity, Count
  <2>2. Len(waiters') = Len(waiters) - 1
    BY <1>1, <1>3, <2>1, TailLine
  <2>3. /\ in_flight' = in_flight + Share("admitted", names, 1)
                        - Share("finished", names, 1) - Share("abandoned", names, 1)
        /\ Len(waiters') = Len(waiters) + Share("queued", names, 1)
               - (Share("admitted_from_queue", names, 1)
                  + Share("cancelled_while_waiting", names, 1)
                  + Share("expired", names, 1)
                  + Share("closed_while_waiting", names, 1))
    <3>1. CASE outcome = "finished"
      BY <1>1, <2>1, <2>2, <3>1 DEF Share
    <3>2. CASE outcome = "abandoned"
      BY <1>1, <2>1, <2>2, <3>2 DEF Share
    <3> QED  BY <3>1, <3>2
  <2>4. outcome \in names
    OBVIOUS
  <2> HIDE DEF names
  <2> QED  BY <1>2, <2>1, <2>3, <2>4, Counted
<1>4. CASE ~(waiters # <<>> /\ in_flight <= parallelism)
  <2> DEFINE names == {outcome}
  <2>1. counters' = Plus(names, 1) /\ waiters' = waiters /\ in_flight' = in_flight - 1
    BY <1>4 DEF ReleaseCapacity, Count
  <2>2. /\ in_flight' = in_flight + Share("admitted", names, 1)
                        - Share("finished", names, 1) - Share("abandoned", names, 1)
        /\ Len(waiters') = Len(waiters) + Share("queued", names, 1)
               - (Share("admitted_from_queue", names, 1)
                  + Share("cancelled_while_waiting", names, 1)
                  + Share("expired", names, 1)
                  + Share("closed_while_waiting", names, 1))
    <3>1. CASE outcome = "finished"
      BY <1>1, <2>1, <3>1 DEF Share
    <3>2. CASE outcome = "abandoned"
      BY <1>1, <2>1, <3>2 DEF Share
    <3> QED  BY <3>1, <3>2
  <2>3. outcome \in names
    OBVIOUS
  <2> QED  BY <1>2, <2>1, <2>2, <2>3, Counted
<1> QED  BY <1>3, <1>4

\* One waiter leaves the line.
LEMMA LeaveSound ==
    ASSUME CapacityInv, [Next]_vars, NEW c \in Calls, NEW state,
           NEW counter \in {"expired", "cancelled_while_waiting"},
           LeaveQueue(c, state, counter),
           in_flight' = in_flight, closed' = closed, peaks' = peaks
    PROVE  SoundStep
<1> DEFINE names == {counter}
<1>1. /\ in_flight \in Nat /\ waiters \in Seq(Calls) /\ Len(waiters) \in Nat
      /\ peaks \in [in_flight : Nat, waiting : Nat]
  BY CapacityTypes DEF CapacityInv, LineInv, TypeOK
<1>2. /\ peaks.in_flight <= peaks'.in_flight /\ peaks.waiting <= peaks'.waiting
      /\ counter \in CounterNames /\ counter # "admitted_from_queue" /\ counter \in names
  BY <1>1 DEF CounterNames
<1>3. counters' = Plus(names, 1)
  BY DEF LeaveQueue, Count
<1>4. Len(waiters') = Len(waiters) - 1
  <2>1. PICK i \in 1..Len(waiters) : waiters' = RemoveAt(waiters, i)
    BY DEF LeaveQueue
  <2> QED  BY <1>1, <2>1, RemoveAtProperties
<1>5. /\ in_flight' = in_flight + Share("admitted", names, 1)
                      - Share("finished", names, 1) - Share("abandoned", names, 1)
      /\ Len(waiters') = Len(waiters) + Share("queued", names, 1)
             - (Share("admitted_from_queue", names, 1)
                + Share("cancelled_while_waiting", names, 1)
                + Share("expired", names, 1)
                + Share("closed_while_waiting", names, 1))
  <2>1. CASE counter = "expired"
    BY <1>1, <1>4, <2>1 DEF Share
  <2>2. CASE counter = "cancelled_while_waiting"
    BY <1>1, <1>4, <2>2 DEF Share
  <2> QED  BY <2>1, <2>2
<1> HIDE DEF names
<1> QED  BY <1>2, <1>3, <1>5, Counted

\* The cleanup tasks.
LEMMA CleanupSound ==
    ASSUME CapacityInv, [Next]_vars, NEW c \in Calls,
           RunExpire(c) \/ RunCancel(c) \/ RunRelease(c)
    PROVE  SoundStep
<1>1. closed' = closed /\ peaks' = peaks
  BY DEF RunExpire, RunCancel, RunRelease, drainVars
<1>2. CASE LeaveQueue(c, "EXPIRED", "expired") /\ in_flight' = in_flight
  BY <1>1, <1>2, LeaveSound
<1>3. CASE LeaveQueue(c, "CANCELLED", "cancelled_while_waiting") /\ in_flight' = in_flight
  BY <1>1, <1>3, LeaveSound
<1>4. CASE ReleaseCapacity("abandoned") \/ ReleaseCapacity("finished")
  BY <1>1, <1>4, ReleaseSound
<1>5. CASE counters' = counters /\ waiters' = waiters /\ in_flight' = in_flight
  BY <1>1, <1>5, Uncounted
<1> QED  BY <1>2, <1>3, <1>4, <1>5 DEF RunExpire, RunCancel, RunRelease, capacityVars

\* A resize to n.
LEMMA ResizeSound ==
    ASSUME CapacityInv, [Next]_vars, NEW n \in Sizes, Resize(n)
    PROVE  SoundStep
<1> DEFINE k == Admissible(n)
           names == {"admitted", "admitted_from_queue"}
<1>1. /\ in_flight \in Nat /\ waiters \in Seq(Calls) /\ Len(waiters) \in Nat
      /\ IsInjective(waiters) /\ peaks \in [in_flight : Nat, waiting : Nat]
  BY CapacityTypes DEF CapacityInv, LineInv, TypeOK
<1>2. k \in 0..Len(waiters) /\ k \in Nat
  BY <1>1, AdmitLine DEF Resize, CapacityInv
<1>3. /\ counters' = Plus(names, k) /\ waiters' = SubSeq(waiters, k + 1, Len(waiters))
      /\ in_flight' = in_flight + k /\ closed' = closed
      /\ peaks' = [peaks EXCEPT !.in_flight = Larger(@, in_flight + k)]
  BY DEF Resize, AdmitWaiters, AllocateCapacity, drainVars
<1> HIDE DEF k
<1>4. Len(waiters') = Len(waiters) - k
  BY <1>1, <1>2, <1>3, DropLine
<1>5. k = 0 => waiters' = waiters
  <2>1. SubSeq(waiters, 1, Len(waiters)) = waiters
    BY <1>1, SubSeqFull
  <2> QED  BY <1>1, <1>3, <2>1
<1>6. peaks.in_flight <= peaks'.in_flight /\ peaks.waiting <= peaks'.waiting
  BY <1>1, <1>2, <1>3 DEF Larger
<1>7. "admitted" \in names /\ "admitted" \in CounterNames
  BY DEF CounterNames
<1>8. /\ in_flight' = in_flight + Share("admitted", names, k)
                      - Share("finished", names, k) - Share("abandoned", names, k)
      /\ Len(waiters') = Len(waiters) + Share("queued", names, k)
             - (Share("admitted_from_queue", names, k)
                + Share("cancelled_while_waiting", names, k)
                + Share("expired", names, k)
                + Share("closed_while_waiting", names, k))
  BY <1>1, <1>2, <1>3, <1>4 DEF Share
<1> QED  BY <1>2, <1>3, <1>5, <1>6, <1>7, <1>8, Counted

\* Closing, in a task of its own or not.
LEMMA CloseSound ==
    ASSUME CapacityInv, [Next]_vars, DoClose, in_flight' = in_flight, peaks' = peaks
    PROVE  SoundStep
<1>1. /\ in_flight \in Nat /\ waiters \in Seq(Calls) /\ Len(waiters) \in Nat
      /\ (waiters = <<>> <=> Len(waiters) = 0)
      /\ peaks \in [in_flight : Nat, waiting : Nat]
  BY CapacityTypes DEF CapacityInv, LineInv, TypeOK
<1>2. CASE closed
  BY <1>2, Uncounted DEF DoClose, drainVars
<1>3. CASE ~closed
  <2> DEFINE names == {"closed_while_waiting"}
             n == Len(waiters)
  <2>1. counters' = Plus(names, n) /\ waiters' = <<>>
    BY <1>3 DEF DoClose
  <2>2. peaks.in_flight <= peaks'.in_flight /\ peaks.waiting <= peaks'.waiting
    BY <1>1
  <2>3. "closed_while_waiting" \in names /\ "closed_while_waiting" \in CounterNames
    BY DEF CounterNames
  <2>4. Len(waiters') = 0
    BY <2>1
  <2>5. /\ in_flight' = in_flight + Share("admitted", names, n)
                        - Share("finished", names, n) - Share("abandoned", names, n)
        /\ Len(waiters') = Len(waiters) + Share("queued", names, n)
               - (Share("admitted_from_queue", names, n)
                  + Share("cancelled_while_waiting", names, n)
                  + Share("expired", names, n)
                  + Share("closed_while_waiting", names, n))
    BY <1>1, <2>4 DEF Share
  <2> QED  BY <1>1, <1>3, <2>1, <2>2, <2>3, <2>5, Counted
<1> QED  BY <1>2, <1>3

LEMMA EveryStepSound == CapacityInv /\ [Next]_vars => SoundStep
<1> SUFFICES ASSUME CapacityInv, [Next]_vars PROVE SoundStep
  OBVIOUS
<1>1. ASSUME NEW c \in Calls, Enter(c) \/ EnterNow(c) PROVE SoundStep
  BY <1>1, EnterSound
<1>2. ASSUME NEW c \in Calls,
             Resume(c) \/ Timeout(c) \/ ResumeExpired(c) \/ Cancel(c) \/ FinishBody(c)
      PROVE  SoundStep
  <2>1. OnlyControl
    BY <1>2 DEF Resume, Timeout, ResumeExpired, Cancel, FinishBody
  <2> QED  BY <2>1, Uncounted DEF OnlyControl, queueVars, capacityVars, drainVars
<1>3. ASSUME NEW c \in Calls, RunExpire(c) \/ RunCancel(c) \/ RunRelease(c)
      PROVE  SoundStep
  BY <1>3, CleanupSound
<1>4. ASSUME NEW n \in Sizes, Resize(n) PROVE SoundStep
  BY <1>4, ResizeSound
<1>5. ASSUME Close \/ \E s \in Closers : RunClose(s) PROVE SoundStep
  BY <1>5, CloseSound DEF Close, RunClose, capacityVars
<1>6. ASSUME NEW s \in Closers,
             CloseAndWait(s) \/ WaitClosed(s) \/ ReturnClosed(s) \/ CancelCloser(s)
      PROVE  SoundStep
  BY <1>6, Uncounted DEF CloseAndWait, WaitClosed, ReturnClosed, CancelCloser, queueVars,
                         capacityVars, drainVars
<1>7. CASE UNCHANGED vars
  BY <1>7, Uncounted DEF vars
<1> QED  BY <1>1, <1>2, <1>3, <1>4, <1>5, <1>6, <1>7 DEF Next, Terminated

\* Whatever happens between two snapshots, the later can be compared with the
\* earlier one and the interval accounts for every call that came and went.
THEOREM IntervalsAreSound == Spec => IntervalIsSound
<1>1. CapacityInv /\ [Next]_vars => [SoundStep]_vars
  BY EveryStepSound
<1> QED  BY <1>1, CapacityAlways, PTL DEF Spec, IntervalIsSound

-----------------------------------------------------------------------------
(* The totals of a status: each is the number of calls that met one fate.  *)

\* The totals that count one fate of a call each.
Fates ==
    {"finished", "saturated", "admitted_from_queue", "expired", "cancelled_while_waiting",
     "closed_while_waiting", "abandoned", "expired_before_queue", "closed_before_queue"}

\* Whether c has met the fate that k counts.
Met(c, k) ==
    \/ k = "finished" /\ pc[c] = "finished"
    \/ k = "saturated" /\ pc[c] = "rejected"
    \/ k = "admitted_from_queue" /\ entry[c] = "ADMITTED"
    \/ k = "expired" /\ entry[c] = "EXPIRED"
    \/ k = "cancelled_while_waiting" /\ entry[c] = "CANCELLED"
    \/ k = "closed_while_waiting" /\ entry[c] = "CLOSED"
    \/ k = "abandoned" /\ pc[c] = "cancelled" /\ entry[c] = "ADMITTED"
    \/ k = "expired_before_queue" /\ pc[c] = "timed_out" /\ entry[c] = "none"
    \/ k = "closed_before_queue" /\ pc[c] = "closed" /\ entry[c] = "none"

Fate(k) == {c \in Calls : Met(c, k)}

LEMMA FatesCounted == OutcomesCounted <=> \A k \in Fates : counters[k] = Cardinality(Fate(k))
<1>1. /\ Fate("finished") = {c \in Calls : pc[c] = "finished"}
      /\ Fate("saturated") = {c \in Calls : pc[c] = "rejected"}
      /\ Fate("admitted_from_queue") = {c \in Calls : entry[c] = "ADMITTED"}
      /\ Fate("expired") = {c \in Calls : entry[c] = "EXPIRED"}
      /\ Fate("cancelled_while_waiting") = {c \in Calls : entry[c] = "CANCELLED"}
      /\ Fate("closed_while_waiting") = {c \in Calls : entry[c] = "CLOSED"}
      /\ Fate("abandoned") = {c \in Calls : pc[c] = "cancelled" /\ entry[c] = "ADMITTED"}
      /\ Fate("expired_before_queue") =
            {c \in Calls : pc[c] = "timed_out" /\ entry[c] = "none"}
      /\ Fate("closed_before_queue") = {c \in Calls : pc[c] = "closed" /\ entry[c] = "none"}
  BY DEF Fate, Met
<1>2. OutcomesCounted <=>
        /\ counters["finished"] = Cardinality(Fate("finished"))
        /\ counters["saturated"] = Cardinality(Fate("saturated"))
        /\ counters["admitted_from_queue"] = Cardinality(Fate("admitted_from_queue"))
        /\ counters["expired"] = Cardinality(Fate("expired"))
        /\ counters["cancelled_while_waiting"] = Cardinality(Fate("cancelled_while_waiting"))
        /\ counters["closed_while_waiting"] = Cardinality(Fate("closed_while_waiting"))
        /\ counters["abandoned"] = Cardinality(Fate("abandoned"))
        /\ counters["expired_before_queue"] = Cardinality(Fate("expired_before_queue"))
        /\ counters["closed_before_queue"] = Cardinality(Fate("closed_before_queue"))
  BY <1>1, Zenon DEF OutcomesCounted, Ended, Left
<1> QED  BY <1>2 DEF Fates

\* The calls that meet each fate in a step are those it counts.
LEMMA FatesAdvance ==
    ASSUME TypeOK, OutcomesCounted, NEW W \in [Fates -> SUBSET Calls],
           NEW names, NEW n \in Nat, counters' = Plus(names, n),
           \A k \in Fates : Cardinality(W[k]) = Share(k, names, n),
           \A k \in Fates : \A d \in Calls :
              /\ Met(d, k)' <=> Met(d, k) \/ d \in W[k]
              /\ d \in W[k] => ~Met(d, k)
    PROVE  OutcomesCounted'
<1>1. ASSUME NEW k \in Fates PROVE counters'[k] = Cardinality(Fate(k)')
  <2>1. Fate(k)' = Fate(k) \cup W[k] /\ Fate(k) \cap W[k] = {}
    BY DEF Fate
  <2>2. /\ IsFiniteSet(Fate(k)) /\ IsFiniteSet(W[k])
    <3>1. Fate(k) \in SUBSET Calls /\ W[k] \in SUBSET Calls
      BY DEF Fate
    <3> QED  BY <3>1, FS_Subset, AdmissionAssumption
  <2>3. Cardinality(Fate(k) \cup W[k]) = Cardinality(Fate(k)) + Cardinality(W[k])
    <3>1. Cardinality(Fate(k) \cap W[k]) = 0
      BY <2>1, FS_EmptySet, Zenon
    <3>2. Cardinality(Fate(k)) \in Nat /\ Cardinality(W[k]) \in Nat
      BY <2>2, FS_CardinalityType
    <3>3. Cardinality(Fate(k) \cup W[k]) =
             Cardinality(Fate(k)) + Cardinality(W[k]) - Cardinality(Fate(k) \cap W[k])
      BY <2>2, FS_Union
    <3> QED  BY <3>1, <3>2, <3>3
  <2>4. counters[k] = Cardinality(Fate(k))
    BY FatesCounted
  <2>5. k \in CounterNames /\ counters[k] \in Nat
    BY DEF Fates, CounterNames, TypeOK
  <2>6. counters'[k] = counters[k] + Share(k, names, n)
    BY <2>5 DEF Plus, Share
  <2> QED  BY <2>1, <2>3, <2>4, <2>6
<1>2. (\A k \in Fates : counters[k] = Cardinality(Fate(k)))' => OutcomesCounted'
  BY FatesCounted, PTL
<1> QED  BY <1>1, <1>2

\* Nobody meets a fate.
LEMMA NoFate ==
    ASSUME TypeOK, OutcomesCounted, NEW names, NEW n \in Nat, counters' = Plus(names, n),
           n = 0 \/ names \cap Fates = {},
           \A k \in Fates : \A d \in Calls : Met(d, k)' <=> Met(d, k)
    PROVE  OutcomesCounted'
<1> DEFINE W == [k \in Fates |-> {}]
<1>1. W \in [Fates -> SUBSET Calls] /\ \A k \in Fates : W[k] = {}
  OBVIOUS
<1>2. \A k \in Fates : Cardinality(W[k]) = Share(k, names, n)
  <2>1. Cardinality({}) = 0
    BY FS_EmptySet
  <2> QED  BY <1>1, <2>1 DEF Share
<1> HIDE DEF W
<1> QED  BY <1>1, <1>2, FatesAdvance

\* The fate of those whose entry is settled as state.
SettledAs(state) ==
    CASE state = "ADMITTED" -> "admitted_from_queue"
      [] state = "EXPIRED" -> "expired"
      [] state = "CANCELLED" -> "cancelled_while_waiting"
      [] state = "CLOSED" -> "closed_while_waiting"

\* Who takes no step meets a fate only by leaving the line.
LEMMA Bystander ==
    ASSUME LineInv, NEW G, NEW state \in {"ADMITTED", "CANCELLED", "EXPIRED", "CLOSED"},
           LineMove(G, state), NEW d \in Calls, pc'[d] = pc[d], NEW k \in Fates
    PROVE  /\ Met(d, k)' <=> Met(d, k) \/ (k = SettledAs(state) /\ d \in G)
           /\ d \in G => ~Met(d, k)
<1>1. entry'[d] = IF d \in G THEN state ELSE entry[d]
  BY DEF LineMove
<1>2. CASE d \in G
  <2>1. entry[d] = "WAITING"
    BY <1>2 DEF LineInv, LineMove
  <2>2. pc[d] \in {"waiting", "expiring", "cancelling"}
    BY <2>1 DEF LineInv, EntryFits, TypeOK, CallStates, Suspended, Settled
  <2>3. ~Met(d, k)
    BY <2>1, <2>2 DEF Met
  <2>4. Met(d, k)' <=> k = SettledAs(state)
    BY <1>1, <1>2, <2>2 DEF Met, SettledAs, Fates
  <2> QED  BY <1>2, <2>3, <2>4
<1>3. CASE d \notin G
  BY <1>1, <1>3 DEF Met
<1> QED  BY <1>2, <1>3

\* One call meets one fate.
LEMMA OneFate ==
    ASSUME TypeOK, OutcomesCounted, NEW c \in Calls, NEW own \in Fates,
           counters' = Plus({own}, 1), ~Met(c, own),
           \A k \in Fates : Met(c, k)' <=> Met(c, k) \/ k = own,
           \A k \in Fates : \A d \in Calls \ {c} : Met(d, k)' <=> Met(d, k)
    PROVE  OutcomesCounted'
<1> DEFINE W == [k \in Fates |-> IF k = own THEN {c} ELSE {}]
<1>1. W \in [Fates -> SUBSET Calls] /\ \A k \in Fates : W[k] = IF k = own THEN {c} ELSE {}
  OBVIOUS
<1>2. \A k \in Fates : Cardinality(W[k]) = Share(k, {own}, 1)
  <2>1. Cardinality({}) = 0 /\ Cardinality({c}) = 1
    BY FS_EmptySet, FS_Singleton
  <2> QED  BY <1>1, <2>1 DEF Share
<1> HIDE DEF W
<1>3. \A k \in Fates : \A d \in Calls :
         /\ Met(d, k)' <=> Met(d, k) \/ d \in W[k]
         /\ d \in W[k] => ~Met(d, k)
  BY <1>1
<1> QED  BY <1>1, <1>2, <1>3, FatesAdvance

\* Those who leave the line meet one fate, and nobody else does.
LEMMA LineFate ==
    ASSUME LineInv, OutcomesCounted, NEW G \in SUBSET Calls,
           NEW state \in {"ADMITTED", "CLOSED"}, LineMove(G, state), pc' = pc,
           NEW names, NEW n \in Nat, counters' = Plus(names, n),
           names \cap Fates = {SettledAs(state)}, Cardinality(G) = n
    PROVE  OutcomesCounted'
<1> DEFINE W == [k \in Fates |-> IF k = SettledAs(state) THEN G ELSE {}]
<1>1. /\ W \in [Fates -> SUBSET Calls]
      /\ \A k \in Fates : W[k] = IF k = SettledAs(state) THEN G ELSE {}
  OBVIOUS
<1>2. \A k \in Fates : Cardinality(W[k]) = Share(k, names, n)
  <2>1. Cardinality({}) = 0
    BY FS_EmptySet
  <2> QED  BY <1>1, <2>1 DEF Share
<1> HIDE DEF W
<1>3. \A k \in Fates : \A d \in Calls :
         /\ Met(d, k)' <=> Met(d, k) \/ (k = SettledAs(state) /\ d \in G)
         /\ d \in G => ~Met(d, k)
  BY Bystander
<1>4. \A k \in Fates : \A d \in Calls :
         /\ Met(d, k)' <=> Met(d, k) \/ d \in W[k]
         /\ d \in W[k] => ~Met(d, k)
  BY <1>1, <1>3
<1> QED  BY <1>1, <1>2, <1>4, FatesAdvance DEF LineInv

-----------------------------------------------------------------------------
(* The steps.                                                              *)

LEMMA EnterFates ==
    ASSUME LineInv, OutcomesCounted, NEW c \in Calls, Enter(c) \/ EnterNow(c)
    PROVE  OutcomesCounted'
<1>1. TypeOK /\ pc[c] = "idle" /\ entry[c] = "none"
  BY DEF LineInv, EntryFits, Enter, EnterNow
<1>2. ASSUME NEW to, Goto(c, to), entry' = entry PROVE /\ pc'[c] = to
             /\ \A k \in Fates : \A d \in Calls \ {c} : Met(d, k)' <=> Met(d, k)
  BY <1>1, <1>2 DEF Goto, Met, TypeOK
<1>3. ASSUME NEW to \in {"closed", "timed_out", "rejected"}, Goto(c, to), entry' = entry,
             NEW own \in Fates, counters' = Plus({own}, 1),
             \/ to = "closed" /\ own = "closed_before_queue"
             \/ to = "timed_out" /\ own = "expired_before_queue"
             \/ to = "rejected" /\ own = "saturated"
      PROVE  OutcomesCounted'
  <2>1. pc'[c] = to /\ entry'[c] = "none"
    BY <1>1, <1>2, <1>3
  <2>2. ~Met(c, own) /\ \A k \in Fates : Met(c, k)' <=> Met(c, k) \/ k = own
    BY <1>1, <1>3, <2>1 DEF Met, Fates
  <2> QED  BY <1>1, <1>2, <1>3, <2>2, OneFate
<1>4. CASE RejectClosed(c) \/ RejectElapsed(c) \/ RejectSaturated(c)
  BY <1>3, <1>4 DEF RejectClosed, RejectElapsed, RejectSaturated, queueVars, Count, Fates
<1>5. CASE GrantDirectly(c)
  <2>1. Goto(c, "running") /\ entry' = entry /\ counters' = Plus({"admitted"}, 1)
    BY <1>5 DEF GrantDirectly, queueVars, Count
  <2>2. pc'[c] = "running" /\ \A k \in Fates : \A d \in Calls \ {c} : Met(d, k)' <=> Met(d, k)
    BY <1>2, <2>1
  <2>3. \A k \in Fates : Met(c, k)' <=> Met(c, k)
    BY <1>1, <2>1, <2>2 DEF Met
  <2>4. {"admitted"} \cap Fates = {}
    BY DEF Fates
  <2> QED  BY <1>1, <2>1, <2>2, <2>3, <2>4, NoFate
<1>6. ASSUME NEW limited \in BOOLEAN, JoinQueue(c, limited) PROVE OutcomesCounted'
  <2>1. /\ Goto(c, "waiting") /\ entry' = [entry EXCEPT ![c] = "WAITING"]
        /\ counters' = Plus({"queued"}, 1)
    BY <1>6 DEF JoinQueue, Count
  <2>2. /\ pc'[c] = "waiting" /\ entry'[c] = "WAITING"
        /\ \A d \in Calls \ {c} : pc'[d] = pc[d] /\ entry'[d] = entry[d]
    BY <1>1, <2>1 DEF Goto, TypeOK
  <2>3. \A k \in Fates : \A d \in Calls : Met(d, k)' <=> Met(d, k)
    BY <1>1, <2>2 DEF Met
  <2>4. {"queued"} \cap Fates = {}
    BY DEF Fates
  <2> QED  BY <1>1, <2>1, <2>3, <2>4, NoFate
<1> QED  BY <1>4, <1>5, <1>6 DEF Enter, EnterNow

\* Steps that count nothing: results, timers, cancellations, ends of bodies, and
\* cleanups that find the entry settled.
LEMMA ControlFates ==
    ASSUME LineInv, OutcomesCounted, NEW c \in Calls, entry' = entry, counters' = counters,
           \/ Resume(c) \/ Timeout(c) \/ ResumeExpired(c) \/ Cancel(c) \/ FinishBody(c)
           \/ pc[c] = "expiring" /\ Goto(c, "expired")
           \/ pc[c] = "cancelling" /\ Goto(c, "cancelled") /\ entry[c] # "ADMITTED"
    PROVE  OutcomesCounted'
<1>1. TypeOK /\ EntryFits(c) /\ counters \in [CounterNames -> Nat]
  BY DEF LineInv, TypeOK
<1>2. counters' = Plus({}, 0)
  BY <1>1 DEF Plus
<1>3. \A k \in Fates : \A d \in Calls \ {c} : Met(d, k)' <=> Met(d, k)
  <2>1. \A d \in Calls \ {c} : pc'[d] = pc[d]
    BY <1>1 DEF Resume, Timeout, ResumeExpired, Cancel, FinishBody, Goto, TypeOK
  <2> QED  BY <2>1 DEF Met
<1>4. \A k \in Fates : Met(c, k)' <=> Met(c, k)
  <2>1. CASE Resume(c) \/ Timeout(c)
    <3>1. /\ pc[c] = "waiting" /\ pc'[c] \in {"running", "closed", "expiring"}
          /\ entry[c] # "none"
      BY <1>1, <2>1 DEF Resume, Timeout, Goto, TypeOK, EntryFits
    <3> QED  BY <3>1 DEF Met
  <2>2. CASE ResumeExpired(c)
    <3>1. /\ pc[c] = "expired" /\ pc'[c] \in {"running", "closed", "timed_out", "cancelling"}
          /\ entry[c] # "none"
      BY <1>1, <2>2 DEF ResumeExpired, Goto, TypeOK, EntryFits
    <3> QED  BY <3>1 DEF Met
  <2>3. CASE Cancel(c)
    <3>1. pc' = pc \/ (pc[c] = "waiting" /\ pc'[c] = "cancelling")
      BY <1>1, <2>3 DEF Cancel, Goto, TypeOK
    <3> QED  BY <3>1 DEF Met
  <2>4. CASE FinishBody(c) \/ (pc[c] = "expiring" /\ Goto(c, "expired"))
    <3>1. /\ pc[c] \in {"running", "expiring"} /\ pc'[c] \in {"releasing", "expired"}
      BY <1>1, <2>4 DEF FinishBody, Goto, TypeOK
    <3> QED  BY <3>1 DEF Met
  <2>5. CASE pc[c] = "cancelling" /\ Goto(c, "cancelled") /\ entry[c] # "ADMITTED"
    <3>1. pc'[c] = "cancelled"
      BY <1>1, <2>5 DEF Goto, TypeOK
    <3> QED  BY <2>5, <3>1 DEF Met
  <2> QED  BY <2>1, <2>2, <2>3, <2>4, <2>5
<1>5. \A k \in Fates : \A d \in Calls : Met(d, k)' <=> Met(d, k)
  BY <1>3, <1>4
<1> QED  BY <1>1, <1>2, <1>5, NoFate

\* c gives up waiting.
LEMMA LeaveFates ==
    ASSUME LineInv, OutcomesCounted, NEW c \in Calls, entry[c] = "WAITING",
           NEW state, NEW counter, NEW to, Goto(c, to), LeaveQueue(c, state, counter),
           \/ state = "EXPIRED" /\ counter = "expired" /\ to = "expired"
           \/ state = "CANCELLED" /\ counter = "cancelled_while_waiting" /\ to = "cancelled"
    PROVE  OutcomesCounted'
<1>1. TypeOK /\ EntryFits(c) /\ counter \in Fates
  BY DEF LineInv, Fates
<1>2. counters' = Plus({counter}, 1)
  BY DEF LeaveQueue, Count
<1>3. LineMove({c}, state)
  BY LeaveLine
<1>4. pc'[c] = to /\ entry'[c] = state /\ \A d \in Calls \ {c} : pc'[d] = pc[d]
  BY <1>1, <1>3 DEF Goto, TypeOK, LineMove
<1>5. pc[c] \in {"waiting", "expiring", "cancelling"}
  BY <1>1 DEF EntryFits, TypeOK, CallStates, Suspended, Settled
<1>6. ~Met(c, counter) /\ \A k \in Fates : Met(c, k)' <=> Met(c, k) \/ k = counter
  BY <1>4, <1>5 DEF Met, Fates
<1>7. \A k \in Fates : \A d \in Calls \ {c} : Met(d, k)' <=> Met(d, k)
  <2>1. state \in {"ADMITTED", "CANCELLED", "EXPIRED", "CLOSED"}
    OBVIOUS
  <2>2. \A k \in Fates : \A d \in Calls \ {c} :
           Met(d, k)' <=> Met(d, k) \/ (k = SettledAs(state) /\ d \in {c})
    BY <1>3, <1>4, <2>1, Bystander
  <2> QED  BY <2>2
<1> QED  BY <1>1, <1>2, <1>6, <1>7, OneFate

\* c ends its use of a slot, and the head of the line may get it.
LEMMA ReleaseFates ==
    ASSUME LineInv, OutcomesCounted, NEW c \in Calls, in_flight > 0,
           NEW outcome, NEW to, Goto(c, to), ReleaseCapacity(outcome),
           \/ pc[c] = "releasing" /\ to = "finished" /\ outcome = "finished"
           \/ /\ pc[c] = "cancelling" /\ entry[c] = "ADMITTED"
              /\ to = "cancelled" /\ outcome = "abandoned"
    PROVE  OutcomesCounted'
<1>1. /\ TypeOK /\ entry[c] # "WAITING" /\ outcome \in Fates
      /\ waiters \in Seq(Calls) /\ IsInjective(waiters) /\ Len(waiters) \in Nat
  BY LenProperties DEF LineInv, EntryFits, TypeOK, Fates
<1>2. pc'[c] = to /\ \A d \in Calls \ {c} : pc'[d] = pc[d]
  BY <1>1 DEF Goto, TypeOK
<1>3. ASSUME entry'[c] = entry[c]
      PROVE  ~Met(c, outcome) /\ \A k \in Fates : Met(c, k)' <=> Met(c, k) \/ k = outcome
  BY <1>2, <1>3 DEF Met, Fates
<1>4. CASE waiters # <<>> /\ in_flight <= parallelism
  <2> DEFINE h == Head(waiters)
             names == {outcome, "admitted", "admitted_from_queue"}
             W == [k \in Fates |-> IF k = outcome THEN {c}
                                   ELSE IF k = "admitted_from_queue" THEN {h} ELSE {}]
  <2>1. counters' = Plus(names, 1) /\ waiters' = Tail(waiters)
    BY <1>4 DEF ReleaseCapacity, Count
  <2>2. h \in ToSet(waiters) /\ Len(Tail(waiters)) = Len(waiters) - 1
    BY <1>1, <1>4, TailLine
  <2>3. LineMove({h}, "ADMITTED")
    <3>1. waiters' # waiters
      BY <1>1, <2>1, <2>2
    <3> QED  BY <3>1, ReleaseLine
  <2>4. h \in Calls /\ h # c
    BY <1>1, <2>2, ToSetByPosition DEF LineInv
  <2> HIDE DEF h
  <2>5. entry'[c] = entry[c]
    BY <2>3, <2>4 DEF LineMove
  <2>6. \A k \in Fates : \A d \in Calls \ {c} :
           /\ Met(d, k)' <=> Met(d, k) \/ (k = "admitted_from_queue" /\ d = h)
           /\ d = h => ~Met(d, k)
    <3>1. "ADMITTED" \in {"ADMITTED", "CANCELLED", "EXPIRED", "CLOSED"}
      OBVIOUS
    <3>2. SettledAs("ADMITTED") = "admitted_from_queue"
      BY DEF SettledAs
    <3>3. \A k \in Fates : \A d \in Calls \ {c} :
             /\ Met(d, k)' <=> Met(d, k) \/ (k = SettledAs("ADMITTED") /\ d \in {h})
             /\ d \in {h} => ~Met(d, k)
      BY <1>2, <2>3, <3>1, Bystander
    <3> QED  BY <3>2, <3>3
  <2>7. outcome # "admitted_from_queue"
    OBVIOUS
  <2>8. /\ W \in [Fates -> SUBSET Calls]
        /\ \A k \in Fates : W[k] = IF k = outcome THEN {c}
                                   ELSE IF k = "admitted_from_queue" THEN {h} ELSE {}
    BY <2>4
  <2> HIDE DEF W
  <2>9. \A k \in Fates : Cardinality(W[k]) = Share(k, names, 1)
    <3>1. Cardinality({}) = 0 /\ Cardinality({c}) = 1 /\ Cardinality({h}) = 1
      BY FS_EmptySet, FS_Singleton
    <3>2. \A k \in Fates : k # "admitted"
      BY DEF Fates
    <3> QED  BY <2>8, <3>1, <3>2 DEF Share
  <2>10. \A k \in Fates : \A d \in Calls :
            /\ Met(d, k)' <=> Met(d, k) \/ d \in W[k]
            /\ d \in W[k] => ~Met(d, k)
    <3> SUFFICES ASSUME NEW k \in Fates, NEW d \in Calls
                 PROVE  /\ Met(d, k)' <=> Met(d, k) \/ d \in W[k]
                        /\ d \in W[k] => ~Met(d, k)
      OBVIOUS
    <3>1. CASE d = c
      BY <1>3, <2>4, <2>5, <2>8, <3>1
    <3>2. CASE d # c
      BY <2>6, <2>7, <2>8, <3>2
    <3> QED  BY <3>1, <3>2
  <2> HIDE DEF names
  <2> QED  BY <1>1, <2>1, <2>8, <2>9, <2>10, FatesAdvance
<1>5. CASE ~(waiters # <<>> /\ in_flight <= parallelism)
  <2>1. counters' = Plus({outcome}, 1) /\ entry' = entry
    BY <1>5 DEF ReleaseCapacity, Count
  <2>2. \A k \in Fates : \A d \in Calls \ {c} : Met(d, k)' <=> Met(d, k)
    BY <1>2, <2>1 DEF Met
  <2> QED  BY <1>1, <1>3, <2>1, <2>2, OneFate
<1> QED  BY <1>4, <1>5

LEMMA CleanupFates ==
    ASSUME LineInv, OutcomesCounted, NEW c \in Calls,
           RunExpire(c) \/ RunCancel(c) \/ RunRelease(c)
    PROVE  OutcomesCounted'
<1>1. CASE RunExpire(c)
  BY <1>1, LeaveFates, ControlFates DEF RunExpire
<1>2. CASE RunCancel(c)
  <2>1. pc[c] = "cancelling" /\ Goto(c, "cancelled")
    BY <1>2 DEF RunCancel
  <2>2. CASE entry[c] = "WAITING" /\ LeaveQueue(c, "CANCELLED", "cancelled_while_waiting")
    BY <2>1, <2>2, LeaveFates
  <2>3. CASE entry[c] = "ADMITTED" /\ in_flight > 0 /\ ReleaseCapacity("abandoned")
    BY <2>1, <2>3, ReleaseFates
  <2>4. CASE entry[c] # "ADMITTED" /\ entry' = entry /\ counters' = counters
    BY <2>1, <2>4, ControlFates
  <2> QED  BY <1>2, <2>2, <2>3, <2>4 DEF RunCancel
<1>3. CASE RunRelease(c)
  BY <1>3, ReleaseFates DEF RunRelease
<1> QED  BY <1>1, <1>2, <1>3

LEMMA ResizeFates ==
    ASSUME CapacityInv, OutcomesCounted, NEW n \in Sizes, Resize(n)
    PROVE  OutcomesCounted'
<1> DEFINE k == Admissible(n)
           first == SubSeq(waiters, 1, k)
           names == {"admitted", "admitted_from_queue"}
<1>1. /\ waiters \in Seq(Calls) /\ Len(waiters) \in Nat /\ IsInjective(waiters)
      /\ ToSet(waiters) \subseteq Calls
  BY CapacityTypes
<1>2. k \in 0..Len(waiters) /\ LineMove(ToSet(first), "ADMITTED")
  BY AdmitLine DEF Resize, CapacityInv
<1>3. counters' = Plus(names, k) /\ pc' = pc
  BY DEF Resize, AdmitWaiters
<1> HIDE DEF k
<1>4. /\ first \in Seq(Calls) /\ Len(first) = k /\ IsInjective(first)
      /\ ToSet(first) \subseteq ToSet(waiters)
  BY <1>1, <1>2, DropLine
<1> HIDE DEF first
<1>5. Cardinality(ToSet(first)) = k /\ k \in Nat
  BY <1>1, <1>2, <1>4, LineCardinality
<1>6. names \cap Fates = {SettledAs("ADMITTED")}
  BY DEF Fates, SettledAs
<1> HIDE DEF names
<1>7. ToSet(first) \in SUBSET Calls /\ "ADMITTED" \in {"ADMITTED", "CLOSED"}
  BY <1>1, <1>4
<1> QED  BY <1>2, <1>3, <1>5, <1>6, <1>7, LineFate DEF CapacityInv

LEMMA CloseFates ==
    ASSUME CapacityInv, OutcomesCounted, DoClose, pc' = pc
    PROVE  OutcomesCounted'
<1>1. TypeOK /\ LineInv /\ counters \in [CounterNames -> Nat]
  BY DEF CapacityInv, LineInv, TypeOK
<1>2. CASE closed
  <2>1. entry' = entry /\ counters' = Plus({}, 0)
    BY <1>1, <1>2 DEF DoClose, Plus
  <2>2. \A k \in Fates : \A d \in Calls : Met(d, k)' <=> Met(d, k)
    BY <2>1 DEF Met
  <2> QED  BY <1>1, <2>1, <2>2, NoFate
<1>3. CASE ~closed
  <2> DEFINE names == {"closed_while_waiting"}
  <2>1. counters' = Plus(names, Len(waiters)) /\ LineMove(ToSet(waiters), "CLOSED")
    BY <1>1, <1>3, CloseLine DEF DoClose
  <2>2. /\ ToSet(waiters) \in SUBSET Calls /\ Len(waiters) \in Nat
        /\ Cardinality(ToSet(waiters)) = Len(waiters)
    BY CapacityTypes, LineCardinality
  <2>3. names \cap Fates = {SettledAs("CLOSED")} /\ "CLOSED" \in {"ADMITTED", "CLOSED"}
    BY DEF Fates, SettledAs
  <2> HIDE DEF names
  <2> QED  BY <1>1, <2>1, <2>2, <2>3, LineFate
<1> QED  BY <1>2, <1>3

LEMMA OutcomesStep == CapacityInv /\ OutcomesCounted /\ [Next]_vars => OutcomesCounted'
<1> SUFFICES ASSUME CapacityInv, OutcomesCounted, [Next]_vars PROVE OutcomesCounted'
  OBVIOUS
<1>1. LineInv /\ TypeOK /\ counters \in [CounterNames -> Nat]
  BY DEF CapacityInv, LineInv, TypeOK
<1>2. ASSUME NEW c \in Calls, Enter(c) \/ EnterNow(c) PROVE OutcomesCounted'
  BY <1>1, <1>2, EnterFates
<1>3. ASSUME NEW c \in Calls,
             Resume(c) \/ Timeout(c) \/ ResumeExpired(c) \/ Cancel(c) \/ FinishBody(c)
      PROVE  OutcomesCounted'
  <2>1. entry' = entry /\ counters' = counters
    BY <1>3 DEF Resume, Timeout, ResumeExpired, Cancel, FinishBody, OnlyControl, queueVars
  <2> QED  BY <1>1, <1>3, <2>1, ControlFates
<1>4. ASSUME NEW c \in Calls, RunExpire(c) \/ RunCancel(c) \/ RunRelease(c)
      PROVE  OutcomesCounted'
  BY <1>1, <1>4, CleanupFates
<1>5. ASSUME NEW n \in Sizes, Resize(n) PROVE OutcomesCounted'
  BY <1>5, ResizeFates
<1>6. ASSUME Close \/ \E s \in Closers : RunClose(s) PROVE OutcomesCounted'
  BY <1>6, CloseFates DEF Close, RunClose
<1>7. ASSUME pc' = pc, entry' = entry, counters' = counters PROVE OutcomesCounted'
  <2>1. counters' = Plus({}, 0)
    BY <1>1, <1>7 DEF Plus
  <2>2. \A k \in Fates : \A d \in Calls : Met(d, k)' <=> Met(d, k)
    BY <1>7 DEF Met
  <2> QED  BY <1>1, <2>1, <2>2, NoFate
<1>8. ASSUME NEW s \in Closers,
             CloseAndWait(s) \/ WaitClosed(s) \/ ReturnClosed(s) \/ CancelCloser(s)
      PROVE  OutcomesCounted'
  BY <1>7, <1>8 DEF CloseAndWait, WaitClosed, ReturnClosed, CancelCloser, queueVars
<1>9. CASE UNCHANGED vars
  BY <1>7, <1>9 DEF vars
<1> QED  BY <1>2, <1>3, <1>4, <1>5, <1>6, <1>8, <1>9 DEF Next, Terminated

LEMMA InitOutcomes == Init => OutcomesCounted
<1> SUFFICES ASSUME Init PROVE \A k \in Fates : counters[k] = Cardinality(Fate(k))
  BY FatesCounted
<1> SUFFICES ASSUME NEW k \in Fates PROVE counters[k] = Cardinality(Fate(k))
  OBVIOUS
<1>1. Fate(k) = {}
  BY DEF Init, Fate, Met
<1>2. counters[k] = 0
  BY DEF Init, Fates, CounterNames
<1> QED  BY <1>1, <1>2, FS_EmptySet

\* A status tells what happened to the calls: each total is the number of calls
\* with that fate, whatever races for their entries.
THEOREM OutcomesAreCounted == Spec => []OutcomesCounted
<1> QED  BY InitOutcomes, OutcomesStep, CapacityAlways, PTL DEF Spec

-----------------------------------------------------------------------------
(* The identities between the totals.                                      *)

\* What a step adds to one side of the first two identities it adds to the other.
LEMMA SidesBalance ==
    ASSUME CapacityInv, CapacityInv', SoundStep,
           counters["queued"] =
              counters["admitted_from_queue"] + counters["expired"]
              + counters["cancelled_while_waiting"] + counters["closed_while_waiting"]
              + Len(waiters),
           counters["admitted"] = counters["finished"] + counters["abandoned"] + in_flight
    PROVE  /\ counters'["queued"] =
                 counters'["admitted_from_queue"] + counters'["expired"]
                 + counters'["cancelled_while_waiting"] + counters'["closed_while_waiting"]
                 + Len(waiters')
           /\ counters'["admitted"] =
                 counters'["finished"] + counters'["abandoned"] + in_flight'
<1>1. /\ in_flight \in Nat /\ Len(waiters) \in Nat /\ counters \in [CounterNames -> Nat]
      /\ in_flight' \in Nat /\ Len(waiters') \in Nat /\ counters' \in [CounterNames -> Nat]
  BY LenProperties DEF CapacityInv, LineInv, TypeOK
<1> DEFINE i == Interval(Status, Status')
<1>2. \A k \in CounterNames :
         counters[k] \in Nat /\ counters'[k] \in Nat /\ i[k] = counters'[k] - counters[k]
  BY <1>1 DEF Interval, Status
<1>3. /\ in_flight' - in_flight = i["admitted"] - i["finished"] - i["abandoned"]
      /\ Len(waiters') - Len(waiters) =
            i["queued"] - (i["admitted_from_queue"] + i["cancelled_while_waiting"]
                           + i["expired"] + i["closed_while_waiting"])
  BY DEF SoundStep, SettledWaiting
<1> HIDE DEF i
<1>4. /\ counters["admitted"] \in Nat /\ counters'["admitted"] \in Nat
      /\ i["admitted"] = counters'["admitted"] - counters["admitted"]
      /\ counters["finished"] \in Nat /\ counters'["finished"] \in Nat
      /\ i["finished"] = counters'["finished"] - counters["finished"]
      /\ counters["abandoned"] \in Nat /\ counters'["abandoned"] \in Nat
      /\ i["abandoned"] = counters'["abandoned"] - counters["abandoned"]
  BY <1>2 DEF CounterNames
<1>5. counters'["admitted"] = counters'["finished"] + counters'["abandoned"] + in_flight'
  <2>1. in_flight' - in_flight =
           (counters'["admitted"] - counters["admitted"])
           - (counters'["finished"] - counters["finished"])
           - (counters'["abandoned"] - counters["abandoned"])
    BY <1>3, <1>4
  <2>2. counters["admitted"] = counters["finished"] + counters["abandoned"] + in_flight
    OBVIOUS
  <2> DEFINE a == counters["admitted"]
             b == counters'["admitted"]
             f == counters["finished"]
             g == counters'["finished"]
             x == counters["abandoned"]
             y == counters'["abandoned"]
             m == in_flight
             n == in_flight'
  <2>3. /\ a \in Nat /\ b \in Nat /\ f \in Nat /\ g \in Nat
        /\ x \in Nat /\ y \in Nat /\ m \in Nat /\ n \in Nat
        /\ a = f + x + m /\ n - m = (b - a) - (g - f) - (y - x)
    BY <1>1, <1>4, <2>1, <2>2
  <2> HIDE DEF a, b, f, g, x, y, m, n
  <2>4. b = g + y + n
    BY <2>3
  <2> QED  BY <2>4 DEF b, g, y, n
<1>6. /\ counters["queued"] \in Nat /\ counters'["queued"] \in Nat
      /\ i["queued"] = counters'["queued"] - counters["queued"]
      /\ counters["admitted_from_queue"] \in Nat /\ counters'["admitted_from_queue"] \in Nat
      /\ i["admitted_from_queue"] =
            counters'["admitted_from_queue"] - counters["admitted_from_queue"]
      /\ counters["expired"] \in Nat /\ counters'["expired"] \in Nat
      /\ i["expired"] = counters'["expired"] - counters["expired"]
      /\ counters["cancelled_while_waiting"] \in Nat
      /\ counters'["cancelled_while_waiting"] \in Nat
      /\ i["cancelled_while_waiting"] =
            counters'["cancelled_while_waiting"] - counters["cancelled_while_waiting"]
      /\ counters["closed_while_waiting"] \in Nat /\ counters'["closed_while_waiting"] \in Nat
      /\ i["closed_while_waiting"] =
            counters'["closed_while_waiting"] - counters["closed_while_waiting"]
  BY <1>2 DEF CounterNames
<1>7. counters'["queued"] =
         counters'["admitted_from_queue"] + counters'["expired"]
         + counters'["cancelled_while_waiting"] + counters'["closed_while_waiting"]
         + Len(waiters')
  <2>1. Len(waiters') - Len(waiters) =
           (counters'["queued"] - counters["queued"])
           - ((counters'["admitted_from_queue"] - counters["admitted_from_queue"])
              + (counters'["cancelled_while_waiting"] - counters["cancelled_while_waiting"])
              + (counters'["expired"] - counters["expired"])
              + (counters'["closed_while_waiting"] - counters["closed_while_waiting"]))
    BY <1>3, <1>6
  <2>2. counters["queued"] =
           counters["admitted_from_queue"] + counters["expired"]
           + counters["cancelled_while_waiting"] + counters["closed_while_waiting"]
           + Len(waiters)
    OBVIOUS
  <2> DEFINE q == counters["queued"]
             r == counters'["queued"]
             a == counters["admitted_from_queue"]
             b == counters'["admitted_from_queue"]
             e == counters["expired"]
             f == counters'["expired"]
             c == counters["cancelled_while_waiting"]
             d == counters'["cancelled_while_waiting"]
             x == counters["closed_while_waiting"]
             y == counters'["closed_while_waiting"]
             m == Len(waiters)
             n == Len(waiters')
  <2>3. /\ q \in Nat /\ r \in Nat /\ a \in Nat /\ b \in Nat /\ c \in Nat /\ d \in Nat
        /\ e \in Nat /\ f \in Nat /\ x \in Nat /\ y \in Nat /\ m \in Nat /\ n \in Nat
        /\ q = a + e + c + x + m
        /\ n - m = (r - q) - ((b - a) + (d - c) + (f - e) + (y - x))
    BY <1>1, <1>6, <2>1, <2>2
  <2> HIDE DEF q, r, a, b, c, d, e, f, x, y, m, n
  <2>4. r = b + f + d + y + n
    BY <2>3
  <2> QED  BY <2>4 DEF r, b, f, d, y, n
<1> QED  BY <1>5, <1>7

\* The first two identities.
Sides ==
    /\ counters["queued"] =
          counters["admitted_from_queue"] + counters["expired"]
          + counters["cancelled_while_waiting"] + counters["closed_while_waiting"]
          + Len(waiters)
    /\ counters["admitted"] = counters["finished"] + counters["abandoned"] + in_flight

\* The inequalities follow from whom the totals count: who was admitted from the
\* queue holds a slot, finished or abandoned it.
LEMMA BalanceFollows == CapacityInv /\ OutcomesCounted /\ Sides => CountersBalance
<1> SUFFICES ASSUME CapacityInv, OutcomesCounted, Sides PROVE CountersBalance
  OBVIOUS
<1> DEFINE queued == Fate("admitted_from_queue")
           ended == Fate("finished")
           left == Fate("abandoned")
<1>1. /\ counters["admitted_from_queue"] = Cardinality(queued)
      /\ counters["finished"] = Cardinality(ended)
      /\ counters["abandoned"] = Cardinality(left)
  BY FatesCounted DEF Fates
<1>2. IsFiniteSet(queued) /\ IsFiniteSet(ended) /\ IsFiniteSet(left)
  <2>1. queued \in SUBSET Calls /\ ended \in SUBSET Calls /\ left \in SUBSET Calls
    BY DEF Fate
  <2> QED  BY <2>1, FS_Subset, AdmissionAssumption
<1>3. left \subseteq queued
  BY DEF Fate, Met
<1>4. queued \subseteq (ended \cup left) \cup Owners
  <2> SUFFICES ASSUME NEW c \in Calls, entry[c] = "ADMITTED"
               PROVE  c \in ended \/ c \in left \/ c \in Owners
    BY DEF Fate, Met
  <2>1. pc[c] \in {"finished", "cancelled", "running", "releasing"} \cup Suspended
    BY DEF CapacityInv, LineInv, EntryFits, TypeOK, CallStates, Settled
  <2> QED  BY <2>1 DEF Fate, Met, Owners
<1>5. IsFiniteSet(Owners) /\ Cardinality(Owners) = in_flight /\ in_flight \in Nat
  BY CapacityTypes
<1> HIDE DEF queued, ended, left
<1>6. /\ Cardinality(left) <= Cardinality(queued)
      /\ Cardinality(queued) \in Nat /\ Cardinality(ended) \in Nat /\ Cardinality(left) \in Nat
  BY <1>2, <1>3, FS_Subset, FS_CardinalityType
<1>7. Cardinality(queued) <= Cardinality(ended) + Cardinality(left) + in_flight
  <2>1. \A A, B : IsFiniteSet(A) /\ IsFiniteSet(B) =>
           IsFiniteSet(A \cup B) /\ Cardinality(A \cup B) <= Cardinality(A) + Cardinality(B)
    <3> SUFFICES ASSUME NEW A, NEW B, IsFiniteSet(A), IsFiniteSet(B)
                 PROVE  /\ IsFiniteSet(A \cup B)
                        /\ Cardinality(A \cup B) <= Cardinality(A) + Cardinality(B)
      OBVIOUS
    <3>1. /\ IsFiniteSet(A \cup B)
          /\ Cardinality(A \cup B) = Cardinality(A) + Cardinality(B) - Cardinality(A \cap B)
      BY FS_Union
    <3>2. IsFiniteSet(A \cap B)
      BY FS_Intersection
    <3>3. Cardinality(A) \in Nat /\ Cardinality(B) \in Nat /\ Cardinality(A \cap B) \in Nat
      BY <3>2, FS_CardinalityType
    <3> QED  BY <3>1, <3>3
  <2>2. /\ IsFiniteSet(ended \cup left)
        /\ Cardinality(ended \cup left) <= Cardinality(ended) + Cardinality(left)
    BY <1>2, <2>1
  <2>3. /\ IsFiniteSet((ended \cup left) \cup Owners)
        /\ Cardinality((ended \cup left) \cup Owners) <=
              Cardinality(ended \cup left) + Cardinality(Owners)
    BY <1>5, <2>1, <2>2
  <2>4. Cardinality(queued) <= Cardinality((ended \cup left) \cup Owners)
    BY <1>4, <2>3, FS_Subset
  <2>5. /\ Cardinality(ended \cup left) \in Nat
        /\ Cardinality((ended \cup left) \cup Owners) \in Nat
    BY <2>2, <2>3, FS_CardinalityType
  <2> QED  BY <1>5, <1>6, <2>2, <2>3, <2>4, <2>5
<1> QED  BY <1>1, <1>6, <1>7 DEF Sides, CountersBalance

\* The identities of tests/invariants.py hold after every step, so in every
\* status: admissions and refusals, whatever their order, are never lost.
THEOREM CountersAreBalanced == Spec => []CountersBalance
<1>1. Init => Sides
  <2> SUFFICES ASSUME Init PROVE Sides
    OBVIOUS
  <2>1. \A k \in CounterNames : counters[k] = 0
    BY DEF Init
  <2>2. /\ counters["queued"] = 0 /\ counters["admitted_from_queue"] = 0
        /\ counters["expired"] = 0 /\ counters["cancelled_while_waiting"] = 0
        /\ counters["closed_while_waiting"] = 0 /\ counters["admitted"] = 0
        /\ counters["finished"] = 0 /\ counters["abandoned"] = 0
    BY <2>1 DEF CounterNames
  <2>3. in_flight = 0 /\ Len(waiters) = 0
    BY DEF Init
  <2> QED  BY <2>2, <2>3 DEF Sides
<1>2. CapacityInv /\ CapacityInv' /\ Sides /\ [Next]_vars => Sides'
  BY EveryStepSound, SidesBalance DEF Sides
<1> QED  BY <1>1, <1>2, CapacityAlways, OutcomesAreCounted, BalanceFollows, PTL DEF Spec

-----------------------------------------------------------------------------
(* The diagnosis of a status.                                              *)

\* The codes of _add_current_pressure_findings that say a slot is not free.
PressureCodes == {"ACTIVE_WORK_ABOVE_CAPACITY", "EXECUTION_FULL", "WAITING_ROOM_FULL"}

LEMMA HistoryCodes ==
    ASSUME NEW s, NEW f \in History(s)
    PROVE  f.code \in {"FREQUENT_QUEUEING", "ELEVATED_REJECTION_RATE",
                       "ELEVATED_EXPIRATION_RATE"}
<1>1. ASSUME NEW code, NEW ratio, NEW w, NEW c, NEW g \in Rated(code, ratio, w, c)
      PROVE  g.code = code
  <2>1. g \in {Finding(code, "CRITICAL"), Finding(code, "WARNING")}
    BY <1>1 DEF Rated
  <2> QED  BY <2>1 DEF Finding
<1>2. \/ f = Finding("FREQUENT_QUEUEING", "NOTICE")
      \/ f \in Rated("ELEVATED_REJECTION_RATE", RejectionRatio(s), 5, 20)
      \/ f \in Rated("ELEVATED_EXPIRATION_RATE", ExpirationRatio(s), 10, 30)
  BY DEF History
<1>3. Finding("FREQUENT_QUEUEING", "NOTICE").code = "FREQUENT_QUEUEING"
  BY DEF Finding
<1> QED  BY <1>1, <1>2, <1>3

\* What each part of assess_capacity reports.
LEMMA PartsOfFindings ==
    ASSUME NEW s, NEW limited, NEW f
    PROVE  f \in Findings(s, limited) <=>
              \/ s.is_closed /\ ~IsDrained(s)
                 /\ f = Finding("CLOSED_WITH_ACTIVE_WORK", "NOTICE")
              \/ ~s.is_closed /\ f \in CurrentPressure(s)
              \/ WaitingRoom > 0 /\ ~limited /\ f = Finding("UNBOUNDED_QUEUE_WAIT", "NOTICE")
              \/ WaitingRoom >= LargeRoom /\ WaitingRoom >= s.parallelism * LargeRoomFactor
                 /\ f = Finding("LARGE_WAITING_ROOM", "NOTICE")
              \/ f \in History(s)
<1> DEFINE A == IF s.is_closed /\ ~IsDrained(s)
                THEN {Finding("CLOSED_WITH_ACTIVE_WORK", "NOTICE")} ELSE {}
           B == IF s.is_closed THEN {} ELSE CurrentPressure(s)
           C == IF WaitingRoom > 0 /\ ~limited
                THEN {Finding("UNBOUNDED_QUEUE_WAIT", "NOTICE")} ELSE {}
           D == IF WaitingRoom >= LargeRoom /\ WaitingRoom >= s.parallelism * LargeRoomFactor
                THEN {Finding("LARGE_WAITING_ROOM", "NOTICE")} ELSE {}
<1>1. Findings(s, limited) = UNION {A, B, C, D, History(s)}
  BY DEF Findings
<1>2. /\ f \in A <=> /\ s.is_closed /\ ~IsDrained(s)
                     /\ f = Finding("CLOSED_WITH_ACTIVE_WORK", "NOTICE")
      /\ f \in B <=> ~s.is_closed /\ f \in CurrentPressure(s)
      /\ f \in C <=> /\ WaitingRoom > 0 /\ ~limited
                     /\ f = Finding("UNBOUNDED_QUEUE_WAIT", "NOTICE")
      /\ f \in D <=> /\ WaitingRoom >= LargeRoom
                     /\ WaitingRoom >= s.parallelism * LargeRoomFactor
                     /\ f = Finding("LARGE_WAITING_ROOM", "NOTICE")
  OBVIOUS
<1> HIDE DEF A, B, C, D
<1>3. f \in UNION {A, B, C, D, History(s)} <=>
         f \in A \/ f \in B \/ f \in C \/ f \in D \/ f \in History(s)
  OBVIOUS
<1> QED  BY <1>1, <1>2, <1>3

\* An open bulkhead is said to be under pressure by the look at the present alone.
LEMMA PressureOfReport ==
    ASSUME NEW s, NEW limited, NEW code \in PressureCodes
    PROVE  code \in Codes(Findings(s, limited)) <=>
              ~s.is_closed /\ \E f \in CurrentPressure(s) : f.code = code
<1>1. code \in Codes(Findings(s, limited)) <=>
         \E f : f \in Findings(s, limited) /\ f.code = code
  BY DEF Codes
<1>2. ASSUME NEW f,
             \/ f = Finding("CLOSED_WITH_ACTIVE_WORK", "NOTICE")
             \/ f = Finding("UNBOUNDED_QUEUE_WAIT", "NOTICE")
             \/ f = Finding("LARGE_WAITING_ROOM", "NOTICE")
             \/ f \in History(s)
      PROVE  f.code # code
  <2>1. f.code \in {"CLOSED_WITH_ACTIVE_WORK", "UNBOUNDED_QUEUE_WAIT", "LARGE_WAITING_ROOM",
                    "FREQUENT_QUEUEING", "ELEVATED_REJECTION_RATE", "ELEVATED_EXPIRATION_RATE"}
    BY <1>2, HistoryCodes DEF Finding
  <2> QED  BY <2>1 DEF PressureCodes
<1>3. \A f : f.code = code =>
         (f \in Findings(s, limited) <=> ~s.is_closed /\ f \in CurrentPressure(s))
  <2> SUFFICES ASSUME NEW f, f.code = code
               PROVE  f \in Findings(s, limited) <=> ~s.is_closed /\ f \in CurrentPressure(s)
    OBVIOUS
  <2> QED  BY <1>2, PartsOfFindings
<1> QED  BY <1>1, <1>3

LEMMA ShutdownOfReport ==
    ASSUME NEW s, NEW limited, s.is_closed
    PROVE  "CLOSED_WITH_ACTIVE_WORK" \in Codes(Findings(s, limited)) <=> ~IsDrained(s)
<1> DEFINE it == Finding("CLOSED_WITH_ACTIVE_WORK", "NOTICE")
<1>1. it.code = "CLOSED_WITH_ACTIVE_WORK"
  BY DEF Finding
<1>2. ASSUME NEW f,
             \/ f = Finding("UNBOUNDED_QUEUE_WAIT", "NOTICE")
             \/ f = Finding("LARGE_WAITING_ROOM", "NOTICE")
             \/ f \in History(s)
      PROVE  f.code # "CLOSED_WITH_ACTIVE_WORK"
  <2>1. f.code \in {"UNBOUNDED_QUEUE_WAIT", "LARGE_WAITING_ROOM",
                    "FREQUENT_QUEUEING", "ELEVATED_REJECTION_RATE", "ELEVATED_EXPIRATION_RATE"}
    BY <1>2, HistoryCodes DEF Finding
  <2> QED  BY <2>1
<1>3. ASSUME ~IsDrained(s) PROVE it \in Findings(s, limited)
  BY <1>3, PartsOfFindings
<1>4. ASSUME NEW f \in Findings(s, limited), f.code = "CLOSED_WITH_ACTIVE_WORK"
      PROVE  ~IsDrained(s)
  BY <1>2, <1>4, PartsOfFindings
<1>5. "CLOSED_WITH_ACTIVE_WORK" \in Codes(Findings(s, limited)) <=>
         \E f \in Findings(s, limited) : f.code = "CLOSED_WITH_ACTIVE_WORK"
  BY DEF Codes
<1> HIDE DEF it
<1> QED  BY <1>1, <1>3, <1>4, <1>5

\* The look at the present finds pressure exactly when no slot is free.
LEMMA PressureIsSaturation ==
    ASSUME NEW s
    PROVE  IsSaturated(s) <=>
              \E code \in PressureCodes : \E f \in CurrentPressure(s) : f.code = code
<1>1. ASSUME NEW f \in CurrentPressure(s) PROVE IsSaturated(s)
  BY <1>1 DEF CurrentPressure
<1>2. CASE IsSaturated(s) /\ RoomFull(s)
  <2> DEFINE f == Finding("WAITING_ROOM_FULL", "CRITICAL")
  <2>1. f \in CurrentPressure(s) /\ f.code = "WAITING_ROOM_FULL"
    BY <1>2 DEF CurrentPressure, Finding
  <2> QED  BY <1>2, <2>1 DEF PressureCodes
<1>3. CASE IsSaturated(s) /\ ~RoomFull(s) /\ IsOverCapacity(s)
  <2>1. \E f \in OverCapacity(s) : f.code = "ACTIVE_WORK_ABOVE_CAPACITY"
    BY <1>3 DEF OverCapacity, Finding
  <2>2. OverCapacity(s) \subseteq CurrentPressure(s)
    BY <1>3 DEF CurrentPressure
  <2> QED  BY <1>3, <2>1, <2>2 DEF PressureCodes
<1>4. CASE IsSaturated(s) /\ ~RoomFull(s) /\ ~IsOverCapacity(s)
  <2>1. \E f \in Full(s) : f.code = "EXECUTION_FULL"
    BY <1>4 DEF Full, Finding
  <2>2. Full(s) \subseteq CurrentPressure(s)
    BY <1>4 DEF CurrentPressure
  <2> QED  BY <1>4, <2>1, <2>2 DEF PressureCodes
<1> QED  BY <1>1, <1>2, <1>3, <1>4

\* A full waiting room is reported as one.
LEMMA RoomOfReport ==
    ASSUME NEW s
    PROVE  (\E f \in CurrentPressure(s) : f.code = "WAITING_ROOM_FULL") <=>
              IsSaturated(s) /\ RoomFull(s)
<1>1. ASSUME NEW f \in OverCapacity(s) \cup (Full(s) \cup NearlyFull(s))
      PROVE  f.code # "WAITING_ROOM_FULL"
  <2>1. f.code \in {"ACTIVE_WORK_ABOVE_CAPACITY", "EXECUTION_FULL", "WAITING_ROOM_NEAR_CAPACITY"}
    BY <1>1 DEF OverCapacity, Full, NearlyFull, Finding
  <2> QED  BY <2>1
<1>2. ASSUME NEW f \in CurrentPressure(s), f.code = "WAITING_ROOM_FULL"
      PROVE  IsSaturated(s) /\ RoomFull(s)
  <2>1. IsSaturated(s)
    BY <1>2 DEF CurrentPressure
  <2>2. CASE ~RoomFull(s)
    <3>1. f \in OverCapacity(s) \cup (Full(s) \cup NearlyFull(s))
      BY <1>2, <2>1, <2>2 DEF CurrentPressure
    <3> QED  BY <1>1, <1>2, <3>1
  <2> QED  BY <2>1, <2>2
<1>3. ASSUME IsSaturated(s), RoomFull(s)
      PROVE  \E f \in CurrentPressure(s) : f.code = "WAITING_ROOM_FULL"
  <2>1. Finding("WAITING_ROOM_FULL", "CRITICAL").code = "WAITING_ROOM_FULL"
    BY DEF Finding
  <2>2. Finding("WAITING_ROOM_FULL", "CRITICAL") \in CurrentPressure(s)
    BY <1>3 DEF CurrentPressure
  <2> QED  BY <2>1, <2>2
<1> QED  BY <1>2, <1>3

LEMMA WarnedOf ==
    ASSUME NEW findings, NEW f \in findings, f.severity \in {"WARNING", "CRITICAL"}
    PROVE  RequiresAttention(findings)
BY DEF RequiresAttention, SeverityOf

\* What a report says of an open bulkhead is what a call that comes now would meet.
LEMMA OpenReport ==
    ASSUME CapacityInv, ~closed, NEW limited
    PROVE  LET report == Findings(Status, limited)
               codes == Codes(report)
               refuses == ~CanAdmitDirectly /\ Len(waiters) >= WaitingRoom IN
           /\ CanAdmitDirectly <=>
                 codes \cap {"ACTIVE_WORK_ABOVE_CAPACITY", "EXECUTION_FULL",
                             "WAITING_ROOM_FULL"} = {}
           /\ "WAITING_ROOM_FULL" \in codes <=> refuses /\ WaitingRoom > 0
           /\ refuses /\ ~(WaitingRoom = 0 /\ in_flight > parallelism)
                 => RequiresAttention(report)
<1> DEFINE s == Status
           report == Findings(s, limited)
           codes == Codes(report)
           refuses == ~CanAdmitDirectly /\ Len(waiters) >= WaitingRoom
<1>1. /\ in_flight \in Nat /\ parallelism \in Nat /\ Len(waiters) \in Nat
      /\ (waiters = <<>> <=> Len(waiters) = 0) /\ WaitingRoom \in Nat
      /\ (waiters # <<>> => in_flight >= parallelism)
      /\ Len(waiters) <= WaitingRoom
  BY CapacityTypes, AdmissionAssumption DEF CapacityInv, LineInv, TypeOK, WorkConserving
<1>2. /\ IsSaturated(s) <=> in_flight >= parallelism
      /\ IsOverCapacity(s) <=> in_flight > parallelism
      /\ RoomFull(s) <=> WaitingRoom > 0 /\ Len(waiters) >= WaitingRoom
      /\ s.waiting = Len(waiters) /\ ~s.is_closed
  BY DEF Status, IsSaturated, IsOverCapacity, RoomFull
<1>3. CanAdmitDirectly <=> ~IsSaturated(s)
  BY <1>1, <1>2 DEF CanAdmitDirectly
<1>4. ASSUME NEW f \in CurrentPressure(s) PROVE f \in report
  BY <1>2, <1>4, PartsOfFindings
<1>5. \A code \in PressureCodes :
         code \in codes <=> \E f \in CurrentPressure(s) : f.code = code
  BY <1>2, PressureOfReport
<1>6. CanAdmitDirectly <=> codes \cap PressureCodes = {}
  BY <1>3, <1>5, PressureIsSaturation
<1>7. "WAITING_ROOM_FULL" \in codes <=> refuses /\ WaitingRoom > 0
  <2>1. "WAITING_ROOM_FULL" \in codes <=> IsSaturated(s) /\ RoomFull(s)
    BY <1>5, RoomOfReport DEF PressureCodes
  <2> QED  BY <1>2, <1>3, <2>1
<1>8. ASSUME refuses, ~(WaitingRoom = 0 /\ in_flight > parallelism)
      PROVE  RequiresAttention(report)
  <2>1. CASE WaitingRoom > 0
    <3> DEFINE f == Finding("WAITING_ROOM_FULL", "CRITICAL")
    <3>1. f \in CurrentPressure(s)
      BY <1>2, <1>3, <1>8, <2>1 DEF CurrentPressure
    <3>2. f.severity = "CRITICAL"
      BY DEF Finding
    <3> HIDE DEF f, report, s
    <3> QED  BY <1>4, <3>1, <3>2, WarnedOf
  <2>2. CASE WaitingRoom = 0
    <3> DEFINE f == Finding("EXECUTION_FULL", "WARNING")
    <3>1. IsSaturated(s) /\ ~IsOverCapacity(s) /\ ~RoomFull(s)
      BY <1>1, <1>2, <1>3, <1>8, <2>2
    <3>2. f \in CurrentPressure(s)
      BY <2>2, <3>1 DEF CurrentPressure, Full
    <3>3. f.severity = "WARNING"
      BY DEF Finding
    <3> HIDE DEF f, report, s
    <3> QED  BY <1>4, <3>2, <3>3, WarnedOf
  <2> QED  BY <1>1, <2>1, <2>2
<1> HIDE DEF s
<1>9. CanAdmitDirectly <=>
         codes \cap {"ACTIVE_WORK_ABOVE_CAPACITY", "EXECUTION_FULL", "WAITING_ROOM_FULL"} = {}
  BY <1>6 DEF PressureCodes
<1> QED  BY <1>7, <1>8, <1>9 DEF s

\* The calls a capacity decision was made for are counted, each once.
LEMMA DecisionsCounted ==
    ASSUME CapacityInv, OutcomesCounted, Sides
    PROVE  /\ CapacityRejected(Status) = Cardinality(Refused)
           /\ CapacityDecisions(Status) = Cardinality(Refused) + Cardinality(Admitted)
<1> DEFINE rejected == Fate("saturated")
           expired == Fate("expired")
           ended == Fate("finished")
           left == Fate("abandoned")
<1>1. /\ counters["saturated"] = Cardinality(rejected)
      /\ counters["expired"] = Cardinality(expired)
      /\ counters["finished"] = Cardinality(ended)
      /\ counters["abandoned"] = Cardinality(left)
  BY FatesCounted DEF Fates
<1>2. /\ IsFiniteSet(rejected) /\ IsFiniteSet(expired)
      /\ IsFiniteSet(ended) /\ IsFiniteSet(left)
  <2>1. /\ rejected \in SUBSET Calls /\ expired \in SUBSET Calls
        /\ ended \in SUBSET Calls /\ left \in SUBSET Calls
    BY DEF Fate
  <2> QED  BY <2>1, FS_Subset, AdmissionAssumption
<1>3. Refused = rejected \cup expired /\ rejected \cap expired = {}
  BY DEF Refused, Fate, Met, CapacityInv, LineInv, EntryFits
<1>4. Admitted = (ended \cup left) \cup Owners
  <2>1. ASSUME NEW c \in Calls, entry[c] = "ADMITTED"
        PROVE  pc[c] \in {"finished", "cancelled", "running", "releasing"} \cup Suspended
    BY <2>1 DEF CapacityInv, LineInv, EntryFits, TypeOK, CallStates, Settled
  <2> QED  BY <2>1 DEF Admitted, Owners, Fate, Met
<1>5. ended \cap left = {} /\ (ended \cup left) \cap Owners = {}
  BY DEF Fate, Met, Owners, Suspended
<1>6. IsFiniteSet(Owners) /\ Cardinality(Owners) = in_flight /\ in_flight \in Nat
  BY CapacityTypes
<1> HIDE DEF rejected, expired, ended, left
<1>7. \A A, B : IsFiniteSet(A) /\ IsFiniteSet(B) /\ A \cap B = {} =>
         IsFiniteSet(A \cup B) /\ Cardinality(A \cup B) = Cardinality(A) + Cardinality(B)
  <2> SUFFICES ASSUME NEW A, NEW B, IsFiniteSet(A), IsFiniteSet(B), A \cap B = {}
               PROVE  /\ IsFiniteSet(A \cup B)
                      /\ Cardinality(A \cup B) = Cardinality(A) + Cardinality(B)
    OBVIOUS
  <2>1. /\ IsFiniteSet(A \cup B)
        /\ Cardinality(A \cup B) = Cardinality(A) + Cardinality(B) - Cardinality(A \cap B)
    BY FS_Union
  <2>2. Cardinality(A \cap B) = 0
    BY FS_EmptySet
  <2> QED  BY <2>1, <2>2, FS_CardinalityType
<1>8. Cardinality(Refused) = counters["saturated"] + counters["expired"]
  BY <1>1, <1>2, <1>3, <1>7
<1>9. Cardinality(Admitted) = counters["admitted"]
  <2>1. /\ IsFiniteSet(ended \cup left)
        /\ Cardinality(ended \cup left) = counters["finished"] + counters["abandoned"]
    BY <1>1, <1>2, <1>5, <1>7
  <2>2. Cardinality(Admitted) = Cardinality(ended \cup left) + Cardinality(Owners)
    BY <1>4, <1>5, <1>6, <1>7, <2>1
  <2> QED  BY <1>6, <2>1, <2>2 DEF Sides
<1>10. /\ counters["saturated"] \in Nat /\ counters["expired"] \in Nat
       /\ counters["admitted"] \in Nat
  BY DEF CapacityInv, LineInv, TypeOK, CounterNames
<1>11. Status.totals = counters
  BY DEF Status
<1> QED  BY <1>8, <1>9, <1>10, <1>11 DEF CapacityRejected, CapacityDecisions

\* A ratio of the report is a fraction of what was counted.
LEMMA RatiosAreFractions ==
    ASSUME CapacityInv, CountersBalance,
           NEW ratio \in {RejectionRatio(Status), QueueEntryRatio(Status),
                          ExpirationRatio(Status)}
    PROVE  0 <= ratio.part /\ ratio.part <= ratio.whole
<1> DEFINE a == counters["admitted"]
           b == counters["admitted_from_queue"]
           q == counters["queued"]
           r == counters["saturated"]
           e == counters["expired"]
<1>1. /\ a \in Nat /\ b \in Nat /\ q \in Nat /\ r \in Nat /\ e \in Nat
      /\ counters["cancelled_while_waiting"] \in Nat
      /\ counters["closed_while_waiting"] \in Nat /\ Len(waiters) \in Nat
  BY CapacityTypes DEF CapacityInv, LineInv, TypeOK, CounterNames
<1>2. b <= a /\ e <= q
  BY <1>1 DEF CountersBalance
<1>3. Status.totals = counters
  BY DEF Status
<1>4. /\ RejectionRatio(Status).part = r + e /\ RejectionRatio(Status).whole = a + r + e
      /\ QueueEntryRatio(Status).part = q /\ QueueEntryRatio(Status).whole = (a - b) + q + r
      /\ ExpirationRatio(Status).part = e /\ ExpirationRatio(Status).whole = q
  BY <1>3 DEF RejectionRatio, QueueEntryRatio, ExpirationRatio, Ratio, CapacityRejected,
              CapacityDecisions, OpenAdmissions, DirectAdmitted
<1> HIDE DEF a, b, q, r, e
<1>5. /\ 0 <= r + e /\ r + e <= a + r + e
      /\ 0 <= q /\ q <= (a - b) + q + r
      /\ 0 <= e /\ e <= q
  BY <1>1, <1>2
<1> QED  BY <1>4, <1>5

\* A capacity report tells the truth: of an open bulkhead what a call that comes
\* now would meet, of a closed one whether wait_closed still waits, and its ratios
\* are of real calls; for any load, limit, waiting room and thresholds.
THEOREM DiagnosisIsTrue == Spec => []DiagnosisMatchesAdmission
<1>1. CapacityInv /\ OutcomesCounted /\ CountersBalance => DiagnosisMatchesAdmission
  <2> SUFFICES ASSUME CapacityInv, OutcomesCounted, CountersBalance, NEW limited \in BOOLEAN
               PROVE  LET s == Status
                          report == Findings(s, limited)
                          codes == Codes(report)
                          refuses == ~CanAdmitDirectly /\ Len(waiters) >= WaitingRoom IN
                      /\ ~closed =>
                            /\ CanAdmitDirectly <=>
                                  codes \cap {"ACTIVE_WORK_ABOVE_CAPACITY", "EXECUTION_FULL",
                                              "WAITING_ROOM_FULL"} = {}
                            /\ "WAITING_ROOM_FULL" \in codes <=> refuses /\ WaitingRoom > 0
                            /\ refuses /\ ~(WaitingRoom = 0 /\ in_flight > parallelism)
                                  => RequiresAttention(report)
                      /\ closed => ("CLOSED_WITH_ACTIVE_WORK" \in codes <=> ~drained)
                      /\ CapacityRejected(s) = Cardinality(Refused)
                      /\ CapacityDecisions(s) = Cardinality(Refused) + Cardinality(Admitted)
                      /\ \A ratio \in {RejectionRatio(s), QueueEntryRatio(s),
                                       ExpirationRatio(s)} :
                            0 <= ratio.part /\ ratio.part <= ratio.whole
    BY DEF DiagnosisMatchesAdmission
  <2>1. closed => ("CLOSED_WITH_ACTIVE_WORK" \in Codes(Findings(Status, limited)) <=> ~drained)
    <3> SUFFICES ASSUME closed
                 PROVE  "CLOSED_WITH_ACTIVE_WORK" \in Codes(Findings(Status, limited))
                           <=> ~drained
      OBVIOUS
    <3>1. Status.is_closed
      BY DEF Status
    <3>2. IsDrained(Status) <=> drained
      BY CapacityTypes DEF CapacityInv, DrainExact, IsDrained, Status
    <3> QED  BY <3>1, <3>2, ShutdownOfReport
  <2>2. Sides
    BY DEF CountersBalance, Sides
  <2> QED  BY <2>1, <2>2, OpenReport, DecisionsCounted, RatiosAreFractions
<1> QED  BY <1>1, CapacityAlways, OutcomesAreCounted, CountersAreBalanced, PTL
=============================================================================
