--------------------------- MODULE AdmissionProofs ---------------------------
(***************************************************************************)
(* Theorems about Admission for every finite set of calls, every set of    *)
(* sizes and every waiting room.                                           *)
(***************************************************************************)
EXTENDS Admission, LineProofs

-----------------------------------------------------------------------------
(* The line and the entries.                                               *)

\* The states an entry can be in, by where its call is.
EntryFits(c) ==
    /\ pc[c] \in {"idle", "rejected"} => entry[c] = "none"
    /\ pc[c] \in {"waiting", "expiring"} => entry[c] \in {"WAITING", "ADMITTED", "CLOSED"}
    /\ pc[c] = "expired" => entry[c] \in {"ADMITTED", "EXPIRED", "CLOSED"}
    /\ pc[c] = "cancelling" => entry[c] # "none"
    /\ pc[c] \in {"running", "releasing", "finished"} => entry[c] \in {"none", "ADMITTED"}
    /\ pc[c] = "timed_out" => entry[c] \in {"none", "EXPIRED"}
    /\ pc[c] = "closed" => entry[c] \in {"none", "CLOSED"}
    /\ pc[c] = "cancelled" => entry[c] \notin {"none", "WAITING"}

\* The part of the inductive invariant that speaks of line, entries and control.
LineInv ==
    /\ TypeOK
    /\ IsInjective(waiters)
    /\ \A c \in Calls : entry[c] = "WAITING" <=> c \in ToSet(waiters)
    /\ \A c \in Calls : EntryFits(c)
    /\ closed => waiters = <<>>

LEMMA LineImplies == LineInv => QueueMatchesEntries /\ OutcomeMatchesEntry
<1> SUFFICES ASSUME LineInv PROVE QueueMatchesEntries /\ OutcomeMatchesEntry
  OBVIOUS
<1>1. \A c \in Calls : EntryFits(c)
  BY DEF LineInv
<1>2. OutcomeMatchesEntry
  BY <1>1 DEF EntryFits, OutcomeMatchesEntry
<1>3. \A c \in Calls : entry[c] = "WAITING" => pc[c] \in {"waiting", "expiring", "cancelling"}
  BY <1>1 DEF EntryFits, LineInv, TypeOK, CallStates, Suspended, Settled
<1> QED  BY <1>2, <1>3 DEF LineInv, QueueMatchesEntries, InLine

LEMMA InitLine == Init => LineInv
<1> SUFFICES ASSUME Init PROVE LineInv
  OBVIOUS
<1>1. waiters \in Seq(Calls) /\ Len(waiters) = 0
  BY DEF Init
<1>2. ToSet(waiters) = {} /\ IsInjective(waiters)
  <2> DEFINE s == waiters
  <2>1. s \in Seq(Calls) /\ Len(s) = 0
    BY <1>1
  <2> HIDE DEF s
  <2>2. /\ \A x : x \in ToSet(s) <=> \E i \in 1..Len(s) : s[i] = x
        /\ IsInjective(s) <=> \A i, j \in 1..Len(s) : s[i] = s[j] => i = j
    BY <2>1, ToSetByPosition
  <2>3. ToSet(s) = {} /\ IsInjective(s)
    BY <2>1, <2>2
  <2> QED  BY <2>3 DEF s
<1>3. TypeOK
  <2>1. Len(waiters) <= WaitingRoom
    BY <1>1, AdmissionAssumption
  <2>2. entry \in [Calls -> WaitStates] /\ pc \in [Calls -> CallStates]
    BY DEF Init, WaitStates, CallStates
  <2>3. shut \in [Closers -> CloserStates] /\ counters \in [CounterNames -> Nat]
    BY DEF Init, CloserStates
  <2>4. peaks \in [in_flight : Nat, waiting : Nat]
    BY DEF Init
  <2> QED  BY <1>1, <2>1, <2>2, <2>3, <2>4 DEF Init, TypeOK
<1>4. \A c \in Calls : EntryFits(c) /\ entry[c] # "WAITING"
  BY DEF Init, EntryFits
<1>5. closed => waiters = <<>>
  BY DEF Init
<1> QED  BY <1>2, <1>3, <1>4, <1>5 DEF LineInv

\* A step in which the calls G leave the line with their entries settled as
\* state, in any of the ways the code has: a handoff, an expiry, a cancellation,
\* the admissions of a resize, a close, or nobody at all.
LineMove(G, state) ==
    /\ G \subseteq ToSet(waiters)
    /\ waiters' \in Seq(Calls) /\ Len(waiters') <= Len(waiters)
    /\ IsInjective(waiters')
    /\ ToSet(waiters') = ToSet(waiters) \ G
    /\ entry' = [c \in Calls |-> IF c \in G THEN state ELSE entry[c]]

\* Such a step keeps line, entries and control together: for the calls A that
\* take the step this is to be shown, the others only see their entry admitted
\* or closed.
LEMMA MoveKeepsLine ==
    ASSUME LineInv, TypeOK', NEW G, NEW state, LineMove(G, state),
           state \in {"ADMITTED", "CANCELLED", "EXPIRED", "CLOSED"},
           NEW A,
           \A d \in Calls \ A : pc'[d] = pc[d] /\ (d \in G => state \in {"ADMITTED", "CLOSED"}),
           \A d \in Calls \cap A : EntryFits(d)',
           closed' => waiters' = <<>>
    PROVE  LineInv'
<1>1. \A d \in Calls : entry'[d] = IF d \in G THEN state ELSE entry[d]
  BY DEF LineMove
<1>2. \A d \in Calls : entry[d] = "WAITING" <=> d \in ToSet(waiters)
  BY DEF LineInv
<1>3. \A d \in Calls : entry'[d] = "WAITING" <=> d \in ToSet(waiters')
  BY <1>1, <1>2 DEF LineMove
<1>4. ASSUME NEW d \in Calls PROVE EntryFits(d)'
  <2>1. CASE d \in A
    BY <2>1
  <2>2. CASE d \notin A /\ d \in G
    <3>1. entry[d] = "WAITING" /\ entry'[d] \in {"ADMITTED", "CLOSED"} /\ pc'[d] = pc[d]
      BY <2>2, <1>1, <1>2 DEF LineMove
    <3>2. pc[d] \in {"waiting", "expiring", "cancelling"}
      BY <3>1 DEF LineInv, EntryFits, TypeOK, CallStates, Suspended, Settled
    <3> QED  BY <3>1, <3>2 DEF EntryFits
  <2>3. CASE d \notin A /\ d \notin G
    <3>1. entry'[d] = entry[d] /\ pc'[d] = pc[d] /\ EntryFits(d)
      BY <2>3, <1>1 DEF LineInv
    <3> QED  BY <3>1 DEF EntryFits
  <2> QED  BY <2>1, <2>2, <2>3
<1> QED  BY <1>3, <1>4 DEF LineInv, LineMove

\* Counting n events leaves a function from the counter names to Nat.
LEMMA PlusType ==
    ASSUME counters \in [CounterNames -> Nat], NEW names, NEW n \in Nat
    PROVE  Plus(names, n) \in [CounterNames -> Nat]
BY DEF Plus

\* Nobody leaves.
LEMMA StillLine ==
    ASSUME LineInv, waiters' = waiters, entry' = entry
    PROVE  LineMove({}, "ADMITTED")
<1>1. waiters \in Seq(Calls) /\ Len(waiters) \in Nat /\ entry \in [Calls -> WaitStates]
  BY LenProperties DEF LineInv, TypeOK
<1>2. entry' = [c \in Calls |-> entry[c]]
  BY <1>1
<1> QED  BY <1>1, <1>2 DEF LineInv, LineMove

\* The line gives its head a slot, or only the capacity changes.
LEMMA ReleaseLine ==
    ASSUME LineInv, in_flight > 0, NEW outcome, ReleaseCapacity(outcome)
    PROVE  /\ in_flight' \in Nat /\ drained' \in BOOLEAN
           /\ counters' \in [CounterNames -> Nat]
           /\ \/ waiters' = waiters /\ entry' = entry
              \/ waiters # <<>> /\ LineMove({Head(waiters)}, "ADMITTED")
<1>1. /\ waiters \in Seq(Calls) /\ IsInjective(waiters) /\ Len(waiters) \in Nat
      /\ counters \in [CounterNames -> Nat] /\ in_flight \in Nat /\ drained \in BOOLEAN
      /\ closed \in BOOLEAN /\ entry \in [Calls -> WaitStates]
  BY LenProperties DEF LineInv, TypeOK
<1>2. counters' \in [CounterNames -> Nat]
  BY <1>1, PlusType DEF ReleaseCapacity, Count
<1>3. CASE waiters # <<>> /\ in_flight <= parallelism
  <2>1. /\ waiters' = Tail(waiters)
        /\ entry' = [entry EXCEPT ![Head(waiters)] = "ADMITTED"]
        /\ in_flight' = in_flight /\ drained' = drained
    BY <1>3 DEF ReleaseCapacity
  <2>2. /\ Tail(waiters) \in Seq(Calls) /\ Head(waiters) \in ToSet(waiters)
        /\ Len(Tail(waiters)) = Len(waiters) - 1
        /\ IsInjective(Tail(waiters))
        /\ ToSet(Tail(waiters)) = ToSet(waiters) \ {Head(waiters)}
    BY <1>1, <1>3, TailLine
  <2>3. entry' = [c \in Calls |-> IF c \in {Head(waiters)} THEN "ADMITTED" ELSE entry[c]]
    BY <1>1, <2>1
  <2>4. LineMove({Head(waiters)}, "ADMITTED")
    <3>1. Len(waiters') <= Len(waiters)
      BY <1>1, <2>1, <2>2
    <3>2. /\ {Head(waiters)} \subseteq ToSet(waiters)
          /\ waiters' \in Seq(Calls) /\ IsInjective(waiters')
          /\ ToSet(waiters') = ToSet(waiters) \ {Head(waiters)}
      BY <2>1, <2>2
    <3> QED  BY <3>1, <3>2, <2>3 DEF LineMove
  <2> QED  BY <1>1, <1>2, <1>3, <2>1, <2>4
<1>4. CASE ~(waiters # <<>> /\ in_flight <= parallelism)
  <2>1. waiters' = waiters /\ entry' = entry /\ in_flight' = in_flight - 1
    BY <1>4 DEF ReleaseCapacity
  <2>2. drained' \in BOOLEAN
    BY <1>1, <1>4 DEF ReleaseCapacity, SignalDrained
  <2> QED  BY <1>1, <1>2, <2>1, <2>2
<1> QED  BY <1>3, <1>4

\* One entry leaves the line for a state of its own.
LEMMA LeaveLine ==
    ASSUME LineInv, NEW c \in Calls, NEW state, NEW counter, LeaveQueue(c, state, counter)
    PROVE  LineMove({c}, state) /\ counters' \in [CounterNames -> Nat]
<1>1. /\ waiters \in Seq(Calls) /\ IsInjective(waiters) /\ Len(waiters) \in Nat
      /\ counters \in [CounterNames -> Nat] /\ entry \in [Calls -> WaitStates]
  BY LenProperties DEF LineInv, TypeOK
<1>2. PICK i \in 1..Len(waiters) : waiters[i] = c /\ waiters' = RemoveAt(waiters, i)
  BY DEF LeaveQueue
<1>3. counters' \in [CounterNames -> Nat]
  BY <1>1, PlusType DEF LeaveQueue, Count
<1>4. c \in ToSet(waiters)
  BY <1>1, <1>2, ToSetByPosition
<1>5. /\ waiters' \in Seq(Calls) /\ Len(waiters') = Len(waiters) - 1
      /\ IsInjective(waiters') /\ ToSet(waiters') = ToSet(waiters) \ {c}
  BY <1>1, <1>2, RemoveLine
<1>6. entry' = [d \in Calls |-> IF d \in {c} THEN state ELSE entry[d]]
  BY <1>1 DEF LeaveQueue
<1> QED  BY <1>1, <1>3, <1>4, <1>5, <1>6 DEF LineMove

\* The admissions of a resize to n.
LEMMA AdmitLine ==
    ASSUME LineInv, NEW n \in Sizes, AdmitWaiters(Admissible(n))
    PROVE  /\ Admissible(n) \in 0..Len(waiters)
           /\ LineMove(ToSet(SubSeq(waiters, 1, Admissible(n))), "ADMITTED")
           /\ in_flight' = in_flight + Admissible(n)
           /\ in_flight' \in Nat /\ peaks' \in [in_flight : Nat, waiting : Nat]
           /\ counters' \in [CounterNames -> Nat]
<1> DEFINE k == Admissible(n)
<1>1. /\ waiters \in Seq(Calls) /\ IsInjective(waiters) /\ Len(waiters) \in Nat
      /\ counters \in [CounterNames -> Nat] /\ in_flight \in Nat
      /\ peaks \in [in_flight : Nat, waiting : Nat] /\ n \in Nat
  BY LenProperties, AdmissionAssumption DEF LineInv, TypeOK
<1>2. k \in 0..Len(waiters)
  BY <1>1 DEF Admissible, Smaller
<1>3. /\ waiters' = SubSeq(waiters, k + 1, Len(waiters))
      /\ entry' = [c \in Calls |->
                      IF c \in ToSet(SubSeq(waiters, 1, k)) THEN "ADMITTED" ELSE entry[c]]
      /\ in_flight' = in_flight + k
      /\ peaks' = [peaks EXCEPT !.in_flight = Larger(@, in_flight + k)]
      /\ counters' = Plus({"admitted", "admitted_from_queue"}, k)
  BY DEF AdmitWaiters, AllocateCapacity
<1> HIDE DEF k
<1>4. /\ SubSeq(waiters, k + 1, Len(waiters)) \in Seq(Calls)
      /\ Len(SubSeq(waiters, k + 1, Len(waiters))) = Len(waiters) - k
      /\ IsInjective(SubSeq(waiters, k + 1, Len(waiters)))
      /\ ToSet(SubSeq(waiters, 1, k)) \subseteq ToSet(waiters)
      /\ ToSet(SubSeq(waiters, k + 1, Len(waiters))) = ToSet(waiters) \ ToSet(SubSeq(waiters, 1, k))
  BY <1>1, <1>2, DropLine
<1>5. Len(waiters') <= Len(waiters)
  BY <1>1, <1>2, <1>3, <1>4
<1>6. LineMove(ToSet(SubSeq(waiters, 1, k)), "ADMITTED")
  BY <1>3, <1>4, <1>5 DEF LineMove
<1>7. in_flight' \in Nat /\ counters' \in [CounterNames -> Nat]
  BY <1>1, <1>2, <1>3, PlusType
<1>8. peaks' \in [in_flight : Nat, waiting : Nat]
  BY <1>1, <1>2, <1>3 DEF Larger
<1> QED  BY <1>2, <1>3, <1>6, <1>7, <1>8 DEF k

\* Closing sends the whole line away.
LEMMA CloseLine ==
    ASSUME LineInv, DoClose
    PROVE  /\ LineMove(ToSet(waiters), "CLOSED") /\ waiters' = <<>>
           /\ closed' = TRUE /\ drained' \in BOOLEAN
           /\ counters' \in [CounterNames -> Nat]
<1>1. /\ waiters \in Seq(Calls) /\ Len(waiters) \in Nat /\ closed \in BOOLEAN
      /\ counters \in [CounterNames -> Nat] /\ entry \in [Calls -> WaitStates]
      /\ drained \in BOOLEAN
  BY LenProperties DEF LineInv, TypeOK
<1>2. waiters' = <<>>
  BY DEF LineInv, DoClose
<1>3. <<>> \in Seq(Calls) /\ Len(<<>>) = 0 /\ ToSet(<<>>) = {} /\ IsInjective(<<>>)
  <2> DEFINE e == <<>>
  <2>1. e \in Seq(Calls) /\ Len(e) = 0
    OBVIOUS
  <2> HIDE DEF e
  <2>2. /\ \A x : x \in ToSet(e) <=> \E i \in 1..Len(e) : e[i] = x
        /\ IsInjective(e) <=> \A i, j \in 1..Len(e) : e[i] = e[j] => i = j
    BY <2>1, ToSetByPosition
  <2>3. ToSet(e) = {} /\ IsInjective(e)
    BY <2>1, <2>2
  <2> QED  BY <2>1, <2>3 DEF e
<1>4. entry' = [c \in Calls |-> IF c \in ToSet(waiters) THEN "CLOSED" ELSE entry[c]]
  <2>1. CASE closed
    <3>1. waiters = <<>> /\ entry' = entry
      BY <2>1 DEF DoClose, LineInv
    <3> QED  BY <3>1, <1>1, <1>3
  <2>2. CASE ~closed
    BY <2>2 DEF DoClose
  <2> QED  BY <2>1, <2>2
<1>5. closed' = TRUE /\ drained' \in BOOLEAN /\ counters' \in [CounterNames -> Nat]
  <2>1. CASE closed
    BY <1>1, <2>1 DEF DoClose, drainVars
  <2>2. CASE ~closed
    <3>1. /\ closed' = TRUE
          /\ counters' = Plus({"closed_while_waiting"}, Len(waiters))
          /\ SignalDrained(TRUE, in_flight)
      BY <2>2 DEF DoClose
    <3>2. drained' \in BOOLEAN
      BY <1>1, <3>1 DEF SignalDrained
    <3> QED  BY <1>1, <3>1, <3>2, PlusType
  <2> QED  BY <2>1, <2>2
<1>6. LineMove(ToSet(waiters), "CLOSED")
  <2>1. waiters' \in Seq(Calls) /\ Len(waiters') <= Len(waiters) /\ IsInjective(waiters')
    BY <1>1, <1>2, <1>3
  <2>2. ToSet(waiters') = ToSet(waiters) \ ToSet(waiters)
    BY <1>2, <1>3
  <2> QED  BY <1>4, <2>1, <2>2 DEF LineMove
<1> QED  BY <1>2, <1>5, <1>6

-----------------------------------------------------------------------------
(* Every step keeps the line invariant.                                    *)

\* A step that leaves line and entries alone and moves one call.
LEMMA StepKeepsLine ==
    ASSUME LineInv, TypeOK', waiters' = waiters, entry' = entry, closed' = closed,
           NEW c \in Calls, NEW state, pc' = [pc EXCEPT ![c] = state], EntryFits(c)'
    PROVE  LineInv'
<1>1. LineMove({}, "ADMITTED")
  BY StillLine
<1>2. \A d \in Calls \ {c} : pc'[d] = pc[d] /\ (d \in {} => "ADMITTED" \in {"ADMITTED", "CLOSED"})
  BY DEF LineInv, TypeOK
<1>3. closed' => waiters' = <<>>
  BY DEF LineInv
<1>4. \A d \in Calls \cap {c} : EntryFits(d)'
  OBVIOUS
<1> QED  BY <1>1, <1>2, <1>3, <1>4, MoveKeepsLine

\* A step that leaves line, entries and calls alone.
LEMMA IdleKeepsLine ==
    ASSUME LineInv, TypeOK', waiters' = waiters, entry' = entry, closed' = closed, pc' = pc
    PROVE  LineInv'
BY DEF LineInv, EntryFits

\* A call moves; nothing but the sets of control has to be typed anew.
LEMMA GotoType ==
    ASSUME TypeOK, NEW c \in Calls, NEW state \in CallStates, Goto(c, state)
    PROVE  /\ pc' \in [Calls -> CallStates]
           /\ pc'[c] = state
           /\ \A d \in Calls \ {c} : pc'[d] = pc[d]
           /\ interrupted \ {c} \subseteq {d \in Calls : pc'[d] \in {"expiring", "expired"}}
           /\ state \in {"expiring", "expired"} \/ pc[c] \notin {"expiring", "expired"} =>
                 interrupted \subseteq {d \in Calls : pc'[d] \in {"expiring", "expired"}}
BY DEF TypeOK, Goto

\* The states a call can go to.
LEMMA StateNames ==
    /\ \A x \in {"waiting", "expiring", "expired", "cancelling", "running", "releasing",
                 "finished", "rejected", "timed_out", "closed", "cancelled"} : x \in CallStates
    /\ \A x \in {"WAITING", "ADMITTED", "CANCELLED", "EXPIRED", "CLOSED"} : x \in WaitStates
BY DEF CallStates, Suspended, Settled, WaitStates

LEMMA CountType ==
    ASSUME TypeOK, NEW names, Count(names)
    PROVE  counters' \in [CounterNames -> Nat]
BY PlusType DEF TypeOK, Count

\* Entering: refusals, a direct grant, and joining the line.
LEMMA EnterKeepsLine ==
    ASSUME LineInv, NEW c \in Calls, Enter(c) \/ EnterNow(c)
    PROVE  LineInv'
<1>1. TypeOK /\ pc[c] = "idle" /\ entry[c] = "none" /\ c \notin ToSet(waiters)
  BY DEF LineInv, EntryFits, Enter, EnterNow
<1>2. /\ closed' = closed /\ drained' = drained /\ interrupted' = interrupted /\ shut' = shut
  BY DEF Enter, EnterNow, drainVars
<1>3. \/ RejectClosed(c) \/ RejectElapsed(c) \/ GrantDirectly(c) \/ RejectSaturated(c)
      \/ \E limited \in BOOLEAN : JoinQueue(c, limited)
  BY DEF Enter, EnterNow
<1>4. CASE RejectClosed(c) \/ RejectElapsed(c) \/ RejectSaturated(c)
  <2>1. /\ waiters' = waiters /\ entry' = entry /\ timed' = timed
        /\ parallelism' = parallelism /\ in_flight' = in_flight /\ peaks' = peaks
    BY <1>4 DEF RejectClosed, RejectElapsed, RejectSaturated, queueVars, capacityVars
  <2>2. PICK state \in {"closed", "timed_out", "rejected"} : Goto(c, state)
    BY <1>4 DEF RejectClosed, RejectElapsed, RejectSaturated
  <2>3. counters' \in [CounterNames -> Nat]
    BY <1>1, <1>4, CountType DEF RejectClosed, RejectElapsed, RejectSaturated
  <2>4. TypeOK'
    BY <1>1, <1>2, <2>1, <2>2, <2>3, GotoType, StateNames DEF TypeOK
  <2>5. EntryFits(c)'
    BY <1>1, <2>1, <2>2 DEF EntryFits, Goto, TypeOK
  <2> QED  BY <1>2, <2>1, <2>2, <2>4, <2>5, StepKeepsLine DEF Goto
<1>5. CASE GrantDirectly(c)
  <2>1. /\ waiters' = waiters /\ entry' = entry /\ timed' = timed
        /\ parallelism' = parallelism /\ Goto(c, "running")
        /\ in_flight' = in_flight + 1
        /\ peaks' = [peaks EXCEPT !.in_flight = Larger(@, in_flight + 1)]
    BY <1>5 DEF GrantDirectly, AllocateCapacity, queueVars
  <2>2. counters' \in [CounterNames -> Nat]
    BY <1>1, <1>5, CountType DEF GrantDirectly
  <2>3. in_flight' \in Nat /\ peaks' \in [in_flight : Nat, waiting : Nat]
    BY <1>1, <2>1 DEF Larger, TypeOK
  <2>4. TypeOK'
    BY <1>1, <1>2, <2>1, <2>2, <2>3, GotoType, StateNames DEF TypeOK
  <2>5. EntryFits(c)'
    BY <1>1, <2>1 DEF EntryFits, Goto, TypeOK
  <2> QED  BY <1>2, <2>1, <2>4, <2>5, StepKeepsLine DEF Goto
<1>6. ASSUME NEW limited \in BOOLEAN, JoinQueue(c, limited) PROVE LineInv'
  <2>1. /\ waiters' = Append(waiters, c) /\ entry' = [entry EXCEPT ![c] = "WAITING"]
        /\ parallelism' = parallelism /\ in_flight' = in_flight /\ Goto(c, "waiting")
        /\ peaks' = [peaks EXCEPT !.waiting = Larger(@, Len(waiters) + 1)]
        /\ timed' \subseteq timed \cup {c}
        /\ Len(waiters) < WaitingRoom /\ ~closed
    BY <1>6 DEF JoinQueue, capacityVars
  <2>2. counters' \in [CounterNames -> Nat]
    BY <1>1, <1>6, CountType DEF JoinQueue
  <2>3. /\ waiters' \in Seq(Calls) /\ Len(waiters') = Len(waiters) + 1
        /\ ToSet(waiters') = ToSet(waiters) \cup {c} /\ IsInjective(waiters')
    <3>1. waiters \in Seq(Calls) /\ IsInjective(waiters)
      BY DEF LineInv, TypeOK
    <3> QED  BY <3>1, <1>1, <2>1, AppendLine
  <2>4. Len(waiters) \in Nat /\ Len(waiters') <= WaitingRoom
    BY <1>1, <2>1, <2>3, LenProperties, AdmissionAssumption DEF TypeOK
  <2>5. peaks' \in [in_flight : Nat, waiting : Nat]
    <3>1. Larger(peaks.waiting, Len(waiters) + 1) \in Nat
      BY <1>1, <2>4 DEF Larger, TypeOK
    <3> QED  BY <1>1, <2>1, <3>1 DEF TypeOK
  <2>6. entry' \in [Calls -> WaitStates]
    BY <1>1, <2>1, StateNames DEF TypeOK
  <2>7. TypeOK'
    BY <1>1, <1>2, <2>1, <2>2, <2>3, <2>4, <2>5, <2>6, GotoType, StateNames DEF TypeOK
  <2>8. \A d \in Calls : EntryFits(d)'
    BY <1>1, <2>1 DEF LineInv, EntryFits, Goto, TypeOK
  <2>9. \A d \in Calls : entry'[d] = "WAITING" <=> d \in ToSet(waiters')
    BY <1>1, <2>1, <2>3 DEF LineInv, TypeOK
  <2> QED  BY <1>2, <2>1, <2>3, <2>7, <2>8, <2>9 DEF LineInv
<1> QED  BY <1>3, <1>4, <1>5, <1>6

\* The waiting room: results, timers, cancellations, and their cleanup tasks.
LEMMA WaitKeepsLine ==
    ASSUME LineInv, NEW c \in Calls,
           Resume(c) \/ Timeout(c) \/ ResumeExpired(c) \/ Cancel(c) \/ FinishBody(c)
    PROVE  LineInv'
<1>1. /\ waiters' = waiters /\ entry' = entry /\ timed' = timed
      /\ parallelism' = parallelism /\ in_flight' = in_flight
      /\ closed' = closed /\ drained' = drained
      /\ shut' = shut /\ counters' = counters /\ peaks' = peaks
  BY DEF Resume, Timeout, ResumeExpired, Cancel, FinishBody, OnlyControl, queueVars,
         capacityVars, drainVars
<1>2. TypeOK /\ EntryFits(c)
  BY DEF LineInv
<1>3. ASSUME NEW state \in CallStates, Goto(c, state), EntryFits(c)',
             interrupted' \subseteq {d \in Calls : pc'[d] \in {"expiring", "expired"}}
      PROVE  LineInv'
  <2>1. TypeOK'
    BY <1>1, <1>2, <1>3, GotoType DEF TypeOK
  <2> QED  BY <1>1, <1>3, <2>1, StepKeepsLine DEF Goto
<1>4. CASE Resume(c)
  <2>1. PICK state \in {"running", "closed"} :
           /\ Goto(c, state) /\ pc[c] = "waiting" /\ interrupted' = interrupted
           /\ entry[c] = IF state = "running" THEN "ADMITTED" ELSE "CLOSED"
    BY <1>4 DEF Resume
  <2>2. EntryFits(c)'
    BY <1>1, <1>2, <2>1, GotoType, StateNames DEF EntryFits
  <2> QED  BY <1>2, <1>3, <2>1, <2>2, GotoType, StateNames
<1>5. CASE Timeout(c)
  <2>1. Goto(c, "expiring") /\ pc[c] = "waiting" /\ interrupted' = interrupted
    BY <1>5 DEF Timeout
  <2>2. EntryFits(c)'
    BY <1>1, <1>2, <2>1, GotoType, StateNames DEF EntryFits
  <2> QED  BY <1>2, <1>3, <2>1, <2>2, GotoType, StateNames
<1>6. CASE ResumeExpired(c)
  <2>1. PICK state \in {"cancelling", "running", "closed", "timed_out"} :
           /\ Goto(c, state) /\ pc[c] = "expired" /\ interrupted' = interrupted \ {c}
           /\ state = "running" => entry[c] = "ADMITTED"
           /\ state = "closed" => entry[c] = "CLOSED"
           /\ state = "timed_out" => entry[c] = "EXPIRED"
    BY <1>6 DEF ResumeExpired
  <2>2. EntryFits(c)'
    BY <1>1, <1>2, <2>1, GotoType, StateNames DEF EntryFits
  <2> QED  BY <1>2, <1>3, <2>1, <2>2, GotoType, StateNames
<1>7. CASE Cancel(c)
  <2>1. CASE pc[c] = "waiting" /\ Goto(c, "cancelling") /\ interrupted' = interrupted
    <3>1. EntryFits(c)'
      BY <1>1, <1>2, <2>1, GotoType, StateNames DEF EntryFits
    <3> QED  BY <1>2, <1>3, <2>1, <3>1, GotoType, StateNames
  <2>2. CASE /\ pc[c] \in {"expiring", "expired"} /\ pc' = pc
             /\ interrupted' = interrupted \cup {c}
    <3>1. TypeOK'
      BY <1>1, <1>2, <2>2 DEF TypeOK
    <3> QED  BY <1>1, <2>2, <3>1, IdleKeepsLine
  <2> QED  BY <1>7, <2>1, <2>2 DEF Cancel
<1>8. CASE FinishBody(c)
  <2>1. Goto(c, "releasing") /\ pc[c] = "running" /\ interrupted' = interrupted
    BY <1>8 DEF FinishBody
  <2>2. EntryFits(c)'
    BY <1>1, <1>2, <2>1, GotoType, StateNames DEF EntryFits
  <2> QED  BY <1>2, <1>3, <2>1, <2>2, GotoType, StateNames
<1> QED  BY <1>4, <1>5, <1>6, <1>7, <1>8

\* The cleanup tasks of expiry, cancellation and release.
LEMMA CleanupKeepsLine ==
    ASSUME LineInv, NEW c \in Calls, RunExpire(c) \/ RunCancel(c) \/ RunRelease(c)
    PROVE  LineInv'
<1>1. /\ timed' = timed /\ parallelism' = parallelism /\ closed' = closed
      /\ interrupted' = interrupted /\ shut' = shut /\ peaks' = peaks
  BY DEF RunExpire, RunCancel, RunRelease, capacityVars, drainVars
<1>2. /\ TypeOK /\ EntryFits(c) /\ waiters \in Seq(Calls) /\ Len(waiters) \in Nat
      /\ entry \in [Calls -> WaitStates]
  BY LenProperties DEF LineInv, TypeOK
<1>3. PICK next \in {"expired", "cancelled", "finished"} :
         /\ Goto(c, next)
         /\ pc[c] \in {"expiring", "cancelling", "releasing"}
         /\ next = "expired" <=> pc[c] = "expiring"
         /\ next = "cancelled" <=> pc[c] = "cancelling"
         /\ next = "finished" <=> pc[c] = "releasing"
  BY DEF RunExpire, RunCancel, RunRelease
<1>4. /\ pc' \in [Calls -> CallStates] /\ pc'[c] = next
      /\ \A d \in Calls \ {c} : pc'[d] = pc[d]
      /\ interrupted' \subseteq {d \in Calls : pc'[d] \in {"expiring", "expired"}}
  BY <1>1, <1>2, <1>3, GotoType, StateNames
<1>5. ASSUME NEW G, NEW s \in {"ADMITTED", "CANCELLED", "EXPIRED", "CLOSED"}, LineMove(G, s),
             in_flight' \in Nat, drained' \in BOOLEAN, counters' \in [CounterNames -> Nat],
             \A d \in G \ {c} : s = "ADMITTED",
             c \notin G => entry[c] # "WAITING",
             c \in G => \/ next = "expired" /\ s = "EXPIRED"
                        \/ next = "cancelled" /\ s = "CANCELLED"
      PROVE  LineInv'
  <2>1. entry' \in [Calls -> WaitStates]
    BY <1>2, <1>5, StateNames DEF LineMove
  <2>2. waiters' \in Seq(Calls) /\ Len(waiters') <= WaitingRoom
    <3>1. Len(waiters') \in Nat /\ WaitingRoom \in Nat /\ Len(waiters) <= WaitingRoom
      BY <1>2, <1>5, LenProperties, AdmissionAssumption DEF LineMove, TypeOK
    <3> QED  BY <1>2, <1>5, <3>1 DEF LineMove
  <2>3. TypeOK'
    BY <1>1, <1>2, <1>4, <1>5, <2>1, <2>2 DEF TypeOK
  <2>4. EntryFits(c)'
    BY <1>2, <1>3, <1>4, <1>5 DEF EntryFits, LineMove
  <2> DEFINE A == {c}
  <2>5. \A d \in Calls \ A : pc'[d] = pc[d] /\ (d \in G => s \in {"ADMITTED", "CLOSED"})
    BY <1>4, <1>5
  <2>6. closed' => waiters' = <<>>
    <3>1. ASSUME closed PROVE waiters' = <<>>
      <4>1. Len(waiters) = 0 /\ Len(waiters') \in Nat /\ waiters' \in Seq(Calls)
        BY <1>5, <3>1, LenProperties DEF LineInv, LineMove
      <4> QED  BY <4>1, <1>5, EmptySeq DEF LineMove
    <3> QED  BY <1>1, <3>1
  <2>7. \A d \in Calls \cap A : EntryFits(d)'
    BY <2>4
  <2>8. LineMove(G, s) /\ s \in {"ADMITTED", "CANCELLED", "EXPIRED", "CLOSED"}
    BY <1>5
  <2> HIDE DEF A
  <2> QED  BY <2>3, <2>5, <2>6, <2>7, <2>8, MoveKeepsLine
<1>6. ASSUME waiters' = waiters, entry' = entry, entry[c] # "WAITING",
             in_flight' \in Nat, drained' \in BOOLEAN, counters' \in [CounterNames -> Nat]
      PROVE  LineInv'
  <2>1. LineMove({}, "ADMITTED")
    BY <1>6, StillLine
  <2> QED  BY <2>1, <1>5, <1>6
<1>7. ASSUME NEW outcome, ReleaseCapacity(outcome), in_flight > 0, entry[c] # "WAITING"
      PROVE  LineInv'
  <2>1. /\ in_flight' \in Nat /\ drained' \in BOOLEAN /\ counters' \in [CounterNames -> Nat]
        /\ \/ waiters' = waiters /\ entry' = entry
           \/ waiters # <<>> /\ LineMove({Head(waiters)}, "ADMITTED")
    BY <1>7, ReleaseLine
  <2>2. CASE waiters' = waiters /\ entry' = entry
    BY <1>6, <1>7, <2>1, <2>2
  <2>3. CASE waiters # <<>> /\ LineMove({Head(waiters)}, "ADMITTED")
    <3>1. c # Head(waiters)
      BY <1>7, <2>3 DEF LineMove, LineInv
    <3> QED  BY <1>5, <1>7, <2>1, <2>3, <3>1
  <2> QED  BY <2>1, <2>2, <2>3
<1>8. CASE RunExpire(c)
  <2>1. in_flight' \in Nat /\ drained' \in BOOLEAN
    BY <1>2, <1>8 DEF RunExpire, capacityVars, drainVars, TypeOK
  <2>2. CASE entry[c] = "WAITING" /\ LeaveQueue(c, "EXPIRED", "expired")
    <3>1. LineMove({c}, "EXPIRED") /\ counters' \in [CounterNames -> Nat]
      BY <2>2, LeaveLine
    <3>2. next = "expired"
      BY <1>3, <1>8 DEF RunExpire
    <3> QED  BY <1>5, <2>1, <3>1, <3>2
  <2>3. CASE entry[c] # "WAITING" /\ UNCHANGED <<waiters, entry, counters>>
    BY <1>2, <1>6, <2>1, <2>3 DEF TypeOK
  <2> QED  BY <1>8, <2>2, <2>3 DEF RunExpire
<1>9. CASE RunCancel(c)
  <2>1. next = "cancelled"
    BY <1>3, <1>9 DEF RunCancel
  <2>2. CASE /\ entry[c] = "WAITING" /\ LeaveQueue(c, "CANCELLED", "cancelled_while_waiting")
             /\ UNCHANGED <<in_flight, drained>>
    <3>1. LineMove({c}, "CANCELLED") /\ counters' \in [CounterNames -> Nat]
      BY <2>2, LeaveLine
    <3>2. in_flight' \in Nat /\ drained' \in BOOLEAN
      BY <1>2, <2>2 DEF TypeOK
    <3> QED  BY <1>5, <2>1, <3>1, <3>2
  <2>3. CASE entry[c] = "ADMITTED" /\ in_flight > 0 /\ ReleaseCapacity("abandoned")
    BY <1>7, <2>3
  <2>4. CASE /\ entry[c] \notin {"WAITING", "ADMITTED"}
             /\ UNCHANGED <<waiters, entry, in_flight, drained, counters>>
    BY <1>2, <1>6, <2>4 DEF TypeOK
  <2> QED  BY <1>9, <2>2, <2>3, <2>4 DEF RunCancel
<1>10. CASE RunRelease(c)
  <2>1. pc[c] = "releasing" /\ in_flight > 0 /\ ReleaseCapacity("finished")
    BY <1>10 DEF RunRelease
  <2>2. entry[c] # "WAITING"
    BY <1>2, <2>1 DEF EntryFits
  <2> QED  BY <1>7, <2>1, <2>2
<1> QED  BY <1>8, <1>9, <1>10

\* Resizing and closing.
LEMMA ShutdownKeepsLine ==
    ASSUME LineInv,
           \/ \E n \in Sizes : Resize(n)
           \/ Close
           \/ \E s \in Closers : RunClose(s)
    PROVE  LineInv'
<1>1. /\ timed' = timed /\ pc' = pc /\ interrupted' = interrupted
  BY DEF Resize, Close, RunClose
<1>2. /\ TypeOK /\ waiters \in Seq(Calls) /\ Len(waiters) \in Nat
      /\ Len(waiters) <= WaitingRoom /\ WaitingRoom \in Nat
  BY LenProperties, AdmissionAssumption DEF LineInv, TypeOK
<1>3. ASSUME NEW G, NEW s \in {"ADMITTED", "CLOSED"}, LineMove(G, s),
             parallelism' \in Sizes, in_flight' \in Nat, drained' \in BOOLEAN,
             closed' \in BOOLEAN, shut' \in [Closers -> CloserStates],
             counters' \in [CounterNames -> Nat], peaks' \in [in_flight : Nat, waiting : Nat],
             closed' => waiters' = <<>>
      PROVE  LineInv'
  <2>1. entry' \in [Calls -> WaitStates]
    BY <1>2, <1>3, StateNames DEF LineMove, TypeOK
  <2>2. waiters' \in Seq(Calls) /\ Len(waiters') <= WaitingRoom
    <3>1. Len(waiters') \in Nat
      BY <1>3, LenProperties DEF LineMove
    <3> QED  BY <1>2, <1>3, <3>1 DEF LineMove
  <2>3. TypeOK'
    BY <1>1, <1>2, <1>3, <2>1, <2>2 DEF TypeOK
  <2>4. \A d \in Calls \ {} : pc'[d] = pc[d] /\ (d \in G => s \in {"ADMITTED", "CLOSED"})
    BY <1>1
  <2>5. \A d \in Calls \cap {} : EntryFits(d)'
    OBVIOUS
  <2>6. /\ LineMove(G, s) /\ s \in {"ADMITTED", "CANCELLED", "EXPIRED", "CLOSED"}
        /\ (closed' => waiters' = <<>>)
    BY <1>3
  <2> QED  BY <2>3, <2>4, <2>5, <2>6, MoveKeepsLine
<1>4. ASSUME NEW n \in Sizes, Resize(n) PROVE LineInv'
  <2>1. /\ parallelism' = n /\ closed' = closed /\ drained' = drained /\ shut' = shut
        /\ ~closed /\ AdmitWaiters(Admissible(n))
    BY <1>4 DEF Resize, drainVars
  <2>2. /\ LineMove(ToSet(SubSeq(waiters, 1, Admissible(n))), "ADMITTED")
        /\ in_flight' \in Nat /\ peaks' \in [in_flight : Nat, waiting : Nat]
        /\ counters' \in [CounterNames -> Nat]
    BY <2>1, AdmitLine
  <2>3. closed' \in BOOLEAN /\ drained' \in BOOLEAN /\ shut' \in [Closers -> CloserStates]
    BY <1>2, <2>1 DEF TypeOK
  <2> QED  BY <1>3, <2>1, <2>2, <2>3
<1>5. ASSUME DoClose, parallelism' = parallelism, in_flight' = in_flight, peaks' = peaks,
             shut' \in [Closers -> CloserStates]
      PROVE  LineInv'
  <2>1. /\ LineMove(ToSet(waiters), "CLOSED") /\ waiters' = <<>>
        /\ closed' = TRUE /\ drained' \in BOOLEAN
        /\ counters' \in [CounterNames -> Nat]
    BY <1>5, CloseLine
  <2>2. /\ parallelism' \in Sizes /\ in_flight' \in Nat
        /\ peaks' \in [in_flight : Nat, waiting : Nat]
    BY <1>2, <1>5 DEF TypeOK
  <2> QED  BY <1>3, <1>5, <2>1, <2>2
<1>6. ASSUME Close PROVE LineInv'
  BY <1>2, <1>5, <1>6 DEF Close, capacityVars, TypeOK
<1>7. ASSUME NEW s \in Closers, RunClose(s) PROVE LineInv'
  <2>1. shut' \in [Closers -> CloserStates]
    BY <1>2, <1>7 DEF RunClose, ShutStep, CloserStates, TypeOK
  <2> QED  BY <1>5, <1>7, <2>1 DEF RunClose, capacityVars
<1> QED  BY <1>4, <1>6, <1>7

\* The closers' own steps, the end, and stuttering.
LEMMA CloserKeepsLine ==
    ASSUME LineInv,
           \/ \E s \in Closers :
                 CloseAndWait(s) \/ WaitClosed(s) \/ ReturnClosed(s) \/ CancelCloser(s)
           \/ Terminated
           \/ UNCHANGED vars
    PROVE  LineInv'
<1>1. /\ parallelism' = parallelism /\ waiters' = waiters /\ in_flight' = in_flight
      /\ closed' = closed /\ drained' = drained /\ entry' = entry /\ timed' = timed
      /\ pc' = pc /\ interrupted' = interrupted /\ counters' = counters /\ peaks' = peaks
  BY DEF CloseAndWait, WaitClosed, ReturnClosed, CancelCloser, Terminated, vars,
         queueVars, capacityVars, drainVars
<1>2. shut' \in [Closers -> CloserStates]
  <2>1. shut \in [Closers -> CloserStates]
    BY DEF LineInv, TypeOK
  <2>2. CASE shut' = shut
    BY <2>1, <2>2
  <2>3. ASSUME NEW s \in Closers,
               CloseAndWait(s) \/ WaitClosed(s) \/ ReturnClosed(s) \/ CancelCloser(s)
        PROVE  shut' \in [Closers -> CloserStates]
    BY <2>1, <2>3 DEF CloseAndWait, WaitClosed, ReturnClosed, CancelCloser, ShutStep, CloserStates
  <2> QED  BY <2>2, <2>3 DEF Terminated, vars
<1>3. TypeOK'
  BY <1>1, <1>2 DEF LineInv, TypeOK
<1> QED  BY <1>1, <1>3, IdleKeepsLine

LEMMA LineStep == LineInv /\ [Next]_vars => LineInv'
<1> SUFFICES ASSUME LineInv, [Next]_vars PROVE LineInv'
  OBVIOUS
<1>1. ASSUME NEW c \in Calls, Enter(c) \/ EnterNow(c) PROVE LineInv'
  BY <1>1, EnterKeepsLine
<1>2. ASSUME NEW c \in Calls,
             Resume(c) \/ Timeout(c) \/ ResumeExpired(c) \/ Cancel(c) \/ FinishBody(c)
      PROVE  LineInv'
  BY <1>2, WaitKeepsLine
<1>3. ASSUME NEW c \in Calls, RunExpire(c) \/ RunCancel(c) \/ RunRelease(c) PROVE LineInv'
  BY <1>3, CleanupKeepsLine
<1>4. ASSUME \/ \E n \in Sizes : Resize(n)
             \/ Close
             \/ \E s \in Closers : RunClose(s)
      PROVE  LineInv'
  BY <1>4, ShutdownKeepsLine
<1>5. ASSUME \/ \E s \in Closers :
                   CloseAndWait(s) \/ WaitClosed(s) \/ ReturnClosed(s) \/ CancelCloser(s)
             \/ Terminated
             \/ UNCHANGED vars
      PROVE  LineInv'
  BY <1>5, CloserKeepsLine
<1> QED  BY <1>1, <1>2, <1>3, <1>4, <1>5 DEF Next

\* Every variable keeps its type, whatever the calls and the sizes: the waiting
\* room in particular never holds more than waiting_room entries.
THEOREM TypeCorrect == Spec => []TypeOK
<1>1. LineInv => TypeOK
  BY DEF LineInv
<1> QED  BY <1>1, InitLine, LineStep, PTL DEF Spec

\* The deque holds exactly the waiting entries, each once and in a state from
\* which it can be settled, at every moment of every interleaving.
THEOREM QueueConsistent == Spec => []QueueMatchesEntries
BY InitLine, LineStep, LineImplies, PTL DEF Spec

\* What a call is told agrees with what became of its entry.
THEOREM OutcomeConsistent == Spec => []OutcomeMatchesEntry
BY InitLine, LineStep, LineImplies, PTL DEF Spec

=============================================================================
