--------------------------- MODULE CapacityProofs ---------------------------
(***************************************************************************)
(* Theorems about the slots of Admission, for every finite set of calls,   *)
(* every set of sizes and every waiting room: no slot is lost or used      *)
(* twice, nobody waits beside a free slot, the drain is exact, and the     *)
(* coordinator implements Bulkhead.                                        *)
(*                                                                         *)
(* The actions of Admission are first reduced to their effects on the      *)
(* owners of slots and the line; all the theorems follow from these.       *)
(***************************************************************************)
EXTENDS AdmissionProofs

\* Whether c holds a slot.
Owns(c) ==
    \/ pc[c] \in {"running", "releasing"}
    \/ pc[c] \in Suspended /\ entry[c] = "ADMITTED"

LEMMA OwnersAre == \A c : c \in Owners <=> c \in Calls /\ Owns(c)
BY DEF Owners, Owns

LEMMA OwnersFinite == IsFiniteSet(Owners) /\ IsFiniteSet(Owners') /\ Owners \subseteq Calls
<1>1. Owners \in SUBSET Calls /\ Owners' \in SUBSET Calls
  BY DEF Owners
<1> QED  BY <1>1, FS_Subset, AdmissionAssumption

\* Who waits holds no slot yet.
LEMMA WaitingOwnsNothing ==
    ASSUME LineInv, NEW c \in Calls, entry[c] = "WAITING"
    PROVE  c \notin Owners
<1>1. pc[c] \in {"waiting", "expiring", "cancelling"}
  BY DEF LineInv, EntryFits, TypeOK, CallStates, Suspended, Settled
<1> QED  BY <1>1 DEF Owners

\* Of the calls that take no step themselves, exactly those that are handed a
\* slot become owners.
LEMMA OwnersMove ==
    ASSUME LineInv, NEW A, NEW G, NEW state, LineMove(G, state),
           state \in {"ADMITTED", "CANCELLED", "EXPIRED", "CLOSED"},
           \A d \in Calls \ A : pc'[d] = pc[d]
    PROVE  \A d \in Calls \ A :
              d \in Owners' <=> d \in Owners \/ (state = "ADMITTED" /\ d \in G)
<1> SUFFICES ASSUME NEW d \in Calls \ A
             PROVE  d \in Owners' <=> d \in Owners \/ (state = "ADMITTED" /\ d \in G)
  OBVIOUS
<1>1. entry'[d] = IF d \in G THEN state ELSE entry[d]
  BY DEF LineMove
<1>2. CASE d \in G
  <2>1. entry[d] = "WAITING"
    BY <1>2 DEF LineInv, LineMove
  <2>2. d \notin Owners /\ pc[d] \in {"waiting", "expiring", "cancelling"}
    BY <2>1, WaitingOwnsNothing DEF LineInv, EntryFits, TypeOK, CallStates, Suspended, Settled
  <2> QED  BY <1>1, <1>2, <2>2 DEF Owners, Suspended
<1>3. CASE d \notin G
  BY <1>1, <1>3 DEF Owners
<1> QED  BY <1>2, <1>3

-----------------------------------------------------------------------------
(* The effects a step can have on owners, line, capacity and shutdown.     *)

Kept ==
    /\ Owners' = Owners /\ in_flight' = in_flight /\ waiters' = waiters
    /\ parallelism' = parallelism /\ closed' = closed /\ drained' = drained

\* c is admitted at once.
Granted(c) ==
    /\ ~closed /\ CanAdmitDirectly /\ c \notin Owners
    /\ Owners' = Owners \cup {c} /\ in_flight' = in_flight + 1
    /\ waiters' = waiters
    /\ parallelism' = parallelism /\ closed' = closed /\ drained' = drained

\* c joins the line.
Joined(c) ==
    /\ ~closed /\ ~CanAdmitDirectly /\ c \notin Owners /\ c \notin ToSet(waiters)
    /\ waiters' = Append(waiters, c)
    /\ Owners' = Owners /\ in_flight' = in_flight
    /\ parallelism' = parallelism /\ closed' = closed /\ drained' = drained

\* c leaves the line.
Withdrawn(c) ==
    /\ \E i \in 1..Len(waiters) : waiters[i] = c /\ waiters' = RemoveAt(waiters, i)
    /\ Owners' = Owners /\ in_flight' = in_flight
    /\ parallelism' = parallelism /\ closed' = closed /\ drained' = drained

\* The slot of c goes to the head of the line.
Handed(c) ==
    /\ c \in Owners /\ waiters # <<>> /\ in_flight <= parallelism
    /\ Owners' = (Owners \ {c}) \cup {Head(waiters)} /\ in_flight' = in_flight
    /\ waiters' = Tail(waiters)
    /\ parallelism' = parallelism /\ closed' = closed /\ drained' = drained

\* The slot of c is given up.
Returned(c) ==
    /\ c \in Owners /\ ~(waiters # <<>> /\ in_flight <= parallelism)
    /\ Owners' = Owners \ {c} /\ in_flight' = in_flight - 1
    /\ waiters' = waiters
    /\ drained' = (drained \/ (closed /\ in_flight - 1 = 0))
    /\ parallelism' = parallelism /\ closed' = closed

Resized(n) ==
    /\ ~closed /\ parallelism' = n
    /\ Owners' = Owners \cup ToSet(SubSeq(waiters, 1, Admissible(n)))
    /\ waiters' = SubSeq(waiters, Admissible(n) + 1, Len(waiters))
    /\ in_flight' = in_flight + Admissible(n)
    /\ closed' = closed /\ drained' = drained

ShutDown ==
    /\ ~closed /\ closed'
    /\ Owners' = Owners /\ in_flight' = in_flight /\ waiters' = <<>>
    /\ drained' = (drained \/ in_flight = 0)
    /\ parallelism' = parallelism

StepEffect ==
    \/ Kept
    \/ \E c \in Calls :
          Granted(c) \/ Joined(c) \/ Withdrawn(c) \/ Handed(c) \/ Returned(c)
    \/ \E n \in Sizes : Resized(n)
    \/ ShutDown

\* A step of c alone that changes neither line nor entries leaves the other
\* owners as they are.
LEMMA OwnStep ==
    ASSUME LineInv, NEW c \in Calls, NEW state, Goto(c, state),
           waiters' = waiters, entry' = entry
    PROVE  /\ pc'[c] = state
           /\ Owns(c)' => Owners' = Owners \cup {c}
           /\ ~Owns(c)' => Owners' = Owners \ {c}
<1>1. pc'[c] = state /\ \A d \in Calls \ {c} : pc'[d] = pc[d]
  BY DEF Goto, LineInv, TypeOK
<1>2. \A d \in Calls \ {c} : d \in Owners' <=> d \in Owners
  BY <1>1 DEF Owners
<1>3. c \in Owners' <=> Owns(c)'
  BY OwnersAre DEF Owners, Owns
<1> QED  BY <1>1, <1>2, <1>3, OwnersFinite DEF Owners

LEMMA EnterEffect ==
    ASSUME LineInv, NEW c \in Calls, Enter(c) \/ EnterNow(c)
    PROVE  StepEffect
<1>1. /\ pc[c] = "idle" /\ entry[c] = "none" /\ c \notin ToSet(waiters)
      /\ closed' = closed /\ drained' = drained
  BY DEF LineInv, EntryFits, Enter, EnterNow, drainVars
<1>2. c \notin Owners
  BY <1>1 DEF Owners, Suspended
<1>3. CASE RejectClosed(c) \/ RejectElapsed(c) \/ RejectSaturated(c)
  <2>1. PICK state \in {"closed", "timed_out", "rejected"} :
           /\ Goto(c, state) /\ waiters' = waiters /\ entry' = entry
           /\ parallelism' = parallelism /\ in_flight' = in_flight
    BY <1>3 DEF RejectClosed, RejectElapsed, RejectSaturated, queueVars, capacityVars
  <2>2. pc'[c] = state /\ (~Owns(c)' => Owners' = Owners \ {c})
    BY <2>1, OwnStep
  <2>3. Owners' = Owners
    BY <2>2, <1>2 DEF Owns, Suspended
  <2> QED  BY <1>1, <2>1, <2>3 DEF StepEffect, Kept
<1>4. CASE GrantDirectly(c)
  <2>1. /\ Goto(c, "running") /\ waiters' = waiters /\ entry' = entry
        /\ parallelism' = parallelism /\ in_flight' = in_flight + 1
        /\ ~closed /\ CanAdmitDirectly
    BY <1>4 DEF GrantDirectly, AllocateCapacity, queueVars
  <2>2. pc'[c] = "running" /\ (Owns(c)' => Owners' = Owners \cup {c})
    BY <2>1, OwnStep
  <2>3. Owners' = Owners \cup {c}
    BY <2>2 DEF Owns
  <2> QED  BY <1>1, <1>2, <2>1, <2>3 DEF StepEffect, Granted
<1>5. ASSUME NEW limited \in BOOLEAN, JoinQueue(c, limited) PROVE StepEffect
  <2>1. /\ waiters' = Append(waiters, c) /\ entry' = [entry EXCEPT ![c] = "WAITING"]
        /\ Goto(c, "waiting") /\ ~closed /\ ~CanAdmitDirectly
        /\ parallelism' = parallelism /\ in_flight' = in_flight
    BY <1>5 DEF JoinQueue, capacityVars
  <2>2. /\ pc'[c] = "waiting" /\ entry'[c] = "WAITING"
        /\ \A d \in Calls \ {c} : pc'[d] = pc[d] /\ entry'[d] = entry[d]
    BY <2>1 DEF Goto, LineInv, TypeOK
  <2>3. Owners' = Owners
    BY <1>2, <2>2 DEF Owners
  <2> QED  BY <1>1, <1>2, <2>1, <2>3 DEF StepEffect, Joined
<1> QED  BY <1>3, <1>4, <1>5 DEF Enter, EnterNow

\* Results, timers and cancellations of the wait, and the end of a body, move
\* a call without moving a slot.
LEMMA WaitEffect ==
    ASSUME LineInv, NEW c \in Calls,
           Resume(c) \/ Timeout(c) \/ ResumeExpired(c) \/ Cancel(c) \/ FinishBody(c)
    PROVE  StepEffect
<1>1. /\ waiters' = waiters /\ entry' = entry /\ parallelism' = parallelism
      /\ in_flight' = in_flight /\ closed' = closed /\ drained' = drained
  BY DEF Resume, Timeout, ResumeExpired, Cancel, FinishBody, OnlyControl, queueVars,
         capacityVars, drainVars
<1>2. SUFFICES Owners' = Owners
  BY <1>1 DEF StepEffect, Kept
<1>3. CASE pc' = pc
  BY <1>1, <1>3 DEF Owners
<1>4. ASSUME NEW state, Goto(c, state), Owns(c) <=> Owns(c)' PROVE Owners' = Owners
  BY <1>1, <1>4, OwnStep, OwnersAre
<1>5. CASE Resume(c) \/ Timeout(c) \/ ResumeExpired(c)
  <2>1. PICK state \in {"cancelling", "running", "closed", "timed_out", "expiring"} :
           /\ Goto(c, state) /\ pc[c] \in {"waiting", "expired"}
           /\ state = "running" => entry[c] = "ADMITTED"
           /\ state = "closed" => entry[c] = "CLOSED"
           /\ state = "timed_out" => entry[c] = "EXPIRED"
    BY <1>5 DEF Resume, Timeout, ResumeExpired
  <2>2. pc'[c] = state
    BY <1>1, <2>1, OwnStep
  <2>3. Owns(c) <=> Owns(c)'
    BY <1>1, <2>1, <2>2 DEF Owns, Suspended
  <2> QED  BY <1>4, <2>1, <2>3
<1>6. CASE Cancel(c) /\ ~(pc' = pc)
  <2>1. Goto(c, "cancelling") /\ pc[c] = "waiting"
    BY <1>6 DEF Cancel
  <2>2. pc'[c] = "cancelling"
    BY <1>1, <2>1, OwnStep
  <2>3. Owns(c) <=> Owns(c)'
    BY <1>1, <2>1, <2>2 DEF Owns, Suspended
  <2> QED  BY <1>4, <2>1, <2>3
<1>7. CASE FinishBody(c)
  <2>1. Goto(c, "releasing") /\ pc[c] = "running"
    BY <1>7 DEF FinishBody
  <2>2. pc'[c] = "releasing"
    BY <1>1, <2>1, OwnStep
  <2>3. Owns(c) <=> Owns(c)'
    BY <2>1, <2>2 DEF Owns
  <2> QED  BY <1>4, <2>1, <2>3
<1> QED  BY <1>3, <1>5, <1>6, <1>7

\* The slot of c is handed on or given up, in the step that ends c's use of it.
LEMMA ReleaseEffect ==
    ASSUME LineInv, NEW c \in Calls, NEW state \in {"finished", "cancelled"}, Goto(c, state),
           c \in Owners, in_flight > 0, entry[c] # "WAITING",
           NEW outcome, ReleaseCapacity(outcome),
           parallelism' = parallelism, closed' = closed
    PROVE  StepEffect
<1>1. /\ waiters \in Seq(Calls) /\ IsInjective(waiters) /\ Len(waiters) \in Nat
      /\ pc'[c] = state /\ \A d \in Calls \ {c} : pc'[d] = pc[d]
  BY LenProperties DEF LineInv, TypeOK, Goto
<1>2. c \notin Owners'
  BY <1>1 DEF Owners, Suspended
<1>3. CASE waiters # <<>> /\ in_flight <= parallelism
  <2>1. waiters' = Tail(waiters) /\ in_flight' = in_flight /\ drained' = drained
    BY <1>3 DEF ReleaseCapacity
  <2>2. Head(waiters) \in ToSet(waiters) /\ Len(Tail(waiters)) = Len(waiters) - 1
    BY <1>1, <1>3, TailLine
  <2>3. waiters' # waiters
    BY <1>1, <2>1, <2>2
  <2>4. LineMove({Head(waiters)}, "ADMITTED")
    BY <2>3, ReleaseLine
  <2>5. \A d \in Calls \ {c} : d \in Owners' <=> d \in Owners \/ d = Head(waiters)
    <3>1. "ADMITTED" \in {"ADMITTED", "CANCELLED", "EXPIRED", "CLOSED"}
      OBVIOUS
    <3>2. \A d \in Calls \ {c} :
             d \in Owners' <=> d \in Owners \/ ("ADMITTED" = "ADMITTED" /\ d \in {Head(waiters)})
      BY <1>1, <2>4, <3>1, OwnersMove, Zenon
    <3> QED  BY <3>2
  <2>6. Head(waiters) \in Calls /\ Head(waiters) # c
    BY <1>1, <2>2, ToSetByPosition DEF LineInv
  <2>7. Owners' = (Owners \ {c}) \cup {Head(waiters)}
    BY <1>2, <2>5, <2>6, OwnersFinite DEF Owners
  <2> QED  BY <1>3, <2>1, <2>7 DEF StepEffect, Handed
<1>4. CASE ~(waiters # <<>> /\ in_flight <= parallelism)
  <2>1. /\ waiters' = waiters /\ entry' = entry /\ in_flight' = in_flight - 1
        /\ drained' = (drained \/ (closed /\ in_flight - 1 = 0))
    BY <1>4 DEF ReleaseCapacity, SignalDrained
  <2>2. ~Owns(c)'
    BY <1>2 DEF Owners, Owns
  <2>3. Owners' = Owners \ {c}
    BY <2>1, <2>2, OwnStep
  <2>4. Returned(c)
    BY <1>4, <2>1, <2>3 DEF Returned
  <2> QED  BY <2>4 DEF StepEffect
<1> QED  BY <1>3, <1>4

\* c leaves the line in the step that settles its entry.
LEMMA LeaveEffect ==
    ASSUME LineInv, NEW c \in Calls, NEW state \in {"expired", "cancelled"}, Goto(c, state),
           entry[c] = "WAITING",
           NEW to \in {"EXPIRED", "CANCELLED"}, NEW counter, LeaveQueue(c, to, counter),
           in_flight' = in_flight, parallelism' = parallelism,
           closed' = closed, drained' = drained
    PROVE  StepEffect
<1>1. pc'[c] = state /\ \A d \in Calls \ {c} : pc'[d] = pc[d]
  BY DEF LineInv, TypeOK, Goto
<1>2. LineMove({c}, to)
  BY LeaveLine
<1>3. entry'[c] = to
  BY <1>2 DEF LineMove
<1>4. c \notin Owners /\ c \notin Owners'
  BY <1>1, <1>3, WaitingOwnsNothing DEF Owners, Suspended
<1>5. \A d \in Calls \ {c} : d \in Owners' <=> d \in Owners
  BY <1>1, <1>2, OwnersMove
<1>6. Owners' = Owners
  BY <1>4, <1>5 DEF Owners
<1>7. Withdrawn(c)
  BY <1>6 DEF Withdrawn, LeaveQueue
<1> QED  BY <1>7 DEF StepEffect

\* The cleanup tasks.
LEMMA CleanupEffect ==
    ASSUME LineInv, NEW c \in Calls, RunExpire(c) \/ RunCancel(c) \/ RunRelease(c)
    PROVE  StepEffect
<1>1. EntryFits(c) /\ parallelism' = parallelism /\ closed' = closed
  BY DEF LineInv, RunExpire, RunCancel, RunRelease, capacityVars, drainVars
<1>2. ASSUME NEW state, Goto(c, state), state \in {"expired", "cancelled"},
             pc[c] \in {"expiring", "cancelling"},
             waiters' = waiters, entry' = entry, in_flight' = in_flight, drained' = drained,
             state = "cancelled" => entry[c] # "ADMITTED"
      PROVE  StepEffect
  <2>1. /\ pc'[c] = state
        /\ Owns(c)' => Owners' = Owners \cup {c}
        /\ ~Owns(c)' => Owners' = Owners \ {c}
    BY <1>2, OwnStep
  <2>2. Owns(c) <=> Owns(c)'
    BY <1>2, <2>1 DEF Owns, Suspended
  <2>3. Owners' = Owners
    BY <2>1, <2>2, OwnersAre
  <2> QED  BY <1>1, <1>2, <2>3 DEF StepEffect, Kept
<1>3. CASE RunExpire(c)
  <2>1. /\ pc[c] = "expiring" /\ Goto(c, "expired")
        /\ in_flight' = in_flight /\ drained' = drained
    BY <1>3 DEF RunExpire, capacityVars, drainVars
  <2>2. CASE entry[c] = "WAITING" /\ LeaveQueue(c, "EXPIRED", "expired")
    BY <1>1, <2>1, <2>2, LeaveEffect
  <2>3. CASE waiters' = waiters /\ entry' = entry
    BY <1>2, <2>1, <2>3
  <2> QED  BY <1>3, <2>2, <2>3 DEF RunExpire
<1>4. CASE RunCancel(c)
  <2>1. pc[c] = "cancelling" /\ Goto(c, "cancelled")
    BY <1>4 DEF RunCancel
  <2>2. CASE /\ entry[c] = "WAITING" /\ LeaveQueue(c, "CANCELLED", "cancelled_while_waiting")
             /\ UNCHANGED <<in_flight, drained>>
    BY <1>1, <2>1, <2>2, LeaveEffect
  <2>3. CASE entry[c] = "ADMITTED" /\ in_flight > 0 /\ ReleaseCapacity("abandoned")
    <3>1. c \in Owners
      BY <2>1, <2>3 DEF Owners, Suspended
    <3>2. entry[c] # "WAITING"
      BY <2>3
    <3> QED  BY <1>1, <2>1, <2>3, <3>1, <3>2, ReleaseEffect
  <2>4. CASE /\ entry[c] \notin {"WAITING", "ADMITTED"}
             /\ UNCHANGED <<waiters, entry, in_flight, drained, counters>>
    BY <1>2, <2>1, <2>4
  <2> QED  BY <1>4, <2>2, <2>3, <2>4 DEF RunCancel
<1>5. CASE RunRelease(c)
  <2>1. pc[c] = "releasing" /\ in_flight > 0 /\ Goto(c, "finished") /\ ReleaseCapacity("finished")
    BY <1>5 DEF RunRelease
  <2>2. c \in Owners /\ entry[c] # "WAITING"
    BY <1>1, <2>1 DEF Owners, EntryFits
  <2> QED  BY <1>1, <2>1, <2>2, ReleaseEffect
<1> QED  BY <1>3, <1>4, <1>5

\* Resizing, closing, and the steps of closers.
LEMMA ControlEffect ==
    ASSUME LineInv,
           \/ \E n \in Sizes : Resize(n)
           \/ Close
           \/ \E s \in Closers :
                 \/ CloseAndWait(s) \/ RunClose(s) \/ WaitClosed(s)
                 \/ ReturnClosed(s) \/ CancelCloser(s)
           \/ Terminated
           \/ UNCHANGED vars
    PROVE  StepEffect
<1>1. pc' = pc
  BY DEF Resize, Close, CloseAndWait, RunClose, WaitClosed, ReturnClosed, CancelCloser,
         Terminated, vars
<1>2. waiters \in Seq(Calls) /\ ToSet(waiters) \subseteq Calls
  BY ToSetByPosition DEF LineInv, TypeOK
<1>3. ASSUME NEW n \in Sizes, Resize(n) PROVE StepEffect
  <2>1. /\ parallelism' = n /\ closed' = closed /\ drained' = drained /\ ~closed
        /\ AdmitWaiters(Admissible(n))
    BY <1>3 DEF Resize, drainVars
  <2>2. /\ LineMove(ToSet(SubSeq(waiters, 1, Admissible(n))), "ADMITTED")
        /\ in_flight' = in_flight + Admissible(n)
        /\ waiters' = SubSeq(waiters, Admissible(n) + 1, Len(waiters))
    BY <2>1, AdmitLine DEF AdmitWaiters
  <2>3. ToSet(SubSeq(waiters, 1, Admissible(n))) \subseteq Calls
    BY <1>2, <2>2 DEF LineMove
  <2>4. \A d \in Calls \ {} :
           d \in Owners' <=> d \in Owners \/ d \in ToSet(SubSeq(waiters, 1, Admissible(n)))
    <3>1. \A d \in Calls \ {} : pc'[d] = pc[d]
      BY <1>1
    <3> QED  BY <2>2, <3>1, OwnersMove
  <2>5. Owners' = Owners \cup ToSet(SubSeq(waiters, 1, Admissible(n)))
    BY <2>3, <2>4, OwnersFinite DEF Owners
  <2>6. Resized(n)
    BY <2>1, <2>2, <2>5 DEF Resized
  <2> QED  BY <2>6 DEF StepEffect
<1>4. ASSUME DoClose, in_flight' = in_flight, parallelism' = parallelism PROVE StepEffect
  <2>1. LineMove(ToSet(waiters), "CLOSED") /\ waiters' = <<>> /\ closed' = TRUE
    BY <1>4, CloseLine
  <2>2. \A d \in Calls \ {} : pc'[d] = pc[d]
    BY <1>1
  <2>3. \A d \in Calls \ {} : d \in Owners' <=> d \in Owners
    BY <2>1, <2>2, OwnersMove
  <2>4. Owners' = Owners
    BY <2>3 DEF Owners
  <2>5. CASE closed
    BY <1>4, <2>1, <2>4, <2>5 DEF DoClose, drainVars, StepEffect, Kept
  <2>6. CASE ~closed
    <3>1. ShutDown
      BY <1>4, <2>1, <2>4, <2>6 DEF DoClose, SignalDrained, ShutDown
    <3> QED  BY <3>1 DEF StepEffect
  <2> QED  BY <2>5, <2>6
<1>5. ASSUME NEW s \in Closers, RunClose(s) PROVE StepEffect
  BY <1>4, <1>5 DEF RunClose, capacityVars
<1>6. CASE Close
  BY <1>4, <1>6 DEF Close, capacityVars
<1>7. ASSUME \/ \E s \in Closers :
                   CloseAndWait(s) \/ WaitClosed(s) \/ ReturnClosed(s) \/ CancelCloser(s)
             \/ Terminated
             \/ UNCHANGED vars
      PROVE  StepEffect
  <2>1. /\ parallelism' = parallelism /\ waiters' = waiters /\ in_flight' = in_flight
        /\ closed' = closed /\ drained' = drained /\ entry' = entry
    BY <1>7 DEF CloseAndWait, WaitClosed, ReturnClosed, CancelCloser, Terminated, vars,
               queueVars, capacityVars, drainVars
  <2>2. Owners' = Owners
    BY <1>1, <2>1 DEF Owners
  <2> QED  BY <2>1, <2>2 DEF StepEffect, Kept
<1> QED  BY <1>3, <1>5, <1>6, <1>7

LEMMA EveryStepEffect == LineInv /\ [Next]_vars => StepEffect
<1> SUFFICES ASSUME LineInv, [Next]_vars PROVE StepEffect
  OBVIOUS
<1>1. ASSUME NEW c \in Calls, Enter(c) \/ EnterNow(c) PROVE StepEffect
  BY <1>1, EnterEffect
<1>2. ASSUME NEW c \in Calls,
             Resume(c) \/ Timeout(c) \/ ResumeExpired(c) \/ Cancel(c) \/ FinishBody(c)
      PROVE  StepEffect
  BY <1>2, WaitEffect
<1>3. ASSUME NEW c \in Calls, RunExpire(c) \/ RunCancel(c) \/ RunRelease(c) PROVE StepEffect
  BY <1>3, CleanupEffect
<1>4. ASSUME \/ \E n \in Sizes : Resize(n)
             \/ Close
             \/ \E s \in Closers :
                   \/ CloseAndWait(s) \/ RunClose(s) \/ WaitClosed(s)
                   \/ ReturnClosed(s) \/ CancelCloser(s)
             \/ Terminated
             \/ UNCHANGED vars
      PROVE  StepEffect
  BY <1>4, ControlEffect
<1> QED  BY <1>1, <1>2, <1>3, <1>4 DEF Next

-----------------------------------------------------------------------------
(* The slot invariant.                                                     *)

\* The inductive invariant: nobody waits beside a free slot is needed for the
\* count, and the count for the drain.
CapacityInv ==
    /\ LineInv
    /\ SlotAccounting
    /\ WorkConserving
    /\ DrainExact

LEMMA InitCapacity == Init => CapacityInv
<1> SUFFICES ASSUME Init PROVE CapacityInv
  OBVIOUS
<1>1. Owners = {}
  BY DEF Init, Owners, Suspended
<1> QED  BY <1>1, InitLine, FS_EmptySet DEF Init, CapacityInv, SlotAccounting, WorkConserving, DrainExact

\* The numbers of a step, as facts of arithmetic.
LEMMA CapacityTypes ==
    ASSUME CapacityInv
    PROVE  /\ in_flight \in Nat /\ parallelism \in Nat /\ parallelism > 0
           /\ waiters \in Seq(Calls) /\ IsInjective(waiters) /\ Len(waiters) \in Nat
           /\ ToSet(waiters) \subseteq Calls /\ ToSet(waiters) \cap Owners = {}
           /\ (waiters = <<>> <=> Len(waiters) = 0)
           /\ IsFiniteSet(Owners) /\ in_flight = Cardinality(Owners)
           /\ closed \in BOOLEAN /\ drained \in BOOLEAN
           /\ (closed => waiters = <<>>)
<1>1. /\ in_flight \in Nat /\ parallelism \in Nat /\ parallelism > 0
      /\ waiters \in Seq(Calls) /\ IsInjective(waiters) /\ Len(waiters) \in Nat
      /\ closed \in BOOLEAN /\ drained \in BOOLEAN
  BY LenProperties, AdmissionAssumption DEF CapacityInv, LineInv, TypeOK
<1>2. ToSet(waiters) \subseteq Calls
  BY <1>1, ToSetByPosition
<1>3. ToSet(waiters) \cap Owners = {}
  BY <1>2, WaitingOwnsNothing DEF CapacityInv, LineInv
<1>4. waiters = <<>> <=> Len(waiters) = 0
  BY <1>1, EmptySeq
<1> QED  BY <1>1, <1>2, <1>3, <1>4, OwnersFinite DEF CapacityInv, SlotAccounting, LineInv

\* A resize to n serves the line: k of the line become owners.
LEMMA ResizeCount ==
    ASSUME CapacityInv, NEW n \in Sizes, Resized(n)
    PROVE  /\ Admissible(n) \in 0..Len(waiters)
           /\ Cardinality(Owners') = in_flight + Admissible(n)
           /\ waiters' # <<>> => in_flight' >= n
<1> DEFINE k == Admissible(n)
           first == SubSeq(waiters, 1, k)
           rest == SubSeq(waiters, k + 1, Len(waiters))
<1>1. n \in Nat
  BY AdmissionAssumption
<1>2. k \in 0..Len(waiters)
  BY <1>1, CapacityTypes DEF Admissible, Smaller
<1>3. /\ first \in Seq(Calls) /\ Len(first) = k /\ IsInjective(first)
      /\ ToSet(first) \subseteq ToSet(waiters) /\ Len(rest) = Len(waiters) - k
  <2> HIDE DEF k
  <2> QED  BY <1>2, CapacityTypes, DropLine
<1>4. Owners' = Owners \cup ToSet(first) /\ waiters' = rest /\ in_flight' = in_flight + k
  BY DEF Resized
<1>5. k < Len(waiters) => in_flight + k >= n
  BY <1>1, CapacityTypes DEF Admissible, Smaller
<1> HIDE DEF k, first, rest
<1>6. IsFiniteSet(ToSet(first)) /\ Cardinality(ToSet(first)) = k
  BY <1>3, LineCardinality
<1>7. Owners \cap ToSet(first) = {}
  BY <1>3, CapacityTypes
<1>8. Cardinality(Owners') = in_flight + k
  <2>1. /\ IsFiniteSet(Owners) /\ Cardinality(Owners) = in_flight
        /\ Cardinality({}) = 0 /\ in_flight \in Nat /\ k \in Nat
    BY <1>2, CapacityTypes, FS_EmptySet
  <2>2. Cardinality(Owners \cup ToSet(first)) =
           Cardinality(Owners) + Cardinality(ToSet(first)) - Cardinality(Owners \cap ToSet(first))
    BY <1>6, <2>1, FS_Union
  <2>3. Cardinality(Owners \cap ToSet(first)) = 0
    BY <1>7, <2>1, Zenon
  <2>4. Cardinality(Owners') = Cardinality(Owners \cup ToSet(first))
    BY <1>4, Zenon
  <2> QED  BY <1>6, <2>1, <2>2, <2>3, <2>4
<1>9. waiters' # <<>> => in_flight' >= n
  <2>1. ASSUME k = Len(waiters) PROVE waiters' = <<>>
    <3>1. SubSeq(waiters, Len(waiters) + 1, Len(waiters)) = <<>>
      BY CapacityTypes, SubSeqProperties
    <3> QED  BY <1>4, <2>1, <3>1 DEF rest
  <2> QED  BY <1>2, <1>4, <1>5, <2>1, CapacityTypes
<1> QED  BY <1>2, <1>8, <1>9 DEF k

LEMMA CapacityStep == CapacityInv /\ [Next]_vars => CapacityInv'
<1> SUFFICES ASSUME CapacityInv, [Next]_vars PROVE CapacityInv'
  OBVIOUS
<1>1. LineInv' /\ StepEffect
  BY LineStep, EveryStepEffect DEF CapacityInv
<1>2. SUFFICES SlotAccounting' /\ WorkConserving' /\ DrainExact'
  BY <1>1 DEF CapacityInv
<1>3. CASE Kept
  BY <1>3 DEF Kept, CapacityInv, SlotAccounting, WorkConserving, DrainExact
<1>4. ASSUME NEW c \in Calls, Granted(c)
      PROVE  SlotAccounting' /\ WorkConserving' /\ DrainExact'
  <2>1. Cardinality(Owners') = in_flight + 1
    BY <1>4, CapacityTypes, FS_AddElement DEF Granted
  <2> QED  BY <1>4, <2>1, CapacityTypes
           DEF Granted, CanAdmitDirectly, CapacityInv, SlotAccounting, WorkConserving, DrainExact
<1>5. ASSUME NEW c \in Calls, Joined(c)
      PROVE  SlotAccounting' /\ WorkConserving' /\ DrainExact'
  <2>1. in_flight >= parallelism
    BY <1>5, CapacityTypes DEF Joined, CanAdmitDirectly, CapacityInv, WorkConserving
  <2> QED  BY <1>5, <2>1, CapacityTypes
           DEF Joined, CapacityInv, SlotAccounting, WorkConserving, DrainExact
<1>6. ASSUME NEW c \in Calls, Withdrawn(c)
      PROVE  SlotAccounting' /\ WorkConserving' /\ DrainExact'
  <2>1. waiters # <<>>
    BY <1>6, CapacityTypes DEF Withdrawn
  <2> QED  BY <1>6, <2>1 DEF Withdrawn, CapacityInv, SlotAccounting, WorkConserving, DrainExact
<1>7. ASSUME NEW c \in Calls, Handed(c)
      PROVE  SlotAccounting' /\ WorkConserving' /\ DrainExact'
  <2>1. Head(waiters) \in ToSet(waiters)
    BY <1>7, CapacityTypes, TailLine DEF Handed
  <2>2. Head(waiters) \notin Owners
    BY <2>1, CapacityTypes
  <2>3. Cardinality(Owners \ {c}) = in_flight - 1 /\ IsFiniteSet(Owners \ {c})
    BY <1>7, CapacityTypes, FS_RemoveElement DEF Handed
  <2>4. Cardinality(Owners') = (in_flight - 1) + 1
    BY <1>7, <2>2, <2>3, FS_AddElement DEF Handed
  <2> QED  BY <1>7, <2>4, CapacityTypes
           DEF Handed, CapacityInv, SlotAccounting, WorkConserving, DrainExact
<1>8. ASSUME NEW c \in Calls, Returned(c)
      PROVE  SlotAccounting' /\ WorkConserving' /\ DrainExact'
  <2>1. Cardinality(Owners') = in_flight - 1
    BY <1>8, CapacityTypes, FS_RemoveElement DEF Returned
  <2>2. in_flight # 0
    BY <1>8, CapacityTypes, FS_EmptySet DEF Returned
  <2> QED  BY <1>8, <2>1, <2>2, CapacityTypes
           DEF Returned, CapacityInv, SlotAccounting, WorkConserving, DrainExact
<1>9. ASSUME NEW n \in Sizes, Resized(n)
      PROVE  SlotAccounting' /\ WorkConserving' /\ DrainExact'
  <2>1. /\ Cardinality(Owners') = in_flight'
        /\ waiters' # <<>> => in_flight' >= parallelism'
    BY <1>9, ResizeCount DEF Resized
  <2> QED  BY <1>9, <2>1
           DEF Resized, CapacityInv, SlotAccounting, WorkConserving, DrainExact
<1>10. CASE ShutDown
  BY <1>10, CapacityTypes
     DEF ShutDown, CapacityInv, SlotAccounting, WorkConserving, DrainExact
<1> QED  BY <1>1, <1>3, <1>4, <1>5, <1>6, <1>7, <1>8, <1>9, <1>10 DEF StepEffect

LEMMA CapacityAlways == Spec => []CapacityInv
BY InitCapacity, CapacityStep, PTL DEF Spec

-----------------------------------------------------------------------------
(* Theorems.                                                               *)

\* No slot is lost or used twice: in_flight counts the calls that hold a slot,
\* for any number of calls that race over handoff, expiry and cancellation.
THEOREM SlotsAccounted == Spec => []SlotAccounting
BY CapacityAlways, PTL DEF CapacityInv

\* Nobody ever waits beside a free slot.
THEOREM WorkIsConserved == Spec => []WorkConserving
BY CapacityAlways, PTL DEF CapacityInv

\* The drained event is set exactly when the bulkhead is closed and empty.
THEOREM DrainIsExact == Spec => []DrainExact
BY CapacityAlways, PTL DEF CapacityInv

\* No RuntimeError that guards an assumption of the coordinator is raised.
THEOREM AssumptionsHold == Spec => []NeverRaises
<1>1. CapacityInv => NeverRaises
  <2> SUFFICES ASSUME CapacityInv PROVE NeverRaises
    OBVIOUS
  <2>1. ASSUME NEW c \in Calls, pc[c] = "releasing" \/ (pc[c] \in Suspended /\ entry[c] = "ADMITTED")
        PROVE  in_flight > 0
    <3>1. c \in Owners
      BY <2>1 DEF Owners
    <3>2. in_flight # 0
      BY <3>1, CapacityTypes, FS_EmptySet
    <3> QED  BY <3>2, CapacityTypes
  <2>2. ASSUME NEW c \in Calls PROVE EntryFits(c) /\ (entry[c] = "WAITING" => InLine(c))
    BY DEF CapacityInv, LineInv, InLine
  <2> QED  BY <2>1, <2>2 DEF NeverRaises, EntryFits, CapacityInv, LineInv
<1> QED  BY <1>1, CapacityAlways, PTL

\* Who returned from close_and_wait or wait_closed saw an empty bulkhead, and
\* it stays empty.
THEOREM ReturnIsSafe == Spec => []ReturnedMeansEmpty
<1> DEFINE Told == \A s \in Closers : shut[s] = "returned" => drained
<1>1. Init => Told
  BY DEF Init
<1>2. CapacityInv /\ Told /\ [Next]_vars => Told'
  <2> SUFFICES ASSUME CapacityInv, Told, [Next]_vars, NEW s \in Closers, shut'[s] = "returned"
               PROVE  drained'
    OBVIOUS
  <2>1. drained => drained'
    <3>1. StepEffect
      BY EveryStepEffect DEF CapacityInv
    <3> QED  BY <3>1 DEF StepEffect, Kept, Granted, Joined, Withdrawn, Handed, Returned,
                         Resized, ShutDown
  <2>2. CASE shut' = shut
    BY <2>1, <2>2
  <2>3. ASSUME NEW t \in Closers, ReturnClosed(t) PROVE drained
    BY <2>3 DEF ReturnClosed
  <2>4. ASSUME NEW t \in Closers,
               CloseAndWait(t) \/ RunClose(t) \/ WaitClosed(t) \/ CancelCloser(t)
        PROVE  drained
    <3>1. PICK state \in {"closing", "waiting", "cancelled", "interrupted"} :
             shut' = [shut EXCEPT ![t] = state]
      BY <2>4 DEF CloseAndWait, RunClose, WaitClosed, CancelCloser, ShutStep
    <3>2. shut[s] = "returned"
      BY <3>1 DEF CapacityInv, LineInv, TypeOK
    <3> QED  BY <3>2
  <2>5. \/ shut' = shut
        \/ \E t \in Closers : ReturnClosed(t)
        \/ \E t \in Closers :
              CloseAndWait(t) \/ RunClose(t) \/ WaitClosed(t) \/ CancelCloser(t)
    BY DEF Next, vars, Enter, EnterNow, Resume, Timeout, RunExpire, ResumeExpired, Cancel,
           RunCancel, FinishBody, RunRelease, Resize, Close, Terminated, OnlyControl
  <2> QED  BY <2>1, <2>2, <2>3, <2>4, <2>5
<1>3. CapacityInv /\ Told => ReturnedMeansEmpty
  <2> SUFFICES ASSUME CapacityInv, drained PROVE closed /\ Owners = {} /\ waiters = <<>>
    BY DEF ReturnedMeansEmpty
  <2>1. closed /\ in_flight = 0
    BY DEF CapacityInv, DrainExact
  <2> QED  BY <2>1, CapacityTypes, FS_EmptySet
<1> HIDE DEF Told
<1> QED  BY <1>1, <1>2, <1>3, CapacityAlways, PTL DEF Spec

\* A slot is handed out only within the limit in force after the step.
THEOREM LimitIsKept == Spec => AdmittedWithinLimit
<1>1. CapacityInv /\ [Next]_vars => [Owners' \subseteq Owners \/ in_flight' <= parallelism']_vars
  <2> SUFFICES ASSUME CapacityInv, [Next]_vars
               PROVE  Owners' \subseteq Owners \/ in_flight' <= parallelism'
    OBVIOUS
  <2>1. StepEffect
    BY EveryStepEffect DEF CapacityInv
  <2>2. ASSUME NEW c \in Calls, Granted(c) PROVE in_flight' <= parallelism'
    BY <2>2, CapacityTypes DEF Granted, CanAdmitDirectly
  <2>3. ASSUME NEW n \in Sizes, Resized(n)
        PROVE  Owners' \subseteq Owners \/ in_flight' <= parallelism'
    <3>1. n \in Nat
      BY AdmissionAssumption
    <3>2. CASE n <= in_flight
      <4>1. Admissible(n) = 0
        BY <3>2 DEF Admissible
      <4>2. ToSet(SubSeq(waiters, 1, 0)) = {}
        <5>1. SubSeq(waiters, 1, 0) \in Seq(Calls) /\ Len(SubSeq(waiters, 1, 0)) = 0
          BY CapacityTypes, SubSeqProperties
        <5>2. \A x : x \in ToSet(SubSeq(waiters, 1, 0)) <=>
                     \E i \in 1..Len(SubSeq(waiters, 1, 0)) : SubSeq(waiters, 1, 0)[i] = x
          BY <5>1, ToSetByPosition
        <5> QED  BY <5>1, <5>2
      <4> QED  BY <2>3, <4>1, <4>2 DEF Resized
    <3>3. CASE ~(n <= in_flight)
      <4>1. Admissible(n) <= n - in_flight
        BY <3>1, <3>3, CapacityTypes DEF Admissible, Smaller
      <4>2. Admissible(n) \in Nat
        BY <3>1, CapacityTypes DEF Admissible, Smaller
      <4>3. in_flight' = in_flight + Admissible(n) /\ parallelism' = n
        BY <2>3 DEF Resized
      <4>4. in_flight' <= parallelism'
        BY <3>1, <4>1, <4>2, <4>3, CapacityTypes
      <4> QED  BY <4>4
    <3> QED  BY <3>2, <3>3
  <2>4. ASSUME NEW c \in Calls, Handed(c) PROVE in_flight' <= parallelism'
    BY <2>4 DEF Handed
  <2> QED  BY <2>1, <2>2, <2>3, <2>4
           DEF StepEffect, Kept, Joined, Withdrawn, Returned, ShutDown
<1> QED  BY <1>1, CapacityAlways, PTL DEF Spec, AdmittedWithinLimit

\* Closing is final.
THEOREM ClosingIsFinal == Spec => ClosedIsFinal
<1>1. CapacityInv /\ [Next]_vars =>
         [closed => closed' /\ Owners' \subseteq Owners /\ (drained => drained')]_vars
  <2> SUFFICES ASSUME CapacityInv, [Next]_vars, closed
               PROVE  closed' /\ Owners' \subseteq Owners /\ (drained => drained')
    OBVIOUS
  <2>1. StepEffect
    BY EveryStepEffect DEF CapacityInv
  <2>2. waiters = <<>>
    BY CapacityTypes
  <2>3. closed = TRUE /\ drained \in BOOLEAN
    BY CapacityTypes
  <2>4. Kept \/ \E c \in Calls : Withdrawn(c) \/ Returned(c)
    BY <2>1, <2>2, <2>3 DEF StepEffect, Granted, Joined, Handed, Resized, ShutDown
  <2>5. closed' /\ Owners' \subseteq Owners
    BY <2>3, <2>4 DEF Kept, Withdrawn, Returned
  <2>6. drained => drained'
    BY <2>3, <2>4 DEF Kept, Withdrawn, Returned
  <2> QED  BY <2>5, <2>6
<1> QED  BY <1>1, CapacityAlways, PTL DEF Spec, ClosedIsFinal

\* First come, first served: a slot passes a place in line only when the line
\* ahead of it is gone, and never passes the line.
THEOREM LineIsFair == Spec => NoOvertaking
<1> DEFINE Fair ==
       /\ \A i, j \in 1..Len(waiters) :
             i < j /\ waiters[j] \in Owners' => entry'[waiters[i]] # "WAITING"
       /\ \A c \in Owners' \ Owners : ~InLine(c) => waiters = <<>>
<1>1. CapacityInv /\ LineInv' /\ [Next]_vars => [Fair]_vars
  <2> SUFFICES ASSUME CapacityInv, LineInv', [Next]_vars PROVE Fair
    OBVIOUS
  <2>1. StepEffect
    BY EveryStepEffect DEF CapacityInv
  <2>2. /\ Len(waiters) \in Nat
        /\ \A x : x \in ToSet(waiters) <=> \E i \in 1..Len(waiters) : waiters[i] = x
        /\ \A i, j \in 1..Len(waiters) : waiters[i] = waiters[j] => i = j
    BY CapacityTypes, ToSetByPosition
  <2>3. \A i \in 1..Len(waiters) : waiters[i] \in Calls /\ waiters[i] \notin Owners
    BY <2>2, CapacityTypes
  <2>4. CASE Owners' \subseteq Owners
    BY <2>3, <2>4
  <2>5. ASSUME NEW c \in Calls, Granted(c) PROVE Fair
    BY <2>2, <2>5, CapacityTypes DEF Granted, CanAdmitDirectly
  <2>6. ASSUME NEW c \in Calls, Handed(c) PROVE Fair
    <3>1. Owners' = (Owners \ {c}) \cup {waiters[1]} /\ 1 \in 1..Len(waiters)
      BY <2>6, CapacityTypes, HeadTailProperties DEF Handed
    <3>2. \A j \in 1..Len(waiters) : waiters[j] \in Owners' => j = 1
      BY <2>2, <2>3, <3>1
    <3>3. \A d \in Owners' \ Owners : InLine(d)
      BY <2>2, <3>1 DEF InLine
    <3> QED  BY <2>2, <3>2, <3>3
  <2>7. ASSUME NEW n \in Sizes, Resized(n) PROVE Fair
    <3> DEFINE k == Admissible(n)
               first == SubSeq(waiters, 1, k)
    <3>1. k \in 0..Len(waiters)
      BY <2>7, ResizeCount
    <3>2. /\ Owners' = Owners \cup ToSet(first)
          /\ waiters' = SubSeq(waiters, k + 1, Len(waiters))
      BY <2>7 DEF Resized
    <3> HIDE DEF k
    <3>3. /\ first \in Seq(Calls) /\ Len(first) = k /\ ToSet(first) \subseteq ToSet(waiters)
          /\ ToSet(SubSeq(waiters, k + 1, Len(waiters))) = ToSet(waiters) \ ToSet(first)
      BY <3>1, CapacityTypes, DropLine
    <3>4. \A i \in 1..k : first[i] = waiters[i]
      BY <3>1, <2>2, <2>3, SubSeqProperties
    <3> HIDE DEF first
    <3>5. \A x : x \in ToSet(first) <=> \E i \in 1..k : waiters[i] = x
      BY <3>3, <3>4, ToSetByPosition
    <3>6. ASSUME NEW i \in 1..Len(waiters), NEW j \in 1..Len(waiters), i < j,
                 waiters[j] \in Owners'
          PROVE  entry'[waiters[i]] # "WAITING"
      <4>1. j <= k
        BY <2>2, <2>3, <3>1, <3>2, <3>5, <3>6
      <4>2. i \in 1..k
        BY <3>1, <3>6, <4>1, <2>2
      <4>3. waiters[i] \notin ToSet(waiters')
        BY <3>2, <3>3, <3>5, <4>2
      <4> QED  BY <2>3, <4>3 DEF LineInv
    <3>7. \A c \in Owners' \ Owners : InLine(c)
      BY <3>2, <3>3 DEF InLine
    <3> QED  BY <3>6, <3>7
  <2> QED  BY <2>1, <2>4, <2>5, <2>6, <2>7
           DEF StepEffect, Kept, Joined, Withdrawn, Returned, ShutDown
<1>2. CapacityInv /\ CapacityInv' /\ [Next]_vars => [Fair]_vars
  BY <1>1 DEF CapacityInv
<1> QED  BY <1>2, CapacityAlways, PTL DEF Spec, NoOvertaking

\* Of expiry, cancellation, handoff and close, the first decides an entry.
THEOREM EntriesSettleOnce == Spec => SettledOnce
<1> DEFINE Once == \A c \in Calls : entry[c] \notin {"none", "WAITING"} => entry'[c] = entry[c]
<1>1. CapacityInv /\ [Next]_vars => [Once]_vars
  <2> SUFFICES ASSUME CapacityInv, [Next]_vars PROVE Once
    OBVIOUS
  <2>1. LineInv
    BY DEF CapacityInv
  <2>2. CASE entry' = entry
    BY <2>2
  <2>3. ASSUME NEW G, NEW state, LineMove(G, state) PROVE Once
    BY <2>1, <2>3 DEF LineMove, LineInv
  <2>4. ASSUME NEW c \in Calls, NEW limited \in BOOLEAN, JoinQueue(c, limited), pc[c] = "idle"
        PROVE  Once
    BY <2>1, <2>4 DEF JoinQueue, LineInv, EntryFits, TypeOK
  <2>5. ASSUME NEW c \in Calls, Enter(c) \/ EnterNow(c) PROVE Once
    BY <2>2, <2>4, <2>5 DEF Enter, EnterNow, RejectClosed, RejectElapsed, RejectSaturated,
                            GrantDirectly, queueVars
  <2>6. ASSUME NEW outcome, ReleaseCapacity(outcome), in_flight > 0 PROVE Once
    BY <2>1, <2>2, <2>3, <2>6, ReleaseLine
  <2>7. ASSUME NEW c \in Calls, RunExpire(c) \/ RunCancel(c) \/ RunRelease(c) PROVE Once
    BY <2>1, <2>2, <2>3, <2>6, <2>7, LeaveLine DEF RunExpire, RunCancel, RunRelease
  <2>8. ASSUME NEW n \in Sizes, Resize(n) PROVE Once
    BY <2>1, <2>3, <2>8, AdmitLine DEF Resize
  <2>9. CASE DoClose
    BY <2>1, <2>3, <2>9, CloseLine
  <2>10. \/ entry' = entry
         \/ \E c \in Calls : Enter(c) \/ EnterNow(c)
         \/ \E c \in Calls : RunExpire(c) \/ RunCancel(c) \/ RunRelease(c)
         \/ \E n \in Sizes : Resize(n)
         \/ DoClose
    BY DEF Next, vars, Resume, Timeout, ResumeExpired, Cancel, FinishBody, OnlyControl, queueVars,
           Close, CloseAndWait, RunClose, WaitClosed, ReturnClosed, CancelCloser, Terminated
  <2> QED  BY <2>2, <2>5, <2>7, <2>8, <2>9, <2>10
<1> QED  BY <1>1, CapacityAlways, PTL DEF Spec, SettledOnce

-----------------------------------------------------------------------------
(* The coordinator implements Bulkhead.                                    *)

\* The instance of Bulkhead has the library's operators under names of its own.
LEMMA SameOperators ==
    /\ \A S : Abstract!Cardinality(S) = Cardinality(S)
    /\ \A s : Abstract!ToSet(s) = ToSet(s)
    /\ \A s, i : Abstract!RemoveAt(s, i) = RemoveAt(s, i)
<1>1. \A S : Abstract!Cardinality(S) = Cardinality(S)
  BY DEF Abstract!Cardinality, Cardinality
<1>2. \A s : Abstract!ToSet(s) = ToSet(s)
  BY DEF Abstract!ToSet, ToSet
<1>3. \A s, i : Abstract!RemoveAt(s, i) = RemoveAt(s, i)
  BY DEF Abstract!RemoveAt, RemoveAt
<1> QED  BY <1>1, <1>2, <1>3

\* How the abstract bulkhead serves a line q of distinct callers beside owners O:
\* nobody, when no slot is free, and the head alone, when one is.
LEMMA ServeNobody ==
    ASSUME NEW O, NEW q \in Seq(Calls), NEW n \in Nat, Cardinality(O) \in Nat,
           n <= Cardinality(O) \/ q = <<>>,
           Owners' = O, waiters' = q
    PROVE  Abstract!Serve(O, q, n)
<1>1. Len(q) \in Nat /\ (q = <<>> => Len(q) = 0)
  BY LenProperties
<1>2. Abstract!Served(O, q, n) = 0
  BY <1>1, SameOperators DEF Abstract!Served, Abstract!Lesser
<1>3. SubSeq(q, 1, 0) = <<>> /\ SubSeq(q, 0 + 1, Len(q)) = q
  BY <1>1
<1>4. ToSet(<<>>) = {}
  BY EmptyLine
<1> QED  BY <1>2, <1>3, <1>4, Zenon, SameOperators DEF Abstract!Serve

LEMMA ServeHead ==
    ASSUME NEW O, NEW q \in Seq(Calls), IsInjective(q), NEW n \in Nat,
           Cardinality(O) \in Nat, n = Cardinality(O) + 1, q # <<>>,
           Owners' = O \cup {Head(q)}, waiters' = Tail(q)
    PROVE  Abstract!Serve(O, q, n)
<1>1. /\ Len(q) \in Nat /\ Len(q) >= 1
      /\ Tail(q) = SubSeq(q, 2, Len(q)) /\ ToSet(SubSeq(q, 1, 1)) = {Head(q)}
  BY LenProperties, TailLine
<1>2. Abstract!Served(O, q, n) = 1
  BY <1>1, SameOperators DEF Abstract!Served, Abstract!Lesser
<1>3. 1 + 1 = 2
  OBVIOUS
<1> QED  BY <1>1, <1>2, <1>3, Zenon, SameOperators DEF Abstract!Serve

\* Every step of the coordinator is a step of the bulkhead or changes nothing
\* the bulkhead has.
LEMMA StepRefines ==
    ASSUME CapacityInv, TypeOK', [Next]_vars
    PROVE  [Abstract!Next]_(Abstract!bulkhead)
<1> USE DEF Abstract!bulkhead
<1>1. StepEffect
  BY EveryStepEffect DEF CapacityInv
<1>2. CASE Kept
  BY <1>2 DEF Kept
<1>3. ASSUME NEW c \in Calls, Granted(c) PROVE Abstract!Next
  <2>1. /\ waiters = <<>> /\ in_flight < parallelism /\ ~closed /\ ~closed'
        /\ parallelism' = parallelism /\ c \notin Owners
        /\ Owners' = Owners \cup {c} /\ waiters' = <<>>
    BY <1>3 DEF Granted, CanAdmitDirectly
  <2> DEFINE q == Append(waiters, c)
  <2>2. c \notin ToSet(waiters) /\ waiters \in Seq(Calls) /\ IsInjective(waiters)
    <3>1. \A x : x \in ToSet(waiters) <=> \E i \in 1..Len(waiters) : waiters[i] = x
      BY CapacityTypes, ToSetByPosition
    <3> QED  BY <2>1, <3>1, CapacityTypes
  <2>3. /\ q \in Seq(Calls) /\ Len(q) = Len(waiters) + 1 /\ IsInjective(q)
    BY <2>2, AppendLine
  <2>4. q = <<c>> /\ Head(q) = c /\ Tail(q) = <<>> /\ q # <<>>
    BY <2>1
  <2>5. /\ Cardinality(Owners) = in_flight /\ in_flight \in Nat /\ parallelism \in Nat
    BY CapacityTypes
  <2> HIDE DEF q
  <2>6. Abstract!Serve(Owners, q, parallelism)
    <3>1. Abstract!Served(Owners, q, parallelism) = 1
      <4>1. Len(q) = 1
        BY <2>1, <2>3
      <4> QED  BY <2>1, <2>5, <4>1, SameOperators DEF Abstract!Served, Abstract!Lesser
    <3>2. /\ Tail(q) = SubSeq(q, 2, Len(q)) /\ ToSet(SubSeq(q, 1, 1)) = {Head(q)}
      BY <2>3, <2>4, TailLine
    <3>3. 1 + 1 = 2
      OBVIOUS
    <3> QED  BY <2>1, <2>4, <3>1, <3>2, <3>3, Zenon, SameOperators DEF Abstract!Serve
  <2>7. Len(waiters') <= WaitingRoom
    BY DEF TypeOK
  <2>8. Abstract!Arrive(c)
    BY <2>1, <2>2, <2>6, <2>7, SameOperators DEF q, Abstract!Arrive
  <2> QED  BY <2>8 DEF Abstract!Next
<1>4. ASSUME NEW c \in Calls, Joined(c) PROVE Abstract!Next
  <2>1. in_flight >= parallelism
    BY <1>4, CapacityTypes DEF Joined, CanAdmitDirectly, CapacityInv, WorkConserving
  <2>2. Append(waiters, c) \in Seq(Calls)
    BY CapacityTypes
  <2>3. Cardinality(Owners) = in_flight /\ in_flight \in Nat /\ parallelism \in Nat
    BY CapacityTypes
  <2>4. Owners' = Owners /\ waiters' = Append(waiters, c)
    BY <1>4 DEF Joined
  <2>5. Cardinality(Owners) \in Nat /\ parallelism <= Cardinality(Owners)
    BY <2>1, <2>3
  <2>6. Abstract!Serve(Owners, Append(waiters, c), parallelism)
    BY <2>2, <2>3, <2>4, <2>5, ServeNobody
  <2>7. Len(waiters') <= WaitingRoom
    BY DEF TypeOK
  <2>8. Abstract!Arrive(c)
    BY <1>4, <2>6, <2>7, SameOperators DEF Joined, Abstract!Arrive
  <2> QED  BY <2>8 DEF Abstract!Next
<1>5. ASSUME NEW c \in Calls, Withdrawn(c) PROVE Abstract!Next
  <2>1. Abstract!Withdraw(c)
    BY <1>5, SameOperators DEF Withdrawn, Abstract!Withdraw
  <2> QED  BY <2>1 DEF Abstract!Next
<1>6. ASSUME NEW c \in Calls, Handed(c) \/ Returned(c) PROVE Abstract!Next
  <2>1. /\ c \in Owners /\ parallelism' = parallelism /\ closed' = closed
    BY <1>6 DEF Handed, Returned
  <2>2. Cardinality(Owners \ {c}) = in_flight - 1 /\ in_flight # 0
    BY <2>1, CapacityTypes, FS_RemoveElement, FS_EmptySet
  <2>3. Cardinality(Owners \ {c}) \in Nat /\ in_flight \in Nat /\ parallelism \in Nat
    BY <2>2, CapacityTypes
  <2>4. waiters \in Seq(Calls) /\ IsInjective(waiters)
    BY CapacityTypes
  <2>5. CASE Handed(c)
    <3>1. parallelism = Cardinality(Owners \ {c}) + 1
      BY <2>2, <2>3, <2>5 DEF Handed, CapacityInv, WorkConserving
    <3>2. /\ waiters # <<>> /\ waiters' = Tail(waiters)
          /\ Owners' = (Owners \ {c}) \cup {Head(waiters)}
      BY <2>5 DEF Handed
    <3> QED  BY <2>3, <2>4, <3>1, <3>2, <2>1, ServeHead, SameOperators DEF Abstract!Leave, Abstract!Next
  <2>6. CASE Returned(c)
    <3>1. parallelism <= Cardinality(Owners \ {c}) \/ waiters = <<>>
      BY <2>2, <2>3, <2>6 DEF Returned
    <3>2. Owners' = Owners \ {c} /\ waiters' = waiters
      BY <2>6 DEF Returned
    <3>3. Abstract!Serve(Owners \ {c}, waiters, parallelism)
      BY <2>3, <2>4, <3>1, <3>2, ServeNobody
    <3> QED  BY <2>1, <3>3, SameOperators DEF Abstract!Leave, Abstract!Next
  <2> QED  BY <1>6, <2>5, <2>6
<1>7. ASSUME NEW n \in Sizes, Resized(n) PROVE Abstract!Next
  <2>1. Abstract!Served(Owners, waiters, n) = Admissible(n)
    <3>1. Cardinality(Owners) = in_flight
      BY CapacityTypes
    <3> QED  BY <3>1, SameOperators DEF Abstract!Served, Abstract!Lesser, Admissible, Smaller
  <2>2. Abstract!Serve(Owners, waiters, n)
    BY <1>7, <2>1, SameOperators DEF Resized, Abstract!Serve
  <2>3. Abstract!Resize(n)
    BY <1>7, <2>2, SameOperators DEF Resized, Abstract!Resize
  <2> QED  BY <2>3 DEF Abstract!Next
<1>8. CASE ShutDown
  <2>1. Abstract!Close
    BY <1>8, CapacityTypes DEF ShutDown, Abstract!Close
  <2> QED  BY <2>1 DEF Abstract!Next
<1> QED  BY <1>1, <1>2, <1>3, <1>4, <1>5, <1>6, <1>7, <1>8 DEF StepEffect

\* The coordinator is a bulkhead: whatever the interleaving, each of its steps
\* is one atomic step of the abstract specification or changes nothing of it.
THEOREM CoordinatorIsBulkhead == Spec => ImplementsBulkhead
<1>1. Init => Abstract!Init
  <2> SUFFICES ASSUME Init PROVE Abstract!Init
    OBVIOUS
  <2>1. Owners = {}
    BY DEF Init, Owners, Suspended
  <2> QED  BY <2>1 DEF Init, Abstract!Init
<1>2. CapacityInv /\ CapacityInv' /\ [Next]_vars => [Abstract!Next]_(Abstract!bulkhead)
  <2>1. CapacityInv' => TypeOK'
    BY DEF CapacityInv, LineInv
  <2> QED  BY <2>1, StepRefines
<1> QED  BY <1>1, <1>2, CapacityAlways, PTL DEF Spec, ImplementsBulkhead, Abstract!Spec

=============================================================================
