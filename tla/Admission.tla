----------------------------- MODULE Admission -----------------------------
(***************************************************************************)
(* AdmissionCoordinator (src/bulklink/_internal/coordinator.py): the FIFO  *)
(* waiting room and the execution slots of one bulkhead.                   *)
(*                                                                         *)
(* Each c in Calls is one `async with bulkhead.slot():' of one task.  No   *)
(* critical section of the coordinator contains an await, so everything    *)
(* between two suspensions of a task is one atomic step.  A task suspends  *)
(* in the waiting room, and inside complete_cleanup (cancellation.py),     *)
(* which runs _expire_waiter, _cancel_waiter, release and close in a task  *)
(* of their own: other tasks run before that task and after it.            *)
(***************************************************************************)
EXTENDS Naturals, Sequences, FiniteSets, SequencesExt

CONSTANTS
    Calls,          \* the uses of a slot, each by a task
    Closers,        \* the tasks that shut the bulkhead down
    Sizes,          \* the values of `parallelism'
    WaitingRoom     \* self._waiting_room

ASSUME AdmissionAssumption ==
    /\ IsFiniteSet(Calls)
    /\ Sizes \subseteq Nat \ {0}
    /\ WaitingRoom \in Nat

VARIABLES
    parallelism,    \* self._parallelism
    waiters,        \* self._waiters, the calls of the entries
    in_flight,      \* self._in_flight
    closed,         \* self._closed
    drained,        \* self._drained_event.is_set()
    entry,          \* WaitEntry.state of a call, "none" while it has no entry
    timed,          \* the queued calls whose wait has a limit
    pc,             \* where the task of a call is
    interrupted,    \* the calls whose expiry remembers a cancellation
    shut,           \* where a closer is in close_and_wait or wait_closed
    counters,       \* RuntimeCounters, the totals
    peaks           \* RuntimeCounters.peak_in_flight and .peak_waiting

queueVars == <<waiters, entry, timed>>
capacityVars == <<parallelism, in_flight>>
drainVars == <<closed, drained>>
vars == <<parallelism, waiters, in_flight, closed, drained, entry, timed, pc,
          interrupted, shut, counters, peaks>>

\* WaitState; a call that never queued has no entry.
WaitStates == {"none", "WAITING", "ADMITTED", "CANCELLED", "EXPIRED", "CLOSED"}

\* waiting: awaiting entry.future.  expiring, cancelling: the cleanup task of
\* _expire_waiter, _cancel_waiter has not run.  expired: _expire_waiter has run,
\* its caller has not resumed.  running: in the body.  releasing: the cleanup
\* task of release() has not run.
Suspended == {"waiting", "expiring", "expired", "cancelling"}
Settled == {"finished", "rejected", "timed_out", "closed", "cancelled"}
CallStates == {"idle", "running", "releasing"} \cup Suspended \cup Settled

\* closing: the cleanup task of close() has not run; interrupted: the same,
\* with a cancellation remembered.  waiting: awaiting the drained event.
CloserStates == {"idle", "closing", "interrupted", "waiting", "returned", "cancelled"}

CounterNames ==
    {"admitted", "admitted_from_queue", "abandoned", "queued", "saturated",
     "expired", "expired_before_queue", "cancelled_while_waiting",
     "closed_before_queue", "closed_while_waiting", "finished"}

Larger(m, n) == IF m < n THEN n ELSE m
Smaller(m, n) == IF m < n THEN m ELSE n

\* The counters after n more of each event in names.
Plus(names, n) ==
    [k \in CounterNames |-> IF k \in names THEN counters[k] + n ELSE counters[k]]

Count(names) == counters' = Plus(names, 1)

Init ==
    /\ parallelism \in Sizes
    /\ waiters = <<>>
    /\ in_flight = 0
    /\ closed = FALSE
    /\ drained = FALSE
    /\ entry = [c \in Calls |-> "none"]
    /\ timed = {}
    /\ pc = [c \in Calls |-> "idle"]
    /\ interrupted = {}
    /\ shut = [s \in Closers |-> "idle"]
    /\ counters = [k \in CounterNames |-> 0]
    /\ peaks = [in_flight |-> 0, waiting |-> 0]

-----------------------------------------------------------------------------
(* Steps of the coordinator, under its lock.                               *)

CanAdmitDirectly == in_flight < parallelism /\ waiters = <<>>

\* n more slots are taken.
AllocateCapacity(n) ==
    /\ in_flight' = in_flight + n
    /\ peaks' = [peaks EXCEPT !.in_flight = Larger(@, in_flight + n)]

\* Faulty: signals although slots are in use.
SignalDrained_Early(is_closed, n) == drained' = (drained \/ is_closed)

\* The drained event is set once a closed coordinator is empty.
SignalDrained(is_closed, n) == drained' = (drained \/ (is_closed /\ n = 0))

\* Faulty: returns the slot and wakes nobody.
ReleaseCapacity_NoHandoff(outcome) ==
    /\ in_flight' = in_flight - 1
    /\ SignalDrained(closed, in_flight - 1)
    /\ Count({outcome})
    /\ UNCHANGED <<waiters, entry>>

\* Faulty: serves the last in line.
ReleaseCapacity_Lifo(outcome) ==
    \/ /\ waiters # <<>> /\ in_flight <= parallelism
       /\ waiters' = Front(waiters)
       /\ entry' = [entry EXCEPT ![Last(waiters)] = "ADMITTED"]
       /\ Count({outcome, "admitted", "admitted_from_queue"})
       /\ UNCHANGED <<in_flight, drained>>
    \/ /\ ~(waiters # <<>> /\ in_flight <= parallelism)
       /\ ReleaseCapacity_NoHandoff(outcome)

\* Faulty: a handoff is not counted as an admission.
ReleaseCapacity_Uncounted(outcome) ==
    \/ /\ waiters # <<>> /\ in_flight <= parallelism
       /\ waiters' = Tail(waiters)
       /\ entry' = [entry EXCEPT ![Head(waiters)] = "ADMITTED"]
       /\ Count({outcome, "admitted_from_queue"})
       /\ UNCHANGED <<in_flight, drained>>
    \/ /\ ~(waiters # <<>> /\ in_flight <= parallelism)
       /\ ReleaseCapacity_NoHandoff(outcome)

\* The slot goes to the head of the line, unless nobody waits or a resize
\* left more slots in use than allowed: then the capacity shrinks.
ReleaseCapacity(outcome) ==
    \/ /\ waiters # <<>> /\ in_flight <= parallelism
       /\ waiters' = Tail(waiters)
       /\ entry' = [entry EXCEPT ![Head(waiters)] = "ADMITTED"]
       /\ Count({outcome, "admitted", "admitted_from_queue"})
       /\ UNCHANGED <<in_flight, drained>>
    \/ /\ ~(waiters # <<>> /\ in_flight <= parallelism)
       /\ in_flight' = in_flight - 1
       /\ SignalDrained(closed, in_flight - 1)
       /\ Count({outcome})
       /\ UNCHANGED <<waiters, entry>>

\* _finish_waiter_locked with remove_from_queue: c leaves the line.
LeaveQueue(c, state, counter) ==
    /\ \E i \in 1..Len(waiters) : waiters[i] = c /\ waiters' = RemoveAt(waiters, i)
    /\ entry' = [entry EXCEPT ![c] = state]
    /\ Count({counter})

\* The loop of _admit_available_waiters_locked for the first k in line.
AdmitWaiters(k) ==
    /\ waiters' = SubSeq(waiters, k + 1, Len(waiters))
    /\ entry' = [c \in Calls |->
                    IF c \in ToSet(SubSeq(waiters, 1, k)) THEN "ADMITTED" ELSE entry[c]]
    /\ AllocateCapacity(k)
    /\ counters' = Plus({"admitted", "admitted_from_queue"}, k)

\* Faulty: leaves the last free slot unused.
Admissible_OneShort(n) ==
    IF n <= in_flight THEN 0 ELSE Smaller(Len(waiters), n - in_flight - 1)

\* How many the loop admits when the capacity is n.
Admissible(n) ==
    IF n <= in_flight THEN 0 ELSE Smaller(Len(waiters), n - in_flight)

-----------------------------------------------------------------------------
(* Admission: the steps of _enter and enter_now.                           *)

Goto(c, state) == pc' = [pc EXCEPT ![c] = state]

RejectClosed(c) ==
    /\ closed
    /\ Count({"closed_before_queue"})
    /\ Goto(c, "closed")
    /\ UNCHANGED <<queueVars, capacityVars, peaks>>

\* enter_before with a deadline that has passed.
RejectElapsed(c) ==
    /\ ~closed
    /\ Count({"expired_before_queue"})
    /\ Goto(c, "timed_out")
    /\ UNCHANGED <<queueVars, capacityVars, peaks>>

GrantDirectly(c) ==
    /\ ~closed /\ CanAdmitDirectly
    /\ AllocateCapacity(1)
    /\ Count({"admitted"})
    /\ Goto(c, "running")
    /\ UNCHANGED <<queueVars, parallelism>>

RejectSaturated(c) ==
    /\ ~closed /\ ~CanAdmitDirectly
    /\ Count({"saturated"})
    /\ Goto(c, "rejected")
    /\ UNCHANGED <<queueVars, capacityVars, peaks>>

\* Faulty: one entry more than the room has.
JoinQueue_OneTooMany(c, limited) ==
    /\ ~closed /\ ~CanAdmitDirectly /\ Len(waiters) <= WaitingRoom
    /\ waiters' = Append(waiters, c)
    /\ entry' = [entry EXCEPT ![c] = "WAITING"]
    /\ timed' = IF limited THEN timed \cup {c} ELSE timed
    /\ peaks' = [peaks EXCEPT !.waiting = Larger(@, Len(waiters) + 1)]
    /\ Count({"queued"})
    /\ Goto(c, "waiting")
    /\ UNCHANGED capacityVars

JoinQueue(c, limited) ==
    /\ ~closed /\ ~CanAdmitDirectly /\ Len(waiters) < WaitingRoom
    /\ waiters' = Append(waiters, c)
    /\ entry' = [entry EXCEPT ![c] = "WAITING"]
    /\ timed' = IF limited THEN timed \cup {c} ELSE timed
    /\ peaks' = [peaks EXCEPT !.waiting = Larger(@, Len(waiters) + 1)]
    /\ Count({"queued"})
    /\ Goto(c, "waiting")
    /\ UNCHANGED capacityVars

\* enter, enter_within and enter_before up to the first await.
Enter(c) ==
    /\ pc[c] = "idle"
    /\ \/ RejectClosed(c)
       \/ RejectElapsed(c)
       \/ GrantDirectly(c)
       \/ Len(waiters) >= WaitingRoom /\ RejectSaturated(c)
       \/ \E limited \in BOOLEAN : JoinQueue(c, limited)
    /\ UNCHANGED <<drainVars, interrupted, shut>>

EnterNow(c) ==
    /\ pc[c] = "idle"
    /\ RejectClosed(c) \/ GrantDirectly(c) \/ RejectSaturated(c)
    /\ UNCHANGED <<drainVars, interrupted, shut>>

-----------------------------------------------------------------------------
(* The waiting room: how the await of _enter ends.                         *)

OnlyControl == UNCHANGED <<queueVars, capacityVars, drainVars, shut, counters, peaks>>

\* The future is done and the task sees its result.
Resume(c) ==
    /\ pc[c] = "waiting"
    /\ \/ entry[c] = "ADMITTED" /\ Goto(c, "running")
       \/ entry[c] = "CLOSED" /\ Goto(c, "closed")
    /\ OnlyControl /\ UNCHANGED interrupted

\* wait_for raises TimeoutError: its timer won, whatever the entry is by now.
Timeout(c) ==
    /\ pc[c] = "waiting" /\ c \in timed
    /\ Goto(c, "expiring")
    /\ OnlyControl /\ UNCHANGED interrupted

\* The task of _expire_waiter runs.
RunExpire(c) ==
    /\ pc[c] = "expiring"
    /\ Goto(c, "expired")
    /\ \/ /\ entry[c] = "WAITING"
          /\ LeaveQueue(c, "EXPIRED", "expired")
       \/ /\ entry[c] # "WAITING"
          /\ UNCHANGED <<waiters, entry, counters>>
    /\ UNCHANGED <<timed, capacityVars, drainVars, interrupted, shut, peaks>>

\* Faulty: raises the timeout whatever _expire_waiter returned.
ResumeExpired_AlwaysRaises(c) ==
    /\ pc[c] = "expired"
    /\ \/ c \in interrupted /\ Goto(c, "cancelling")
       \/ c \notin interrupted /\ Goto(c, "timed_out")
    /\ OnlyControl
    /\ interrupted' = interrupted \ {c}

\* The caller of _expire_waiter resumes with the state it returned; a
\* cancellation that came meanwhile starts _cancel_waiter.
ResumeExpired(c) ==
    /\ pc[c] = "expired"
    /\ \/ c \in interrupted /\ Goto(c, "cancelling")
       \/ c \notin interrupted /\ entry[c] = "ADMITTED" /\ Goto(c, "running")
       \/ c \notin interrupted /\ entry[c] = "CLOSED" /\ Goto(c, "closed")
       \/ c \notin interrupted /\ entry[c] = "EXPIRED" /\ Goto(c, "timed_out")
    /\ OnlyControl
    /\ interrupted' = interrupted \ {c}

\* task.cancel(): the wait ends, or complete_cleanup remembers it.
Cancel(c) ==
    /\ \/ pc[c] = "waiting" /\ Goto(c, "cancelling") /\ UNCHANGED interrupted
       \/ /\ pc[c] \in {"expiring", "expired"}
          /\ interrupted' = interrupted \cup {c}
          /\ UNCHANGED pc
    /\ OnlyControl

\* Faulty: forgets a slot that was handed over before the cancellation.
RunCancel_KeepsSlot(c) ==
    /\ pc[c] = "cancelling"
    /\ Goto(c, "cancelled")
    /\ \/ /\ entry[c] = "WAITING"
          /\ LeaveQueue(c, "CANCELLED", "cancelled_while_waiting")
       \/ /\ entry[c] # "WAITING"
          /\ UNCHANGED <<waiters, entry, counters>>
    /\ UNCHANGED <<timed, capacityVars, drainVars, interrupted, shut, peaks>>

\* Faulty: counts an abandoned slot as finished work.
RunCancel_CountsFinished(c) ==
    /\ pc[c] = "cancelling"
    /\ Goto(c, "cancelled")
    /\ \/ /\ entry[c] = "WAITING"
          /\ LeaveQueue(c, "CANCELLED", "cancelled_while_waiting")
          /\ UNCHANGED <<in_flight, drained>>
       \/ /\ entry[c] = "ADMITTED" /\ in_flight > 0
          /\ ReleaseCapacity("finished")
       \/ /\ entry[c] \notin {"WAITING", "ADMITTED"}
          /\ UNCHANGED <<waiters, entry, in_flight, drained, counters>>
    /\ UNCHANGED <<timed, parallelism, closed, interrupted, shut, peaks>>

\* The task of _cancel_waiter runs: the entry leaves the line, or a slot it
\* was handed is abandoned.
RunCancel(c) ==
    /\ pc[c] = "cancelling"
    /\ Goto(c, "cancelled")
    /\ \/ /\ entry[c] = "WAITING"
          /\ LeaveQueue(c, "CANCELLED", "cancelled_while_waiting")
          /\ UNCHANGED <<in_flight, drained>>
       \/ /\ entry[c] = "ADMITTED" /\ in_flight > 0
          /\ ReleaseCapacity("abandoned")
       \/ /\ entry[c] \notin {"WAITING", "ADMITTED"}
          /\ UNCHANGED <<waiters, entry, in_flight, drained, counters>>
    /\ UNCHANGED <<timed, parallelism, closed, interrupted, shut, peaks>>

-----------------------------------------------------------------------------
(* The body and its end.                                                   *)

\* The body returns, raises or is cancelled: __aexit__ starts release().
FinishBody(c) ==
    /\ pc[c] = "running"
    /\ Goto(c, "releasing")
    /\ OnlyControl /\ UNCHANGED interrupted

\* The task of release() runs.
RunRelease(c) ==
    /\ pc[c] = "releasing" /\ in_flight > 0
    /\ Goto(c, "finished")
    /\ ReleaseCapacity("finished")
    /\ UNCHANGED <<timed, parallelism, closed, interrupted, shut, peaks>>

-----------------------------------------------------------------------------
(* Resizing and shutdown.                                                  *)

Resize(n) ==
    /\ ~closed /\ n # parallelism
    /\ parallelism' = n
    /\ AdmitWaiters(Admissible(n))
    /\ UNCHANGED <<timed, pc, drainVars, interrupted, shut>>

\* Faulty: closing an idle coordinator does not signal the drain.
DoClose_NoSignal ==
    \/ closed /\ UNCHANGED <<drainVars, waiters, entry, counters>>
    \/ /\ ~closed
       /\ closed' = TRUE
       /\ waiters' = <<>>
       /\ entry' = [c \in Calls |->
                       IF c \in ToSet(waiters) THEN "CLOSED" ELSE entry[c]]
       /\ counters' = Plus({"closed_while_waiting"}, Len(waiters))
       /\ UNCHANGED drained

\* close(): the line is sent away and an idle coordinator is drained.
DoClose ==
    \/ closed /\ UNCHANGED <<drainVars, waiters, entry, counters>>
    \/ /\ ~closed
       /\ closed' = TRUE
       /\ waiters' = <<>>
       /\ entry' = [c \in Calls |->
                       IF c \in ToSet(waiters) THEN "CLOSED" ELSE entry[c]]
       /\ counters' = Plus({"closed_while_waiting"}, Len(waiters))
       /\ SignalDrained(TRUE, in_flight)

\* A plain close().
Close ==
    /\ ~closed
    /\ DoClose
    /\ UNCHANGED <<timed, pc, capacityVars, interrupted, shut, peaks>>

ShutStep(s, from, to) ==
    /\ shut[s] = from
    /\ shut' = [shut EXCEPT ![s] = to]

\* close_and_wait() hands close() to a cleanup task.
CloseAndWait(s) ==
    /\ ShutStep(s, "idle", "closing")
    /\ UNCHANGED <<queueVars, capacityVars, drainVars, pc, interrupted, counters, peaks>>

\* The task of close() runs; a remembered cancellation is raised after it.
RunClose(s) ==
    /\ \/ ShutStep(s, "closing", "waiting")
       \/ ShutStep(s, "interrupted", "cancelled")
    /\ DoClose
    /\ UNCHANGED <<timed, pc, capacityVars, interrupted, peaks>>

\* wait_closed() by a task that does not close.
WaitClosed(s) ==
    /\ ShutStep(s, "idle", "waiting")
    /\ UNCHANGED <<queueVars, capacityVars, drainVars, pc, interrupted, counters, peaks>>

ReturnClosed(s) ==
    /\ drained
    /\ ShutStep(s, "waiting", "returned")
    /\ UNCHANGED <<queueVars, capacityVars, drainVars, pc, interrupted, counters, peaks>>

CancelCloser(s) ==
    /\ \/ ShutStep(s, "closing", "interrupted")
       \/ ShutStep(s, "waiting", "cancelled")
    /\ UNCHANGED <<queueVars, capacityVars, drainVars, pc, interrupted, counters, peaks>>

\* Nothing is left to happen: every call is over and every closer has returned.
Terminated ==
    /\ closed /\ drained
    /\ \A c \in Calls : pc[c] \in Settled
    /\ \A s \in Closers : shut[s] \in {"returned", "cancelled"}
    /\ UNCHANGED vars

Next ==
    \/ \E c \in Calls :
          \/ Enter(c) \/ EnterNow(c)
          \/ Resume(c) \/ Timeout(c) \/ RunExpire(c) \/ ResumeExpired(c)
          \/ Cancel(c) \/ RunCancel(c)
          \/ FinishBody(c) \/ RunRelease(c)
    \/ \E n \in Sizes : Resize(n)
    \/ Close
    \/ \E s \in Closers :
          \/ CloseAndWait(s) \/ RunClose(s) \/ WaitClosed(s)
          \/ ReturnClosed(s) \/ CancelCloser(s)
    \/ Terminated

Spec == Init /\ [][Next]_vars

\* The event loop runs every ready task, and bodies end.  Nothing obliges a
\* timer to fire, a task to be cancelled or anybody to resize or close.
Fairness ==
    /\ \A c \in Calls :
          /\ WF_vars(Resume(c)) /\ WF_vars(RunExpire(c)) /\ WF_vars(ResumeExpired(c))
          /\ WF_vars(RunCancel(c)) /\ WF_vars(FinishBody(c)) /\ WF_vars(RunRelease(c))
    /\ \A s \in Closers : WF_vars(RunClose(s)) /\ WF_vars(ReturnClosed(s))

FairSpec == Spec /\ Fairness

-----------------------------------------------------------------------------
(* Properties.                                                             *)

\* The calls that hold a slot: their body has not been released, or they were
\* handed a slot and have not taken notice of it yet.
Owners ==
    {c \in Calls : \/ pc[c] \in {"running", "releasing"}
                   \/ pc[c] \in Suspended /\ entry[c] = "ADMITTED"}

InLine(c) == c \in ToSet(waiters)

\* Every variable has its type, the waiting room keeps its bound (_enter refuses
\* to append beyond waiting_room) and only an expiry in progress remembers a
\* cancellation.
TypeOK ==
    /\ parallelism \in Sizes
    /\ waiters \in Seq(Calls) /\ Len(waiters) <= WaitingRoom
    /\ in_flight \in Nat
    /\ closed \in BOOLEAN /\ drained \in BOOLEAN
    /\ entry \in [Calls -> WaitStates]
    /\ timed \subseteq Calls
    /\ pc \in [Calls -> CallStates]
    /\ interrupted \subseteq {c \in Calls : pc[c] \in {"expiring", "expired"}}
    /\ shut \in [Closers -> CloserStates]
    /\ counters \in [CounterNames -> Nat]
    /\ peaks \in [in_flight : Nat, waiting : Nat]

\* No slot is lost or used twice: in_flight is the number of calls that hold a
\* slot, whatever handoff, expiry, cancellation and release race for it.
SlotAccounting == in_flight = Cardinality(Owners)

\* The deque and the entries agree: it holds exactly the calls whose entry is
\* WAITING, each once, and those are suspended before their cleanup.
QueueMatchesEntries ==
    /\ \A c \in Calls : entry[c] = "WAITING" <=> InLine(c)
    /\ IsInjective(waiters)
    /\ \A c \in Calls : InLine(c) => pc[c] \in {"waiting", "expiring", "cancelling"}

\* Nobody waits beside a free slot, even while a resize is shrinking the
\* bulkhead: the guard of direct admission and the handoff together.
WorkConserving == waiters # <<>> => in_flight >= parallelism

\* The identities of tests/invariants.py: every queued call is waiting or was
\* counted once when it left, every admission is in flight or was counted once
\* when it ended.
CountersBalance ==
    /\ counters["queued"] =
          counters["admitted_from_queue"] + counters["expired"]
          + counters["cancelled_while_waiting"] + counters["closed_while_waiting"]
          + Len(waiters)
    /\ counters["admitted"] = counters["finished"] + counters["abandoned"] + in_flight
    /\ counters["admitted_from_queue"] <= counters["admitted"]
    /\ counters["abandoned"] <= counters["admitted_from_queue"]

Ended(state) == Cardinality({c \in Calls : pc[c] = state})
Left(state) == Cardinality({c \in Calls : entry[c] = state})

\* A status report tells what happened to the calls: each total is the number
\* of calls with that fate, so no race counts one call under two of them.
OutcomesCounted ==
    /\ counters["finished"] = Ended("finished")
    /\ counters["saturated"] = Ended("rejected")
    /\ counters["admitted_from_queue"] = Left("ADMITTED")
    /\ counters["expired"] = Left("EXPIRED")
    /\ counters["cancelled_while_waiting"] = Left("CANCELLED")
    /\ counters["closed_while_waiting"] = Left("CLOSED")
    /\ counters["abandoned"] =
          Cardinality({c \in Calls : pc[c] = "cancelled" /\ entry[c] = "ADMITTED"})
    /\ counters["expired_before_queue"] =
          Cardinality({c \in Calls : pc[c] = "timed_out" /\ entry[c] = "none"})
    /\ counters["closed_before_queue"] =
          Cardinality({c \in Calls : pc[c] = "closed" /\ entry[c] = "none"})

\* What a call is told is what the coordinator decided: a body runs only for a
\* call admitted directly or from the queue, a refusal names the state of the
\* entry, and no call that holds a slot is told it does not.
OutcomeMatchesEntry ==
    \A c \in Calls :
        /\ pc[c] \in {"running", "releasing", "finished"} => entry[c] \in {"none", "ADMITTED"}
        /\ pc[c] = "timed_out" => entry[c] \in {"none", "EXPIRED"}
        /\ pc[c] = "closed" => entry[c] \in {"none", "CLOSED"}
        /\ pc[c] = "cancelled" => entry[c] \notin {"none", "WAITING"}
        /\ pc[c] \in {"idle", "rejected"} => entry[c] = "none"

\* None of the RuntimeErrors that guard the coordinator's assumptions is raised:
\* a slot is released only while one is in flight, a waiting entry is in the
\* deque, an expiry ends in a state _enter expects, and the drain finds no waiter.
NeverRaises ==
    /\ \A c \in Calls :
          /\ pc[c] = "releasing" => in_flight > 0
          /\ pc[c] \in Suspended /\ entry[c] = "ADMITTED" => in_flight > 0
          /\ pc[c] \in Suspended /\ entry[c] = "WAITING" => InLine(c)
          /\ pc[c] \in {"waiting", "expiring"} => entry[c] \in {"WAITING", "ADMITTED", "CLOSED"}
          /\ pc[c] = "expired" => entry[c] \in {"ADMITTED", "EXPIRED", "CLOSED"}
    /\ closed => waiters = <<>>

\* The drained event is set exactly while the bulkhead is closed and empty.
DrainExact == drained <=> closed /\ in_flight = 0

\* A task that returned from close_and_wait or wait_closed finds nobody with a
\* slot and nobody in line.
ReturnedMeansEmpty ==
    (\E s \in Closers : shut[s] = "returned") => closed /\ Owners = {} /\ waiters = <<>>

\* FIFO: a call is admitted only when every call ahead of it in line has left
\* the line in the same step or before, and never past the line.
NoOvertaking ==
    [][ /\ \A i, j \in 1..Len(waiters) :
              i < j /\ waiters[j] \in Owners' => entry'[waiters[i]] # "WAITING"
        /\ \A c \in Owners' \ Owners : ~InLine(c) => waiters = <<>> ]_vars

\* A call is handed a slot only within the limit in force after the step, so
\* after a resize below the load the bulkhead shrinks before it admits again.
AdmittedWithinLimit == [][Owners' \subseteq Owners \/ in_flight' <= parallelism']_vars

\* Closing is final: nobody is admitted afterwards, and a drained bulkhead
\* stays drained.
ClosedIsFinal == [][closed => closed' /\ Owners' \subseteq Owners /\ (drained => drained')]_vars

\* Expiry, cancellation, handoff and close race for an entry, and the first
\* decides for good (WaitEntry.transition_to).
SettledOnce ==
    [][\A c \in Calls : entry[c] \notin {"none", "WAITING"} => entry'[c] = entry[c]]_vars

\* Every call that started is settled for good: no wakeup of a waiter is lost.
CallsSettle == <>[](\A c \in Calls : pc[c] \in {"idle"} \cup Settled)

\* close_and_wait ends, and so does wait_closed once anybody has closed.
ShutdownCompletes ==
    <>[](\A s \in Closers :
            /\ shut[s] \notin {"closing", "interrupted"}
            /\ shut[s] = "waiting" => ~closed)

\* "Protected user code is never started after the deadline."
\* (docs/reference/public-contract.md, of admission deadlines): no body starts
\* for a call whose limited wait has run out.  The code lets a handoff win that
\* comes between the timer and _expire_waiter.
NeverStartsAfterDeadline ==
    [][\A c \in Calls : pc[c] \in {"expiring", "expired"} => pc'[c] # "running"]_vars

-----------------------------------------------------------------------------
(* Refinement: the coordinator is a bulkhead.                              *)

Abstract == INSTANCE Bulkhead WITH
    Callers <- Calls, Limits <- Sizes, Room <- WaitingRoom,
    owners <- Owners, queue <- waiters, limit <- parallelism, open <- ~closed

\* Every step of the coordinator is a step of the abstract bulkhead or leaves
\* owners, line, limit and openness alone.
ImplementsBulkhead == Abstract!Spec
=============================================================================
