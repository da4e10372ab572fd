-------------------------- MODULE PartitionManager --------------------------
(***************************************************************************)
(* PartitionCoordinator (src/bulklink/_internal/partitioned_coordinator.py)*)
(* and the admissions of partitioned.py that borrow from it: a bounded set *)
(* of keyed child bulkheads, created on demand and evicted when idle.      *)
(*                                                                         *)
(* Each c in Callers is one `async with partitioned.slot(key):' of a task. *)
(* No critical section of the manager contains an await, so its lock is    *)
(* never contended and everything between two suspensions of a task is one *)
(* step.  A child is created by the acquire of one caller and by no other, *)
(* so the caller names it: child e has the key wanted[e].                  *)
(*                                                                         *)
(* A child is an AsyncBulkhead.  What Admission.tla says of one is taken   *)
(* for granted here: it may admit a caller while it is open, may refuse it *)
(* at any time, and is drained when it is closed and nobody holds a slot.  *)
(***************************************************************************)
EXTENDS Naturals, FiniteSets

CONSTANTS
    Callers,            \* the uses of a partition, each by a task
    Keys,               \* the partition keys
    Keepers,            \* the tasks that call cleanup_idle
    Closers,            \* the tasks that shut the manager down
    MaxPartitions,      \* self._max_partitions
    NoEntry,            \* None, where a PartitionEntry or _PendingOp is expected
    SweepsCancelled,    \* whether a cleanup_idle can be cancelled before its
                        \* children have started
    TransfersCancelled  \* whether a caller can be cancelled while it transfers
                        \* its victim to the manager

ASSUME PartitionAssumption ==
    /\ IsFiniteSet(Callers)
    /\ MaxPartitions \in Nat \ {0}
    /\ NoEntry \notin Callers
    /\ NoEntry \notin Keys
    /\ SweepsCancelled \in BOOLEAN
    /\ TransfersCancelled \in BOOLEAN

VARIABLES
    lifecycle,      \* self._lifecycle
    partitions,     \* self._partitions, the children it retains
    older,          \* the pairs of retained children in the order of last_idle_at
    borrowers,      \* PartitionEntry.borrowers of each child
    leased,         \* self._leased_operations
    pending,        \* self._pending_ops: the kind of op each removed child has
    drained,        \* self._drained_event.is_set()
    totals,         \* PartitionRuntimeCounters, the totals
    job,            \* the task that closes a removed child
    callback,       \* the removed children whose close task has the done
                    \* callback of _attach_release_callback
    closed,         \* the children whose admission is closed
    wanted,         \* the key each caller asks for
    pc,             \* where the task of a caller is
    held,           \* the child a caller has borrowed
    op,             \* the victim of the eviction a caller has an op for
    interrupted,    \* the callers whose cleanup remembers a cancellation
    sweep,          \* the children a keeper has removed, their tasks not started
    shut,           \* where a closer is
    closing         \* the children whose close() task of _close has not run

mapVars == <<partitions, older, borrowers, leased, totals>>
opVars == <<pending, drained, job, callback>>
callerVars == <<wanted, pc, held, op, interrupted>>
shutdownVars == <<lifecycle, shut, closing>>
vars == <<mapVars, opVars, callerVars, shutdownVars, closed, sweep>>

Ops == {"none", "EVICTION", "MAINTENANCE"}

\* ready: the task of a swept child has not started.  running: the child is
\* being closed.  lost: cancelled before it started.
Jobs == {"none", "ready", "running", "done", "lost"}

\* evicting: in complete_cleanup(victim.close_and_wait()).  awaiting: in
\* wait_for(shield(close_task)), with a deadline.  transferring, transferred:
\* before and after the task of _transfer_victim_close_to_manager.  undoing:
\* the task of _release_reserved_op has not run.  admitting: in __aenter__ of
\* the child, without a slot.  running: owns a slot of the child.  returning:
\* release_reference has not run.  broken: told of a RuntimeError.
OwnsOp == {"evicting", "awaiting", "transferring", "transferred", "undoing"}
Leased == {"admitting", "running", "returning"}
Settled == {"refused", "limited", "done", "broken"}
CallerStates == {"idle"} \cup OwnsOp \cup Leased \cup Settled

\* finishing: in close_and_wait, which lets no cancellation in.  waiting: in
\* wait_closed.
CloserStates == {"idle", "finishing", "waiting", "returned"}

Totals == {"created", "evicted", "discarded", "limit_rejected"}

Init ==
    /\ lifecycle = "OPEN"
    /\ partitions = {} /\ older = {}
    /\ borrowers = [e \in Callers |-> 0] /\ leased = 0
    /\ pending = [e \in Callers |-> "none"]
    /\ job = [e \in Callers |-> "none"] /\ callback = {}
    /\ drained = FALSE
    /\ totals = [n \in Totals |-> 0]
    /\ closed = {}
    /\ wanted \in [Callers -> Keys]
    /\ pc = [c \in Callers |-> "idle"]
    /\ held = [c \in Callers |-> NoEntry] /\ op = [c \in Callers |-> NoEntry]
    /\ interrupted = {}
    /\ sweep = [t \in Keepers |-> {}]
    /\ shut = [s \in Closers |-> "idle"] /\ closing = {}

-----------------------------------------------------------------------------
(* Steps of the manager, under its lock.                                   *)

PendingOps == {e \in Callers : pending[e] # "none"}

\* _reserved_slots: the ops that own capacity.
Reserved == {e \in Callers : pending[e] = "EVICTION"}

\* Faulty: the slots kept for replacements are not counted.
Logical_ChildrenOnly == Cardinality(partitions)

\* What the partition limit bounds: the children, and the slots kept for the
\* replacement of a victim.
Logical == Cardinality(partitions) + Cardinality(Reserved)

\* Faulty: a borrowed child counts as idle.
Idle_Borrowed(e) == e \in partitions

Idle(e) == e \in partitions /\ borrowers[e] = 0

InMap(k) == \E e \in partitions : wanted[e] = k

\* The order of the retained children but those of V.
Without(V) == {p \in older : p[1] \notin V /\ p[2] \notin V}

\* The order once e has the latest last_idle_at of all.
Latest(e) == Without({e}) \cup ((partitions \ {e}) \X {e})

\* _least_recent_idle_locked returns e.
LeastRecentIdle(e) == Idle(e) /\ \A d \in partitions : Idle(d) => <<d, e>> \notin older

\* Faulty: does not wait for the removed children.
SignalDrained_LeasesOnly(phase, n, ops) ==
    drained' = (drained \/ (phase # "OPEN" /\ n = 0))

SignalDrained(phase, n, ops) ==
    drained' = (drained \/ (phase # "OPEN" /\ n = 0 /\ ops = {}))

\* Faulty: the op goes and the drain is not looked at.
ReleaseOp_NoSignal(v) ==
    /\ pending[v] # "none"
    /\ pending' = [pending EXCEPT ![v] = "none"]
    /\ UNCHANGED drained

\* _release_reserved_op of an op that is registered.
ReleaseOp(v) ==
    /\ pending[v] # "none"
    /\ pending' = [pending EXCEPT ![v] = "none"]
    /\ SignalDrained(lifecycle, leased, PendingOps \ {v})

\* The children V leave the map, each with an op and a task to close it.
RemoveChildren(V, kind, task) ==
    /\ partitions' = partitions \ V
    /\ older' = Without(V)
    /\ pending' = [e \in Callers |-> IF e \in V THEN kind ELSE pending[e]]
    /\ job' = [e \in Callers |-> IF e \in V THEN task ELSE job[e]]

Counted(name, n) == totals' = [totals EXCEPT ![name] = @ + n]

Goto(c, state) == pc' = [pc EXCEPT ![c] = state]

-----------------------------------------------------------------------------
(* One round of the loop of acquire.                                       *)

\* BulkheadClosedError once the manager is closed, BulkheadQueueTimeoutError to
\* a caller whose deadline has passed (which it may at any time): an op is undone.
Refuse(c) ==
    /\ Goto(c, IF op[c] = NoEntry THEN "refused" ELSE "undoing")
    /\ UNCHANGED <<mapVars, opVars, held, op>>

\* _release_pending_op_locked, of the op of the caller, if it has one.
ConsumeOp(c) ==
    /\ op[c] # NoEntry => pending[op[c]] # "none"
    /\ pending' = [v \in Callers |-> IF v = op[c] THEN "none" ELSE pending[v]]
    /\ op' = [op EXCEPT ![c] = NoEntry]
    /\ UNCHANGED <<drained, job, callback>>

\* _borrow_locked; the caller goes on to the child.
Borrow(c, e) ==
    /\ borrowers' = [borrowers EXCEPT ![e] = @ + 1]
    /\ leased' = leased + 1
    /\ held' = [held EXCEPT ![c] = e]
    /\ Goto(c, "admitting")

\* Faulty: nobody looks whether the manager has been closed meanwhile.
UseExisting_AfterClose(c) ==
    \E e \in partitions :
        /\ wanted[e] = wanted[c]
        /\ ConsumeOp(c) /\ Borrow(c, e)
        /\ UNCHANGED <<partitions, older, totals>>

UseExisting(c) ==
    /\ lifecycle = "OPEN"
    /\ \E e \in partitions :
          /\ wanted[e] = wanted[c]
          /\ ConsumeOp(c) /\ Borrow(c, e)
          /\ UNCHANGED <<partitions, older, totals>>

\* Faulty: after the victim has closed the map is not looked at again.
Create_NoRecheck(c) ==
    /\ lifecycle = "OPEN"
    /\ op[c] # NoEntry \/ (~InMap(wanted[c]) /\ Logical < MaxPartitions)
    /\ partitions' = partitions \cup {c}
    /\ older' = Latest(c)
    /\ Counted("created", 1)
    /\ ConsumeOp(c) /\ Borrow(c, c)

\* A caller with an op has its slot already; others need a free one.
Create(c) ==
    /\ lifecycle = "OPEN"
    /\ ~InMap(wanted[c])
    /\ op[c] # NoEntry \/ Logical < MaxPartitions
    /\ partitions' = partitions \cup {c}
    /\ older' = Latest(c)
    /\ Counted("created", 1)
    /\ ConsumeOp(c) /\ Borrow(c, c)

NoRoom(c) ==
    /\ lifecycle = "OPEN"
    /\ ~InMap(wanted[c])
    /\ op[c] = NoEntry /\ Logical >= MaxPartitions

\* PartitionLimitError: no child is idle, or the caller is a slot_now, which
\* does not wait for one.
RejectLimit(c) ==
    /\ NoRoom(c)
    /\ Counted("limit_rejected", 1)
    /\ Goto(c, "limited")
    /\ UNCHANGED <<partitions, older, borrowers, leased, opVars, held, op>>

\* Faulty: the eviction is not counted.
Evict_Uncounted(c, v, next) ==
    /\ NoRoom(c) /\ LeastRecentIdle(v)
    /\ RemoveChildren({v}, "EVICTION", "running")
    /\ op' = [op EXCEPT ![c] = v]
    /\ Goto(c, next)
    /\ UNCHANGED <<borrowers, leased, drained, held, callback, totals>>

\* v is removed, its slot reserved for c and its task started.
Evict(c, v, next) ==
    /\ NoRoom(c) /\ LeastRecentIdle(v)
    /\ RemoveChildren({v}, "EVICTION", "running")
    /\ Counted("evicted", 1)
    /\ op' = [op EXCEPT ![c] = v]
    /\ Goto(c, next)
    /\ UNCHANGED <<borrowers, leased, drained, held, callback>>

\* The deadline passes between the lock and the wait: the op goes to the
\* callback of the close task.
EvictExpired(c, v) ==
    /\ NoRoom(c) /\ LeastRecentIdle(v)
    /\ RemoveChildren({v}, "EVICTION", "running")
    /\ Counted("evicted", 1)
    /\ callback' = callback \cup {v}
    /\ Goto(c, "refused")
    /\ UNCHANGED <<borrowers, leased, drained, held, op>>

\* acquire up to its first await, with a deadline, without, or immediate.
Arrive(c) ==
    /\ pc[c] = "idle"
    /\ \/ Refuse(c)
       \/ UseExisting(c)
       \/ Create(c)
       \/ RejectLimit(c)
       \/ \E v \in partitions :
             \/ Evict(c, v, "evicting")
             \/ Evict(c, v, "awaiting")
             \/ EvictExpired(c, v)
    /\ UNCHANGED <<wanted, interrupted, shutdownVars, closed, sweep>>

\* The victim is closed and the loop goes round again.
Reacquire(c) ==
    /\ pc[c] \in {"evicting", "awaiting"} /\ job[op[c]] = "done"
    /\ c \notin interrupted
    /\ \/ (pc[c] = "awaiting" \/ lifecycle # "OPEN") /\ Refuse(c)
       \/ UseExisting(c)
       \/ Create(c)
    /\ UNCHANGED <<wanted, interrupted, shutdownVars, closed, sweep>>

-----------------------------------------------------------------------------
(* A caller that gives up its eviction, and the op it leaves behind.       *)

\* The victim is closed, and complete_cleanup raises what it remembered.
Interrupted(c) ==
    /\ pc[c] = "evicting" /\ job[op[c]] = "done"
    /\ c \in interrupted
    /\ interrupted' = interrupted \ {c}
    /\ Goto(c, "undoing")
    /\ UNCHANGED <<mapVars, opVars, wanted, held, op, shutdownVars, closed, sweep>>

\* wait_for raises TimeoutError.
Timeout(c) ==
    /\ pc[c] = "awaiting"
    /\ Goto(c, "transferring")
    /\ UNCHANGED <<mapVars, opVars, wanted, held, op, interrupted, shutdownVars, closed, sweep>>

\* task.cancel() where it is not the child that notices.
Cancel(c) ==
    /\ \/ /\ pc[c] = "awaiting"
          /\ Goto(c, "transferring")
          /\ UNCHANGED interrupted
       \/ /\ \/ pc[c] = "evicting"
             \/ TransfersCancelled /\ pc[c] \in {"transferring", "transferred"}
          /\ interrupted' = interrupted \cup {c}
          /\ UNCHANGED pc
    /\ UNCHANGED <<mapVars, opVars, wanted, held, op, shutdownVars, closed, sweep>>

\* Faulty: nobody is told of the end of the close task.
RunTransfer_NoCallback(c) ==
    /\ pc[c] = "transferring"
    /\ Goto(c, "transferred")
    /\ UNCHANGED <<mapVars, opVars, wanted, held, op, interrupted, shutdownVars, closed, sweep>>

\* The task of _transfer_victim_close_to_manager.
RunTransfer(c) ==
    /\ pc[c] = "transferring"
    /\ callback' = callback \cup {op[c]}
    /\ Goto(c, "transferred")
    /\ UNCHANGED <<mapVars, pending, drained, job, wanted, held, op, interrupted,
                   shutdownVars, closed, sweep>>

\* Faulty: the caller remembers an op it has handed over.
ResumeTransferred_KeepsOp(c) ==
    /\ pc[c] = "transferred"
    /\ Goto(c, IF c \in interrupted THEN "undoing" ELSE "refused")
    /\ interrupted' = interrupted \ {c}
    /\ UNCHANGED <<mapVars, opVars, wanted, held, op, shutdownVars, closed, sweep>>

\* The caller forgets its op, unless complete_cleanup raises a cancellation
\* first: then the handler of acquire finds the op and releases it.
ResumeTransferred(c) ==
    /\ pc[c] = "transferred"
    /\ \/ c \in interrupted /\ Goto(c, "undoing") /\ UNCHANGED op
       \/ c \notin interrupted /\ Goto(c, "refused") /\ op' = [op EXCEPT ![c] = NoEntry]
    /\ interrupted' = interrupted \ {c}
    /\ UNCHANGED <<mapVars, opVars, wanted, held, shutdownVars, closed, sweep>>

\* The task of _release_reserved_op in the handler of acquire.
RunUndo(c) ==
    /\ pc[c] = "undoing"
    /\ \/ ReleaseOp(op[c]) /\ Goto(c, "refused")
       \/ pending[op[c]] = "none" /\ Goto(c, "broken") /\ UNCHANGED <<pending, drained>>
    /\ op' = [op EXCEPT ![c] = NoEntry]
    /\ UNCHANGED <<mapVars, job, callback, wanted, held, interrupted, shutdownVars, closed, sweep>>

\* The task that _on_close_done starts; nobody sees its RuntimeError.
ReleaseByCallback(v) ==
    /\ v \in callback /\ job[v] = "done"
    /\ callback' = callback \ {v}
    /\ \/ ReleaseOp(v)
       \/ pending[v] = "none" /\ UNCHANGED <<pending, drained>>
    /\ UNCHANGED <<mapVars, job, callerVars, shutdownVars, closed, sweep>>

-----------------------------------------------------------------------------
(* The child between the borrow and the return.                            *)

OnlyCaller == UNCHANGED <<mapVars, opVars, wanted, held, op, interrupted,
                          shutdownVars, closed, sweep>>

\* The child hands c a slot, which it may do until it is closed.
Grant(c) ==
    /\ pc[c] = "admitting" /\ held[c] \notin closed
    /\ Goto(c, "running")
    /\ OnlyCaller

\* Faulty: a refused admission does not return its reference.
AdmitFails_KeepsReference(c) ==
    /\ pc[c] = "admitting"
    /\ Goto(c, "refused")
    /\ held' = [held EXCEPT ![c] = NoEntry]
    /\ UNCHANGED <<mapVars, opVars, wanted, op, interrupted, shutdownVars, closed, sweep>>

\* The child refuses c, or c is cancelled in its waiting room.
AdmitFails(c) ==
    /\ pc[c] = "admitting"
    /\ Goto(c, "returning")
    /\ OnlyCaller

\* __aexit__ of the child is over.
ExitChild(c) ==
    /\ pc[c] = "running"
    /\ Goto(c, "returning")
    /\ OnlyCaller

\* release_reference; a child that is idle now is the most recent one.
ReturnReference(c) ==
    LET e == held[c] IN
    /\ pc[c] = "returning"
    /\ borrowers[e] > 0 /\ leased > 0 /\ e \in partitions
    /\ borrowers' = [borrowers EXCEPT ![e] = @ - 1]
    /\ leased' = leased - 1
    /\ older' = IF borrowers[e] = 1 THEN Latest(e) ELSE older
    /\ SignalDrained(lifecycle, leased - 1, PendingOps)
    /\ held' = [held EXCEPT ![c] = NoEntry]
    /\ Goto(c, "done")
    /\ UNCHANGED <<partitions, totals, pending, job, callback, wanted, op, interrupted,
                   shutdownVars, closed, sweep>>

\* The close_and_wait of a removed child ends.  A maintenance task releases its
\* op in the same step; an eviction leaves that to its caller or callback.
FinishClose(v) ==
    /\ job[v] = "running"
    /\ \A c \in Callers : held[c] = v => pc[c] # "running"
    /\ job' = [job EXCEPT ![v] = "done"]
    /\ closed' = closed \cup {v}
    /\ \/ pending[v] = "MAINTENANCE" /\ ReleaseOp(v)
       \/ pending[v] # "MAINTENANCE" /\ UNCHANGED <<pending, drained>>
    /\ UNCHANGED <<mapVars, callback, callerVars, shutdownVars, sweep>>

-----------------------------------------------------------------------------
(* Maintenance.                                                            *)

Discard(e) ==
    /\ lifecycle = "OPEN" /\ Idle(e)
    /\ RemoveChildren({e}, "MAINTENANCE", "running")
    /\ Counted("discarded", 1)
    /\ UNCHANGED <<borrowers, leased, drained, callback, callerVars, shutdownVars, closed, sweep>>

\* The children idle for long enough, the last of which is e.
Stale(e) == {d \in partitions : Idle(d) /\ (d = e \/ <<d, e>> \in older)}

\* cleanup_idle up to its gather.
Sweep(t) ==
    /\ lifecycle = "OPEN" /\ sweep[t] = {}
    /\ \E e \in partitions :
          /\ Idle(e)
          /\ RemoveChildren(Stale(e), "MAINTENANCE", "ready")
          /\ Counted("evicted", Cardinality(Stale(e)))
          /\ sweep' = [sweep EXCEPT ![t] = Stale(e)]
    /\ UNCHANGED <<borrowers, leased, drained, callback, callerVars, shutdownVars, closed>>

EndSweep(t, state) ==
    /\ sweep[t] # {}
    /\ job' = [e \in Callers |-> IF e \in sweep[t] THEN state ELSE job[e]]
    /\ sweep' = [sweep EXCEPT ![t] = {}]
    /\ UNCHANGED <<mapVars, pending, drained, callback, callerVars, shutdownVars, closed>>

\* The tasks of the gather start; from here on each child is closed even if
\* the keeper is cancelled.
StartSweep(t) == EndSweep(t, "running")

\* The keeper is cancelled before they start: they never run.
CancelSweep(t) == SweepsCancelled /\ EndSweep(t, "lost")

-----------------------------------------------------------------------------
(* Shutdown.                                                               *)

\* Faulty: does not notice that the manager is idle already.
BeginClose_NoSignal ==
    /\ lifecycle = "OPEN"
    /\ lifecycle' = "CLOSING"
    /\ closing' = partitions
    /\ UNCHANGED drained

\* _close up to its gather.
BeginClose ==
    /\ lifecycle = "OPEN"
    /\ lifecycle' = "CLOSING"
    /\ closing' = partitions
    /\ SignalDrained("CLOSING", leased, PendingOps)

\* A plain close().
Close ==
    /\ BeginClose
    /\ UNCHANGED <<mapVars, pending, job, callback, callerVars, shut, closed, sweep>>

ShutStep(s, from, to) ==
    /\ shut[s] = from
    /\ shut' = [shut EXCEPT ![s] = to]

CloseAndWait(s) ==
    /\ ShutStep(s, "idle", "finishing")
    /\ \/ BeginClose
       \/ lifecycle # "OPEN" /\ UNCHANGED <<lifecycle, closing, drained>>
    /\ UNCHANGED <<mapVars, pending, job, callback, callerVars, closed, sweep>>

\* A task of the gather in _close runs.
CloseChild(v) ==
    /\ v \in closing
    /\ closing' = closing \ {v}
    /\ closed' = closed \cup {v}
    /\ UNCHANGED <<mapVars, opVars, callerVars, lifecycle, shut, sweep>>

\* wait_closed by a task that does not close.
WaitClosed(s) ==
    /\ lifecycle # "OPEN"
    /\ ShutStep(s, "idle", "waiting")
    /\ UNCHANGED <<mapVars, opVars, callerVars, lifecycle, closing, closed, sweep>>

CancelWaiter(s) ==
    /\ ShutStep(s, "waiting", "idle")
    /\ UNCHANGED <<mapVars, opVars, callerVars, lifecycle, closing, closed, sweep>>

\* wait_closed returns after the drain and the drain of every child.
ReturnClosed(s) ==
    /\ drained /\ leased = 0
    /\ partitions \subseteq closed
    /\ \A c \in Callers : held[c] \in partitions => pc[c] # "running"
    /\ ShutStep(s, "finishing", "returned") \/ ShutStep(s, "waiting", "returned")
    /\ partitions' = {} /\ older' = {}
    /\ UNCHANGED <<borrowers, leased, totals, opVars, callerVars, lifecycle, closing, closed, sweep>>

\* Nothing is left to happen.
Terminated ==
    /\ lifecycle # "OPEN"
    /\ \A c \in Callers : pc[c] \in Settled
    /\ \A s \in Closers : shut[s] = "returned" \/ "lost" \in {job[e] : e \in Callers}
    /\ UNCHANGED vars

Next ==
    \/ \E c \in Callers :
          \/ Arrive(c) \/ Reacquire(c) \/ Interrupted(c)
          \/ Timeout(c) \/ Cancel(c) \/ RunTransfer(c) \/ ResumeTransferred(c) \/ RunUndo(c)
          \/ Grant(c) \/ AdmitFails(c) \/ ExitChild(c) \/ ReturnReference(c)
    \/ \E v \in Callers :
          \/ ReleaseByCallback(v) \/ FinishClose(v) \/ Discard(v) \/ CloseChild(v)
    \/ \E t \in Keepers : Sweep(t) \/ StartSweep(t) \/ CancelSweep(t)
    \/ Close
    \/ \E s \in Closers :
          \/ CloseAndWait(s) \/ WaitClosed(s) \/ CancelWaiter(s) \/ ReturnClosed(s)
    \/ Terminated

Spec == Init /\ [][Next]_vars

\* The event loop runs every ready task, bodies end, and a child settles its
\* calls and drains once closed (CallsSettle, ShutdownCompletes of Admission).
\* Nothing obliges a timer to fire or anybody to cancel, sweep or close.
Fairness ==
    /\ \A c \in Callers :
          /\ WF_vars(Reacquire(c)) /\ WF_vars(Interrupted(c))
          /\ WF_vars(RunTransfer(c)) /\ WF_vars(ResumeTransferred(c)) /\ WF_vars(RunUndo(c))
          /\ WF_vars(Grant(c) \/ AdmitFails(c)) /\ WF_vars(ExitChild(c))
          /\ WF_vars(ReturnReference(c))
          /\ WF_vars(ReleaseByCallback(c)) /\ WF_vars(FinishClose(c)) /\ WF_vars(CloseChild(c))
    /\ \A t \in Keepers : WF_vars(StartSweep(t))
    /\ \A s \in Closers : WF_vars(ReturnClosed(s))

FairSpec == Spec /\ Fairness

-----------------------------------------------------------------------------
(* Properties.                                                             *)

HasChild(c) == held[c] # NoEntry

\* R is a strict total order of S.
Orders(R, S) ==
    /\ R \subseteq S \X S
    /\ \A d, e \in S : <<d, e>> \in R <=> d # e /\ <<e, d>> \notin R
    /\ \A d, e, f \in S : <<d, e>> \in R /\ <<e, f>> \in R => <<d, f>> \in R

\* Every variable has its type, the order by last_idle_at is one of the retained
\* children, and a caller refers to an op or a child exactly while the code does.
TypeOK ==
    /\ lifecycle \in {"OPEN", "CLOSING", "CLOSED"}
    /\ partitions \subseteq Callers
    /\ Orders(older, partitions)
    /\ borrowers \in [Callers -> Nat] /\ leased \in Nat
    /\ pending \in [Callers -> Ops] /\ job \in [Callers -> Jobs]
    /\ callback \subseteq Callers /\ closed \subseteq Callers /\ closing \subseteq Callers
    /\ drained \in BOOLEAN
    /\ totals \in [Totals -> Nat]
    /\ wanted \in [Callers -> Keys]
    /\ pc \in [Callers -> CallerStates]
    /\ held \in [Callers -> Callers \cup {NoEntry}]
    /\ op \in [Callers -> Callers \cup {NoEntry}]
    /\ \A c \in Callers : (op[c] # NoEntry <=> pc[c] \in OwnsOp)
                          /\ (HasChild(c) <=> pc[c] \in Leased)
    /\ interrupted \subseteq {c \in Callers : pc[c] \in OwnsOp \ {"awaiting", "undoing"}}
    /\ sweep \in [Keepers -> SUBSET Callers]
    /\ shut \in [Closers -> CloserStates]

\* The children and the slots promised to replacements keep the limit, however
\* many evictions overlap and however their callers end.
WithinLimit == Logical <= MaxPartitions

\* A key is isolated: its callers share one child, although a child of the key
\* may be evicted and made anew, and two callers may each wait to make it.
OnePartitionPerKey ==
    /\ \A d, e \in partitions : wanted[d] = wanted[e] => d = e
    /\ \A c \in Callers : HasChild(c) => wanted[held[c]] = wanted[c]

\* The reference counts are those of the callers; no error path forgets one.
LeaseAccounting ==
    /\ \A e \in Callers : borrowers[e] = Cardinality({c \in Callers : held[c] = e})
    /\ leased = Cardinality({c \in Callers : HasChild(c)})

\* No eviction, discard, sweep or shutdown takes a child from a caller that has
\* borrowed it, and none closes it before the manager closes.
LeasedIsUsable ==
    \A c \in Callers : HasChild(c) =>
        /\ held[c] \in partitions
        /\ lifecycle = "OPEN" => held[c] \notin closed

\* The drained event is set exactly when the manager is closed, nothing is
\* leased and no op is pending: none of the steps that bring that about, in
\* any order, forgets to look.
DrainExact == drained <=> lifecycle # "OPEN" /\ leased = 0 /\ PendingOps = {}

\* Every pending op "is released exactly once, either inline (if the caller
\* completes) or via a done callback" (docs/maintainers/architecture.md): whoever will release an op finds it, and an op always
\* has exactly one that will: its caller, the callback, or the task of a
\* maintenance op.
ReleasedOnce ==
    \A v \in Callers :
        LET owners == {c \in Callers : op[c] = v /\ pc[c] # "transferred"} IN
        /\ pending[v] = "EVICTION" <=> owners # {} \/ v \in callback
        /\ Cardinality(owners) <= 1 /\ (v \in callback => owners = {})
        /\ pending[v] = "MAINTENANCE" <=>
              pending[v] # "EVICTION" /\ job[v] \in {"ready", "running"}

\* Whoever returned from close_and_wait or wait_closed left nothing behind: no
\* lease, no op, no child being closed, no key.  A caller that handed its op over
\* may still have to unwind.
ReturnedMeansDrained ==
    (\E s \in Closers : shut[s] = "returned") =>
        /\ \A c \in Callers : pc[c] \notin (OwnsOp \ {"transferred"}) \cup Leased
        /\ PendingOps = {} /\ partitions = {}
        /\ \A e \in Callers : job[e] \in {"none", "done"}

\* Every caller that is let in leaves again: a victim is always closed.
CallersSettle == <>[](\A c \in Callers : pc[c] \in {"idle"} \cup Settled)

\* close_and_wait ends.
ShutdownCompletes == <>[](\A s \in Closers : shut[s] # "finishing")

\* "Repeated task cancellation cannot leave a reservation permanently
\* outstanding." (docs/maintainers/architecture.md, of the manager's pending ops)
OpsAreReleased == <>[](\A v \in Callers : pending[v] = "none")

-----------------------------------------------------------------------------
(* Refinement: the manager is a pool.                                      *)

Pool == INSTANCE PartitionPool WITH
    Users <- Callers, Names <- Keys, Room <- MaxPartitions, NoName <- NoEntry,
    retained <- {wanted[e] : e \in partitions},
    using <- [c \in Callers |-> IF HasChild(c) THEN wanted[held[c]] ELSE NoEntry],
    accepting <- lifecycle = "OPEN"

\* Every step of the manager is a step of the abstract pool or leaves keys,
\* leases and openness alone.
ImplementsPool == Pool!Spec
=============================================================================
