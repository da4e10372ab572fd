------------------------------ MODULE Registry ------------------------------
(***************************************************************************)
(* BulkheadRegistry (src/bulklink/registry.py): named ownership of         *)
(* bulkheads, their removal and their collective shutdown.                 *)
(*                                                                         *)
(* The mutex is held for the synchronous steps only; while remove and the  *)
(* collective operations await their bulkheads, names are created and      *)
(* removed by others.  A member is the part of an AsyncBulkhead that these *)
(* operations see: the event loop it is bound to, whether it is closed and *)
(* who holds a slot (module Admission says when it is drained).            *)
(* remove, close_all and close_and_wait run in a task of their own         *)
(* (complete_cleanup), so cancelling their caller changes none of this.    *)
(***************************************************************************)
EXTENDS FiniteSets, Functions

CONSTANTS
    Bulkheads,      \* the AsyncBulkhead objects, each created at most once
    Labels,
    Loops,          \* the event loops of the process
    Users,          \* tasks that use a slot of some bulkhead, again and again
    Removers,       \* calls of remove
    Collectors,     \* calls of the collective operations
    None            \* where a bulkhead, a label or a loop is expected

ASSUME RegistryAssumption ==
    /\ None \notin Bulkheads
    /\ None \notin Loops
    /\ Users \cap Removers = {}
    /\ Collectors \cap (Users \cup Removers) = {}

VARIABLES
    members,        \* self._bulkheads, None for a label that is not in the dict
    is_closed,      \* self._closed
    created,        \* the bulkheads create() has made
    loop,           \* the event loop of each task that has one
    bound,          \* AdmissionCoordinator._owner_loop of a bulkhead
    closed,         \* the bulkheads whose coordinator is closed
    inside,         \* the bulkhead a user holds a slot of
    removal,        \* where a call of remove is
    name,           \* the label a call of remove was given
    target,         \* the bulkhead get() found for it
    phase,          \* where a collective operation is
    kind,           \* which one it is
    items,          \* the bulkheads of its snapshot, while it runs
    todo,           \* those whose coroutine has not had its first step
    failures        \* those whose coroutine raised

memberVars == <<members, is_closed, created>>
bulkheadVars == <<bound, closed, inside>>
removerVars == <<removal, name, target>>
collectorVars == <<phase, kind, items, todo, failures>>
vars == <<memberVars, loop, bulkheadVars, removerVars, collectorVars>>

Tasks == Users \cup Removers \cup Collectors

\* fetched: get() has returned and the close has not run; waiting: in wait_closed.
RemovalStates == {"idle", "fetched", "waiting", "removed", "failed"}

\* capacity_reports awaits status() as statuses does.
Kinds == {"statuses", "close_all", "wait_closed", "close_and_wait"}
Closing == {"close_all", "close_and_wait"}
Waiting == {"wait_closed", "close_and_wait"}
Phases == {"idle", "running", "ended", "refused", "cancelled"}

Registered == Range(members) \ {None}

Init ==
    /\ members = [l \in Labels |-> None]
    /\ is_closed = FALSE
    /\ created = {}
    /\ loop \in {f \in [Tasks -> Loops \cup {None}] :
                    \A t \in Tasks : f[t] = None <=> t \notin Users}
    /\ bound = [b \in Bulkheads |-> None]
    /\ closed = {}
    /\ inside = [u \in Users |-> None]
    /\ removal = [r \in Removers |-> "idle"]
    /\ name = [r \in Removers |-> None]
    /\ target = [r \in Removers |-> None]
    /\ phase = [k \in Collectors |-> "idle"]
    /\ kind = [k \in Collectors |-> "none"]
    /\ items = [k \in Collectors |-> {}]
    /\ todo = [k \in Collectors |-> {}]
    /\ failures = [k \in Collectors |-> {}]

-----------------------------------------------------------------------------
(* The bulkheads, as the registry's operations see them.                   *)

\* _bind_to_running_loop: the first loop that uses b owns it, others raise.
CanUse(t, b) == bound[b] \in {None, loop[t]}
Bind(t, b) == bound' = [bound EXCEPT ![b] = loop[t]]

\* Nobody holds a slot of b.
Empty(b) == \A u \in Users : inside[u] # b

\* wait_closed of b returns.
Drained(b) == b \in closed /\ Empty(b)

\* A user calls execute or slot on a bulkhead it keeps or got by name.  A
\* closed one refuses, after it was bound.
Enter(u, b) ==
    /\ inside[u] = None /\ b \in created /\ CanUse(u, b)
    /\ Bind(u, b)
    /\ inside' = IF b \in closed THEN inside ELSE [inside EXCEPT ![u] = b]
    /\ UNCHANGED <<memberVars, loop, closed, removerVars, collectorVars>>

Leave(u) ==
    /\ inside[u] # None
    /\ inside' = [inside EXCEPT ![u] = None]
    /\ UNCHANGED <<memberVars, loop, bound, closed, removerVars, collectorVars>>

\* Somebody closes a bulkhead without its registry.
CloseMember(u, b) ==
    /\ b \in created /\ CanUse(u, b)
    /\ Bind(u, b)
    /\ closed' = closed \cup {b}
    /\ UNCHANGED <<memberVars, loop, inside, removerVars, collectorVars>>

-----------------------------------------------------------------------------
(* Membership.                                                             *)

\* Faulty: does not look at _closed.
Create_AfterShutdown(l, b) ==
    /\ members[l] = None /\ b \notin created
    /\ members' = [members EXCEPT ![l] = b]
    /\ created' = created \cup {b}
    /\ UNCHANGED <<is_closed, loop, bulkheadVars, removerVars, collectorVars>>

Create(l, b) ==
    /\ ~is_closed /\ members[l] = None /\ b \notin created
    /\ members' = [members EXCEPT ![l] = b]
    /\ created' = created \cup {b}
    /\ UNCHANGED <<is_closed, loop, bulkheadVars, removerVars, collectorVars>>

\* A removal is over and its frame is gone.
EndRemoval(r, outcome) ==
    /\ removal' = [removal EXCEPT ![r] = outcome]
    /\ name' = [name EXCEPT ![r] = None]
    /\ target' = [target EXCEPT ![r] = None]
    /\ loop' = [loop EXCEPT ![r] = None]

\* remove(l) on event loop e, up to its await.
Fetch(r, l, e) ==
    /\ removal[r] = "idle" /\ members[l] # None
    /\ removal' = [removal EXCEPT ![r] = "fetched"]
    /\ name' = [name EXCEPT ![r] = l]
    /\ target' = [target EXCEPT ![r] = members[l]]
    /\ loop' = [loop EXCEPT ![r] = e]
    /\ UNCHANGED <<memberVars, bulkheadVars, collectorVars>>

\* get() raises KeyError for a label that is not registered.
FetchFails(r, l) ==
    /\ removal[r] = "idle" /\ members[l] = None
    /\ EndRemoval(r, "failed")
    /\ UNCHANGED <<memberVars, bulkheadVars, collectorVars>>

\* The close of bulkhead.close_and_wait() runs; it raises on another loop.
CloseTarget(r) ==
    /\ removal[r] = "fetched"
    /\ \/ /\ CanUse(r, target[r])
          /\ Bind(r, target[r])
          /\ closed' = closed \cup {target[r]}
          /\ removal' = [removal EXCEPT ![r] = "waiting"]
          /\ UNCHANGED <<loop, name, target>>
       \/ /\ ~CanUse(r, target[r])
          /\ EndRemoval(r, "failed")
          /\ UNCHANGED <<bound, closed>>
    /\ UNCHANGED <<memberVars, inside, collectorVars>>

\* Faulty: deletes whatever has the name by now.
Delete_ByName(r) ==
    /\ removal[r] = "waiting" /\ Drained(target[r])
    /\ members' = [members EXCEPT ![name[r]] = None]
    /\ EndRemoval(r, "removed")
    /\ UNCHANGED <<is_closed, created, bulkheadVars, collectorVars>>

\* Faulty: a removal that finds its label gone waits for it to come back.
Delete_WaitsForLabel(r) ==
    /\ removal[r] = "waiting" /\ Drained(target[r])
    /\ members[name[r]] = target[r]
    /\ members' = [members EXCEPT ![name[r]] = None]
    /\ EndRemoval(r, "removed")
    /\ UNCHANGED <<is_closed, created, bulkheadVars, collectorVars>>

\* The rest of _remove: the label is deleted if it still names this bulkhead.
Delete(r) ==
    /\ removal[r] = "waiting" /\ Drained(target[r])
    /\ \/ /\ members[name[r]] = target[r]
          /\ members' = [members EXCEPT ![name[r]] = None]
          /\ EndRemoval(r, "removed")
       \/ /\ members[name[r]] # target[r]
          /\ EndRemoval(r, "failed")
          /\ UNCHANGED members
    /\ UNCHANGED <<is_closed, created, bulkheadVars, collectorVars>>

-----------------------------------------------------------------------------
(* Collective operations.                                                  *)

\* An operation is called on event loop e.
Call(k, operation, e) ==
    /\ phase[k] = "idle"
    /\ kind' = [kind EXCEPT ![k] = operation]
    /\ loop' = [loop EXCEPT ![k] = e]
    /\ UNCHANGED <<members, created, bulkheadVars, removerVars, failures>>

\* _items_snapshot, _begin_shutdown, _closed_items_snapshot: one snapshot under
\* the mutex; close_all and close_and_wait close the registry in the same step.
Begin(k, operation, e) ==
    /\ Call(k, operation, e)
    /\ operation = "wait_closed" => is_closed
    /\ phase' = [phase EXCEPT ![k] = "running"]
    /\ is_closed' = (is_closed \/ operation \in Closing)
    /\ items' = [items EXCEPT ![k] = Registered]
    /\ todo' = [todo EXCEPT ![k] = Registered]

\* wait_closed of an open registry raises RuntimeError.
RefuseWait(k, e) ==
    /\ Call(k, "wait_closed", e)
    /\ ~is_closed
    /\ phase' = [phase EXCEPT ![k] = "refused"]
    /\ UNCHANGED <<is_closed, items, todo>>

\* Faulty: the first failure stops the operation (no return_exceptions).
Attempt_StopsAtFailure(k, b) ==
    /\ phase[k] = "running" /\ b \in todo[k]
    /\ \/ /\ CanUse(k, b)
          /\ todo' = [todo EXCEPT ![k] = @ \ {b}]
          /\ Bind(k, b)
          /\ closed' = IF kind[k] \in Closing THEN closed \cup {b} ELSE closed
          /\ UNCHANGED failures
       \/ /\ ~CanUse(k, b)
          /\ todo' = [todo EXCEPT ![k] = {}]
          /\ failures' = [failures EXCEPT ![k] = @ \cup {b}]
          /\ UNCHANGED <<bound, closed>>
    /\ UNCHANGED <<memberVars, loop, inside, removerVars, phase, kind, items>>

\* The coroutine of one member of the gather runs until it waits or ends.
Attempt(k, b) ==
    /\ phase[k] = "running" /\ b \in todo[k]
    /\ todo' = [todo EXCEPT ![k] = @ \ {b}]
    /\ \/ /\ CanUse(k, b)
          /\ Bind(k, b)
          /\ closed' = IF kind[k] \in Closing THEN closed \cup {b} ELSE closed
          /\ UNCHANGED failures
       \/ /\ ~CanUse(k, b)
          /\ failures' = [failures EXCEPT ![k] = @ \cup {b}]
          /\ UNCHANGED <<bound, closed>>
    /\ UNCHANGED <<memberVars, loop, inside, removerVars, phase, kind, items>>

\* Every coroutine is done: the operation returns, or raises the failures.
Finish(k) ==
    /\ phase[k] = "running" /\ todo[k] = {}
    /\ kind[k] \in Waiting => \A b \in items[k] \ failures[k] : Drained(b)
    /\ phase' = [phase EXCEPT ![k] = "ended"]
    /\ items' = [items EXCEPT ![k] = {}]
    /\ UNCHANGED <<memberVars, loop, bulkheadVars, removerVars, kind, todo, failures>>

\* Only statuses and wait_closed are cancelled with their caller; the gather
\* cancels the coroutines that are left.
CancelCollector(k) ==
    /\ phase[k] = "running" /\ kind[k] \notin Closing
    /\ phase' = [phase EXCEPT ![k] = "cancelled"]
    /\ items' = [items EXCEPT ![k] = {}]
    /\ todo' = [todo EXCEPT ![k] = {}]
    /\ UNCHANGED <<memberVars, loop, bulkheadVars, removerVars, kind, failures>>

RemovalOver(r) == removal[r] \in {"removed", "failed"}
Over(k) == phase[k] \in {"ended", "refused", "cancelled"}

\* Nothing is left to happen.
Terminated ==
    /\ \A r \in Removers : RemovalOver(r)
    /\ \A k \in Collectors : Over(k)
    /\ \A u \in Users : inside[u] = None
    /\ UNCHANGED vars

Next ==
    \/ \E u \in Users :
          \/ \E b \in Bulkheads : Enter(u, b) \/ CloseMember(u, b)
          \/ Leave(u)
    \/ \E l \in Labels, b \in Bulkheads : Create(l, b)
    \/ \E r \in Removers :
          \/ \E l \in Labels : FetchFails(r, l) \/ \E e \in Loops : Fetch(r, l, e)
          \/ CloseTarget(r) \/ Delete(r)
    \/ \E k \in Collectors :
          \/ \E operation \in Kinds, e \in Loops : Begin(k, operation, e)
          \/ \E e \in Loops : RefuseWait(k, e)
          \/ Finish(k) \/ CancelCollector(k)
          \/ \E b \in Bulkheads : Attempt(k, b)
    \/ Terminated

Spec == Init /\ [][Next]_vars

\* The event loops run every ready task, and bodies end.  Nothing obliges
\* anybody to create, to enter, to start an operation or to cancel one.
Fairness ==
    /\ \A u \in Users : WF_vars(Leave(u))
    /\ \A r \in Removers : WF_vars(CloseTarget(r)) /\ WF_vars(Delete(r))
    /\ \A k \in Collectors :
          /\ WF_vars(Finish(k))
          /\ \A b \in Bulkheads : WF_vars(Attempt(k, b))

FairSpec == Spec /\ Fairness

-----------------------------------------------------------------------------
(* Properties.                                                             *)

\* Every variable has its type.
TypeOK ==
    /\ members \in [Labels -> Bulkheads \cup {None}]
    /\ is_closed \in BOOLEAN
    /\ created \subseteq Bulkheads
    /\ loop \in [Tasks -> Loops \cup {None}]
    /\ bound \in [Bulkheads -> Loops \cup {None}]
    /\ closed \subseteq Bulkheads
    /\ inside \in [Users -> Bulkheads \cup {None}]
    /\ removal \in [Removers -> RemovalStates]
    /\ name \in [Removers -> Labels \cup {None}]
    /\ target \in [Removers -> Bulkheads \cup {None}]
    /\ phase \in [Collectors -> Phases]
    /\ kind \in [Collectors -> Kinds \cup {"none"}]
    /\ items \in [Collectors -> SUBSET Bulkheads]
    /\ todo \in [Collectors -> SUBSET Bulkheads]
    /\ failures \in [Collectors -> SUBSET Bulkheads]

\* "the registry never silently abandons a live bulkhead"
\* (docs/concepts/registry.md:48): a bulkhead that create() made and that has no
\* name any more is closed and empty, whatever removals, creations under its
\* name and shutdowns overlapped.
RemovedIsDrained == \A b \in created \ Registered : Drained(b)

\* A close_and_wait of the registry that returned without a failure left no
\* bulkhead alive: not one removed, not one created while it was waiting.
NobodyEscapes ==
    \A k \in Collectors :
        phase[k] = "ended" /\ kind[k] = "close_and_wait" /\ failures[k] = {}
            => \A b \in created : Drained(b)

\* A collective shutdown attempts every bulkhead that could still be open: once
\* it has ended, an open one was reported, and only for being bound to another
\* event loop.
ShutdownAttemptsAll ==
    \A k \in Collectors :
        phase[k] = "ended" /\ kind[k] \in Closing =>
            /\ created \ closed \subseteq failures[k]
            /\ \A b \in failures[k] : bound[b] \notin {None, loop[k]}

\* Every removal and every collective operation that started ends for good,
\* though others close, remove and create meanwhile; only a wait_closed may wait
\* for ever, and only for a bulkhead that a shutdown failed to close.
OperationsEnd ==
    <>[] /\ \A r \in Removers : removal[r] = "idle" \/ RemovalOver(r)
         /\ \A k \in Collectors :
               phase[k] = "running" =>
                   kind[k] = "wait_closed" /\ ~(items[k] \ failures[k] \subseteq closed)
=============================================================================
