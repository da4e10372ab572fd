# A verification of bulklink

bulklink is a Python library of asynchronous bulkheads: it bounds how many
operations run and how many wait. All of it runs on one event loop, so what is
hard about it is not parallelism but the order of steps: every `await` lets other
tasks run, a task may be cancelled at any of them, and timers, cancellations,
handoffs, resizes and shutdown race for the same slot. This directory holds TLA+
modules for the parts where those races are, the TLC runs that check them on small
instances, and proofs, checked by TLAPS, that the core is correct for every size.

Paths below are relative to the repository; `_internal/` is
`src/bulklink/_internal/`.

## Inventory

| Component | State | Operations | Modelled in |
| --- | --- | --- | --- |
| Admission coordinator (`_internal/coordinator.py`, `models.py`) | deque of wait entries, `in_flight`, limit, closed flag, drain event, counters | `enter`, `enter_within`, `enter_before`, `enter_now`, `release`, `resize`, `close`, `wait_closed`, `close_and_wait`, `status` | `Admission` |
| Cleanup under cancellation (`_internal/cancellation.py`) | a task and one remembered cancellation | `complete_cleanup` | wherever it is used |
| Slot context (`_internal/slot.py`) | IDLE, ENTERING, ENTERED, EXITING | `__aenter__`, `__aexit__` | `AsyncBulkhead` |
| Bulkhead facade (`bulkhead.py`) | none of its own | makes contexts, forwards | `AsyncBulkhead` |
| Events (`_internal/events.py`, `events.py`) | tuple of handlers | `add`, `remove`, `dispatch` | `Events`, `AsyncBulkhead` |
| Status and intervals (`status.py`, `weighted_status.py`, `partitioned_status.py`) | none | `status`, `since` | `Status`, `WeightedStatus`, `PartitionStatus` |
| Capacity diagnostics (`capacity.py`, `_internal/diagnostics.py`) | none | `assess_capacity` | `Diagnostics` |
| Partition manager (`_internal/partitioned_coordinator.py`, `partitioned.py`) | map of children with reference counts, pending ops, lifecycle, drain event | `acquire`, `release_reference`, `cleanup_idle`, `discard`, `close`, `wait_closed`, `close_and_wait` | `PartitionManager` |
| Weighted coordinator (`_internal/weighted_coordinator.py`, `weighted.py`) | as admission, with units used and waiting | as admission, with a cost | `WeightedAdmission` |
| Registry (`registry.py`) | map of bulkheads, closed flag | `create`, `get`, `remove`, `statuses`, `close_all`, `wait_closed`, `close_and_wait` | `Registry` |
| Validation, errors, typing | none | argument checks | not modelled: no state; the models take valid arguments |

How they interact. A `SlotContext` calls the coordinator's entry on the way in and
hands its `release` to `complete_cleanup` on the way out. A partition manager lends
children, each a bulkhead of its own: it borrows on behalf of the caller, the caller
then enters the child, leaves it, and returns the reference. To make room the manager
closes an idle child, which takes awaits during which other callers come and go, the
caller's deadline may fire, and the manager may be closed. A registry closes its
bulkheads collectively. Events are dispatched after the lock is released, in the
same step of the task.

The locks. Every coordinator takes an `asyncio.Lock`, but no critical section
contains an `await`, so the lock is never found taken and acquiring it never
suspends. What lies between two suspensions of a task is one atomic step, and the
models have one action for each. `complete_cleanup` is the exception that matters:
it runs its argument in a new task, so there is a gap before it, in which the
others run, and another after it, in which a cancellation is remembered.

What makes each part correct:

- Admission: a slot is never lost, used twice or left idle beside a waiter; the
  line is FIFO; a wait ends once, and the caller is told how it did; after a
  shutdown the bulkhead is empty; totals add up.
- Partitions: the limit on children, with the slots promised to replacements;
  one child per key; no child is taken from a caller that uses it; every pending
  op is released exactly once, whoever is cancelled; shutdown waits for all of it.
- Weighted: the same as admission in units, and the head of the line, however
  costly, is never stuck and never overtaken; a resize cannot strand it.
- Contexts: one context, one slot, however its uses overlap.
- Events: whoever counts them knows the state of the bulkhead.
- Status: two snapshots can be compared and their difference is what happened; a
  diagnosis says what the next call would meet.
- Registry: no live bulkhead loses its name; none escapes the collective shutdown,
  whatever fails.

`PROJECT.json` lists, under `hazards`, each line where one of these could go wrong
and the properties that watch it.

## Modules

| Module | What it is |
| --- | --- |
| `Bulkhead` | what a bulkhead promises: owners, a line, a limit, open or not |
| `Admission` | `AdmissionCoordinator`, task by task; implements `Bulkhead` |
| `MCAdmission` | its finite instances for liveness and the deadline |
| `Status` | `BulkheadStatus` and `BulkheadInterval` over the states of `Admission` |
| `Diagnostics` | `assess_capacity` of such a status |
| `MCDiagnostics` | the finite instance of `Admission`, `Status` and `Diagnostics` |
| `Events` | the events of a bulkhead, and the gauges a handler can keep of them |
| `AsyncBulkhead` | `Admission` behind contexts that calls share and handlers that come and go |
| `MCAsyncBulkhead` | its finite instance |
| `PartitionPool` | what a set of partitions promises: keys retained, keys in use, open or not |
| `PartitionManager` | `PartitionCoordinator` and the admissions that borrow from it; implements `PartitionPool` |
| `PartitionStatus`, `MCPartitions` | its status and intervals; its finite instances |
| `WeightedBulkhead` | what a bulkhead promises when callers ask for units |
| `WeightedAdmission` | the line when operations have costs; implements `WeightedBulkhead` |
| `WeightedStatus`, `MCWeighted` | its status and intervals; its finite instances |
| `Registry`, `MCRegistry` | `BulkheadRegistry` on several event loops; its finite instances |
| `LineProofs` | lemmas about lines, for the proofs about both coordinators |
| `AdmissionProofs` | types, the line and the outcomes of `Admission` |
| `CapacityProofs` | slots, work conservation, drain, fairness of the line, refinement |
| `StatusProofs` | intervals, totals and diagnoses |
| `AsyncBulkheadProofs` | contexts and handlers |
| `PartitionProofs` | limit, keys, leases, ops, drain, refinement and intervals of the partition manager |
| `WeightedProofs` | units, the line, drain, refinement and intervals of the weighted coordinator |
| `RegistryProofs` | removal and collective shutdown |

Operators whose name has the form `X_Something` and whose comment starts with
"Faulty" are plausible bugs of `X`. No specification uses them; each is substituted
for `X` to see that the property it belongs to notices.

### Admission

A call is one `async with bulkhead.slot():` of one task; tasks use a slot once.
Variables are the coordinator's fields (`waiters`, `in_flight`, `parallelism`,
`closed`, `drained`, `counters`, `peaks`), the state of each call's `WaitEntry`
(`entry`, `timed`), and where each task is suspended (`pc`, `interrupted`, `shut`).

- `Enter`, `EnterNow`: `_enter` and `enter_now` up to the first `await`.
- `Resume`, `Timeout`, `Cancel`: the three ways the wait ends. They only move the
  task: the entry may have been settled already, or be settled before the cleanup
  runs. `RunExpire`, `ResumeExpired` and `RunCancel` are the cleanup tasks and what
  the caller does with their result.
- `FinishBody`, `RunRelease`: the body ends; later the task of `release()` runs.
- `Resize`, `Close`, `CloseAndWait`, `RunClose`, `WaitClosed`, `ReturnClosed`,
  `CancelCloser`: control and shutdown.

Time is left out: a deadline that has passed on entry and a timer that fires are
possible at any moment for a call with a limit. Wait durations are not modelled.

### Status and Diagnostics

A status is taken in one step, so `Status` is a function of a state and an interval
one of two states. `snapshot_index`, labels and the parts of a status that never
change are left out; of `_validate_interval_snapshots` the checks are left that depend
on what the bulkhead did. What is claimed of an interval is claimed of every single
step, since intervals add up (`IntervalsAddUp`). `Findings` gives the codes and
severities of a report. Ratios are compared as fractions. The thresholds of history
are constants, small enough in the instance to be met by four calls. The finding
`WAIT_TIME_NEAR_LIMIT` is about durations and left out.

One thing the property has to except: a bulkhead without a waiting room that is being
shrunk refuses newcomers and reports no more than a NOTICE, since the report calls
active work above the capacity a WARNING only when somebody waits.

### AsyncBulkhead

Every step of the coordinator is a step here, together with the dispatch of the
events it made: nothing is awaited between the lock and `dispatch`. `ctx` is the state
of each `SlotContext`, `via` the context a call is in. `execute` and its kin make a
context of their own (named after the call); those in `Contexts` are shared.
`EnterSlot` is `__aenter__` up to its first await; of a context in use it raises
`RuntimeError` and changes nothing, so there is no such step. `ExitSlot` is
`__aexit__` up to its await, and `Unwind` the rest, which frees the context after
the task of `release()`, or of `_cancel_waiter`, has ended. A real context is made by
one of `slot`, `slot_now` or `slot_within` and enters in one way; the model lets each
use choose, which covers all of them.

`gauges` is what each registered handler makes of its events by their kinds alone:
active, waiting, limit, closed. A handler starts from the state it finds when it is
registered. A callback may register or remove one handler; an exception of a callback
is logged and changes nothing. `RELEASED` and `ABANDONED` announce the state after
the slot was handed on, because the coordinator frees and hands over before it makes
the event; all other events announce the state they led to, which is checked.

### PartitionManager

A caller is one `async with partitioned.slot(key):`. A child is created by the
acquire of exactly one caller, so that caller's name stands for it. `older` is the
order of `last_idle_at`: for each child those that became idle before it. Variables follow the fields: `partitions`, `borrowers`,
`leased`, `pending` (the dict of ops: none, EVICTION or MAINTENANCE for each removed
child), `lifecycle`, `drained`, `totals`; and the tasks: `pc`, `op` (the op a caller
holds), `job` (the task that closes a child), `callback` (the done callback of that
task), `sweep`, `closing`, `shut`.

- `Arrive`, `Reacquire`: one round of the loop of `acquire`, first and after the
  victim has closed. `Interrupted`, `Timeout`, `Cancel`, `RunTransfer`,
  `ResumeTransferred`, `RunUndo`, `ReleaseByCallback`: how a caller gives up and who
  releases its op.
- `Grant`, `AdmitFails`, `ExitChild`, `ReturnReference`: the child's admission as the
  manager sees it, and `release_reference`. What `Admission` proves of one bulkhead is
  assumed of a child: a closed child admits nobody and drains when nobody holds a slot.
- `FinishClose`, `Discard`, `Sweep`, `StartSweep`, `CancelSweep`: closing of removed
  children, `discard` and `cleanup_idle`. `idle_timeout` is "some of the oldest".
- `Close`, `CloseAndWait`, `CloseChild`, `WaitClosed`, `CancelWaiter`,
  `ReturnClosed`: shutdown.

`SweepsCancelled` and `TransfersCancelled` say whether two particular cancellations
happen; see the findings.

### WeightedAdmission

Calls, suspensions and cleanup tasks are as in `Admission`, and so are the names of
the actions. What is new is that a departure does not hand one slot to one waiter:
whatever frees units, or takes an entry out of the line, runs
`_admit_available_waiters_locked`, which admits from the head of the line for as long
as the cost at the head fits. `AdmitWaiters` is that loop, as the one number of
admissions after which the next does not fit. It is part of `LeaveQueue` (expiry and
cancellation), `ReturnUnits` (release, and an admitted caller that gives up) and
`Resize`. The units of a set of calls are the number of pairs of a call and one of its
units, so that no sum is needed. `resize` refuses a capacity below the largest cost in the line, and `Enter`
a cost above the capacity. `used`, `in_flight` and `waiting_units` are kept by
addition and subtraction as in the code, so that the properties can compare them
with who really holds units and who waits.

Left out: which calls have a limit (a wait without one is a wait whose timer never
fires), the gap before the task of `close_and_wait` closes (`Admission` has it), peaks
and events. `WeightedStatus` is `status()` and its intervals, in operations and in
units; `PartitionStatus` is that of the partition manager.

### Registry

The mutex is a thread lock held for synchronous code only. `Create`, `Fetch`,
`FetchFails` and `Begin` are such critical sections; `CloseTarget` and `Delete` are the
parts of `_remove` before and after it awaits its bulkhead, `Attempt` and `Finish` the
gather of a collective operation, member by member. A member is reduced to the event
loop it is bound to, whether it is closed and who is inside; that it drains once they
have left is `Admission`'s. Bulkheads fail here by being bound to another event loop:
the operation raises for this one and goes on with the others. Users enter, leave, and
close members behind the registry's back. `remove`, `close_all` and
`close_and_wait` run in a task of their own, so only the others can be cancelled.

## Runs

| Run | Instance | Shows |
| --- | --- | --- |
| `admission_safety` | 4 calls, waiting room 2, limits 1 to 3, `close()` | slots, line, outcomes, totals, drain, intervals, diagnoses, refinement of `Bulkhead` |
| `admission_liveness` | 3 calls, 1 closer, limits 1 and 2 | every started call settles; shutdown ends, and only on an empty bulkhead |
| `admission_deadline` | 2 calls, 1 closer | violation: a body starts after its deadline |
| `bulkhead` | 3 calls, 1 shared context beside their own, 2 handlers, 1 closer, waiting room 1 | contexts own one slot; handlers know the bulkhead |
| `partitions_safety` | 4 callers, 3 keys, 2 partitions, 1 keeper, 1 closer, all cancellations | limit, keys, leases, drain, status, refinement of `PartitionPool` |
| `partitions_liveness` | 3 callers, 3 keys, 1 partition, without the two cancellations of the findings | every op is released, once; callers settle; shutdown ends and leaves nothing |
| `partitions_sweep_cancelled` | 2 callers | violation: an op stays pending for ever |
| `partitions_transfer_cancelled` | 3 callers | violation: an op gets two that release it |
| `weighted_safety` | 4 calls of cost 1 or 2, capacity 1 or 3, waiting room 2, `close()` | units, the line, intervals, refinement of `WeightedBulkhead` |
| `weighted_liveness` | 3 calls of cost 1 or 2, capacity 1 or 2, 1 closer | every call settles, the costly ones too; the drain is exact and noticed |
| `registry_safety` | 2 bulkheads, 2 labels, 2 loops, 1 user, 2 removals, 2 collective operations | nobody is abandoned, escapes or is left out |
| `registry_liveness` | 2 bulkheads under 1 label in turn, the rest the same | every operation ends |

Why the bounds are enough. The races of admission are between at most three parties:
one call that leaves, one that is handed its slot while timing out or cancelled, and
one behind it; the fourth call holds the other slot of a limit above one, so that a
resize below the load has something to drain. A waiting room of two is what it takes
to be overtaken in; that none at all is safe too is not run but proved, as the theorems
hold for every waiting room. A shared context needs two calls that use it in turn and a third
that hands over the slot; two handlers are enough for one to come or go while the other
is told. With two partitions and three keys two evictions overlap, and a
third caller arrives in between; four callers are needed because two must have made
the victims. Costs of one and two with a capacity of three give each case of the
loop: a departure that lets in nobody, one or two; a costly head with a cheap call
behind it that would fit; and a resize to one, which a cost of two in the line has to
stop. In the registry two removals of one label and two bulkheads that
have it in turn make the race of `_remove`; two loops make members fail; two collective
operations overlap. Symmetry is used in the safety runs only. The view of the
`bulkhead` run drops the totals and peaks of `Admission`, which no step reads.

Fairness. The event loop runs every ready task, so each step that a task or a done
callback can take by itself is weakly fair. Bodies are assumed to end; without that
nothing in a bulkhead terminates. A child that is asked for a slot answers, which
for `Admission` is `CallsSettle`. In the registry the steps of a removal and of a
collective operation are fair, and users leave; the creation of bulkheads is not. No timer
has to fire and nobody has to cancel, resize, sweep or close, so liveness never rests
on a timeout. Some waits may rightly last for ever, and the properties say which:
`wait_closed` of a bulkhead that nobody closes, and that of a registry for a member
whose close has failed.

## Findings

- A handoff that comes between the timer of a deadline and the task of
  `_expire_waiter` wins, so a body can start after its deadline
  (`docs/reference/public-contract.md` says it never does).
- `cleanup_idle` cancelled before its gathered tasks have started never releases
  their ops: a coroutine that never started has no `finally`. The manager never
  drains and `close_and_wait` hangs.
- A caller that is cancelled while it hands its victim to the manager releases the op,
  and the callback releases it again; the comment there says this cannot happen.

The second and the third were reproduced against the code. `partitions_liveness` shows
that nothing else goes wrong once they are excluded, and
`partitions_safety` that limit, isolation, leases and reports survive even them.

Without a run, since reading the code shows it: `_PartitionLifecycle.CLOSED` is
documented and never assigned.

## Proofs

Every safety property that a passing run checks is proved too; `PROJECT.json` lists the
theorem of each. They hold

- of `Admission` and what is built on it for any finite set of calls, any set of positive
  sizes and any waiting room (`AdmissionAssumption`), and any positive thresholds of a
  report (`DiagnosticsAssumption`);
- of `AsyncBulkhead` for any contexts and handlers besides (`AsyncBulkheadAssumption`: a
  context is not a call);
- of `WeightedAdmission` for any finite set of calls, and positive costs and capacities
  (`WeightedAssumption`);
- of `PartitionManager` for any finite set of callers, any keys and any positive limit
  (`PartitionAssumption`);
- of `Registry` for any sets at all (`RegistryAssumption`).

`LineInv` (in `AdmissionProofs`) is the conjunction of `TypeOK`,
`QueueMatchesEntries` and `OutcomeMatchesEntry`. None is inductive alone: that a
cleanup finds its entry in a state it can settle depends on the deque and the entries
agreeing, and that in turn on the deque having no duplicates and on where each task is.

Capacity is about numbers, so `CapacityProofs` first says what a step can do to the
owners of slots and to the line, in eight effects (`Kept`, `Granted`, `Joined`,
`Withdrawn`, `Handed`, `Returned`, `Resized`, `ShutDown`) and proves once, action by
action, that each step has one of them (`EveryStepEffect`). From an effect follow the
cardinality of `Owners` (`SlotAccounting`), that nobody waits beside a free slot
(`WorkConserving`) and that the drain is signalled exactly at the right time
(`DrainExact`); with `LineInv` these make up `CapacityInv`, which is inductive. The
action properties and the refinement of `Bulkhead` are read off the effects as well.
`DrainExact` rests on `LineInv` too, which has that the line of a closed bulkhead is
empty: only therefore is the last release also the last of the work.

`SameOperators` states that the sequence and set operators of the instantiated
`Bulkhead` are those of the library, since an instance has its own copies.

`StatusProofs` needs no new invariant: under `CapacityInv` each action adds to the
totals exactly what it adds to or takes from the active and the waiting, one lemma for
each. `IntervalsAddUp` carries that over from one step to any number.

It also shows of each total that it is the number of calls that met one fate. A
fate is a predicate of a call's entry and task, so a step that lets one call meet one
fate moves one total by one (`OneFate`), the loops of resize and close move one
total by the number of entries they settle (`LineFate`), and every other call is a
bystander. That calls never leave a fate again is what makes
`OutcomesCounted`, with `CapacityInv`, inductive. Two identities that are not about fates
(`Sides`) have an induction of their own, and `CountersBalance`, the identities
`tests/invariants.py` asserts, follows by counting the calls in line and inside.

`DiagnosisMatchesAdmission` needs no invariant of its own either: the findings about the
present are read off the numbers of a status, which `CapacityInv` relates to what
`CanAdmitDirectly` and the waiting room say to the next call, and the ratios of the
history are fractions because `OutcomesCounted` and `CountersBalance` say whose calls are
counted above and below.

`AsyncBulkheadProofs` first shows `BulkheadSpec => Spec`: contexts and handlers only
ever restrict the coordinator. So all theorems about `Admission` hold behind a facade,
and its invariants may be used to show that `ContextInv` is inductive, which says who is
in which context in terms of where the tasks are. `ContextOwnsItsSlot` follows from it
and `LineInv`.

What a handler makes of a batch of events (`Watch`) is a recursive function. `PathOfWatch`
shows that it follows any path of states that the events lead along one by one, by
contradiction: among the positions at which it leaves the path there would be a least
one. It remains to name the path of each batch: from `Now` to `Now'`, through a state
for every event (`Leads`). For a resize or a close its length is a variable and the
states are those after each waiter that is settled (`ResizeFollowed`, `CloseFollowed`),
which is also why as many are told as were announced (`AffectedAreTold`). With
`HandlersInv`, which adds that no handler is registered twice, each handler is given just
that batch and ends where the bulkhead is. That the line is empty unless the limit is
reached, and after a close, is `CapacityInv`; without it an `ADMITTED` past a line
would be a lie.

`PartitionProofs` follows the life of a child and that of an op. A child is retained, or
removed with a task that closes it, and never comes back (`Lives`); no two callers hold
one op, and the slot promised to a caller that waits for its victim is its alone
(`Promises`); until the manager is closed a retained child is open (`OpenChildren`).
Together with `TypeOK`, `LeaseAccounting`, `OnePartitionPerKey`, `WithinLimit` and `DrainExact` they
make up `ManagerInv`, which is inductive for all cancellations: an op that nobody
releases, or that two try to release, breaks no limit and no isolation, it only stays or
goes early. Therefore these theorems have no hypothesis, while `ReleasedOnce` and
`ReturnedMeansDrained` assume that neither `SweepsCancelled` nor
`TransfersCancelled`: the two violation runs are the states in which they fail otherwise.
Under these hypotheses `CarefulInv` adds that every op has just one party to answer for
it: a caller, the callback of the victim's task, or the task of a sweep.
What each step does to the map of children (`EveryMapStep`) gives the refinement
of `PartitionPool` and the intervals.

`WeightedProofs` is about the loop `_admit_available_waiters_locked`. `ServedLine` says of
it, for any line and any `k` that it may stop at, that sums, sets and line agree
afterwards if they did before; `UnitAccounting` and `LineInv` follow for every
action that runs it, since each first takes one call out of the line or of the owners or
changes the capacity. That the head waits only while it does not fit
(`WorkConserving`) is the condition on which the loop stops, kept by the actions
that do not run it because they only add to what is used or to the end of the line.
Then, as for `Admission`, what a step can do is summed up in seven effects, from which
order, refinement and intervals follow. `WeightedInv` is the conjunction of `TypeOK`,
`UnitAccounting`, `LineInv`, `WorkConserving` and `DrainInv`.

`RegistryProofs` rests on nothing being undone: a drained bulkhead stays drained, a
binding is final, and membership only loses a drained bulkhead or gains a new one.
`ShutdownInv` says of a collective shutdown under way that whatever is open
is still to be attempted or has failed; `NobodyEscapes` needs in addition that nobody
is created in a closed registry.

Not run, because proved and cheap to see in the small: `AdmittedWithinLimit`,
`ClosedIsFinal`, `QueueMatchesEntries`, `SettledOnce`, `CountersBalance` and `NeverRaises` of
`Admission` and `TypeOK` of `Registry`.

Only model-checked: all liveness (fairness and ENABLED are beyond this prover), that is
`CallsSettle`, `ShutdownCompletes`, `CallersSettle`, `OpsAreReleased`, `EverybodySettles`
and `OperationsEnd`. `NeverStartsAfterDeadline` is false.

## Plan

1. Done: `Bulkhead`, `Admission`, `PartitionPool`, `PartitionManager`, `Status`,
   `Diagnostics`, `AsyncBulkhead`, `WeightedBulkhead`, `WeightedAdmission`, `Registry`
   and their runs; the proofs about `Admission`, its totals and intervals, contexts
   and the registry.
2. Done: the safety of partitions (`PartitionProofs`) and of weighted admission
   (`WeightedProofs`), diagnoses and handlers.
3. Next: that the abstract bulkheads and the pool keep what they are for (no limit is
   passed but by a resize, no line beside room), so that it is inherited by whatever
   implements them; and the safety half of the liveness properties, that whoever waits
   has a task, a timer or an owner that will end the wait.

## Not modelled

- Wait durations, and what is derived from them: the averages, the longest wait, the
  finding about wait times. Time itself is a timer that may fire at any moment.
- Peaks of the weighted and the partitioned bulkhead: maxima that no code reads back.
- The events of the weighted bulkhead, which are made in the same places as those of
  `AsyncBulkhead`.
- Which of two children is evicted that became idle within the resolution of the clock:
  the code says nothing of ties, and the model orders them by their return.
- A body that closes the bulkhead whose slot it holds and waits: it waits for itself,
  as documented.
- Argument validation, error texts, and the `repr` of objects: no state.
- The end of the event loop, which cancels the cleanup tasks too, and two threads that
  bind a new bulkhead at the same moment.
