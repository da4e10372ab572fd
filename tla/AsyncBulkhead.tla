---------------------------- MODULE AsyncBulkhead ----------------------------
(***************************************************************************)
(* AsyncBulkhead (src/bulklink/bulkhead.py): the coordinator of Admission  *)
(* behind the SlotContexts its callers enter (_internal/slot.py) and the   *)
(* handlers its events are dispatched to (_internal/events.py).            *)
(*                                                                         *)
(* Every step of the coordinator is a step here, with the events it        *)
(* creates under the lock dispatched right after it: nothing is awaited    *)
(* between the two.  Every call goes through a SlotContext, one of its own *)
(* (execute) or one that it shares with others.                            *)
(***************************************************************************)
EXTENDS Admission, Events

CONSTANTS
    Contexts,       \* the SlotContexts that several calls may use
    Handlers,       \* the callables that may be registered
    None            \* no context

ASSUME AsyncBulkheadAssumption == Contexts \cap Calls = {} /\ None \notin Contexts \cup Calls

VARIABLES
    ctx,            \* SlotContext._state of every context
    via,            \* the context a call is in
    handlers,       \* EventDispatcher._handlers
    gauges          \* what each registered handler made of its events

contextVars == <<ctx, via>>
handlerVars == <<handlers, gauges>>
allVars == <<vars, contextVars, handlerVars>>

\* The contexts a call may enter; its own is named after it.
ContextsOf(c) == Contexts \cup {c}

\* The part of the state that events announce.
State(limit, n, line, is_closed) ==
    [parallelism |-> limit, in_flight |-> n, waiting |-> line, is_closed |-> is_closed]

Now == State(parallelism, in_flight, Len(waiters), closed)

BulkheadInit ==
    /\ Init
    /\ ctx = [x \in Contexts \cup Calls |-> "IDLE"]
    /\ via = [c \in Calls |-> None]
    /\ handlers = <<>>
    /\ gauges = <<>>

-----------------------------------------------------------------------------
(* EventDispatcher.                                                        *)

\* Faulty: the same handler is registered twice.
Added_Twice(h) == Append(handlers, h)

\* add: once by identity.
Added(h) == IF h \in ToSet(handlers) THEN handlers ELSE Append(handlers, h)

\* remove: a missing handler is ignored; any other is there once.
Removed(h) ==
    IF h \in ToSet(handlers)
    THEN RemoveAt(handlers, CHOOSE i \in 1..Len(handlers) : handlers[i] = h)
    ELSE handlers

\* dispatch: each event goes to every handler of the snapshot before the next.
Received(h, events) ==
    LET times == Cardinality({i \in DOMAIN handlers : handlers[i] = h}) IN
    [k \in 1..times * Len(events) |-> events[1 + (k - 1) \div times]]

\* Faulty: a handler registered by a callback gets the rest of the batch.
Delivered_Live(events) ==
    gauges' = [h \in ToSet(handlers') |->
        IF h \in ToSet(handlers) THEN Watch(gauges[h], Received(h, events))
        ELSE Watch(Gauges(Now', drained'), events)]

\* A handler that is registered starts from the state it finds.
Delivered(events) ==
    gauges' = [h \in ToSet(handlers') |->
        IF h \in ToSet(handlers) THEN Watch(gauges[h], Received(h, events))
        ELSE Gauges(Now', drained')]

ChangeHandlers ==
    \E h \in Handlers : handlers' \in {Added(h), Removed(h)} \ {handlers}

\* A callback may add or remove a handler, and its failure changes nothing.
Dispatch(events) ==
    /\ \/ UNCHANGED handlers
       \/ events # <<>> /\ handlers # <<>> /\ ChangeHandlers
    /\ Delivered(events)

\* add_event_handler and remove_event_handler, outside a callback.
Register ==
    /\ UNCHANGED <<vars, contextVars>>
    /\ ChangeHandlers
    /\ Delivered(<<>>)

-----------------------------------------------------------------------------
(* The events of an operation, from the state before it and after it.      *)

\* The event of an admission or refusal, by what the caller does next.
OutcomeKinds ==
    [running |-> "ADMITTED", waiting |-> "QUEUED", rejected |-> "SATURATED",
     timed_out |-> "EXPIRED", closed |-> "CLOSED_REJECTION"]

EnterEvents(c) ==
    << Event(OutcomeKinds[pc'[c]], pc'[c] = "waiting", 0, Now') >>

\* _release_capacity_locked: a handoff, a drain or neither.
CapacityEvents ==
    IF in_flight' = in_flight THEN << Event("ADMITTED", TRUE, 0, Now') >>
    ELSE IF drained' # drained THEN << Event("DRAINED", FALSE, 0, Now') >>
    ELSE <<>>

ReleaseEvents == << Event("RELEASED", FALSE, 0, Now') >> \o CapacityEvents

ExpireEvents(c) ==
    IF entry[c] = "WAITING" THEN << Event("EXPIRED", TRUE, 0, Now') >> ELSE <<>>

\* Faulty: nothing is told of a slot that was handed over too late.
CancelEvents_SilentAbandon(c) ==
    IF entry[c] = "WAITING" THEN << Event("CANCELLED", TRUE, 0, Now') >>
    ELSE IF entry[c] = "ADMITTED" THEN CapacityEvents
    ELSE <<>>

CancelEvents(c) ==
    IF entry[c] = "WAITING" THEN << Event("CANCELLED", TRUE, 0, Now') >>
    ELSE IF entry[c] = "ADMITTED" THEN
        << Event("ABANDONED", TRUE, 0, Now') >> \o CapacityEvents
    ELSE <<>>

\* Faulty: forgets the slots that are in use.
AffectedWaiters_IgnoresActive(n) == Smaller(Len(waiters), n)

\* affected_waiters of a resize to n, computed before anybody is admitted.
AffectedWaiters(n) ==
    Smaller(Len(waiters), IF n <= in_flight THEN 0 ELSE n - in_flight)

ResizeEvents(n) ==
    LET After(k) == State(n, in_flight + k, Len(waiters) - k, closed) IN
    << Event("RESIZED", FALSE, AffectedWaiters(n), After(0)) >>
    \o FromQueue("ADMITTED", [k \in 1..(in_flight' - in_flight) |-> After(k)])

CloseEvents ==
    LET After(k) == State(parallelism, in_flight, Len(waiters) - k, TRUE) IN
    IF closed THEN <<>>
    ELSE << Event("CLOSED", FALSE, Len(waiters), After(0)) >>
         \o FromQueue("CLOSED_REJECTION", [k \in 1..Len(waiters) |-> After(k)])
         \o IF drained' # drained THEN << Event("DRAINED", FALSE, 0, Now') >> ELSE <<>>

-----------------------------------------------------------------------------
(* SlotContext.                                                            *)

\* What __aenter__ leaves behind when its task is in the state p.
StateAfter(p) ==
    IF p = "running" THEN "ENTERED" ELSE IF p \in Settled THEN "IDLE" ELSE "ENTERING"

\* A step of the task of c in __aenter__ of x: an exception resets the context.
Entering(c, x) ==
    /\ ctx' = [ctx EXCEPT ![x] = StateAfter(pc'[c])]
    /\ via' = [via EXCEPT ![c] = IF pc'[c] \in Settled THEN None ELSE x]

\* Faulty: a context that is in use can be entered.
EnterSlot_Reentrant(c, x) ==
    /\ Enter(c) \/ EnterNow(c)
    /\ Entering(c, x)
    /\ Dispatch(EnterEvents(c))

\* __aenter__ up to the first await.  Of a context in use it raises
\* RuntimeError, and nothing has changed.
EnterSlot(c, x) ==
    /\ ctx[x] = "IDLE"
    /\ Enter(c) \/ EnterNow(c)
    /\ Entering(c, x)
    /\ Dispatch(EnterEvents(c))

\* The task resumes in _enter.
ResumeEnter(c) ==
    /\ Resume(c) \/ ResumeExpired(c)
    /\ Entering(c, via[c])
    /\ UNCHANGED handlerVars

\* Faulty: the context is free again before the slot is.
ExitSlot_FreesEarly(c) ==
    /\ FinishBody(c)
    /\ ctx' = [ctx EXCEPT ![via[c]] = "IDLE"]
    /\ UNCHANGED <<via, handlerVars>>

\* __aexit__ up to its await.
ExitSlot(c) ==
    /\ FinishBody(c)
    /\ ctx' = [ctx EXCEPT ![via[c]] = "EXITING"]
    /\ UNCHANGED <<via, handlerVars>>

\* The task resumes after the cleanup that ends its use: the finally of
\* __aexit__, or the except of __aenter__ with the cancellation.
Unwind(c) ==
    /\ pc[c] \in {"finished", "cancelled"} /\ via[c] # None
    /\ ctx' = [ctx EXCEPT ![via[c]] = "IDLE"]
    /\ via' = [via EXCEPT ![c] = None]
    /\ UNCHANGED <<vars, handlerVars>>

-----------------------------------------------------------------------------

\* The steps of a call after it has entered.
CallStep(c) ==
    \/ ResumeEnter(c) \/ ExitSlot(c) \/ Unwind(c)
    \/ (Timeout(c) \/ Cancel(c)) /\ UNCHANGED <<contextVars, handlerVars>>
    \/ RunExpire(c) /\ Dispatch(ExpireEvents(c)) /\ UNCHANGED contextVars
    \/ RunCancel(c) /\ Dispatch(CancelEvents(c)) /\ UNCHANGED contextVars
    \/ RunRelease(c) /\ Dispatch(ReleaseEvents) /\ UNCHANGED contextVars

CloserStep(s) ==
    \/ RunClose(s) /\ Dispatch(CloseEvents) /\ UNCHANGED contextVars
    \/ /\ CloseAndWait(s) \/ WaitClosed(s) \/ ReturnClosed(s) \/ CancelCloser(s)
       /\ UNCHANGED <<contextVars, handlerVars>>

BulkheadNext ==
    \/ \E c \in Calls : CallStep(c) \/ \E x \in ContextsOf(c) : EnterSlot(c, x)
    \/ \E n \in Sizes : Resize(n) /\ Dispatch(ResizeEvents(n)) /\ UNCHANGED contextVars
    \/ Close /\ Dispatch(CloseEvents) /\ UNCHANGED contextVars
    \/ \E s \in Closers : CloserStep(s)
    \/ Register
    \/ Terminated /\ UNCHANGED <<contextVars, handlerVars>>

BulkheadSpec == BulkheadInit /\ [][BulkheadNext]_allVars

-----------------------------------------------------------------------------
(* Properties.                                                             *)

\* One context, one slot: a call that holds a slot, or still may be handed one,
\* holds it for a context that is not free, and no other call is in that context;
\* a context that is not free has a call that will free it, and its state tells
\* __aexit__ whether there is a slot to release.
ContextOwnsItsSlot ==
    /\ \A c \in Calls :
          c \in Owners \/ InLine(c) =>
              /\ via[c] # None /\ ctx[via[c]] # "IDLE"
              /\ \A d \in Calls \ {c} : via[d] # via[c]
    /\ \A x \in DOMAIN ctx :
          /\ ctx[x] # "IDLE" => \E c \in Calls : via[c] = x
          /\ ctx[x] = "ENTERED" => \E c \in Owners : via[c] = x /\ pc[c] = "running"

\* A handler that only counts events by their kind knows the bulkhead after
\* every operation, whenever it was registered and whoever registers and removes
\* handlers from callbacks; no event it gets is out of order, given twice or
\* lost; each announces the state it led to; and a resize or a close announces
\* as many affected waiters as it admits or sends away.
HandlersFollow == \A h \in ToSet(handlers) : gauges[h] = Gauges(Now, drained)
=============================================================================
