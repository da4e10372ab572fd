------------------------ MODULE AsyncBulkheadProofs ------------------------
(***************************************************************************)
(* Theorems about AsyncBulkhead, for every finite set of calls and every   *)
(* set of contexts and handlers: it is the coordinator of Admission, a     *)
(* SlotContext owns one slot at a time, and handlers are told of all that  *)
(* happens, once and in order.                                             *)
(***************************************************************************)
EXTENDS CapacityProofs, AsyncBulkhead, WellFoundedInduction

\* A step of the bulkhead is a step of its coordinator or none.
LEMMA StepOfCoordinator == [BulkheadNext]_allVars => [Next]_vars
<1> SUFFICES ASSUME [BulkheadNext]_allVars PROVE Next \/ UNCHANGED vars
  OBVIOUS
<1>1. ASSUME NEW c \in Calls, CallStep(c) \/ \E x \in ContextsOf(c) : EnterSlot(c, x)
      PROVE  Next \/ UNCHANGED vars
  <2>1. \/ Enter(c) \/ EnterNow(c) \/ Resume(c) \/ Timeout(c) \/ RunExpire(c)
        \/ ResumeExpired(c) \/ Cancel(c) \/ RunCancel(c) \/ FinishBody(c) \/ RunRelease(c)
        \/ UNCHANGED vars
    BY <1>1 DEF CallStep, EnterSlot, ResumeEnter, ExitSlot, Unwind
  <2> QED  BY <2>1, Zenon DEF Next
<1>2. ASSUME NEW s \in Closers, CloserStep(s) PROVE Next
  BY <1>2, Zenon DEF CloserStep, Next
<1>3. ASSUME NEW n \in Sizes, Resize(n) PROVE Next
  BY <1>3, Zenon DEF Next
<1>4. CASE Close \/ Terminated
  BY <1>4, Zenon DEF Next
<1>5. CASE Register \/ UNCHANGED allVars
  BY <1>5 DEF Register, allVars
<1> QED  BY <1>1, <1>2, <1>3, <1>4, <1>5 DEF BulkheadNext

\* Contexts and handlers only watch: every behaviour of the bulkhead is one of
\* its coordinator, so every theorem about Admission holds of AsyncBulkhead.
THEOREM BulkheadIsCoordinator == BulkheadSpec => Spec
<1>1. BulkheadInit => Init
  BY DEF BulkheadInit
<1> QED  BY <1>1, StepOfCoordinator, PTL DEF BulkheadSpec, Spec

-----------------------------------------------------------------------------
(* Contexts.                                                               *)

\* Between its call into __aenter__ and its settlement.
InUse == Suspended \cup {"running", "releasing"}

\* The inductive invariant: the use of a context is told by the control of the
\* one call that is in it.
ContextInv ==
    /\ ctx \in [Contexts \cup Calls -> {"IDLE", "ENTERING", "ENTERED", "EXITING"}]
    /\ via \in [Calls -> Contexts \cup Calls \cup {None}]
    /\ \A c, d \in Calls : via[c] # None /\ via[c] = via[d] => c = d
    /\ \A x \in Contexts \cup Calls : ctx[x] # "IDLE" <=> \E c \in Calls : via[c] = x
    /\ \A c \in Calls : pc[c] \in InUse => via[c] # None
    /\ \A c \in Calls : via[c] # None =>
          /\ pc[c] \in InUse \cup {"finished", "cancelled"}
          /\ ctx[via[c]] = "ENTERED" => pc[c] = "running"

LEMMA ContextImplies == LineInv /\ ContextInv => ContextOwnsItsSlot
<1> SUFFICES ASSUME LineInv, ContextInv PROVE ContextOwnsItsSlot
  OBVIOUS
<1>1. ASSUME NEW c \in Calls, c \in Owners \/ InLine(c)
      PROVE  /\ via[c] # None /\ ctx[via[c]] # "IDLE"
             /\ \A d \in Calls \ {c} : via[d] # via[c]
  <2>1. pc[c] \in InUse
    <3>1. CASE c \in Owners
      BY <3>1 DEF Owners, InUse
    <3>2. CASE InLine(c)
      <4>1. entry[c] = "WAITING"
        BY <3>2 DEF LineInv, InLine
      <4> QED  BY <4>1 DEF LineInv, EntryFits, TypeOK, CallStates, Settled, InUse
    <3> QED  BY <1>1, <3>1, <3>2
  <2>2. via[c] # None /\ via[c] \in Contexts \cup Calls
    BY <2>1 DEF ContextInv
  <2> QED  BY <2>2 DEF ContextInv
<1>2. ASSUME NEW x \in DOMAIN ctx
      PROVE  /\ ctx[x] # "IDLE" => \E c \in Calls : via[c] = x
             /\ ctx[x] = "ENTERED" => \E c \in Owners : via[c] = x /\ pc[c] = "running"
  <2>1. x \in Contexts \cup Calls /\ x # None
    BY AsyncBulkheadAssumption DEF ContextInv
  <2>2. \A c \in Calls : pc[c] = "running" => c \in Owners
    BY DEF Owners
  <2> QED  BY <2>1, <2>2 DEF ContextInv
<1> QED  BY <1>1, <1>2 DEF ContextOwnsItsSlot

LEMMA InitContext == BulkheadInit => ContextInv
BY AsyncBulkheadAssumption DEF BulkheadInit, Init, ContextInv, InUse, Suspended

\* A call moves while contexts stay as they are.
LEMMA MoveInContext ==
    ASSUME TypeOK, ContextInv, NEW c \in Calls, UNCHANGED contextVars,
           \A d \in Calls \ {c} : pc'[d] = pc[d],
           \/ pc'[c] = pc[c]
           \/ pc[c] \in InUse \ {"running"} /\ pc'[c] \in InUse \cup {"finished", "cancelled"}
    PROVE  ContextInv'
<1>1. ctx' = ctx /\ via' = via
  BY DEF contextVars
<1>2. \A d \in Calls : pc'[d] \in InUse => via[d] # None
  BY DEF ContextInv
<1>3. \A d \in Calls : via[d] # None =>
         /\ pc'[d] \in InUse \cup {"finished", "cancelled"}
         /\ ctx[via[d]] = "ENTERED" => pc'[d] = "running"
  BY DEF ContextInv
<1> QED  BY <1>1, <1>2, <1>3 DEF ContextInv

\* A call steps in __aenter__ of x, which nobody else is in.
LEMMA EnteringKeeps ==
    ASSUME TypeOK, ContextInv, NEW c \in Calls, NEW x \in Contexts \cup Calls, Entering(c, x),
           via[c] \in {None, x}, \A d \in Calls \ {c} : via[d] # x,
           \A d \in Calls \ {c} : pc'[d] = pc[d],
           pc'[c] \in Settled \cup Suspended \cup {"running"}
    PROVE  ContextInv'
<1>1. /\ ctx' = [ctx EXCEPT ![x] = StateAfter(pc'[c])]
      /\ via' = [via EXCEPT ![c] = IF pc'[c] \in Settled THEN None ELSE x]
      /\ x # None
  BY AsyncBulkheadAssumption DEF Entering
<1>2. /\ ctx'[x] = StateAfter(pc'[c]) /\ \A y \in (Contexts \cup Calls) \ {x} : ctx'[y] = ctx[y]
      /\ via'[c] = IF pc'[c] \in Settled THEN None ELSE x
      /\ \A d \in Calls \ {c} : via'[d] = via[d]
  BY <1>1 DEF ContextInv
<1>3. /\ ctx' \in [Contexts \cup Calls -> {"IDLE", "ENTERING", "ENTERED", "EXITING"}]
      /\ via' \in [Calls -> Contexts \cup Calls \cup {None}]
  BY <1>1 DEF ContextInv, StateAfter
<1>4. CASE pc'[c] \in Settled
  <2>1. via'[c] = None /\ ctx'[x] = "IDLE" /\ pc'[c] \notin InUse
    BY <1>2, <1>4 DEF StateAfter, Settled, InUse, Suspended
  <2>2. \A y \in Contexts \cup Calls : ctx'[y] # "IDLE" <=> \E d \in Calls : via'[d] = y
    BY <1>1, <1>2, <2>1, AsyncBulkheadAssumption DEF ContextInv
  <2>3. \A d \in Calls : via'[d] # None =>
           /\ pc'[d] \in InUse \cup {"finished", "cancelled"}
           /\ ctx'[via'[d]] = "ENTERED" => pc'[d] = "running"
    BY <1>2, <2>1 DEF ContextInv
  <2>4. \A d, e \in Calls : via'[d] # None /\ via'[d] = via'[e] => d = e
    BY <1>2, <2>1 DEF ContextInv
  <2>5. \A d \in Calls : pc'[d] \in InUse => via'[d] # None
    BY <1>2, <2>1 DEF ContextInv
  <2> QED  BY <1>3, <2>2, <2>3, <2>4, <2>5 DEF ContextInv
<1>5. CASE pc'[c] \notin Settled
  <2>1. /\ via'[c] = x /\ ctx'[x] # "IDLE" /\ pc'[c] \in InUse
        /\ ctx'[x] = "ENTERED" => pc'[c] = "running"
    BY <1>2, <1>5 DEF StateAfter, InUse
  <2>2. \A y \in Contexts \cup Calls : ctx'[y] # "IDLE" <=> \E d \in Calls : via'[d] = y
    BY <1>1, <1>2, <2>1, AsyncBulkheadAssumption DEF ContextInv
  <2>3. \A d \in Calls : via'[d] # None =>
           /\ pc'[d] \in InUse \cup {"finished", "cancelled"}
           /\ ctx'[via'[d]] = "ENTERED" => pc'[d] = "running"
    BY <1>2, <2>1 DEF ContextInv
  <2>4. \A d, e \in Calls : via'[d] # None /\ via'[d] = via'[e] => d = e
    BY <1>2, <2>1 DEF ContextInv
  <2>5. \A d \in Calls : pc'[d] \in InUse => via'[d] # None
    BY <1>1, <1>2, <2>1 DEF ContextInv
  <2> QED  BY <1>3, <2>2, <2>3, <2>4, <2>5 DEF ContextInv
<1> QED  BY <1>4, <1>5

LEMMA CallStepKeeps ==
    ASSUME TypeOK, ContextInv, NEW c \in Calls,
           CallStep(c) \/ \E x \in ContextsOf(c) : EnterSlot(c, x)
    PROVE  ContextInv'
<1>1. ASSUME NEW x \in ContextsOf(c), EnterSlot(c, x) PROVE ContextInv'
  <2>1. PICK to \in {"closed", "timed_out", "running", "rejected", "waiting"} :
           Goto(c, to) /\ pc[c] = "idle"
    BY <1>1 DEF EnterSlot, Enter, EnterNow, RejectClosed, RejectElapsed, GrantDirectly,
                RejectSaturated, JoinQueue
  <2>2. pc'[c] = to /\ \A d \in Calls \ {c} : pc'[d] = pc[d]
    BY <2>1 DEF Goto, TypeOK
  <2>3. x \in Contexts \cup Calls /\ ctx[x] = "IDLE" /\ Entering(c, x)
    BY <1>1 DEF EnterSlot, ContextsOf
  <2>4. via[c] = None
    BY <2>1 DEF ContextInv, InUse, Suspended
  <2>5. \A d \in Calls : via[d] # x
    BY <2>3 DEF ContextInv
  <2>6. pc'[c] \in Settled \cup Suspended \cup {"running"}
    BY <2>2 DEF Settled, Suspended
  <2> QED  BY <2>2, <2>3, <2>4, <2>5, <2>6, EnteringKeeps
<1>2. CASE ResumeEnter(c)
  <2>1. PICK to \in {"closed", "timed_out", "running", "cancelling"} :
           Goto(c, to) /\ pc[c] \in {"waiting", "expired"}
    BY <1>2 DEF ResumeEnter, Resume, ResumeExpired
  <2>2. pc'[c] = to /\ \A d \in Calls \ {c} : pc'[d] = pc[d]
    BY <2>1 DEF Goto, TypeOK
  <2>3. via[c] # None /\ via[c] \in Contexts \cup Calls
    BY <2>1 DEF ContextInv, InUse, Suspended
  <2>4. Entering(c, via[c]) /\ \A d \in Calls \ {c} : via[d] # via[c]
    BY <1>2, <2>3 DEF ResumeEnter, ContextInv
  <2>5. pc'[c] \in Settled \cup Suspended \cup {"running"}
    BY <2>2 DEF Settled, Suspended
  <2> QED  BY <2>2, <2>3, <2>4, <2>5, EnteringKeeps
<1>3. CASE ExitSlot(c)
  <2>1. /\ pc[c] = "running" /\ pc'[c] = "releasing"
        /\ \A d \in Calls \ {c} : pc'[d] = pc[d]
        /\ ctx' = [ctx EXCEPT ![via[c]] = "EXITING"] /\ via' = via
    BY <1>3 DEF ExitSlot, FinishBody, Goto, TypeOK
  <2>2. via[c] \in Contexts \cup Calls
    BY <2>1 DEF ContextInv, InUse
  <2>3. /\ ctx'[via[c]] = "EXITING"
        /\ \A y \in (Contexts \cup Calls) \ {via[c]} : ctx'[y] = ctx[y]
        /\ ctx' \in [Contexts \cup Calls -> {"IDLE", "ENTERING", "ENTERED", "EXITING"}]
    BY <2>1, <2>2 DEF ContextInv
  <2>4. \A y \in Contexts \cup Calls : ctx'[y] # "IDLE" <=> \E d \in Calls : via[d] = y
    BY <2>3 DEF ContextInv
  <2>5. \A d \in Calls : via[d] # None =>
           /\ pc'[d] \in InUse \cup {"finished", "cancelled"}
           /\ ctx'[via[d]] = "ENTERED" => pc'[d] = "running"
    BY <2>1, <2>2, <2>3 DEF ContextInv, InUse
  <2>6. \A d \in Calls : pc'[d] \in InUse => via[d] # None
    BY <2>1 DEF ContextInv, InUse
  <2> QED  BY <2>1, <2>3, <2>4, <2>5, <2>6 DEF ContextInv
<1>4. CASE Unwind(c)
  <2>1. /\ pc[c] \in {"finished", "cancelled"} /\ via[c] # None /\ pc' = pc
        /\ ctx' = [ctx EXCEPT ![via[c]] = "IDLE"] /\ via' = [via EXCEPT ![c] = None]
    BY <1>4 DEF Unwind, vars
  <2>2. via[c] \in Contexts \cup Calls /\ \A d \in Calls \ {c} : via[d] # via[c]
    BY <2>1 DEF ContextInv
  <2>3. /\ ctx'[via[c]] = "IDLE" /\ via'[c] = None
        /\ \A y \in (Contexts \cup Calls) \ {via[c]} : ctx'[y] = ctx[y]
        /\ \A d \in Calls \ {c} : via'[d] = via[d]
        /\ ctx' \in [Contexts \cup Calls -> {"IDLE", "ENTERING", "ENTERED", "EXITING"}]
        /\ via' \in [Calls -> Contexts \cup Calls \cup {None}]
    BY <2>1, <2>2 DEF ContextInv
  <2>4. \A y \in Contexts \cup Calls : ctx'[y] # "IDLE" <=> \E d \in Calls : via'[d] = y
    BY <2>2, <2>3, AsyncBulkheadAssumption DEF ContextInv
  <2>5. \A d \in Calls : via'[d] # None =>
           /\ pc'[d] \in InUse \cup {"finished", "cancelled"}
           /\ ctx'[via'[d]] = "ENTERED" => pc'[d] = "running"
    BY <2>1, <2>2, <2>3 DEF ContextInv
  <2>6. \A d, e \in Calls : via'[d] # None /\ via'[d] = via'[e] => d = e
    BY <2>3 DEF ContextInv
  <2>7. \A d \in Calls : pc'[d] \in InUse => via'[d] # None
    BY <2>1, <2>3 DEF ContextInv, InUse, Suspended
  <2> QED  BY <2>3, <2>4, <2>5, <2>6, <2>7 DEF ContextInv
<1>5. CASE /\ Timeout(c) \/ Cancel(c) \/ RunExpire(c) \/ RunCancel(c) \/ RunRelease(c)
           /\ UNCHANGED contextVars
  <2>1. \A d \in Calls \ {c} : pc'[d] = pc[d]
    BY <1>5 DEF Timeout, Cancel, RunExpire, RunCancel, RunRelease, Goto, TypeOK
  <2>2. \/ pc'[c] = pc[c]
        \/ /\ pc[c] \in {"waiting", "expiring", "cancelling", "releasing"}
           /\ pc'[c] \in {"expiring", "cancelling", "expired", "cancelled", "finished"}
    BY <1>5 DEF Timeout, Cancel, RunExpire, RunCancel, RunRelease, Goto, TypeOK
  <2>3. \/ pc'[c] = pc[c]
        \/ pc[c] \in InUse \ {"running"} /\ pc'[c] \in InUse \cup {"finished", "cancelled"}
    BY <2>2 DEF InUse, Suspended
  <2> QED  BY <1>5, <2>1, <2>3, MoveInContext
<1> QED  BY <1>1, <1>2, <1>3, <1>4, <1>5 DEF CallStep

LEMMA ContextStep == TypeOK /\ ContextInv /\ [BulkheadNext]_allVars => ContextInv'
<1> SUFFICES ASSUME TypeOK, ContextInv, [BulkheadNext]_allVars PROVE ContextInv'
  OBVIOUS
<1>1. ASSUME NEW c \in Calls, CallStep(c) \/ \E x \in ContextsOf(c) : EnterSlot(c, x)
      PROVE  ContextInv'
  BY <1>1, CallStepKeeps
<1>2. ASSUME pc' = pc, UNCHANGED contextVars PROVE ContextInv'
  BY <1>2 DEF ContextInv, contextVars
<1>3. ASSUME NEW n \in Sizes, Resize(n), UNCHANGED contextVars PROVE ContextInv'
  BY <1>2, <1>3 DEF Resize
<1>4. CASE Close /\ UNCHANGED contextVars
  BY <1>2, <1>4 DEF Close
<1>5. ASSUME NEW s \in Closers, CloserStep(s) PROVE ContextInv'
  BY <1>2, <1>5 DEF CloserStep, RunClose, CloseAndWait, WaitClosed, ReturnClosed, CancelCloser
<1>6. CASE Register \/ (Terminated /\ UNCHANGED contextVars) \/ UNCHANGED allVars
  BY <1>2, <1>6 DEF Register, Terminated, allVars, vars
<1> QED  BY <1>1, <1>3, <1>4, <1>5, <1>6 DEF BulkheadNext

\* A SlotContext that several calls use owns one slot at a time, however entry,
\* cancellation, release and a second use interleave, and loses none.
THEOREM ContextsOwnTheirSlots == BulkheadSpec => []ContextOwnsItsSlot
<1>1. CapacityInv => LineInv /\ TypeOK
  BY DEF CapacityInv, LineInv
<1>2. BulkheadSpec => []CapacityInv
  BY BulkheadIsCoordinator, CapacityAlways, PTL
<1> QED  BY <1>1, <1>2, InitContext, ContextStep, ContextImplies, PTL DEF BulkheadSpec

-----------------------------------------------------------------------------
(* Watching events.                                                        *)

\* The induction of what follows: Nat is well-founded.
LEMMA LeastNumber ==
    ASSUME NEW T, T \subseteq Nat, T # {}
    PROVE  \E m \in T : \A k \in T : m <= k
<1> DEFINE less == OpToRel(<, Nat)
<1>1. IsWellFoundedOn(less, Nat)
  BY NatLessThanWellFounded
<1>2. \A i, j \in Nat : <<i, j>> \in less <=> i < j
  BY DEF OpToRel
<1> HIDE DEF less
<1>3. PICK m \in T : \A k \in T : ~ (<<k, m>> \in less)
  BY <1>1, WFMin
<1>4. ASSUME NEW k \in T PROVE m <= k
  <2>1. k \in Nat /\ m \in Nat /\ ~(k < m)
    BY <1>2, <1>3
  <2> QED  BY <2>1
<1> QED  BY <1>4

\* Gauges that follow the events one by one end where Watch says.
LEMMA PathOfWatch ==
    ASSUME NEW g, NEW events, Len(events) \in Nat, NEW f,
           f = [k \in 0..Len(events) |-> f[k]], f[0] = g,
           \A k \in 1..Len(events) : f[k] = Follow(f[k - 1], events[k])
    PROVE  Watch(g, events) = [f[Len(events)] EXCEPT !.legal = @ /\ AffectedTold(events)]
<1> DEFINE n == Len(events)
           Solves(h) ==
              h = [k \in 0..n |-> IF k = 0 THEN g ELSE Follow(h[k - 1], events[k])]
           after == CHOOSE h : Solves(h)
<1>1. Watch(g, events) = [after[n] EXCEPT !.legal = @ /\ AffectedTold(events)]
  BY DEF Watch
<1>2. Solves(after)
  <2>1. Solves(f)
    <3>1. \A k \in 0..n : f[k] = IF k = 0 THEN g ELSE Follow(f[k - 1], events[k])
      OBVIOUS
    <3>2. f = [k \in 0..n |-> IF k = 0 THEN g ELSE Follow(f[k - 1], events[k])]
      BY <3>1
    <3> QED  BY <3>2
  <2> HIDE DEF Solves
  <2> QED  BY <2>1
<1> HIDE DEF after
<1>3. after[0] = g /\ \A k \in 1..n : after[k] = Follow(after[k - 1], events[k])
  <2> HIDE DEF n
  <2>1. n \in Nat
    BY DEF n
  <2> QED  BY <1>2, <2>1
<1>4. f[0] = g /\ \A k \in 1..n : f[k] = Follow(f[k - 1], events[k])
  OBVIOUS
<1>5. n \in Nat
  OBVIOUS
<1> HIDE DEF n
<1> DEFINE T == {k \in 0..n : after[k] # f[k]}
<1>6. ASSUME T # {} PROVE FALSE
  <2>1. PICK m \in T : \A k \in T : m <= k
    <3>1. T \subseteq Nat
      OBVIOUS
    <3> HIDE DEF T
    <3> QED  BY <1>6, <3>1, LeastNumber
  <2>2. m \in 1..n
    BY <1>3, <1>4, <1>5, <2>1
  <2>3. after[m - 1] = f[m - 1]
    <3>1. m - 1 \in 0..n /\ ~(m <= m - 1)
      BY <1>5, <2>2
    <3> QED  BY <2>1, <3>1
  <2> QED  BY <1>3, <1>4, <2>1, <2>2, <2>3
<1>7. after[n] = f[n]
  <2>1. n \in 0..n
    BY <1>5
  <2>2. after[n] # f[n] => n \in T
    BY <2>1
  <2> HIDE DEF T
  <2> QED  BY <1>6, <2>2
<1> QED  BY <1>1, <1>7 DEF n

\* The event e leads legal gauges from the state s to t, and from d to z.
Leads(s, d, e, t, z) ==
    /\ t = Moved(s, e) /\ z = (d \/ e.kind = "DRAINED")
    /\ Possible(s, e)
    /\ e.kind = "DRAINED" => ~d
    /\ Announces(e, t)

LEMMA FollowLeads ==
    ASSUME NEW s, NEW d, NEW e, NEW t, NEW z, Leads(s, d, e, t, z)
    PROVE  Follow(Gauges(s, d), e) = Gauges(t, z)
<1>1. /\ Gauges(s, d).state = s /\ Gauges(s, d).drained = d /\ Gauges(s, d).legal = TRUE
  BY DEF Gauges
<1> DEFINE legal == /\ TRUE
                    /\ Possible(s, e)
                    /\ e.kind = "DRAINED" => ~d
                    /\ Announces(e, t)
<1>2. legal = TRUE
  BY Zenon DEF Leads
<1>3. Follow(Gauges(s, d), e) = [state |-> t, drained |-> z, legal |-> legal]
  BY <1>1, Zenon DEF Follow, Leads
<1> QED  BY <1>2, <1>3, Zenon DEF Gauges

\* A batch of events that lead from one state to the next leaves a handler with
\* the last of them.
LEMMA BatchFollowed ==
    ASSUME NEW events, Len(events) \in Nat, NEW states, NEW flags,
           \A k \in 1..Len(events) :
              Leads(states[k - 1], flags[k - 1], events[k], states[k], flags[k]),
           AffectedTold(events)
    PROVE  Watch(Gauges(states[0], flags[0]), events)
              = Gauges(states[Len(events)], flags[Len(events)])
<1> DEFINE n == Len(events)
           g == Gauges(states[0], flags[0])
           f == [k \in 0..n |-> Gauges(states[k], flags[k])]
<1>1. ASSUME NEW k \in 1..n PROVE f[k] = Follow(f[k - 1], events[k])
  <2>1. f[k] = Gauges(states[k], flags[k]) /\ f[k - 1] = Gauges(states[k - 1], flags[k - 1])
    OBVIOUS
  <2> QED  BY <2>1, FollowLeads
<1>2. f = [k \in 0..n |-> f[k]] /\ f[0] = g
  OBVIOUS
<1>3. f[n] = Gauges(states[n], flags[n])
  OBVIOUS
<1> HIDE DEF f, g
<1>4. Watch(g, events) = [f[n] EXCEPT !.legal = @ /\ AffectedTold(events)]
  BY <1>1, <1>2, PathOfWatch
<1>5. [Gauges(states[n], flags[n]) EXCEPT !.legal = @ /\ AffectedTold(events)]
         = Gauges(states[n], flags[n])
  BY DEF Gauges
<1> QED  BY <1>3, <1>4, <1>5 DEF g

\* No event changes nothing, and one or two that tell of nobody affected lead on.
LEMMA NothingFollowed == \A s, d : Watch(Gauges(s, d), <<>>) = Gauges(s, d)
<1> SUFFICES ASSUME NEW s, NEW d PROVE Watch(Gauges(s, d), <<>>) = Gauges(s, d)
  OBVIOUS
<1> DEFINE states == [k \in {0} |-> s]
           flags == [k \in {0} |-> d]
<1>1. PICK events : events = <<>>
  OBVIOUS
<1>2. Len(events) = 0
  BY <1>1
<1>3. AffectedTold(events)
  BY <1>2 DEF AffectedTold
<1>4. Watch(Gauges(states[0], flags[0]), events) = Gauges(states[0], flags[0])
  <2> HIDE DEF states, flags
  <2>1. /\ Len(events) \in Nat
        /\ \A k \in 1..Len(events) :
              Leads(states[k - 1], flags[k - 1], events[k], states[k], flags[k])
    BY <1>2
  <2> QED  BY <1>2, <1>3, <2>1, BatchFollowed
<1> QED  BY <1>1, <1>4

LEMMA OneFollowed ==
    ASSUME NEW s, NEW d, NEW e, NEW t, NEW z, Leads(s, d, e, t, z),
           e.kind \notin {"RESIZED", "CLOSED"}
    PROVE  Watch(Gauges(s, d), <<e>>) = Gauges(t, z)
<1> DEFINE states == [k \in 0..1 |-> IF k = 0 THEN s ELSE t]
           flags == [k \in 0..1 |-> IF k = 0 THEN d ELSE z]
<1>1. PICK events : events = <<e>>
  OBVIOUS
<1>2. Len(events) = 1 /\ events[1] = e
  BY <1>1
<1>3. AffectedTold(events)
  BY <1>2 DEF AffectedTold
<1>4. states[0] = s /\ states[1] = t /\ flags[0] = d /\ flags[1] = z
  OBVIOUS
<1> HIDE DEF states, flags
<1>5. /\ Len(events) \in Nat
      /\ \A k \in 1..Len(events) :
            Leads(states[k - 1], flags[k - 1], events[k], states[k], flags[k])
  BY <1>2, <1>4
<1>6. Watch(Gauges(states[0], flags[0]), events) = Gauges(states[1], flags[1])
  BY <1>2, <1>3, <1>5, BatchFollowed
<1> QED  BY <1>1, <1>4, <1>6

LEMMA TwoFollowed ==
    ASSUME NEW s, NEW d, NEW e, NEW t, NEW z, Leads(s, d, e, t, z),
           NEW f, NEW u, NEW y, Leads(t, z, f, u, y),
           e.kind \notin {"RESIZED", "CLOSED"}, f.kind \notin {"RESIZED", "CLOSED"}
    PROVE  Watch(Gauges(s, d), <<e, f>>) = Gauges(u, y)
<1> DEFINE states == [k \in 0..2 |-> IF k = 0 THEN s ELSE IF k = 1 THEN t ELSE u]
           flags == [k \in 0..2 |-> IF k = 0 THEN d ELSE IF k = 1 THEN z ELSE y]
<1>1. PICK events : events = <<e, f>>
  OBVIOUS
<1>2. Len(events) = 2 /\ events[1] = e /\ events[2] = f
  BY <1>1
<1>3. AffectedTold(events)
  BY <1>2 DEF AffectedTold
<1>4. /\ states[0] = s /\ states[1] = t /\ states[2] = u
      /\ flags[0] = d /\ flags[1] = z /\ flags[2] = y
  OBVIOUS
<1> HIDE DEF states, flags
<1>5. /\ Len(events) \in Nat
      /\ \A k \in 1..Len(events) :
            Leads(states[k - 1], flags[k - 1], events[k], states[k], flags[k])
  <2>1. ASSUME NEW k \in 1..2
        PROVE  Leads(states[k - 1], flags[k - 1], events[k], states[k], flags[k])
    <3>1. k = 1 \/ k = 2
      OBVIOUS
    <3> QED  BY <1>2, <1>4, <3>1
  <2> QED  BY <1>2, <2>1
<1>6. Watch(Gauges(states[0], flags[0]), events) = Gauges(states[2], flags[2])
  BY <1>2, <1>3, <1>5, BatchFollowed
<1> QED  BY <1>1, <1>4, <1>6

-----------------------------------------------------------------------------
(* Dispatching.                                                            *)

\* The inductive invariant of the handlers: each is there once.
HandlersInv ==
    /\ handlers \in Seq(Handlers) /\ IsInjective(handlers)
    /\ HandlersFollow

LEMMA HandlersStayOnce ==
    ASSUME handlers \in Seq(Handlers), IsInjective(handlers),
           ChangeHandlers \/ UNCHANGED handlers
    PROVE  handlers' \in Seq(Handlers) /\ IsInjective(handlers')
<1>1. ASSUME NEW h \in Handlers
      PROVE  Added(h) \in Seq(Handlers) /\ IsInjective(Added(h))
  BY AppendLine DEF Added
<1>2. ASSUME NEW h \in Handlers
      PROVE  Removed(h) \in Seq(Handlers) /\ IsInjective(Removed(h))
  <2>1. CASE h \in ToSet(handlers)
    <3> DEFINE i == CHOOSE j \in 1..Len(handlers) : handlers[j] = h
    <3>1. \E j \in 1..Len(handlers) : handlers[j] = h
      BY <2>1, ToSetByPosition
    <3>2. i \in 1..Len(handlers)
      BY <3>1
    <3> HIDE DEF i
    <3>3. RemoveAt(handlers, i) \in Seq(Handlers) /\ IsInjective(RemoveAt(handlers, i))
      BY <3>2, RemoveLine
    <3> QED  BY <2>1, <3>3 DEF Removed, i
  <2>2. CASE h \notin ToSet(handlers)
    BY <2>2 DEF Removed
  <2> QED  BY <2>1, <2>2
<1>3. CASE ChangeHandlers
  <2>1. PICK h \in Handlers : handlers' = Added(h) \/ handlers' = Removed(h)
    BY <1>3 DEF ChangeHandlers
  <2> QED  BY <1>1, <1>2, <2>1
<1>4. CASE handlers' = handlers
  BY <1>4
<1> QED  BY <1>3, <1>4

\* A handler that is there once is given each event once.
LEMMA ReceivedOnce ==
    ASSUME handlers \in Seq(Handlers), IsInjective(handlers), NEW h \in ToSet(handlers),
           NEW S, NEW events \in Seq(S)
    PROVE  Received(h, events) = events
<1> DEFINE at == {i \in DOMAIN handlers : handlers[i] = h}
           times == Cardinality(at)
<1>1. times = 1
  <2>1. PICK i \in 1..Len(handlers) : handlers[i] = h
    BY ToSetByPosition
  <2>2. at = {i}
    BY <2>1, ToSetByPosition
  <2> QED  BY <2>2, FS_Singleton
<1>2. Received(h, events) =
         [k \in 1..times * Len(events) |-> events[1 + (k - 1) \div times]]
  BY DEF Received
<1> HIDE DEF times
<1>3. /\ Len(events) \in Nat /\ events = [k \in 1..Len(events) |-> events[k]]
  BY LenProperties
<1>4. 1 * Len(events) = Len(events)
  <2>1. \A n \in Nat : 1 * n = n
    OBVIOUS
  <2> QED  BY <1>3, <2>1, Zenon
<1>5. \A k \in 1..Len(events) : 1 + (k - 1) \div 1 = k
  <2>1. \A j \in Nat : j \div 1 = j
    OBVIOUS
  <2> QED  BY <1>3, <2>1
<1> QED  BY <1>1, <1>2, <1>3, <1>4, <1>5

LEMMA DeliveryKeeps ==
    ASSUME HandlersInv, NEW S, NEW events \in Seq(S), Delivered(events),
           Watch(Gauges(Now, drained), events) = Gauges(Now', drained'),
           ChangeHandlers \/ UNCHANGED handlers
    PROVE  HandlersInv'
<1>1. handlers' \in Seq(Handlers) /\ IsInjective(handlers')
  BY HandlersStayOnce DEF HandlersInv
<1>2. ASSUME NEW h \in ToSet(handlers') PROVE gauges'[h] = Gauges(Now', drained')
  <2>1. CASE h \in ToSet(handlers)
    <3>1. gauges[h] = Gauges(Now, drained) /\ Received(h, events) = events
      BY <2>1, ReceivedOnce DEF HandlersInv, HandlersFollow
    <3>2. gauges'[h] = Watch(gauges[h], Received(h, events))
      BY <2>1 DEF Delivered
    <3> QED  BY <3>1, <3>2
  <2>2. CASE h \notin ToSet(handlers)
    BY <2>2 DEF Delivered
  <2> QED  BY <2>1, <2>2
<1> QED  BY <1>1, <1>2 DEF HandlersInv, HandlersFollow

-----------------------------------------------------------------------------
(* What each kind of event tells, and when it may.                         *)

LEMMA EventParts ==
    \A kind, from, k, s : LET e == Event(kind, from, k, s) IN
        e.kind = kind /\ e.from_queue = from /\ e.affected_waiters = k /\ e.state = s
BY DEF Event

\* A slot is taken, from the queue or past an empty one.
LEMMA AdmittedLeads ==
    ASSUME NEW p \in Nat, NEW n \in Nat, NEW w \in Nat, NEW d \in BOOLEAN, n < p
    PROVE  LET s == State(p, n, w, FALSE)
               t == State(p, n + 1, w, FALSE)
               u == State(p, n + 1, w - 1, FALSE) IN
           /\ w = 0 => Leads(s, d, Event("ADMITTED", FALSE, 0, t), t, d)
           /\ w > 0 => Leads(s, d, Event("ADMITTED", TRUE, 0, u), u, d)
<1> DEFINE t == State(p, n + 1, w, FALSE)
           u == State(p, n + 1, w - 1, FALSE)
<1>1. ASSUME w = 0
      PROVE  Leads(State(p, n, w, FALSE), d, Event("ADMITTED", FALSE, 0, t), t, d)
  <2> DEFINE e == Event("ADMITTED", FALSE, 0, t)
  <2>1. t = Moved(State(p, n, w, FALSE), e)
    BY DEF Moved, State, Event
  <2>2. Possible(State(p, n, w, FALSE), e)
    BY <1>1 DEF Possible, State, Event
  <2>3. Announces(e, t) /\ e.kind = "ADMITTED"
    BY DEF Announces, Event
  <2> HIDE DEF e, t
  <2>4. (d \/ e.kind = "DRAINED") = d
    BY <2>3
  <2> QED  BY <2>1, <2>2, <2>3, <2>4 DEF Leads, e
<1>2. ASSUME w > 0
      PROVE  Leads(State(p, n, w, FALSE), d, Event("ADMITTED", TRUE, 0, u), u, d)
  BY <1>2 DEF Leads, Moved, Possible, Announces, State, Event
<1> QED  BY <1>1, <1>2

\* Somebody joins the line or is turned away at a full bulkhead.
LEMMA RefusedLeads ==
    ASSUME NEW p \in Nat, NEW n \in Nat, NEW w \in Nat, NEW d \in BOOLEAN, n >= p
    PROVE  LET s == State(p, n, w, FALSE)
               t == State(p, n, w + 1, FALSE) IN
           /\ Leads(s, d, Event("QUEUED", TRUE, 0, t), t, d)
           /\ Leads(s, d, Event("SATURATED", FALSE, 0, s), s, d)
BY DEF Leads, Moved, Possible, Announces, State, Event

\* Somebody leaves the line without a slot.
LEMMA LeftLeads ==
    ASSUME NEW p \in Nat, NEW n \in Nat, NEW w \in Nat, NEW d \in BOOLEAN, w > 0,
           NEW c \in BOOLEAN, NEW kind \in {"EXPIRED", "CANCELLED", "CLOSED_REJECTION"},
           kind = "CLOSED_REJECTION" => c
    PROVE  LET t == State(p, n, w - 1, c) IN
           Leads(State(p, n, w, c), d, Event(kind, TRUE, 0, t), t, d)
BY DEF Leads, Moved, Possible, Announces, State, Event

\* Somebody comes too late, after the deadline or after the close.
LEMMA LateLeads ==
    ASSUME NEW p \in Nat, NEW n \in Nat, NEW w \in Nat, NEW d \in BOOLEAN, NEW c \in BOOLEAN
    PROVE  LET s == State(p, n, w, c) IN
           /\ Leads(s, d, Event("EXPIRED", FALSE, 0, s), s, d)
           /\ c /\ w = 0 => Leads(s, d, Event("CLOSED_REJECTION", FALSE, 0, s), s, d)
BY DEF Leads, Moved, Possible, Announces, State, Event

\* A slot is given back, whatever happens to it next.
LEMMA ReturnedLeads ==
    ASSUME NEW p \in Nat, NEW n \in Nat, NEW w \in Nat, NEW d \in BOOLEAN, NEW c \in BOOLEAN,
           n > 0, NEW kind \in {"RELEASED", "ABANDONED"}, NEW from \in BOOLEAN, NEW told
    PROVE  Leads(State(p, n, w, c), d, Event(kind, from, 0, told), State(p, n - 1, w, c), d)
BY DEF Leads, Moved, Possible, Announces, State, Event

\* The last one of a closed bulkhead is gone.
LEMMA DrainedLeads ==
    ASSUME NEW p \in Nat
    PROVE  LET s == State(p, 0, 0, TRUE) IN
           Leads(s, FALSE, Event("DRAINED", FALSE, 0, s), s, TRUE)
BY DEF Leads, Moved, Possible, Announces, State, Event

\* A new limit, and the end.
LEMMA ChangedLeads ==
    ASSUME NEW p \in Nat, NEW q \in Nat, NEW n \in Nat, NEW w \in Nat, NEW d \in BOOLEAN, NEW k
    PROVE  LET t == State(q, n, w, FALSE)
               u == State(p, n, w, TRUE) IN
           /\ Leads(State(p, n, w, FALSE), d, Event("RESIZED", FALSE, k, t), t, d)
           /\ Leads(State(p, n, w, FALSE), d, Event("CLOSED", FALSE, k, u), u, d)
BY DEF Leads, Moved, Possible, Announces, State, Event

-----------------------------------------------------------------------------
(* Every operation tells what it did.                                      *)

\* The handlers follow a step that dispatches the events.
Followed(events) == Watch(Gauges(Now, drained), events) = Gauges(Now', drained')

\* The numbers of a step, and when nobody can wait.
LEMMA NumbersNow ==
    ASSUME CapacityInv
    PROVE  /\ Now = State(parallelism, in_flight, Len(waiters), closed)
           /\ Now' = State(parallelism', in_flight', Len(waiters'), closed')
           /\ parallelism \in Nat /\ in_flight \in Nat /\ Len(waiters) \in Nat
           /\ closed \in BOOLEAN /\ drained \in BOOLEAN
           /\ (waiters = <<>> <=> Len(waiters) = 0)
           /\ closed => Len(waiters) = 0
           /\ Len(waiters) > 0 => in_flight >= parallelism
           /\ drained <=> closed /\ in_flight = 0
BY CapacityTypes DEF Now, CapacityInv, WorkConserving, DrainExact

LEMMA EnterFollowed ==
    ASSUME CapacityInv, NEW c \in Calls, Enter(c) \/ EnterNow(c)
    PROVE  Followed(EnterEvents(c))
<1>1. TypeOK /\ drained' = drained /\ closed' = closed
  BY DEF CapacityInv, LineInv, Enter, EnterNow, drainVars
<1>2. ASSUME NEW to, NEW kind, Goto(c, to), kind = OutcomeKinds[to]
      PROVE  EnterEvents(c) = << Event(kind, to = "waiting", 0, Now') >>
  BY <1>1, <1>2 DEF EnterEvents, Goto, TypeOK
<1>3. /\ OutcomeKinds["running"] = "ADMITTED" /\ OutcomeKinds["waiting"] = "QUEUED"
      /\ OutcomeKinds["rejected"] = "SATURATED" /\ OutcomeKinds["timed_out"] = "EXPIRED"
      /\ OutcomeKinds["closed"] = "CLOSED_REJECTION"
  BY DEF OutcomeKinds
<1>4. ASSUME NEW from \in BOOLEAN,
             NEW kind \in {"ADMITTED", "QUEUED", "SATURATED", "EXPIRED", "CLOSED_REJECTION"},
             EnterEvents(c) = << Event(kind, from, 0, Now') >>,
             Leads(Now, drained, Event(kind, from, 0, Now'), Now', drained)
      PROVE  Followed(EnterEvents(c))
  <2>1. Event(kind, from, 0, Now').kind \notin {"RESIZED", "CLOSED"}
    BY EventParts
  <2> QED  BY <1>1, <1>4, <2>1, OneFollowed DEF Followed
<1>5. CASE RejectClosed(c)
  <2>1. Now' = Now /\ closed
    BY <1>1, <1>5 DEF RejectClosed, Now, queueVars, capacityVars
  <2>2. EnterEvents(c) = << Event("CLOSED_REJECTION", FALSE, 0, Now') >>
    BY <1>2, <1>3, <1>5 DEF RejectClosed
  <2>3. Leads(Now, drained, Event("CLOSED_REJECTION", FALSE, 0, Now'), Now', drained)
    BY <2>1, NumbersNow, LateLeads
  <2> QED  BY <1>4, <2>2, <2>3
<1>6. CASE RejectElapsed(c)
  <2>1. Now' = Now
    BY <1>1, <1>6 DEF RejectElapsed, Now, queueVars, capacityVars
  <2>2. EnterEvents(c) = << Event("EXPIRED", FALSE, 0, Now') >>
    BY <1>2, <1>3, <1>6 DEF RejectElapsed
  <2>3. Leads(Now, drained, Event("EXPIRED", FALSE, 0, Now'), Now', drained)
    BY <2>1, NumbersNow, LateLeads
  <2> QED  BY <1>4, <2>2, <2>3
<1>7. CASE GrantDirectly(c)
  <2>1. /\ ~closed /\ in_flight < parallelism /\ Len(waiters) = 0
        /\ in_flight' = in_flight + 1 /\ parallelism' = parallelism /\ waiters' = waiters
    BY <1>7, NumbersNow DEF GrantDirectly, CanAdmitDirectly, AllocateCapacity, queueVars
  <2>2. EnterEvents(c) = << Event("ADMITTED", FALSE, 0, Now') >>
    BY <1>2, <1>3, <1>7 DEF GrantDirectly
  <2>3. Leads(Now, drained, Event("ADMITTED", FALSE, 0, Now'), Now', drained)
    BY <1>1, <2>1, NumbersNow, AdmittedLeads
  <2> QED  BY <1>4, <2>2, <2>3
<1>8. CASE RejectSaturated(c)
  <2>1. Now' = Now /\ ~closed /\ in_flight >= parallelism
    BY <1>1, <1>8, NumbersNow
    DEF RejectSaturated, CanAdmitDirectly, Now, queueVars, capacityVars
  <2>2. EnterEvents(c) = << Event("SATURATED", FALSE, 0, Now') >>
    BY <1>2, <1>3, <1>8 DEF RejectSaturated
  <2>3. Leads(Now, drained, Event("SATURATED", FALSE, 0, Now'), Now', drained)
    BY <2>1, NumbersNow, RefusedLeads
  <2> QED  BY <1>4, <2>2, <2>3
<1>9. ASSUME NEW limited \in BOOLEAN, JoinQueue(c, limited) PROVE Followed(EnterEvents(c))
  <2>1. /\ ~closed /\ in_flight >= parallelism /\ waiters' = Append(waiters, c)
        /\ parallelism' = parallelism /\ in_flight' = in_flight
    BY <1>9, NumbersNow DEF JoinQueue, CanAdmitDirectly, capacityVars
  <2>2. Len(waiters') = Len(waiters) + 1
    BY <1>1, <2>1, AppendProperties DEF TypeOK
  <2>3. EnterEvents(c) = << Event("QUEUED", TRUE, 0, Now') >>
    BY <1>2, <1>3, <1>9 DEF JoinQueue
  <2>4. Leads(Now, drained, Event("QUEUED", TRUE, 0, Now'), Now', drained)
    BY <1>1, <2>1, <2>2, NumbersNow, RefusedLeads
  <2> QED  BY <1>4, <2>3, <2>4
<1> QED  BY <1>5, <1>6, <1>7, <1>8, <1>9 DEF Enter, EnterNow

LEMMA OneAndOne == \A e, f : << e >> \o << f >> = << e, f >>
<1> SUFFICES ASSUME NEW e, NEW f PROVE << e >> \o << f >> = << e, f >>
  OBVIOUS
<1>1. PICK one, two, both : one = << e >> /\ two = << f >> /\ both = << e, f >>
  OBVIOUS
<1>2. /\ one \in Seq({e, f}) /\ Len(one) = 1 /\ one[1] = e
      /\ two \in Seq({e, f}) /\ Len(two) = 1 /\ two[1] = f
      /\ both \in Seq({e, f}) /\ Len(both) = 2 /\ both[1] = e /\ both[2] = f
  BY <1>1
<1>3. /\ one \o two \in Seq({e, f}) /\ Len(one \o two) = 2
      /\ (one \o two)[1] = e /\ (one \o two)[2] = f
  BY <1>2, ConcatProperties
<1>4. one \o two = both
  BY <1>2, <1>3, SeqEqual
<1> QED  BY <1>1, <1>4

\* A slot is given back: the head of the line is admitted, or the last slot of a
\* closed bulkhead drains it, or there is nothing more to tell.
LEMMA ReturnFollowed ==
    ASSUME CapacityInv, in_flight > 0, NEW outcome, ReleaseCapacity(outcome),
           parallelism' = parallelism, closed' = closed,
           NEW kind \in {"RELEASED", "ABANDONED"}, NEW from \in BOOLEAN
    PROVE  Followed(<< Event(kind, from, 0, Now') >> \o CapacityEvents)
<1> DEFINE e == Event(kind, from, 0, Now')
           mid == State(parallelism, in_flight - 1, Len(waiters), closed)
<1>1. /\ e.kind \notin {"RESIZED", "CLOSED"}
      /\ Leads(Now, drained, e, mid, drained)
  <2>1. e.kind = kind
    BY EventParts
  <2>2. Leads(Now, drained, e, mid, drained)
    BY NumbersNow, ReturnedLeads
  <2> QED  BY <2>1, <2>2
<1>2. \A f : << e >> \o << f >> = << e, f >>
  BY OneAndOne
<1>3. << e >> \o << >> = << e >>
  OBVIOUS
<1>4. ASSUME waiters # <<>>, in_flight <= parallelism, waiters' = Tail(waiters),
             UNCHANGED <<in_flight, drained>>
      PROVE  Followed(<< e >> \o CapacityEvents)
  <2>1. Len(waiters') = Len(waiters) - 1 /\ Len(waiters) > 0 /\ ~closed
    BY <1>4, NumbersNow, TailLine, CapacityTypes
  <2> DEFINE f == Event("ADMITTED", TRUE, 0, Now')
  <2>2. CapacityEvents = << f >>
    BY <1>4 DEF CapacityEvents
  <2>3. Leads(mid, drained, f, Now', drained')
    <3>1. in_flight - 1 \in Nat /\ in_flight - 1 < parallelism /\ in_flight - 1 + 1 = in_flight
      BY <1>4, NumbersNow
    <3>2. mid = State(parallelism, in_flight - 1, Len(waiters), FALSE)
      BY <2>1, NumbersNow
    <3>3. Now' = State(parallelism, in_flight - 1 + 1, Len(waiters) - 1, FALSE)
      BY <1>4, <2>1, <3>1, NumbersNow
    <3> HIDE DEF mid
    <3> QED  BY <1>4, <2>1, <3>1, <3>2, <3>3, NumbersNow, AdmittedLeads
  <2>4. f.kind \notin {"RESIZED", "CLOSED"}
    BY DEF Event
  <2> HIDE DEF e, f, mid
  <2>5. Watch(Gauges(Now, drained), << e, f >>) = Gauges(Now', drained')
    BY <1>1, <2>3, <2>4, TwoFollowed
  <2> QED  BY <1>2, <2>2, <2>5, Zenon DEF Followed
<1>5. ASSUME in_flight' = in_flight - 1, SignalDrained(closed, in_flight - 1),
             waiters' = waiters
      PROVE  Followed(<< e >> \o CapacityEvents)
  <2>1. /\ Now' = mid /\ ~drained /\ in_flight' # in_flight
        /\ drained' <=> closed /\ in_flight - 1 = 0
        /\ drained' \in BOOLEAN
    BY <1>5, NumbersNow DEF SignalDrained
  <2>2. CASE drained'
    <3> DEFINE f == Event("DRAINED", FALSE, 0, Now')
    <3>1. CapacityEvents = << f >>
      BY <2>1, <2>2 DEF CapacityEvents
    <3>2. Leads(mid, drained, f, Now', drained')
      <4>1. mid = State(parallelism, 0, 0, TRUE)
        BY <2>1, <2>2, NumbersNow
      <4>2. drained = FALSE /\ drained' = TRUE
        BY <2>1, <2>2, NumbersNow
      <4> QED  BY <2>1, <4>1, <4>2, NumbersNow, DrainedLeads
    <3>3. f.kind \notin {"RESIZED", "CLOSED"}
      BY DEF Event
    <3> HIDE DEF e, f, mid
    <3>4. Watch(Gauges(Now, drained), << e, f >>) = Gauges(Now', drained')
      BY <1>1, <3>2, <3>3, TwoFollowed
    <3> QED  BY <1>2, <3>1, <3>4, Zenon DEF Followed
  <2>3. CASE ~drained'
    <3>1. drained' = drained
      BY <2>1, <2>3, NumbersNow
    <3>2. CapacityEvents = << >>
      BY <2>1, <3>1 DEF CapacityEvents
    <3> HIDE DEF e, mid
    <3> QED  BY <1>1, <1>3, <2>1, <3>1, <3>2, OneFollowed DEF Followed
  <2> QED  BY <2>2, <2>3
<1> QED  BY <1>4, <1>5 DEF ReleaseCapacity, ReleaseCapacity_NoHandoff

\* Somebody leaves the line.
LEMMA LeaveFollowed ==
    ASSUME CapacityInv, NEW c \in Calls, NEW state, NEW counter,
           LeaveQueue(c, state, counter), UNCHANGED <<capacityVars, drainVars>>,
           NEW kind \in {"EXPIRED", "CANCELLED"}
    PROVE  Followed(<< Event(kind, TRUE, 0, Now') >>)
<1>1. /\ parallelism' = parallelism /\ in_flight' = in_flight
      /\ closed' = closed /\ drained' = drained
  BY DEF capacityVars, drainVars
<1>2. Len(waiters') = Len(waiters) - 1 /\ Len(waiters) > 0
  <2>1. PICK i \in 1..Len(waiters) : waiters' = RemoveAt(waiters, i)
    BY DEF LeaveQueue
  <2> QED  BY <2>1, CapacityTypes, RemoveLine
<1> DEFINE e == Event(kind, TRUE, 0, Now')
<1>3. Leads(Now, drained, e, Now', drained')
  <2> DEFINE t == State(parallelism, in_flight, Len(waiters) - 1, closed)
  <2>1. Now' = t
    BY <1>1, <1>2, NumbersNow
  <2>2. Leads(Now, drained, Event(kind, TRUE, 0, t), t, drained)
    <3>1. /\ kind \in {"EXPIRED", "CANCELLED", "CLOSED_REJECTION"}
          /\ kind = "CLOSED_REJECTION" => closed
      OBVIOUS
    <3>2. /\ Now = State(parallelism, in_flight, Len(waiters), closed)
          /\ parallelism \in Nat /\ in_flight \in Nat /\ Len(waiters) \in Nat
          /\ closed \in BOOLEAN /\ drained \in BOOLEAN
      BY NumbersNow
    <3> QED  BY <1>2, <3>1, <3>2, LeftLeads
  <2> HIDE DEF t
  <2> QED  BY <1>1, <2>1, <2>2
<1>4. e.kind \notin {"RESIZED", "CLOSED"}
  BY DEF Event
<1> HIDE DEF e
<1>5. Followed(<< e >>)
  BY <1>3, <1>4, OneFollowed DEF Followed
<1> QED  BY <1>5 DEF e

\* Nothing is told of a step that leaves the announced state alone.
LEMMA SilenceFollowed ==
    ASSUME UNCHANGED <<waiters, capacityVars, drainVars>>
    PROVE  Followed(<< >>)
<1>1. Now' = Now /\ drained' = drained
  BY DEF Now, capacityVars, drainVars
<1> QED  BY <1>1, NothingFollowed DEF Followed

\* The cleanup tasks of expiry, cancellation and release.
LEMMA CleanupFollowed ==
    ASSUME CapacityInv, NEW c \in Calls
    PROVE  /\ RunExpire(c) => Followed(ExpireEvents(c))
           /\ RunCancel(c) => Followed(CancelEvents(c))
           /\ RunRelease(c) => Followed(ReleaseEvents)
<1>1. ASSUME RunExpire(c) PROVE Followed(ExpireEvents(c))
  <2>1. UNCHANGED <<capacityVars, drainVars>>
    BY <1>1 DEF RunExpire
  <2>2. CASE entry[c] = "WAITING"
    BY <1>1, <2>1, <2>2, LeaveFollowed DEF RunExpire, ExpireEvents
  <2>3. CASE entry[c] # "WAITING"
    BY <1>1, <2>1, <2>3, SilenceFollowed DEF RunExpire, ExpireEvents
  <2> QED  BY <2>2, <2>3
<1>2. ASSUME RunCancel(c) PROVE Followed(CancelEvents(c))
  <2>1. CASE entry[c] = "WAITING"
    BY <1>2, <2>1, LeaveFollowed DEF RunCancel, CancelEvents, capacityVars, drainVars
  <2>2. CASE entry[c] = "ADMITTED"
    BY <1>2, <2>2, ReturnFollowed DEF RunCancel, CancelEvents
  <2>3. CASE entry[c] \notin {"WAITING", "ADMITTED"}
    BY <1>2, <2>3, SilenceFollowed DEF RunCancel, CancelEvents, capacityVars, drainVars
  <2> QED  BY <2>1, <2>2, <2>3
<1>3. ASSUME RunRelease(c) PROVE Followed(ReleaseEvents)
  BY <1>3, ReturnFollowed DEF RunRelease, ReleaseEvents
<1> QED  BY <1>1, <1>2, <1>3

-----------------------------------------------------------------------------
(* The long batches, of a resize and of a close.                           *)

\* A sequence of whatever elements.
IsList(events) == \E T : events \in Seq(T)

\* A batch: the first event, those of the m in line, and the rest.
Batch(events, e, kind, m, told, rest) ==
    /\ m \in Nat /\ DOMAIN told = 1..m /\ IsList(rest)
    /\ events = << e >> \o FromQueue(kind, told) \o rest

\* What it is, element by element.
BatchRead(events, e, kind, m, told, rest) ==
    /\ IsList(events)
    /\ Len(events) = 1 + m + Len(rest) /\ Len(rest) \in Nat
    /\ events[1] = e
    /\ \A k \in 1..m : events[k + 1] = Event(kind, TRUE, 0, told[k])
    /\ \A k \in 1..Len(rest) : events[1 + m + k] = rest[k]

LEMMA BatchParts ==
    ASSUME NEW events, NEW e, NEW kind, NEW m, NEW told, NEW rest,
           Batch(events, e, kind, m, told, rest)
    PROVE  BatchRead(events, e, kind, m, told, rest)
<1>0. PICK S : rest \in Seq(S) /\ m \in Nat /\ DOMAIN told = 1..m
  BY DEF Batch, IsList
<1> DEFINE line == FromQueue(kind, told)
           T == {e} \cup {line[k] : k \in 1..m} \cup S
<1>1. line = [k \in 1..m |-> Event(kind, TRUE, 0, told[k])]
  BY <1>0 DEF FromQueue
<1>2. \A k \in 1..m : line[k] = Event(kind, TRUE, 0, told[k])
  BY <1>1
<1>3. line \in [1..m -> T]
  <2>1. \A k \in 1..m : line[k] \in T
    OBVIOUS
  <2>2. line = [k \in 1..m |-> line[k]]
    BY <1>1
  <2> HIDE DEF line, T
  <2> QED  BY <2>1, <2>2
<1>4. PICK one : one = << e >>
  OBVIOUS
<1>5. one \in Seq(T) /\ Len(one) = 1 /\ one[1] = e
  BY <1>4
<1>6. rest \in Seq(T) /\ Len(rest) \in Nat
  BY <1>0, LenProperties, SeqMonotonic
<1> HIDE DEF line, T
<1>7. line \in Seq(T) /\ Len(line) = m
  <2>1. line \in Seq(T)
    BY <1>0, <1>3, SeqDef
  <2>2. DOMAIN line = 1..m
    BY <1>3
  <2>3. DOMAIN line = 1..Len(line) /\ Len(line) \in Nat
    BY <2>1, LenProperties
  <2> QED  BY <1>0, <2>1, <2>2, <2>3
<1>8. /\ one \o line \in Seq(T) /\ Len(one \o line) = 1 + m
      /\ (one \o line)[1] = e
      /\ \A k \in 1..m : (one \o line)[k + 1] = line[k]
  <2>1. /\ one \o line \in Seq(T) /\ Len(one \o line) = 1 + m
        /\ \A i \in 1..(1 + m) : (one \o line)[i] = IF i <= 1 THEN one[i] ELSE line[i - 1]
    <3>1. /\ one \o line \in Seq(T) /\ Len(one \o line) = Len(one) + Len(line)
          /\ \A i \in 1..(Len(one) + Len(line)) :
                (one \o line)[i] = IF i <= Len(one) THEN one[i] ELSE line[i - Len(one)]
      BY <1>5, <1>7, ConcatProperties
    <3> QED  BY <1>0, <1>5, <1>7, <3>1
  <2>2. ASSUME NEW k \in 1..m PROVE (one \o line)[k + 1] = line[k]
    <3>1. k + 1 \in 1..(1 + m) /\ ~(k + 1 <= 1) /\ (k + 1) - 1 = k
      BY <1>0
    <3> QED  BY <2>1, <3>1
  <2>3. (one \o line)[1] = one[1]
    <3>1. 1 \in 1..(1 + m) /\ 1 <= 1
      BY <1>0
    <3> QED  BY <2>1, <3>1
  <2> QED  BY <1>5, <2>1, <2>2, <2>3
<1> DEFINE head == one \o line
<1>9. /\ head \in Seq(T) /\ Len(head) = 1 + m /\ head[1] = e
      /\ \A k \in 1..m : head[k + 1] = line[k]
      /\ events = head \o rest
  BY <1>4, <1>8 DEF Batch, line
<1> HIDE DEF head
<1>10. /\ events \in Seq(T) /\ Len(events) = 1 + m + Len(rest)
       /\ \A i \in 1..(1 + m + Len(rest)) :
             events[i] = IF i <= 1 + m THEN head[i] ELSE rest[i - (1 + m)]
  <2>1. /\ events \in Seq(T) /\ Len(events) = Len(head) + Len(rest)
        /\ \A i \in 1..(Len(head) + Len(rest)) :
              events[i] = IF i <= Len(head) THEN head[i] ELSE rest[i - Len(head)]
    BY <1>6, <1>9, ConcatProperties
  <2> QED  BY <1>0, <1>6, <1>9, <2>1
<1>11. /\ events[1] = e
       /\ \A k \in 1..m : events[k + 1] = Event(kind, TRUE, 0, told[k])
       /\ \A k \in 1..Len(rest) : events[1 + m + k] = rest[k]
  <2>1. events[1] = e
    BY <1>0, <1>6, <1>9, <1>10
  <2>2. ASSUME NEW k \in 1..m PROVE events[k + 1] = line[k]
    BY <1>0, <1>6, <1>9, <1>10
  <2>3. ASSUME NEW k \in 1..Len(rest) PROVE events[1 + m + k] = rest[k]
    <3>1. 1 + m + k \in 1..(1 + m + Len(rest)) /\ ~(1 + m + k <= 1 + m)
          /\ (1 + m + k) - (1 + m) = k
      BY <1>0, <1>6
    <3> QED  BY <1>10, <3>1
  <2> QED  BY <1>2, <2>1, <2>2, <2>3
<1>12. IsList(events)
  BY <1>10 DEF IsList
<1> QED  BY <1>0, <1>6, <1>9, <1>10, <1>11, <1>12 DEF BatchRead

\* The first event tells of as many as come from the queue after it.
LEMMA AffectedAreTold ==
    ASSUME NEW events, NEW m \in Nat, Len(events) \in Nat, 1 + m <= Len(events),
           events[1].affected_waiters = m,
           \A k \in 1..m : events[k + 1].from_queue,
           \A i \in (2 + m)..Len(events) : ~events[i].from_queue,
           \A i \in 2..Len(events) : events[i].kind \notin {"RESIZED", "CLOSED"}
    PROVE  AffectedTold(events)
<1>1. {j \in 1+1..Len(events) : events[j].from_queue} = 2..(1 + m)
  <2>1. ASSUME NEW j \in 2..(1 + m) PROVE events[j].from_queue
    <3>1. j - 1 \in 1..m /\ (j - 1) + 1 = j
      OBVIOUS
    <3> QED  BY <3>1
  <2>2. ASSUME NEW j \in 1+1..Len(events), events[j].from_queue PROVE j \in 2..(1 + m)
    BY <2>2
  <2> QED  BY <2>1, <2>2
<1>2. Cardinality(2..(1 + m)) = m
  BY FS_Interval
<1>3. ASSUME NEW i \in 1..Len(events), events[i].kind \in {"RESIZED", "CLOSED"}
      PROVE  events[i].affected_waiters
                = Cardinality({j \in i+1..Len(events) : events[j].from_queue})
  <2>1. i = 1
    BY <1>3
  <2> QED  BY <1>1, <1>2, <2>1
<1> QED  BY <1>3 DEF AffectedTold

\* A resize tells the new limit, with as many affected as it admits from the queue.
LEMMA ResizeFollowed ==
    ASSUME CapacityInv, NEW n \in Sizes, Resize(n)
    PROVE  Followed(ResizeEvents(n)) /\ IsList(ResizeEvents(n))
<1> DEFINE m == Admissible(n)
           w == Len(waiters)
           After(k) == State(n, in_flight + k, w - k, closed)
           told == [k \in 1..(in_flight' - in_flight) |-> After(k)]
           e == Event("RESIZED", FALSE, AffectedWaiters(n), After(0))
           events == ResizeEvents(n)
<1>1. /\ n \in Nat /\ n > 0 /\ in_flight \in Nat /\ w \in Nat /\ parallelism \in Nat
      /\ drained \in BOOLEAN
  BY AdmissionAssumption, NumbersNow
<1>2. /\ m \in Nat /\ m <= w /\ AffectedWaiters(n) = m
      /\ \A k \in 1..m : in_flight + k <= n
  BY <1>1 DEF Admissible, AffectedWaiters, Smaller
<1>3. /\ in_flight' = in_flight + m /\ parallelism' = n /\ Len(waiters') = w - m
      /\ closed' = closed /\ closed = FALSE /\ drained' = drained
  <2>1. /\ in_flight' = in_flight + m /\ parallelism' = n
        /\ waiters' = SubSeq(waiters, m + 1, Len(waiters))
        /\ closed' = closed /\ closed = FALSE /\ drained' = drained
    BY NumbersNow DEF Resize, AdmitWaiters, AllocateCapacity, drainVars
  <2>2. m \in 0..Len(waiters)
    BY <1>1, <1>2
  <2> HIDE DEF m
  <2>3. Len(SubSeq(waiters, m + 1, Len(waiters))) = Len(waiters) - m
    BY <2>2, CapacityTypes, DropLine
  <2> QED  BY <2>1, <2>3
<1>4. events = << e >> \o FromQueue("ADMITTED", told)
  BY DEF ResizeEvents
<1>5. /\ Now = State(parallelism, in_flight, w, FALSE) /\ Now' = After(m)
      /\ \A k : After(k) = State(n, in_flight + k, w - k, FALSE)
  BY <1>3, NumbersNow
<1> HIDE DEF m, w
<1>6. DOMAIN told = 1..m /\ \A k \in 1..m : told[k] = After(k)
  <2>1. in_flight' - in_flight = m
    BY <1>1, <1>2, <1>3
  <2> QED  BY <2>1
<1>7. /\ Len(events) = 1 + m /\ events[1] = e /\ IsList(events)
      /\ \A k \in 1..m : events[k + 1] = Event("ADMITTED", TRUE, 0, After(k))
  <2> HIDE DEF events, e, told, After
  <2>1. << e >> \o FromQueue("ADMITTED", told) = << e >> \o FromQueue("ADMITTED", told) \o << >>
    OBVIOUS
  <2>2. PICK none : none = << >>
    OBVIOUS
  <2>3. none \in Seq({}) /\ Len(none) = 0
    BY <2>2, EmptySeq
  <2>9. IsList(none)
    BY <2>3 DEF IsList
  <2>4. Batch(events, e, "ADMITTED", m, told, none)
    BY <1>2, <1>4, <1>6, <2>1, <2>2, <2>9 DEF Batch
  <2>5. BatchRead(events, e, "ADMITTED", m, told, none)
    BY <2>4, BatchParts
  <2>6. /\ IsList(events) /\ Len(events) = 1 + m + Len(none) /\ events[1] = e
        /\ \A k \in 1..m : events[k + 1] = Event("ADMITTED", TRUE, 0, told[k])
    BY <2>5 DEF BatchRead
  <2>7. Len(events) = 1 + m
    BY <1>2, <2>3, <2>6
  <2>8. \A k \in 1..m : events[k + 1] = Event("ADMITTED", TRUE, 0, After(k))
    BY <1>6, <2>6
  <2> QED  BY <2>6, <2>7, <2>8
<1> DEFINE states == [k \in 0..(1 + m) |-> IF k = 0 THEN Now ELSE After(k - 1)]
           flags == [k \in 0..(1 + m) |-> drained]
<1>8. /\ states[0] = Now /\ \A k \in 1..(1 + m) : states[k] = After(k - 1)
      /\ \A k \in 0..(1 + m) : flags[k] = drained
  <2> HIDE DEF After
  <2> QED  BY <1>2
<1> HIDE DEF states, flags, told, events
<1>9. ASSUME NEW k \in 1..(1 + m)
      PROVE  Leads(states[k - 1], flags[k - 1], events[k], states[k], flags[k])
  <2>1. flags[k - 1] = drained /\ flags[k] = drained
    BY <1>2, <1>8
  <2>2. CASE k = 1
    <3>1. After(0) = State(n, in_flight, w, FALSE)
      <4>1. in_flight + 0 = in_flight /\ w - 0 = w
        BY <1>1
      <4> QED  BY <1>3, <4>1
    <3>2. Leads(Now, drained, e, After(0), drained)
      BY <1>1, <1>5, <3>1, ChangedLeads
    <3>3. states[k - 1] = Now /\ states[k] = After(0) /\ events[k] = e
      <4> HIDE DEF After, e
      <4> QED  BY <1>2, <1>7, <1>8, <2>2
    <3> HIDE DEF After, e
    <3> QED  BY <2>1, <3>2, <3>3
  <2>3. CASE k # 1
    <3>1. PICK j \in 1..m : k = j + 1
      <4>1. k - 1 \in 1..m /\ k = (k - 1) + 1
        BY <1>2, <2>3
      <4> QED  BY <4>1
    <3>2. /\ in_flight + (j - 1) \in Nat /\ w - (j - 1) \in Nat /\ w - (j - 1) > 0
          /\ in_flight + (j - 1) < n
          /\ in_flight + (j - 1) + 1 = in_flight + j /\ w - (j - 1) - 1 = w - j
      BY <1>1, <1>2
    <3>3. Leads(After(j - 1), drained, Event("ADMITTED", TRUE, 0, After(j)), After(j), drained)
      <4> DEFINE a == in_flight + (j - 1)
                 b == w - (j - 1)
                 t == State(n, a + 1, b - 1, FALSE)
      <4>1. After(j - 1) = State(n, a, b, FALSE) /\ After(j) = t
        BY <1>5, <3>2
      <4>2. a \in Nat /\ b \in Nat /\ b > 0 /\ a < n
        BY <3>2
      <4> HIDE DEF a, b, After
      <4>3. Leads(State(n, a, b, FALSE), drained, Event("ADMITTED", TRUE, 0, t), t, drained)
        BY <1>1, <4>2, AdmittedLeads
      <4> HIDE DEF t
      <4> QED  BY <4>1, <4>3
    <3> HIDE DEF After
    <3>4. states[k - 1] = After(j - 1) /\ states[k] = After(j)
      <4>1. k - 1 \in 1..(1 + m) /\ k - 1 = j /\ (k - 1) - 1 = j - 1
        BY <1>2, <3>1
      <4> QED  BY <1>8, <4>1
    <3>5. events[k] = Event("ADMITTED", TRUE, 0, After(j))
      BY <1>7, <3>1
    <3> QED  BY <2>1, <3>3, <3>4, <3>5
  <2> QED  BY <2>2, <2>3
<1>10. AffectedTold(events)
  <2>1. e.affected_waiters = AffectedWaiters(n)
    BY DEF Event
  <2> HIDE DEF After, e
  <2>2. ASSUME NEW k \in 1..m
        PROVE  events[k + 1].from_queue /\ events[k + 1].kind = "ADMITTED"
    <3> DEFINE f == Event("ADMITTED", TRUE, 0, After(k))
    <3>1. f.from_queue = TRUE /\ f.kind = "ADMITTED"
      BY DEF Event
    <3>2. events[k + 1] = f
      BY <1>7
    <3> HIDE DEF f
    <3> QED  BY <3>1, <3>2
  <2>3. ASSUME NEW i \in 2..Len(events) PROVE events[i].kind \notin {"RESIZED", "CLOSED"}
    <3>1. i - 1 \in 1..m /\ i = (i - 1) + 1
      BY <1>2, <1>7
    <3>2. events[i].kind = "ADMITTED"
      BY <2>2, <3>1
    <3> QED  BY <3>2
  <2>4. /\ Len(events) \in Nat /\ 1 + m <= Len(events)
        /\ \A i \in (2 + m)..Len(events) : ~events[i].from_queue
    BY <1>2, <1>7
  <2>5. events[1].affected_waiters = m
    BY <1>2, <1>7, <2>1
  <2> QED  BY <1>2, <2>2, <2>3, <2>4, <2>5, AffectedAreTold
<1>11. Len(events) \in Nat /\ 0 \in 0..(1 + m) /\ 1 + m \in 1..(1 + m) /\ (1 + m) - 1 = m
  BY <1>2, <1>7
<1>12. Watch(Gauges(states[0], flags[0]), events) = Gauges(states[1 + m], flags[1 + m])
  BY <1>7, <1>9, <1>10, <1>11, BatchFollowed
<1>13. /\ states[0] = Now /\ flags[0] = drained
       /\ states[1 + m] = Now' /\ flags[1 + m] = drained'
  <2> HIDE DEF After
  <2> QED  BY <1>3, <1>5, <1>8, <1>11
<1>14. Followed(events)
  BY <1>12, <1>13 DEF Followed
<1> QED  BY <1>7, <1>14 DEF events

\* A close tells of everybody who is sent away, and of the drain when nobody is active.
LEMMA CloseFollowed ==
    ASSUME CapacityInv, DoClose, UNCHANGED capacityVars
    PROVE  Followed(CloseEvents) /\ IsList(CloseEvents)
<1>1. CASE closed
  <2>1. UNCHANGED <<waiters, capacityVars, drainVars>>
    BY <1>1 DEF DoClose
  <2>2. CloseEvents = << >>
    BY <1>1 DEF CloseEvents
  <2>3. PICK none : none = << >>
    OBVIOUS
  <2>4. IsList(none)
    BY <2>3, EmptySeq DEF IsList
  <2> QED  BY <2>1, <2>2, <2>3, <2>4, SilenceFollowed
<1>2. CASE ~closed
  <2> DEFINE m == Len(waiters)
             After(k) == State(parallelism, in_flight, m - k, TRUE)
             told == [k \in 1..m |-> After(k)]
             e == Event("CLOSED", FALSE, m, After(0))
             f == Event("DRAINED", FALSE, 0, Now')
             rest == IF drained' # drained THEN << f >> ELSE << >>
             events == CloseEvents
  <2>1. /\ parallelism \in Nat /\ in_flight \in Nat /\ m \in Nat
        /\ closed = FALSE /\ drained = FALSE
        /\ drained' \in BOOLEAN /\ (drained' <=> in_flight = 0)
    BY <1>2, NumbersNow DEF DoClose, SignalDrained
  <2>2. /\ Now = State(parallelism, in_flight, m, FALSE)
        /\ Now' = State(parallelism, in_flight, 0, TRUE)
    <3>1. /\ parallelism' = parallelism /\ in_flight' = in_flight /\ closed' = TRUE
          /\ waiters' = << >>
      BY <1>2 DEF DoClose, capacityVars
    <3>2. Len(waiters') = 0
      BY <3>1
    <3> QED  BY <2>1, <3>1, <3>2, NumbersNow
  <2>3. events = << e >> \o FromQueue("CLOSED_REJECTION", told) \o rest
    BY <1>2 DEF CloseEvents
  <2> HIDE DEF m, rest, events
  <2>4. Now' = After(m)
    BY <2>1, <2>2
  <2>5. /\ IsList(rest) /\ Len(rest) \in {0, 1} /\ (drained' <=> Len(rest) = 1)
        /\ Len(rest) = 1 => rest[1] = f
    <3> HIDE DEF f
    <3>1. CASE drained'
      <4>1. PICK one : one = << f >>
        OBVIOUS
      <4>2. one \in Seq({f}) /\ Len(one) = 1 /\ one[1] = f
        BY <4>1
      <4>3. rest = one
        BY <2>1, <3>1, <4>1 DEF rest
      <4> QED  BY <3>1, <4>2, <4>3 DEF IsList
    <3>2. CASE ~drained'
      <4>1. PICK none : none = << >>
        OBVIOUS
      <4>2. none \in Seq({}) /\ Len(none) = 0
        BY <4>1, EmptySeq
      <4>3. rest = none
        BY <2>1, <3>2, <4>1 DEF rest
      <4> QED  BY <3>2, <4>2, <4>3 DEF IsList
    <3> QED  BY <3>1, <3>2
  <2>6. DOMAIN told = 1..m /\ \A k \in 1..m : told[k] = After(k)
    OBVIOUS
  <2>7. /\ IsList(events) /\ Len(events) = 1 + m + Len(rest) /\ events[1] = e
        /\ \A k \in 1..m : events[k + 1] = Event("CLOSED_REJECTION", TRUE, 0, told[k])
        /\ \A k \in 1..Len(rest) : events[1 + m + k] = rest[k]
    <3> HIDE DEF e, told, After
    <3>1. Batch(events, e, "CLOSED_REJECTION", m, told, rest)
      BY <2>1, <2>3, <2>5, <2>6 DEF Batch
    <3>2. BatchRead(events, e, "CLOSED_REJECTION", m, told, rest)
      BY <3>1, BatchParts
    <3> QED  BY <3>2 DEF BatchRead
  <2>8. /\ Len(events) \in Nat /\ 1 + m <= Len(events) /\ Len(events) <= 2 + m
        /\ (drained' <=> Len(events) = 2 + m)
        /\ Len(events) = 2 + m => events[2 + m] = f
        /\ \A k \in 1..m : events[k + 1] = Event("CLOSED_REJECTION", TRUE, 0, After(k))
    <3> HIDE DEF e, f, told, After
    <3>1. \A k \in 1..m : events[k + 1] = Event("CLOSED_REJECTION", TRUE, 0, After(k))
      BY <2>6, <2>7
    <3>2. ASSUME Len(events) = 2 + m PROVE events[2 + m] = f
      <4>1. Len(rest) = 1 /\ 1 \in 1..Len(rest) /\ 1 + m + 1 = 2 + m
        BY <2>1, <2>5, <2>7, <3>2
      <4> QED  BY <2>5, <2>7, <4>1
    <3>3. Len(events) = 1 + m + Len(rest) /\ Len(rest) \in {0, 1} /\ (drained' <=> Len(rest) = 1)
      BY <2>5, <2>7
    <3>4. /\ Len(events) \in Nat /\ 1 + m <= Len(events) /\ Len(events) <= 2 + m
          /\ (Len(rest) = 1 <=> Len(events) = 2 + m)
      <4>1. m \in Nat
        BY <2>1
      <4>2. CASE Len(rest) = 0
        <5>1. Len(events) = 1 + m
          BY <3>3, <4>1, <4>2
        <5> QED  BY <4>1, <4>2, <5>1
      <4>3. CASE Len(rest) = 1
        <5>1. Len(events) = 2 + m
          BY <3>3, <4>1, <4>3
        <5> QED  BY <4>1, <4>3, <5>1
      <4> QED  BY <3>3, <4>2, <4>3
    <3> QED  BY <3>1, <3>2, <3>3, <3>4
  <2> DEFINE states == [k \in 0..(2 + m) |->
                           IF k = 0 THEN Now ELSE IF k <= 1 + m THEN After(k - 1) ELSE Now']
             flags == [k \in 0..(2 + m) |-> IF k = 2 + m THEN TRUE ELSE FALSE]
  <2>9. /\ states[0] = Now /\ states[2 + m] = Now'
        /\ \A k \in 1..(1 + m) : states[k] = After(k - 1)
        /\ flags[2 + m] = TRUE /\ \A k \in 0..(1 + m) : flags[k] = FALSE
    <3> HIDE DEF After
    <3> QED  BY <2>1
  <2> HIDE DEF states, flags, told
  <2>10. ASSUME NEW k \in 1..Len(events)
         PROVE  Leads(states[k - 1], flags[k - 1], events[k], states[k], flags[k])
    <3>1. CASE k = 1
      <4>1. states[k - 1] = Now /\ states[k] = After(0) /\ events[k] = e
            /\ flags[k - 1] = FALSE /\ flags[k] = FALSE
        <5> HIDE DEF e, After
        <5>1. 1 \in 1..(1 + m) /\ 0 \in 0..(1 + m) /\ 1 \in 0..(1 + m)
          BY <2>1
        <5> QED  BY <2>7, <2>9, <3>1, <5>1
      <4>2. After(0) = State(parallelism, in_flight, m, TRUE)
        BY <2>1
      <4>3. Leads(Now, FALSE, e, After(0), FALSE)
        BY <2>1, <2>2, <4>2, ChangedLeads
      <4> HIDE DEF e, After
      <4> QED  BY <4>1, <4>3
    <3>2. CASE k # 1 /\ k <= 1 + m
      <4>1. PICK j \in 1..m : k = j + 1
        <5>1. k - 1 \in 1..m /\ k = (k - 1) + 1
          BY <2>1, <2>8, <3>2
        <5> QED  BY <5>1
      <4>2. Leads(After(j - 1), FALSE, Event("CLOSED_REJECTION", TRUE, 0, After(j)), After(j), FALSE)
        <5> DEFINE b == m - (j - 1)
                   t == State(parallelism, in_flight, b - 1, TRUE)
        <5>1. b \in Nat /\ b > 0 /\ b - 1 = m - j
          BY <2>1
        <5>2. After(j - 1) = State(parallelism, in_flight, b, TRUE) /\ After(j) = t
          BY <5>1
        <5> HIDE DEF b, After
        <5>3. Leads(State(parallelism, in_flight, b, TRUE), FALSE,
                    Event("CLOSED_REJECTION", TRUE, 0, t), t, FALSE)
          BY <2>1, <5>1, LeftLeads
        <5> HIDE DEF t
        <5> QED  BY <5>2, <5>3
      <4> HIDE DEF After
      <4>3. states[k - 1] = After(j - 1) /\ states[k] = After(j)
            /\ flags[k - 1] = FALSE /\ flags[k] = FALSE
        <5>1. k - 1 \in 1..(1 + m) /\ k \in 1..(1 + m) /\ k - 1 = j /\ (k - 1) - 1 = j - 1
              /\ k - 1 \in 0..(1 + m) /\ k \in 0..(1 + m)
          BY <2>1, <4>1
        <5> QED  BY <2>9, <5>1
      <4>4. events[k] = Event("CLOSED_REJECTION", TRUE, 0, After(j))
        BY <2>8, <4>1
      <4> QED  BY <4>2, <4>3, <4>4
    <3>3. CASE k > 1 + m
      <4>1. k = 2 + m /\ Len(events) = 2 + m /\ k - 1 = 1 + m
        BY <2>1, <2>8, <3>3
      <4>2. Leads(Now', FALSE, f, Now', TRUE)
        <5>1. in_flight = 0
          BY <2>1, <2>8, <4>1
        <5> QED  BY <2>1, <2>2, <5>1, DrainedLeads
      <4> HIDE DEF f, After
      <4>3. /\ states[k - 1] = Now' /\ states[k] = Now'
            /\ flags[k - 1] = FALSE /\ flags[k] = TRUE /\ events[k] = f
        <5>1. 1 + m \in 1..(1 + m) /\ (1 + m) - 1 = m /\ 1 + m \in 0..(1 + m)
          BY <2>1
        <5> QED  BY <2>4, <2>8, <2>9, <4>1, <5>1
      <4> QED  BY <4>2, <4>3
    <3>4. k = 1 \/ (k # 1 /\ k <= 1 + m) \/ k > 1 + m
      BY <2>1
    <3> QED  BY <3>1, <3>2, <3>3, <3>4
  <2>11. AffectedTold(events)
    <3>1. /\ e.affected_waiters = m
          /\ f.kind = "DRAINED" /\ f.from_queue = FALSE
      BY DEF Event
    <3> HIDE DEF After, e, f
    <3>2. ASSUME NEW k \in 1..m
          PROVE  events[k + 1].from_queue /\ events[k + 1].kind = "CLOSED_REJECTION"
      <4> DEFINE g == Event("CLOSED_REJECTION", TRUE, 0, After(k))
      <4>1. g.from_queue = TRUE /\ g.kind = "CLOSED_REJECTION"
        BY DEF Event
      <4>2. events[k + 1] = g
        BY <2>8
      <4> HIDE DEF g
      <4> QED  BY <4>1, <4>2
    <3>3. ASSUME NEW i \in (2 + m)..Len(events)
          PROVE  events[i].kind = "DRAINED" /\ ~events[i].from_queue
      <4>1. i = 2 + m /\ Len(events) = 2 + m
        BY <2>1, <2>8
      <4> QED  BY <2>8, <3>1, <4>1
    <3>4. ASSUME NEW i \in 2..Len(events) PROVE events[i].kind \notin {"RESIZED", "CLOSED"}
      <4>1. CASE i <= 1 + m
        <5>1. i - 1 \in 1..m /\ i = (i - 1) + 1
          BY <2>1, <4>1
        <5>2. events[i].kind = "CLOSED_REJECTION"
          BY <3>2, <5>1
        <5> QED  BY <5>2
      <4>2. CASE ~(i <= 1 + m)
        <5>1. i \in (2 + m)..Len(events)
          BY <2>1, <2>8, <4>2
        <5> QED  BY <3>3, <5>1
      <4> QED  BY <4>1, <4>2
    <3>5. events[1].affected_waiters = m
      BY <2>7, <3>1
    <3> QED  BY <2>1, <2>8, <3>2, <3>3, <3>4, <3>5, AffectedAreTold
  <2>12. Watch(Gauges(states[0], flags[0]), events)
            = Gauges(states[Len(events)], flags[Len(events)])
    BY <2>8, <2>10, <2>11, BatchFollowed
  <2>13. /\ states[0] = Now /\ flags[0] = drained
         /\ states[Len(events)] = Now' /\ flags[Len(events)] = drained'
    <3> HIDE DEF After
    <3>1. 0 \in 0..(1 + m) /\ 1 + m \in 1..(1 + m) /\ 1 + m \in 0..(1 + m) /\ (1 + m) - 1 = m
      BY <2>1
    <3>2. states[0] = Now /\ flags[0] = drained
      BY <2>1, <2>9, <3>1
    <3>3. CASE Len(events) = 2 + m
      BY <2>1, <2>8, <2>9, <3>2, <3>3
    <3>4. CASE Len(events) = 1 + m
      <4>1. drained' = FALSE
        BY <2>1, <2>8, <3>4
      <4> QED  BY <2>4, <2>9, <3>1, <3>2, <3>4, <4>1
    <3>5. Len(events) = 1 + m \/ Len(events) = 2 + m
      BY <2>1, <2>8
    <3> QED  BY <3>3, <3>4, <3>5
  <2>14. Followed(events)
    BY <2>12, <2>13 DEF Followed
  <2> QED  BY <2>7, <2>14 DEF events
<1> QED  BY <1>1, <1>2

-----------------------------------------------------------------------------
(* Every step.                                                             *)

LEMMA ShortLists ==
    /\ IsList(<< >>)
    /\ \A e, f : IsList(<< e >>) /\ IsList(<< e >> \o << f >>) /\ IsList(<< e >> \o << >>)
<1>1. PICK none : none = << >>
  OBVIOUS
<1>2. none \in Seq({}) /\ IsList(none)
  BY <1>1, EmptySeq DEF IsList
<1>3. ASSUME NEW e, NEW f
      PROVE  IsList(<< e >>) /\ IsList(<< e >> \o << f >>) /\ IsList(<< e >> \o none)
  <2>1. PICK one, two, both : one = << e >> /\ two = << f >> /\ both = << e, f >>
    OBVIOUS
  <2>2. one \in Seq({e, f}) /\ both \in Seq({e, f}) /\ one \o two = both
    BY <2>1, OneAndOne
  <2>3. one \o none = one
    BY <1>1, <2>2
  <2> QED  BY <2>1, <2>2, <2>3 DEF IsList
<1> QED  BY <1>1, <1>2, <1>3

LEMMA OperationsTellLists ==
    ASSUME NEW c \in Calls
    PROVE  /\ IsList(EnterEvents(c)) /\ IsList(ExpireEvents(c))
           /\ IsList(CancelEvents(c)) /\ IsList(ReleaseEvents)
<1>1. IsList(CapacityEvents) /\ \A e : IsList(<< e >> \o CapacityEvents)
  BY ShortLists, Zenon DEF CapacityEvents
<1>2. IsList(EnterEvents(c))
  BY ShortLists, Zenon DEF EnterEvents
<1>3. IsList(ExpireEvents(c))
  BY ShortLists, Zenon DEF ExpireEvents
<1>4. IsList(CancelEvents(c))
  BY <1>1, ShortLists, Zenon DEF CancelEvents
<1>5. IsList(ReleaseEvents)
  BY <1>1, Zenon DEF ReleaseEvents
<1> QED  BY <1>2, <1>3, <1>4, <1>5

LEMMA DispatchKeeps ==
    ASSUME HandlersInv, NEW events, IsList(events), Followed(events), Dispatch(events)
    PROVE  HandlersInv'
<1>1. PICK S : events \in Seq(S)
  BY DEF IsList
<1>2. Delivered(events) /\ (ChangeHandlers \/ UNCHANGED handlers)
  BY Zenon DEF Dispatch
<1> QED  BY <1>1, <1>2, DeliveryKeeps DEF Followed

\* A step that tells nothing and leaves what could be told alone.
LEMMA QuietKeeps ==
    ASSUME HandlersInv, UNCHANGED <<waiters, capacityVars, drainVars, handlerVars>>
    PROVE  HandlersInv'
<1>1. Now' = Now /\ drained' = drained /\ handlers' = handlers /\ gauges' = gauges
  BY DEF Now, capacityVars, drainVars, handlerVars
<1> QED  BY <1>1 DEF HandlersInv, HandlersFollow

LEMMA RegisterKeeps == ASSUME HandlersInv, Register PROVE HandlersInv'
<1>1. UNCHANGED <<waiters, capacityVars, drainVars>>
  BY DEF Register, vars, capacityVars, drainVars
<1>2. Followed(<< >>)
  BY <1>1, SilenceFollowed
<1>3. PICK none : none = << >>
  OBVIOUS
<1>4. none \in Seq({}) /\ Followed(none) /\ Delivered(none)
  BY <1>2, <1>3, EmptySeq DEF Register
<1>5. ChangeHandlers
  BY DEF Register
<1> QED  BY <1>4, <1>5, DeliveryKeeps DEF Followed

LEMMA HandlersStep == CapacityInv /\ HandlersInv /\ [BulkheadNext]_allVars => HandlersInv'
<1> SUFFICES ASSUME CapacityInv, HandlersInv, [BulkheadNext]_allVars PROVE HandlersInv'
  OBVIOUS
<1>1. ASSUME NEW c \in Calls, CallStep(c) PROVE HandlersInv'
  <2>1. CASE ResumeEnter(c)
    BY <2>1, QuietKeeps DEF ResumeEnter, Resume, ResumeExpired, OnlyControl, queueVars
  <2>2. CASE ExitSlot(c)
    BY <2>2, QuietKeeps DEF ExitSlot, FinishBody, OnlyControl, queueVars, handlerVars
  <2>3. CASE Unwind(c)
    BY <2>3, QuietKeeps DEF Unwind, vars, capacityVars, drainVars
  <2>4. CASE (Timeout(c) \/ Cancel(c)) /\ UNCHANGED <<contextVars, handlerVars>>
    BY <2>4, QuietKeeps DEF Timeout, Cancel, OnlyControl, queueVars
  <2>5. CASE RunExpire(c) /\ Dispatch(ExpireEvents(c))
    BY <2>5, CleanupFollowed, OperationsTellLists, DispatchKeeps
  <2>6. CASE RunCancel(c) /\ Dispatch(CancelEvents(c))
    BY <2>6, CleanupFollowed, OperationsTellLists, DispatchKeeps
  <2>7. CASE RunRelease(c) /\ Dispatch(ReleaseEvents)
    BY <2>7, CleanupFollowed, OperationsTellLists, DispatchKeeps
  <2> QED  BY <1>1, <2>1, <2>2, <2>3, <2>4, <2>5, <2>6, <2>7, Zenon DEF CallStep
<1>2. ASSUME NEW c \in Calls, NEW x \in ContextsOf(c), EnterSlot(c, x) PROVE HandlersInv'
  BY <1>2, EnterFollowed, OperationsTellLists, DispatchKeeps DEF EnterSlot
<1>3. ASSUME NEW n \in Sizes, Resize(n), Dispatch(ResizeEvents(n)) PROVE HandlersInv'
  BY <1>3, ResizeFollowed, DispatchKeeps
<1>4. ASSUME DoClose, UNCHANGED capacityVars, Dispatch(CloseEvents) PROVE HandlersInv'
  BY <1>4, CloseFollowed, DispatchKeeps
<1>5. CASE Close /\ Dispatch(CloseEvents)
  BY <1>4, <1>5 DEF Close
<1>6. ASSUME NEW s \in Closers, CloserStep(s) PROVE HandlersInv'
  <2>1. CASE RunClose(s) /\ Dispatch(CloseEvents)
    BY <1>4, <2>1 DEF RunClose
  <2>2. CASE /\ CloseAndWait(s) \/ WaitClosed(s) \/ ReturnClosed(s) \/ CancelCloser(s)
             /\ UNCHANGED <<contextVars, handlerVars>>
    BY <2>2, QuietKeeps
    DEF CloseAndWait, WaitClosed, ReturnClosed, CancelCloser, queueVars
  <2> QED  BY <1>6, <2>1, <2>2, Zenon DEF CloserStep
<1>7. CASE Register
  BY <1>7, RegisterKeeps
<1>8. CASE Terminated /\ UNCHANGED <<contextVars, handlerVars>>
  BY <1>8, QuietKeeps DEF Terminated, vars, capacityVars, drainVars
<1>9. CASE UNCHANGED allVars
  BY <1>9, QuietKeeps DEF allVars, vars, capacityVars, drainVars
<1> QED  BY <1>1, <1>2, <1>3, <1>5, <1>6, <1>7, <1>8, <1>9, Zenon DEF BulkheadNext

\* A handler that counts events by their kind knows the bulkhead after every
\* operation, whenever it was registered: the events of each one lead from the
\* state before it to the state after it, each to the state that it announces.
THEOREM HandlersAreTold == BulkheadSpec => []HandlersFollow
<1>1. BulkheadInit => HandlersInv
  <2> SUFFICES ASSUME BulkheadInit PROVE HandlersInv
    OBVIOUS
  <2>1. handlers = << >>
    BY DEF BulkheadInit
  <2>2. handlers \in Seq(Handlers) /\ IsInjective(handlers) /\ ToSet(handlers) = {}
    BY <2>1, EmptyLine
  <2> QED  BY <2>2 DEF HandlersInv, HandlersFollow
<1>2. BulkheadSpec => []CapacityInv
  BY BulkheadIsCoordinator, CapacityAlways, PTL
<1>3. BulkheadSpec => []HandlersInv
  BY <1>1, <1>2, HandlersStep, PTL DEF BulkheadSpec
<1>4. HandlersInv => HandlersFollow
  BY DEF HandlersInv
<1> QED  BY <1>3, <1>4, PTL
=============================================================================
