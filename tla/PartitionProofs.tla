-------------------------- MODULE PartitionProofs --------------------------
(***************************************************************************)
(* Proofs about PartitionManager and PartitionStatus for any finite set of *)
(* callers, any keys and any limit.  What the safety of the manager rests  *)
(* on is the life of a child, which only moves forward (Lives): it is      *)
(* retained, or removed with a task to close it, and is never put back;    *)
(* and that of an op, which one caller or callback answers for (Promises). *)
(***************************************************************************)
EXTENDS PartitionStatus, FiniteSetTheorems, TLAPS

-----------------------------------------------------------------------------
(* The inductive invariant.                                                *)

\* A child is made by its caller, retained without a task, and removed for ever
\* with one; only removed children have an op, a callback or somebody's victim.
Lives ==
    /\ \A e \in partitions : job[e] = "none"
    /\ \A e \in Callers : e \in partitions \/ job[e] # "none" => pc[e] \in Leased \cup Settled
    /\ \A e \in Callers : pending[e] # "none" \/ e \in callback => job[e] # "none"
    /\ \A c \in Callers : op[c] # NoEntry => job[op[c]] # "none"
    /\ \A c \in Callers : HasChild(c) => held[c] \in partitions
    /\ \A t \in Keepers : \A e \in sweep[t] : job[e] # "none"

\* A caller that waits for its victim still has the slot promised to it: nobody
\* else may release that op.
Promises ==
    /\ \A c, d \in Callers : op[c] # NoEntry /\ op[c] = op[d] => c = d
    /\ \A c \in Callers : pc[c] \in {"evicting", "awaiting"} =>
          pending[op[c]] = "EVICTION" /\ op[c] \notin callback

\* While the manager is open only removed children are closed.
OpenChildren ==
    lifecycle = "OPEN" => closing = {} /\ \A e \in closed : job[e] # "none"

ManagerInv ==
    /\ TypeOK
    /\ Lives
    /\ Promises
    /\ OpenChildren
    /\ LeaseAccounting
    /\ OnePartitionPerKey
    /\ WithinLimit
    /\ DrainExact

\* Somebody who did not hand its op over has the op of v.
Owned(v) == \E c \in Callers : op[c] = v /\ pc[c] # "transferred"

\* ReleasedOnce without counting: Promises says that an op has one owner.
Answered ==
    \A v \in Callers :
        /\ pending[v] = "EVICTION" <=> Owned(v) \/ v \in callback
        /\ ~(Owned(v) /\ v \in callback)
        /\ pending[v] = "MAINTENANCE" <=>
              pending[v] # "EVICTION" /\ job[v] \in {"ready", "running"}

\* What Answered needs besides, where no cleanup is cancelled at the two places
\* that lose an op: no task of a sweep is lost, an op is undone only after its
\* victim has closed, and no caller that transfers one is interrupted.
Careful ==
    /\ \A c \in interrupted : pc[c] = "evicting"
    /\ \A c \in Callers : pc[c] = "undoing" => job[op[c]] = "done"
    /\ \A e \in Callers : job[e] # "lost"
    /\ \A t \in Keepers : \A e \in sweep[t] : job[e] = "ready"
    /\ \A t, u \in Keepers : t # u => sweep[t] \cap sweep[u] = {}

CarefulInv == ManagerInv /\ Answered /\ Careful

\* Who returned saw the drain, and forgot the children.
ReturnedAfterDrain ==
    (\E s \in Closers : shut[s] = "returned") => drained /\ partitions = {}

-----------------------------------------------------------------------------
(* Types, and the order of the retained children.                          *)

\* Finite sets of children.
LEMMA Finite ==
    ASSUME NEW S \in SUBSET Callers
    PROVE  IsFiniteSet(S) /\ Cardinality(S) \in Nat
BY PartitionAssumption, FS_Subset, FS_CardinalityType

\* Children that leave do not disturb the order of the others.
LEMMA OrderWithout ==
    ASSUME Orders(older, partitions), NEW V
    PROVE  Orders(Without(V), partitions \ V)
BY DEF Orders, Without

\* A child, new or not, takes the last place.
LEMMA OrderLatest ==
    ASSUME Orders(older, partitions), NEW e
    PROVE  Orders(Latest(e), partitions \cup {e})
<1>1. Latest(e) \subseteq (partitions \cup {e}) \X (partitions \cup {e})
  BY DEF Orders, Latest, Without
<1>2. ASSUME NEW d, NEW f PROVE <<d, f>> \in Latest(e) <=>
          \/ d # e /\ f # e /\ <<d, f>> \in older
          \/ d \in partitions /\ d # e /\ f = e
  BY DEF Orders, Latest, Without
<1> HIDE DEF Latest
<1> QED  BY <1>1, <1>2 DEF Orders

\* An op is released, or not.
LEMMA TypedRelease ==
    ASSUME TypeOK, NEW v, ReleaseOp(v) \/ UNCHANGED <<pending, drained>>
    PROVE  pending' \in [Callers -> Ops] /\ drained' \in BOOLEAN
<1>1. drained' \in BOOLEAN
  BY DEF TypeOK, ReleaseOp, SignalDrained
<1>2. pending' \in [Callers -> Ops]
  BY DEF TypeOK, ReleaseOp, Ops
<1> QED  BY <1>1, <1>2

LEMMA TypedInit == Init => TypeOK
<1> SUFFICES ASSUME Init PROVE TypeOK
  OBVIOUS
<1>1. Orders({}, {})
  BY DEF Orders
<1> QED
  BY <1>1, PartitionAssumption
     DEF Init, TypeOK, Ops, Jobs, CallerStates, OwnsOp, Leased, Settled, CloserStates,
         HasChild

\* The definitions a step of a caller is made of.
LEMMA TypedAcquire ==
    ASSUME TypeOK, NEW c \in Callers, Arrive(c) \/ Reacquire(c)
    PROVE  TypeOK'
<1> USE DEF TypeOK, HasChild, CallerStates, OwnsOp, Leased, Settled
<1>1. CASE Refuse(c)
  BY <1>1 DEF Refuse, Goto, Arrive, Reacquire, mapVars, opVars, shutdownVars
<1>2. CASE UseExisting(c)
  BY <1>2, PartitionAssumption
     DEF UseExisting, ConsumeOp, Borrow, Goto, Ops, Arrive, Reacquire, shutdownVars
<1>3. CASE Create(c)
  <2>1. Orders(older', partitions')
    BY <1>3, OrderLatest DEF Create
  <2> QED
    BY <1>3, <2>1, PartitionAssumption
       DEF Create, Counted, ConsumeOp, Borrow, Goto, Ops, Totals, Arrive, Reacquire, shutdownVars
<1>4. CASE RejectLimit(c) /\ Arrive(c)
  BY <1>4 DEF RejectLimit, NoRoom, Counted, Totals, Goto, Arrive, opVars, shutdownVars
<1>5. ASSUME NEW v \in partitions, Arrive(c), NEW next \in {"evicting", "awaiting"},
             Evict(c, v, next)
      PROVE  TypeOK'
  <2>1. Orders(older', partitions')
    BY <1>5, OrderWithout DEF Evict, RemoveChildren
  <2> QED
    BY <1>5, <2>1, PartitionAssumption
       DEF Evict, NoRoom, RemoveChildren, Counted, Totals, Goto, Ops, Jobs, Arrive,
           shutdownVars
<1>6. ASSUME NEW v \in partitions, Arrive(c), EvictExpired(c, v) PROVE TypeOK'
  <2>1. Orders(older', partitions')
    BY <1>6, OrderWithout DEF EvictExpired, RemoveChildren
  <2> QED
    BY <1>6, <2>1, PartitionAssumption
       DEF EvictExpired, NoRoom, RemoveChildren, Counted, Totals, Goto, Ops, Jobs, Arrive,
           shutdownVars
<1> QED  BY <1>1, <1>2, <1>3, <1>4, <1>5, <1>6 DEF Arrive, Reacquire

LEMMA TypedCaller ==
    ASSUME TypeOK, NEW c \in Callers,
           \/ Interrupted(c) \/ Timeout(c) \/ Cancel(c)
           \/ RunTransfer(c) \/ ResumeTransferred(c) \/ RunUndo(c)
           \/ Grant(c) \/ AdmitFails(c) \/ ExitChild(c) \/ ReturnReference(c)
    PROVE  TypeOK'
<1> USE DEF TypeOK, HasChild, CallerStates, OwnsOp, Leased, Settled, Goto, mapVars, opVars,
            shutdownVars
<1>1. CASE Interrupted(c)
  BY <1>1 DEF Interrupted
<1>2. CASE Timeout(c)
  BY <1>2 DEF Timeout
<1>3. CASE Cancel(c)
  BY <1>3 DEF Cancel
<1>4. CASE RunTransfer(c)
  BY <1>4 DEF RunTransfer
<1>5. CASE ResumeTransferred(c)
  BY <1>5, PartitionAssumption DEF ResumeTransferred
<1>6. CASE RunUndo(c)
  <2>1. pending' \in [Callers -> Ops] /\ drained' \in BOOLEAN
    BY <1>6, TypedRelease DEF RunUndo
  <2>2. PICK state \in {"refused", "broken"} :
            pc' = [pc EXCEPT ![c] = state] /\ op' = [op EXCEPT ![c] = NoEntry]
    BY <1>6 DEF RunUndo
  <2> QED  BY <1>6, <2>1, <2>2, PartitionAssumption DEF RunUndo
<1>7. CASE Grant(c) \/ AdmitFails(c) \/ ExitChild(c)
  BY <1>7 DEF Grant, AdmitFails, ExitChild, OnlyCaller
<1>8. CASE ReturnReference(c)
  <2>1. Orders(older', partitions')
    <3>1. partitions \cup {held[c]} = partitions
      BY <1>8 DEF ReturnReference
    <3> QED  BY <1>8, <3>1, OrderLatest DEF ReturnReference
  <2> QED  BY <1>8, <2>1, PartitionAssumption DEF ReturnReference, SignalDrained
<1> QED  BY <1>1, <1>2, <1>3, <1>4, <1>5, <1>6, <1>7, <1>8

LEMMA TypedOther ==
    ASSUME TypeOK,
           \/ \E v \in Callers :
                 ReleaseByCallback(v) \/ FinishClose(v) \/ Discard(v) \/ CloseChild(v)
           \/ \E t \in Keepers : Sweep(t) \/ StartSweep(t) \/ CancelSweep(t)
           \/ Close
           \/ \E s \in Closers :
                 CloseAndWait(s) \/ WaitClosed(s) \/ CancelWaiter(s) \/ ReturnClosed(s)
    PROVE  TypeOK'
<1> USE DEF TypeOK, HasChild, mapVars, opVars, callerVars, shutdownVars
<1>1. ASSUME NEW v \in Callers, ReleaseByCallback(v) \/ FinishClose(v) \/ CloseChild(v)
      PROVE  TypeOK'
  <2>1. pending' \in [Callers -> Ops] /\ drained' \in BOOLEAN
    BY <1>1, TypedRelease DEF ReleaseByCallback, FinishClose, CloseChild
  <2> QED  BY <1>1, <2>1 DEF ReleaseByCallback, FinishClose, CloseChild, Jobs
<1>2. ASSUME NEW v \in Callers, Discard(v) PROVE TypeOK'
  <2>1. Orders(older', partitions')
    BY <1>2, OrderWithout DEF Discard, RemoveChildren
  <2> QED  BY <1>2, <2>1 DEF Discard, RemoveChildren, Counted, Totals, Ops, Jobs
<1>3. ASSUME NEW t \in Keepers, Sweep(t) PROVE TypeOK'
  <2>1. PICK e \in partitions :
            /\ RemoveChildren(Stale(e), "MAINTENANCE", "ready")
            /\ Counted("evicted", Cardinality(Stale(e)))
            /\ sweep' = [sweep EXCEPT ![t] = Stale(e)]
    BY <1>3 DEF Sweep
  <2>2. Stale(e) \subseteq Callers /\ Cardinality(Stale(e)) \in Nat
    BY Finite DEF Stale
  <2>3. Orders(older', partitions')
    BY <2>1, OrderWithout DEF RemoveChildren
  <2> QED
    BY <1>3, <2>1, <2>2, <2>3 DEF Sweep, RemoveChildren, Counted, Totals, Ops, Jobs
<1>4. ASSUME NEW t \in Keepers, StartSweep(t) \/ CancelSweep(t) PROVE TypeOK'
  BY <1>4 DEF StartSweep, CancelSweep, EndSweep, Jobs
<1>5. CASE Close
  BY <1>5 DEF Close, BeginClose, SignalDrained
<1>6. ASSUME NEW s \in Closers, CloseAndWait(s) \/ WaitClosed(s) \/ CancelWaiter(s)
      PROVE  TypeOK'
  BY <1>6 DEF CloseAndWait, WaitClosed, CancelWaiter, ShutStep, BeginClose, SignalDrained,
              CloserStates
<1>7. ASSUME NEW s \in Closers, ReturnClosed(s) PROVE TypeOK'
  <2>1. Orders({}, {})
    BY DEF Orders
  <2> QED  BY <1>7, <2>1 DEF ReturnClosed, ShutStep, CloserStates
<1> QED  BY <1>1, <1>2, <1>3, <1>4, <1>5, <1>6, <1>7

LEMMA TypedStep == TypeOK /\ [Next]_vars => TypeOK'
<1>1. ASSUME TypeOK, UNCHANGED vars PROVE TypeOK'
  BY <1>1 DEF vars, mapVars, opVars, callerVars, shutdownVars, TypeOK, HasChild, Orders
<1> QED  BY <1>1, TypedAcquire, TypedCaller, TypedOther DEF Next, Terminated

-----------------------------------------------------------------------------
(* Leases.                                                                 *)

\* Steps that neither lend a child nor take one back, and make none.
SameLeases == UNCHANGED <<borrowers, leased, held>> /\ partitions' \subseteq partitions

\* A caller without a child has borrowed e.
LEMMA Lent ==
    ASSUME TypeOK, LeaseAccounting, NEW c \in Callers, NEW e \in Callers,
           held[c] = NoEntry, Borrow(c, e)
    PROVE  LeaseAccounting'
<1> USE DEF TypeOK, HasChild
<1>1. NoEntry \notin Callers /\ held' = [held EXCEPT ![c] = e]
  BY PartitionAssumption DEF Borrow
<1>2. ASSUME NEW d \in Callers
      PROVE  borrowers'[d] = Cardinality({b \in Callers : held'[b] = d})
  <2> DEFINE S == {b \in Callers : held[b] = d}
  <2>1. borrowers[d] = Cardinality(S) /\ IsFiniteSet(S) /\ c \notin S
    BY <1>1, Finite DEF LeaseAccounting
  <2> HIDE DEF S
  <2>2. CASE d = e
    <3>1. {b \in Callers : held'[b] = d} = S \cup {c}
      BY <1>1, <2>2 DEF S
    <3>2. Cardinality(S \cup {c}) = borrowers[d] + 1
      BY <2>1, FS_AddElement
    <3>3. borrowers'[d] = borrowers[d] + 1
      BY <2>2 DEF Borrow
    <3> QED  BY <3>1, <3>2, <3>3
  <2>3. CASE d # e
    <3>1. {b \in Callers : held'[b] = d} = S
      BY <1>1, <2>3 DEF S
    <3> QED  BY <2>1, <2>3, <3>1 DEF Borrow
  <2> QED  BY <2>2, <2>3
<1>3. leased' = Cardinality({b \in Callers : HasChild(b)'})
  <2> DEFINE S == {b \in Callers : HasChild(b)}
  <2>1. leased = Cardinality(S) /\ IsFiniteSet(S) /\ c \notin S
    BY <1>1, Finite DEF LeaseAccounting
  <2> HIDE DEF S
  <2>2. {b \in Callers : HasChild(b)'} = S \cup {c}
    BY <1>1 DEF S
  <2> QED  BY <2>1, <2>2, FS_AddElement DEF Borrow
<1> QED  BY <1>2, <1>3 DEF LeaseAccounting

\* A caller has returned its child.
LEMMA Returned ==
    ASSUME TypeOK, LeaseAccounting, NEW c \in Callers, ReturnReference(c)
    PROVE  LeaseAccounting'
<1> USE DEF TypeOK, HasChild
<1>1. /\ NoEntry \notin Callers /\ held[c] \in Callers
      /\ held' = [held EXCEPT ![c] = NoEntry]
  BY PartitionAssumption DEF ReturnReference
<1>2. ASSUME NEW d \in Callers
      PROVE  borrowers'[d] = Cardinality({b \in Callers : held'[b] = d})
  <2> DEFINE S == {b \in Callers : held[b] = d}
  <2>1. borrowers[d] = Cardinality(S) /\ IsFiniteSet(S)
    BY Finite DEF LeaseAccounting
  <2> HIDE DEF S
  <2>2. CASE d = held[c]
    <3>1. c \in S /\ {b \in Callers : held'[b] = d} = S \ {c}
      BY <1>1, <2>2 DEF S
    <3>2. Cardinality(S \ {c}) = borrowers[d] - 1
      BY <2>1, <3>1, FS_RemoveElement
    <3>3. borrowers'[d] = borrowers[d] - 1
      BY <2>2 DEF ReturnReference
    <3> QED  BY <3>1, <3>2, <3>3
  <2>3. CASE d # held[c]
    <3>1. {b \in Callers : held'[b] = d} = S
      BY <1>1, <2>3 DEF S
    <3>2. borrowers'[d] = borrowers[d]
      BY <1>1, <2>3 DEF ReturnReference
    <3> QED  BY <2>1, <3>1, <3>2
  <2> QED  BY <2>2, <2>3
<1>3. leased' = Cardinality({b \in Callers : HasChild(b)'})
  <2> DEFINE S == {b \in Callers : HasChild(b)}
  <2>1. leased = Cardinality(S) /\ IsFiniteSet(S) /\ c \in S
    BY <1>1, Finite DEF LeaseAccounting
  <2> HIDE DEF S
  <2>2. {b \in Callers : HasChild(b)'} = S \ {c}
    BY <1>1 DEF S
  <2>3. Cardinality(S \ {c}) = leased - 1
    BY <2>1, FS_RemoveElement
  <2>4. leased' = leased - 1
    BY DEF ReturnReference
  <2> QED  BY <2>2, <2>3, <2>4
<1> QED  BY <1>2, <1>3 DEF LeaseAccounting

\* What a step does to leases: nothing, or one is given or returned.
LEMMA LeaseSteps ==
    ASSUME TypeOK, [Next]_vars
    PROVE  /\ wanted' = wanted
           /\ \/ SameLeases
              \/ \E c \in Callers :
                    held[c] = NoEntry /\ c \notin interrupted /\ (UseExisting(c) \/ Create(c))
              \/ \E c \in Callers : ReturnReference(c)
<1> USE DEF TypeOK, SameLeases, mapVars, callerVars
<1>1. ASSUME NEW c \in Callers, Arrive(c) \/ Reacquire(c)
      PROVE  /\ wanted' = wanted
             /\ SameLeases \/ (/\ held[c] = NoEntry /\ c \notin interrupted
                               /\ UseExisting(c) \/ Create(c))
  <2>1. wanted' = wanted /\ held[c] = NoEntry /\ c \notin interrupted
    BY <1>1 DEF Arrive, Reacquire, HasChild, Leased, OwnsOp
  <2>2. \/ UseExisting(c) \/ Create(c) \/ Refuse(c) \/ RejectLimit(c)
        \/ \E v \in partitions :
              Evict(c, v, "evicting") \/ Evict(c, v, "awaiting") \/ EvictExpired(c, v)
    BY <1>1 DEF Arrive, Reacquire
  <2>3. Refuse(c) \/ RejectLimit(c) => SameLeases
    BY DEF Refuse, RejectLimit
  <2>4. ASSUME NEW v, EvictExpired(c, v) \/ \E next : Evict(c, v, next) PROVE SameLeases
    BY <2>4 DEF Evict, EvictExpired, RemoveChildren
  <2> QED  BY <2>1, <2>2, <2>3, <2>4
<1>2. ASSUME NEW c \in Callers,
             \/ Interrupted(c) \/ Timeout(c) \/ Cancel(c)
             \/ RunTransfer(c) \/ ResumeTransferred(c) \/ RunUndo(c)
             \/ Grant(c) \/ AdmitFails(c) \/ ExitChild(c)
      PROVE  SameLeases /\ wanted' = wanted
  BY <1>2 DEF Interrupted, Timeout, Cancel, RunTransfer, ResumeTransferred, RunUndo, Grant,
              AdmitFails, ExitChild, OnlyCaller
<1>3. ASSUME NEW v \in Callers,
             ReleaseByCallback(v) \/ FinishClose(v) \/ Discard(v) \/ CloseChild(v)
      PROVE  SameLeases /\ wanted' = wanted
  BY <1>3 DEF ReleaseByCallback, FinishClose, Discard, RemoveChildren, CloseChild
<1>4. ASSUME \/ \E t \in Keepers : Sweep(t) \/ StartSweep(t) \/ CancelSweep(t)
             \/ Close
             \/ \E s \in Closers :
                   CloseAndWait(s) \/ WaitClosed(s) \/ CancelWaiter(s) \/ ReturnClosed(s)
      PROVE  SameLeases /\ wanted' = wanted
  BY <1>4 DEF Sweep, RemoveChildren, StartSweep, CancelSweep, EndSweep, Close, CloseAndWait,
              WaitClosed, CancelWaiter, ReturnClosed
<1>5. ASSUME UNCHANGED vars PROVE SameLeases /\ wanted' = wanted
  BY <1>5 DEF vars
<1>6. ASSUME NEW c \in Callers, ReturnReference(c) PROVE wanted' = wanted
  BY <1>6 DEF ReturnReference
<1> QED  BY <1>1, <1>2, <1>3, <1>4, <1>5, <1>6 DEF Next, Terminated

LEMMA LeaseStep == TypeOK /\ LeaseAccounting /\ [Next]_vars => LeaseAccounting'
<1>1. ASSUME LeaseAccounting, SameLeases PROVE LeaseAccounting'
  BY <1>1 DEF LeaseAccounting, SameLeases, HasChild
<1>2. ASSUME NEW c \in Callers, UseExisting(c) \/ Create(c)
      PROVE  TypeOK => \E e \in Callers : Borrow(c, e)
  BY <1>2 DEF UseExisting, Create, TypeOK
<1> QED  BY <1>1, <1>2, LeaseSteps, Lent, Returned

\* Nobody uses an idle child.
LEMMA IdleIsUnused ==
    ASSUME TypeOK, LeaseAccounting, NEW e, Idle(e)
    PROVE  \A c \in Callers : held[c] # e
<1> DEFINE S == {c \in Callers : held[c] = e}
<1>1. e \in Callers /\ Cardinality(S) = 0 /\ IsFiniteSet(S)
  BY Finite DEF TypeOK, LeaseAccounting, Idle
<1>2. S = {}
  BY <1>1, FS_EmptySet
<1> QED  BY <1>2

\* Without a lease nobody has a child.
LEMMA NoLeaseNoChild ==
    ASSUME TypeOK, LeaseAccounting, leased = 0
    PROVE  \A c \in Callers : ~HasChild(c)
<1> DEFINE S == {c \in Callers : HasChild(c)}
<1>1. Cardinality(S) = 0 /\ IsFiniteSet(S)
  BY Finite DEF LeaseAccounting
<1>2. S = {}
  BY <1>1, FS_EmptySet
<1> QED  BY <1>2

-----------------------------------------------------------------------------
(* The lives of children and ops.                                          *)

LifeInv == TypeOK /\ LeaseAccounting /\ Lives /\ Promises /\ OpenChildren
Alive == Lives /\ Promises /\ OpenChildren

\* A step that only lets ops go, and not one that a caller waits for.
LEMMA LifeKept ==
    ASSUME LifeInv, UNCHANGED <<partitions, lifecycle, closed, job, pc, held, op, sweep>>,
           callback' \subseteq callback, closing' \subseteq closing,
           \A e \in Callers : pending'[e] \in {pending[e], "none"},
           \A c \in Callers : pc[c] \in {"evicting", "awaiting"} =>
               pending'[op[c]] = pending[op[c]]
    PROVE  Alive'
BY DEF LifeInv, Alive, Lives, Promises, OpenChildren, TypeOK, HasChild

LEMMA LifeAcquire ==
    ASSUME LifeInv, NEW c \in Callers, Arrive(c) \/ Reacquire(c)
    PROVE  Alive'
<1> USE DEF LifeInv, Alive, TypeOK, HasChild, OwnsOp, Leased, Settled
<1>1. /\ pc[c] \in {"idle", "evicting", "awaiting"} /\ held[c] = NoEntry
      /\ UNCHANGED <<lifecycle, closing, closed, sweep>>
  BY DEF Arrive, Reacquire, shutdownVars
<1>2. c \notin partitions /\ job[c] = "none" /\ NoEntry \notin Callers
  BY <1>1, PartitionAssumption DEF Lives
<1>3. CASE Refuse(c)
  BY <1>1, <1>2, <1>3 DEF Refuse, Goto, Lives, Promises, OpenChildren, mapVars, opVars
<1>4. ASSUME NEW e \in partitions', e \in Callers, ConsumeOp(c), Borrow(c, e),
             partitions' \in {partitions, partitions \cup {c}}
      PROVE  Alive'
  <2>1. /\ pc' = [pc EXCEPT ![c] = "admitting"] /\ op' = [op EXCEPT ![c] = NoEntry]
        /\ held' = [held EXCEPT ![c] = e] /\ job' = job /\ callback' = callback
        /\ pending' = [v \in Callers |-> IF v = op[c] THEN "none" ELSE pending[v]]
    BY <1>4 DEF ConsumeOp, Borrow, Goto
  <2>2. Lives'
    BY <1>1, <1>2, <1>4, <2>1 DEF Lives
  <2>3. Promises'
    BY <1>1, <1>2, <2>1 DEF Promises
  <2>4. OpenChildren'
    BY <1>1, <2>1 DEF OpenChildren
  <2> QED  BY <2>2, <2>3, <2>4
<1>5. CASE UseExisting(c)
  BY <1>4, <1>5 DEF UseExisting
<1>6. CASE Create(c)
  BY <1>4, <1>6 DEF Create
<1>7. CASE RejectLimit(c) /\ Arrive(c)
  BY <1>1, <1>2, <1>7
     DEF RejectLimit, Goto, Lives, Promises, OpenChildren, mapVars, opVars, Arrive
<1>8. ASSUME NEW v \in partitions, Arrive(c), LeastRecentIdle(v),
             RemoveChildren({v}, "EVICTION", "running"), UNCHANGED held,
             \/ /\ pc' = [pc EXCEPT ![c] = "refused"] /\ op' = op
                /\ callback' = callback \cup {v}
             \/ /\ \E next \in {"evicting", "awaiting"} : pc' = [pc EXCEPT ![c] = next]
                /\ op' = [op EXCEPT ![c] = v] /\ callback' = callback
      PROVE  Alive'
  <2>1. /\ v \in Callers /\ v # c /\ job[v] = "none" /\ pc[c] = "idle"
        /\ \A d \in Callers : held[d] # v
    BY <1>2, <1>8, IdleIsUnused DEF LeastRecentIdle, Lives, Arrive
  <2>2. /\ partitions' = partitions \ {v}
        /\ pending' = [pending EXCEPT ![v] = "EVICTION"]
        /\ job' = [job EXCEPT ![v] = "running"]
    BY <1>8 DEF RemoveChildren
  <2>3. Lives'
    BY <1>1, <1>2, <1>8, <2>1, <2>2 DEF Lives
  <2>4. Promises'
    BY <1>1, <1>2, <1>8, <2>1, <2>2 DEF Promises, Lives
  <2>5. OpenChildren'
    BY <1>1, <2>1, <2>2 DEF OpenChildren
  <2> QED  BY <2>3, <2>4, <2>5
<1>9. ASSUME NEW v \in partitions, Arrive(c), NEW next \in {"evicting", "awaiting"},
             Evict(c, v, next)
      PROVE  Alive'
  BY <1>8, <1>9 DEF Evict, Goto
<1>10. ASSUME NEW v \in partitions, Arrive(c), EvictExpired(c, v) PROVE Alive'
  BY <1>8, <1>10 DEF EvictExpired, Goto
<1> QED  BY <1>3, <1>5, <1>6, <1>7, <1>9, <1>10 DEF Arrive, Reacquire

LEMMA LifeCaller ==
    ASSUME LifeInv, NEW c \in Callers,
           \/ Interrupted(c) \/ Timeout(c) \/ Cancel(c)
           \/ RunTransfer(c) \/ ResumeTransferred(c) \/ RunUndo(c)
           \/ Grant(c) \/ AdmitFails(c) \/ ExitChild(c) \/ ReturnReference(c)
    PROVE  Alive'
<1> USE DEF LifeInv, Alive, TypeOK, HasChild, OwnsOp, Leased, Settled, Goto, mapVars, opVars,
            shutdownVars
<1>1. CASE Interrupted(c) \/ Timeout(c) \/ Cancel(c)
  BY <1>1 DEF Interrupted, Timeout, Cancel, Lives, Promises, OpenChildren
<1>2. CASE RunTransfer(c)
  <2>1. op[c] # NoEntry /\ job[op[c]] # "none"
    BY <1>2 DEF RunTransfer, Lives
  <2> QED  BY <1>2, <2>1 DEF RunTransfer, Lives, Promises, OpenChildren
<1>3. CASE ResumeTransferred(c)
  BY <1>3, PartitionAssumption DEF ResumeTransferred, Lives, Promises, OpenChildren
<1>4. CASE RunUndo(c)
  <2>1. /\ pc[c] = "undoing" /\ op[c] # NoEntry
        /\ op' = [op EXCEPT ![c] = NoEntry]
        /\ UNCHANGED <<partitions, lifecycle, closed, closing, job, callback, held, sweep>>
    BY <1>4 DEF RunUndo
  <2>2. PICK state \in {"refused", "broken"} : pc' = [pc EXCEPT ![c] = state]
    BY <1>4 DEF RunUndo
  <2>3. pending' \in {pending, [pending EXCEPT ![op[c]] = "none"]}
    BY <1>4 DEF RunUndo, ReleaseOp
  <2>4. Lives'
    BY <2>1, <2>2, <2>3, PartitionAssumption DEF Lives
  <2>5. Promises'
    BY <2>1, <2>2, <2>3, PartitionAssumption DEF Promises
  <2>6. OpenChildren'
    BY <2>1 DEF OpenChildren
  <2> QED  BY <2>4, <2>5, <2>6
<1>5. CASE Grant(c) \/ AdmitFails(c) \/ ExitChild(c)
  BY <1>5 DEF Grant, AdmitFails, ExitChild, OnlyCaller, Lives, Promises, OpenChildren
<1>6. CASE ReturnReference(c)
  BY <1>6, PartitionAssumption DEF ReturnReference, Lives, Promises, OpenChildren
<1> QED  BY <1>1, <1>2, <1>3, <1>4, <1>5, <1>6

\* Idle children leave for maintenance.
LEMMA LifeMaintenance ==
    ASSUME LifeInv, NEW V \in SUBSET partitions, \A e \in V : Idle(e),
           NEW task \in {"ready", "running"}, RemoveChildren(V, "MAINTENANCE", task),
           UNCHANGED <<callback, callerVars, shutdownVars, closed>>,
           \A t \in Keepers : sweep'[t] \in {sweep[t], V}
    PROVE  Alive'
<1> USE DEF LifeInv, Alive, TypeOK, HasChild, callerVars, shutdownVars
<1>1. /\ V \subseteq Callers /\ \A e \in V : \A c \in Callers : held[c] # e
      /\ \A e \in V : job[e] = "none"
  BY IdleIsUnused DEF Lives
<1>2. /\ partitions' = partitions \ V
      /\ pending' = [e \in Callers |-> IF e \in V THEN "MAINTENANCE" ELSE pending[e]]
      /\ job' = [e \in Callers |-> IF e \in V THEN task ELSE job[e]]
  BY DEF RemoveChildren
<1>3. Lives'
  BY <1>1, <1>2, PartitionAssumption DEF Lives
<1>4. Promises'
  BY <1>1, <1>2, PartitionAssumption DEF Promises, Lives, OwnsOp
<1>5. OpenChildren'
  BY <1>1, <1>2 DEF OpenChildren
<1> QED  BY <1>3, <1>4, <1>5

LEMMA LifeOther ==
    ASSUME LifeInv,
           \/ \E v \in Callers :
                 ReleaseByCallback(v) \/ FinishClose(v) \/ Discard(v) \/ CloseChild(v)
           \/ \E t \in Keepers : Sweep(t) \/ StartSweep(t) \/ CancelSweep(t)
           \/ Close
           \/ \E s \in Closers :
                 CloseAndWait(s) \/ WaitClosed(s) \/ CancelWaiter(s) \/ ReturnClosed(s)
    PROVE  Alive'
<1> USE DEF LifeInv, Alive, TypeOK, HasChild, mapVars, opVars, callerVars, shutdownVars
<1>1. ASSUME NEW v \in Callers, ReleaseByCallback(v) PROVE Alive'
  <2>1. /\ UNCHANGED <<partitions, lifecycle, closed, closing, job, pc, held, op, sweep>>
        /\ v \in callback /\ callback' \subseteq callback
        /\ pending' \in {pending, [pending EXCEPT ![v] = "none"]}
    BY <1>1 DEF ReleaseByCallback, ReleaseOp
  <2>2. \A c \in Callers : pc[c] \in {"evicting", "awaiting"} => op[c] # v
    BY <2>1 DEF Promises
  <2> QED  BY <2>1, <2>2, LifeKept DEF OwnsOp
<1>2. ASSUME NEW v \in Callers, FinishClose(v) PROVE Alive'
  <2>1. /\ UNCHANGED <<partitions, lifecycle, closing, callback, pc, held, op, sweep>>
        /\ job[v] = "running" /\ job' = [job EXCEPT ![v] = "done"]
        /\ closed' = closed \cup {v}
        /\ \/ pending' = pending
           \/ pending[v] = "MAINTENANCE" /\ pending' = [pending EXCEPT ![v] = "none"]
    BY <1>2 DEF FinishClose, ReleaseOp
  <2>2. Lives'
    BY <2>1 DEF Lives
  <2>3. Promises'
    BY <2>1 DEF Promises, OwnsOp
  <2>4. OpenChildren'
    BY <2>1 DEF OpenChildren
  <2> QED  BY <2>2, <2>3, <2>4
<1>3. ASSUME NEW v \in Callers, Discard(v) PROVE Alive'
  BY <1>3, LifeMaintenance DEF Discard, Idle
<1>4. ASSUME NEW v \in Callers, CloseChild(v) PROVE Alive'
  BY <1>4 DEF CloseChild, Lives, Promises, OpenChildren
<1>5. ASSUME NEW t \in Keepers, Sweep(t) PROVE Alive'
  <2>1. PICK e \in partitions :
            /\ RemoveChildren(Stale(e), "MAINTENANCE", "ready")
            /\ sweep' = [sweep EXCEPT ![t] = Stale(e)]
    BY <1>5 DEF Sweep
  <2>2. Stale(e) \in SUBSET partitions /\ \A d \in Stale(e) : Idle(d)
    BY DEF Stale
  <2> QED  BY <1>5, <2>1, <2>2, LifeMaintenance DEF Sweep
<1>6. ASSUME NEW t \in Keepers, NEW state \in {"running", "lost"}, EndSweep(t, state)
      PROVE  Alive'
  BY <1>6 DEF EndSweep, Lives, Promises, OpenChildren
<1>7. CASE Close \/ \E s \in Closers : CloseAndWait(s) \/ WaitClosed(s) \/ CancelWaiter(s)
  BY <1>7 DEF Close, CloseAndWait, WaitClosed, CancelWaiter, BeginClose, Lives, Promises,
              OpenChildren
<1>8. ASSUME NEW s \in Closers, ReturnClosed(s) PROVE Alive'
  <2>1. \A c \in Callers : held[c] = NoEntry
    BY <1>8, NoLeaseNoChild DEF ReturnClosed
  <2> QED  BY <1>8, <2>1 DEF ReturnClosed, Lives, Promises, OpenChildren
<1> QED  BY <1>1, <1>2, <1>3, <1>4, <1>5, <1>6, <1>7, <1>8 DEF StartSweep, CancelSweep

LEMMA LifeStep == LifeInv /\ [Next]_vars => Alive'
<1>1. ASSUME LifeInv, UNCHANGED vars PROVE Alive'
  BY <1>1
     DEF vars, mapVars, opVars, callerVars, shutdownVars, LifeInv, Alive, Lives, Promises,
         OpenChildren, HasChild
<1> QED  BY <1>1, LifeAcquire, LifeCaller, LifeOther DEF Next, Terminated

-----------------------------------------------------------------------------
(* Keys.                                                                   *)

LEMMA KeyStep ==
    TypeOK /\ OnePartitionPerKey /\ [Next]_vars => OnePartitionPerKey'
<1> SUFFICES ASSUME TypeOK, OnePartitionPerKey, [Next]_vars PROVE OnePartitionPerKey'
  OBVIOUS
<1> USE PartitionAssumption DEF TypeOK, OnePartitionPerKey, HasChild
<1>1. wanted' = wanted
  BY LeaseSteps
<1>2. CASE SameLeases
  BY <1>1, <1>2 DEF SameLeases
<1>3. ASSUME NEW c \in Callers, UseExisting(c) PROVE OnePartitionPerKey'
  <2>1. PICK e \in partitions :
            wanted[e] = wanted[c] /\ partitions' = partitions /\ held' = [held EXCEPT ![c] = e]
    BY <1>3 DEF UseExisting, Borrow
  <2> QED  BY <1>1, <2>1
<1>4. ASSUME NEW c \in Callers, Create(c) PROVE OnePartitionPerKey'
  <2>1. /\ \A e \in partitions : wanted[e] # wanted[c]
        /\ partitions' = partitions \cup {c} /\ held' = [held EXCEPT ![c] = c]
    BY <1>4 DEF Create, InMap, Borrow
  <2> QED  BY <1>1, <2>1
<1>5. ASSUME NEW c \in Callers, ReturnReference(c) PROVE OnePartitionPerKey'
  BY <1>1, <1>5 DEF ReturnReference
<1> QED  BY <1>2, <1>3, <1>4, <1>5, LeaseSteps

-----------------------------------------------------------------------------
(* The limit.                                                              *)

\* What the limit bounds does not grow.
LEMMA LimitKept ==
    ASSUME TypeOK, WithinLimit, partitions' \subseteq partitions,
           \A e \in Callers : pending'[e] = "EVICTION" => pending[e] = "EVICTION"
    PROVE  WithinLimit'
<1>1. Reserved' \subseteq Reserved
  BY DEF Reserved
<1>2. /\ Cardinality(partitions') <= Cardinality(partitions)
      /\ Cardinality(Reserved') <= Cardinality(Reserved)
      /\ \A n \in {Cardinality(partitions'), Cardinality(partitions),
                   Cardinality(Reserved'), Cardinality(Reserved)} : n \in Nat
  <2>1. /\ partitions \in SUBSET Callers /\ Reserved \in SUBSET Callers
        /\ partitions' \in SUBSET Callers /\ Reserved' \in SUBSET Callers
    BY <1>1 DEF TypeOK, Reserved
  <2>2. /\ IsFiniteSet(partitions) /\ IsFiniteSet(Reserved)
        /\ \A S \in SUBSET Callers : Cardinality(S) \in Nat
    BY <2>1, Finite
  <2> QED  BY <1>1, <2>1, <2>2, FS_Subset
<1> QED  BY <1>2, PartitionAssumption DEF WithinLimit, Logical

\* A victim gives its place to a reservation.
LEMMA LimitTraded ==
    ASSUME TypeOK, WithinLimit, NEW v \in partitions, pending[v] # "EVICTION",
           RemoveChildren({v}, "EVICTION", "running")
    PROVE  WithinLimit'
<1>1. partitions' = partitions \ {v} /\ Reserved' = Reserved \cup {v} /\ v \notin Reserved
  BY DEF RemoveChildren, Reserved, TypeOK
<1>2. /\ partitions \in SUBSET Callers /\ Reserved \in SUBSET Callers
  BY DEF TypeOK, Reserved
<1>3. /\ Cardinality(partitions') = Cardinality(partitions) - 1
      /\ Cardinality(Reserved') = Cardinality(Reserved) + 1
  BY <1>1, <1>2, Finite, FS_AddElement, FS_RemoveElement
<1> QED  BY <1>2, <1>3, Finite, PartitionAssumption DEF WithinLimit, Logical

\* A new child takes a free place, or the one reserved for its caller.
LEMMA LimitCreate ==
    ASSUME LifeInv, WithinLimit, NEW c \in Callers, Create(c),
           op[c] # NoEntry => pc[c] \in {"evicting", "awaiting"}
    PROVE  WithinLimit'
<1> USE DEF LifeInv, TypeOK
<1>1. /\ partitions' = partitions \cup {c}
      /\ pending' = [v \in Callers |-> IF v = op[c] THEN "none" ELSE pending[v]]
  BY DEF Create, ConsumeOp, Borrow
<1>2. /\ partitions \in SUBSET Callers /\ Reserved \in SUBSET Callers
      /\ Reserved' \in SUBSET Callers
  BY DEF Reserved
<1>3. Cardinality(partitions') <= Cardinality(partitions) + 1
  <2>1. IsFiniteSet(partitions) /\ Cardinality(partitions) \in Nat
    BY <1>2, Finite
  <2>2. Cardinality(partitions \cup {c}) \in {Cardinality(partitions), Cardinality(partitions) + 1}
    BY <2>1, FS_AddElement
  <2> QED  BY <1>1, <2>1, <2>2
<1>4. CASE op[c] = NoEntry
  <2>1. Reserved' = Reserved
    BY <1>1, <1>4, PartitionAssumption DEF Reserved
  <2>2. Cardinality(partitions) + Cardinality(Reserved) < MaxPartitions
    BY <1>4 DEF Create, Logical
  <2>3. Cardinality(partitions) \in Nat /\ Cardinality(Reserved) \in Nat
        /\ Cardinality(partitions') \in Nat
    BY <1>1, <1>2, Finite
  <2> QED
    BY <1>3, <2>1, <2>2, <2>3, PartitionAssumption DEF WithinLimit, Logical
<1>5. CASE op[c] # NoEntry
  <2>1. Reserved' = Reserved \ {op[c]} /\ op[c] \in Reserved
    BY <1>1, <1>5 DEF Reserved, Promises
  <2>2. Cardinality(Reserved') = Cardinality(Reserved) - 1
    BY <1>2, <2>1, Finite, FS_RemoveElement
  <2>3. Cardinality(partitions) \in Nat /\ Cardinality(Reserved) \in Nat
        /\ Cardinality(partitions') \in Nat
    BY <1>1, <1>2, Finite
  <2> QED
    BY <1>3, <2>2, <2>3, PartitionAssumption DEF WithinLimit, Logical
<1> QED  BY <1>4, <1>5

LEMMA LimitStep == LifeInv /\ WithinLimit /\ [Next]_vars => WithinLimit'
<1> SUFFICES ASSUME LifeInv, WithinLimit, [Next]_vars PROVE WithinLimit'
  OBVIOUS
<1> USE DEF LifeInv, mapVars, opVars, callerVars
<1>1. ASSUME NEW V \in SUBSET partitions, NEW task, RemoveChildren(V, "MAINTENANCE", task)
      PROVE  WithinLimit'
  <2>1. /\ partitions' \subseteq partitions
        /\ \A e \in Callers : pending'[e] = "EVICTION" => pending[e] = "EVICTION"
    BY <1>1 DEF RemoveChildren, TypeOK
  <2> QED  BY <2>1, LimitKept
<1>2. ASSUME NEW v \in partitions, RemoveChildren({v}, "EVICTION", "running")
      PROVE  WithinLimit'
  <2>1. pending[v] # "EVICTION"
    BY DEF Lives, TypeOK
  <2> QED  BY <1>2, <2>1, LimitTraded
<1>3. ASSUME NEW c \in Callers, Arrive(c) \/ Reacquire(c) PROVE WithinLimit'
  <2>1. op[c] # NoEntry => pc[c] \in {"evicting", "awaiting"}
    BY <1>3 DEF Arrive, Reacquire, TypeOK, OwnsOp
  <2>2. CASE Refuse(c) \/ RejectLimit(c) \/ UseExisting(c)
    <3>1. /\ partitions' = partitions
          /\ \A e \in Callers : pending'[e] \in {pending[e], "none"}
      BY <2>2 DEF Refuse, RejectLimit, UseExisting, ConsumeOp, Borrow
    <3> QED  BY <3>1, LimitKept
  <2>3. ASSUME NEW v \in partitions, EvictExpired(c, v) \/ \E next : Evict(c, v, next)
        PROVE  WithinLimit'
    BY <1>2, <2>3 DEF Evict, EvictExpired
  <2> QED  BY <1>3, <2>1, <2>2, <2>3, LimitCreate DEF Arrive, Reacquire
<1>4. ASSUME NEW c \in Callers,
             \/ Interrupted(c) \/ Timeout(c) \/ Cancel(c)
             \/ RunTransfer(c) \/ ResumeTransferred(c) \/ RunUndo(c)
             \/ Grant(c) \/ AdmitFails(c) \/ ExitChild(c) \/ ReturnReference(c)
      PROVE  WithinLimit'
  <2>1. /\ partitions' = partitions
        /\ \A e \in Callers : pending'[e] \in {pending[e], "none"}
    BY <1>4 DEF Interrupted, Timeout, Cancel, RunTransfer, ResumeTransferred, RunUndo,
                ReleaseOp, Grant, AdmitFails, ExitChild, OnlyCaller, ReturnReference, TypeOK
  <2> QED  BY <2>1, LimitKept
<1>5. ASSUME NEW v \in Callers, ReleaseByCallback(v) \/ FinishClose(v) \/ CloseChild(v)
      PROVE  WithinLimit'
  <2>1. /\ partitions' = partitions
        /\ \A e \in Callers : pending'[e] \in {pending[e], "none"}
    BY <1>5 DEF ReleaseByCallback, FinishClose, ReleaseOp, CloseChild, TypeOK
  <2> QED  BY <2>1, LimitKept
<1>6. ASSUME NEW v \in Callers, Discard(v) PROVE WithinLimit'
  BY <1>1, <1>6 DEF Discard, Idle
<1>7. ASSUME NEW t \in Keepers, Sweep(t) PROVE WithinLimit'
  BY <1>1, <1>7 DEF Sweep, Stale
<1>8. ASSUME \/ \E t \in Keepers : StartSweep(t) \/ CancelSweep(t)
             \/ Close
             \/ \E s \in Closers :
                   CloseAndWait(s) \/ WaitClosed(s) \/ CancelWaiter(s) \/ ReturnClosed(s)
             \/ UNCHANGED vars
      PROVE  WithinLimit'
  <2>1. partitions' \subseteq partitions /\ pending' = pending
    BY <1>8 DEF StartSweep, CancelSweep, EndSweep, Close, CloseAndWait, WaitClosed,
                CancelWaiter, ReturnClosed, vars
  <2> QED  BY <2>1, LimitKept
<1> QED
  BY <1>3, <1>4, <1>5, <1>6, <1>7, <1>8 DEF Next, Terminated

-----------------------------------------------------------------------------
(* The drain.                                                              *)

\* An op is released and the drain looked at.
LEMMA DrainReleased ==
    ASSUME TypeOK, DrainExact, NEW v \in Callers, ReleaseOp(v),
           UNCHANGED <<lifecycle, leased>>
    PROVE  DrainExact'
<1>1. PendingOps' = PendingOps \ {v} /\ v \in PendingOps
  BY DEF PendingOps, ReleaseOp, TypeOK, Ops
<1>2. drained' = (drained \/ (lifecycle # "OPEN" /\ leased = 0 /\ PendingOps \ {v} = {}))
  BY DEF ReleaseOp, SignalDrained
<1> QED  BY <1>1, <1>2 DEF DrainExact

\* While the manager stays open nothing drains.
LEMMA DrainOpen ==
    ASSUME DrainExact, lifecycle = "OPEN", UNCHANGED <<lifecycle, drained>>
    PROVE  DrainExact'
BY DEF DrainExact

LEMMA DrainUnchanged ==
    ASSUME DrainExact, UNCHANGED <<lifecycle, drained, leased, pending>>
    PROVE  DrainExact'
BY DEF DrainExact, PendingOps

LEMMA DrainClose ==
    ASSUME DrainExact, BeginClose, UNCHANGED <<leased, pending>>
    PROVE  DrainExact'
<1>1. PendingOps' = PendingOps
  BY DEF PendingOps
<1> QED  BY <1>1 DEF DrainExact, BeginClose, SignalDrained

LEMMA DrainStep == LifeInv /\ DrainExact /\ [Next]_vars => DrainExact'
<1> SUFFICES ASSUME LifeInv, DrainExact, [Next]_vars PROVE DrainExact'
  OBVIOUS
<1> USE DEF mapVars, opVars, callerVars, shutdownVars
<1>1. ASSUME NEW c \in Callers, Arrive(c) \/ Reacquire(c) PROVE DrainExact'
  <2>1. CASE Refuse(c)
    BY <1>1, <2>1, DrainUnchanged DEF Refuse, Arrive, Reacquire
  <2>2. CASE RejectLimit(c)
    BY <1>1, <2>2, DrainUnchanged DEF RejectLimit, Arrive, Reacquire
  <2>3. CASE UseExisting(c) \/ Create(c)
    BY <1>1, <2>3, DrainOpen DEF UseExisting, Create, ConsumeOp, Borrow, Arrive, Reacquire
  <2>4. ASSUME NEW v, EvictExpired(c, v) \/ \E next : Evict(c, v, next) PROVE DrainExact'
    BY <1>1, <2>4, DrainOpen DEF Evict, EvictExpired, NoRoom, Arrive, Reacquire
  <2> QED  BY <1>1, <2>1, <2>2, <2>3, <2>4 DEF Arrive, Reacquire
<1>2. ASSUME NEW c \in Callers,
             \/ Interrupted(c) \/ Timeout(c) \/ Cancel(c)
             \/ RunTransfer(c) \/ ResumeTransferred(c)
             \/ Grant(c) \/ AdmitFails(c) \/ ExitChild(c)
      PROVE  DrainExact'
  BY <1>2, DrainUnchanged
     DEF Interrupted, Timeout, Cancel, RunTransfer, ResumeTransferred, Grant, AdmitFails,
         ExitChild, OnlyCaller
<1>3. ASSUME NEW v \in Callers, ReleaseOp(v) \/ UNCHANGED <<pending, drained>>,
             UNCHANGED <<lifecycle, leased>>
      PROVE  DrainExact'
  BY <1>3, DrainReleased, DrainUnchanged DEF LifeInv
<1>4. ASSUME NEW c \in Callers, RunUndo(c) PROVE DrainExact'
  <2>1. op[c] \in Callers
    BY <1>4 DEF RunUndo, LifeInv, TypeOK, OwnsOp
  <2> QED  BY <1>3, <1>4, <2>1 DEF RunUndo
<1>5. ASSUME NEW v \in Callers, ReleaseByCallback(v) \/ FinishClose(v) PROVE DrainExact'
  BY <1>3, <1>5 DEF ReleaseByCallback, FinishClose
<1>6. ASSUME NEW c \in Callers, ReturnReference(c) PROVE DrainExact'
  <2>1. PendingOps' = PendingOps /\ leased' = leased - 1 /\ leased > 0
        /\ lifecycle' = lifecycle
    BY <1>6 DEF ReturnReference, PendingOps
  <2>2. drained' = (drained \/ (lifecycle # "OPEN" /\ leased - 1 = 0 /\ PendingOps = {}))
    BY <1>6 DEF ReturnReference, SignalDrained
  <2>3. leased # 0
    BY <2>1
  <2> QED  BY <2>1, <2>2, <2>3 DEF DrainExact
<1>7. ASSUME NEW v \in Callers, Discard(v) PROVE DrainExact'
  BY <1>7, DrainOpen DEF Discard
<1>8. ASSUME NEW t \in Keepers, Sweep(t) PROVE DrainExact'
  BY <1>8, DrainOpen DEF Sweep
<1>9. CASE Close
  BY <1>9, DrainClose DEF Close
<1>10. ASSUME NEW s \in Closers, CloseAndWait(s) PROVE DrainExact'
  BY <1>10, DrainClose, DrainUnchanged DEF CloseAndWait
<1>11. ASSUME \/ \E v \in Callers : CloseChild(v)
              \/ \E t \in Keepers : StartSweep(t) \/ CancelSweep(t)
              \/ \E s \in Closers : WaitClosed(s) \/ CancelWaiter(s) \/ ReturnClosed(s)
              \/ UNCHANGED vars
       PROVE  DrainExact'
  BY <1>11, DrainUnchanged
     DEF CloseChild, StartSweep, CancelSweep, EndSweep, WaitClosed, CancelWaiter, ReturnClosed,
         vars
<1> QED
  BY <1>1, <1>2, <1>4, <1>5, <1>6, <1>7, <1>8, <1>9, <1>10, <1>11 DEF Next, Terminated

-----------------------------------------------------------------------------
(* The theorems.                                                           *)

LEMMA ManagerInit == Init => ManagerInv
<1> SUFFICES ASSUME Init PROVE ManagerInv
  OBVIOUS
<1>1. TypeOK
  BY TypedInit
<1>2. Lives /\ Promises /\ OpenChildren /\ DrainExact
  BY DEF Init, Lives, Promises, OpenChildren, DrainExact, HasChild
<1>3. LeaseAccounting
  <2>1. /\ \A e \in Callers : {c \in Callers : held[c] = e} = {}
        /\ {c \in Callers : HasChild(c)} = {}
    BY PartitionAssumption DEF Init, HasChild
  <2> QED  BY <2>1, FS_EmptySet DEF Init, LeaseAccounting
<1>4. OnePartitionPerKey
  BY DEF Init, OnePartitionPerKey, HasChild
<1>5. WithinLimit
  <2>1. partitions = {} /\ Reserved = {}
    BY DEF Init, Reserved
  <2> QED  BY <2>1, FS_EmptySet, PartitionAssumption DEF WithinLimit, Logical
<1> QED  BY <1>1, <1>2, <1>3, <1>4, <1>5 DEF ManagerInv

LEMMA ManagerStep == ManagerInv /\ [Next]_vars => ManagerInv'
BY TypedStep, LeaseStep, LifeStep, KeyStep, LimitStep, DrainStep
   DEF ManagerInv, LifeInv, Alive

LEMMA ManagerAlways == Spec => []ManagerInv
BY ManagerInit, ManagerStep, PTL DEF Spec

\* Every variable always has its type.
THEOREM TypeCorrect == Spec => []TypeOK
<1>1. ManagerInv => TypeOK
  BY DEF ManagerInv
<1> QED  BY ManagerAlways, <1>1, PTL

\* However many evictions overlap, and wherever their callers are cancelled or
\* time out, the children and the reserved slots stay within max_partitions.
THEOREM LimitIsKept == Spec => []WithinLimit
<1>1. ManagerInv => WithinLimit
  BY DEF ManagerInv
<1> QED  BY ManagerAlways, <1>1, PTL

\* A key has at most one child, and its callers that one.
THEOREM KeysAreIsolated == Spec => []OnePartitionPerKey
<1>1. ManagerInv => OnePartitionPerKey
  BY DEF ManagerInv
<1> QED  BY ManagerAlways, <1>1, PTL

\* `borrowers' and leased_operations count the callers that have a child.
THEOREM LeasesAreCounted == Spec => []LeaseAccounting
<1>1. ManagerInv => LeaseAccounting
  BY DEF ManagerInv
<1> QED  BY ManagerAlways, <1>1, PTL

\* No child is taken from its callers, or closed before the manager is.
THEOREM LeasesAreUsable == Spec => []LeasedIsUsable
<1>1. ManagerInv => LeasedIsUsable
  BY DEF ManagerInv, LeasedIsUsable, Lives, OpenChildren
<1> QED  BY ManagerAlways, <1>1, PTL

\* The drained event is set by the step that ends the last lease or op of a
\* closed manager, and by no other.
THEOREM DrainIsExact == Spec => []DrainExact
<1>1. ManagerInv => DrainExact
  BY DEF ManagerInv
<1> QED  BY ManagerAlways, <1>1, PTL

-----------------------------------------------------------------------------
(* Ops are released once, by whoever answers for them.                     *)

LEMMA CarefulAcquire ==
    ASSUME CarefulInv, NEW c \in Callers, Arrive(c) \/ Reacquire(c)
    PROVE  (Answered /\ Careful)'
<1> USE DEF CarefulInv, ManagerInv, TypeOK, OwnsOp
<1>1. /\ pc[c] \in {"idle", "evicting", "awaiting"} /\ c \notin interrupted
      /\ op[c] = NoEntry <=> pc[c] = "idle"
      /\ op[c] # NoEntry => job[op[c]] = "done" /\ op[c] \in Callers
      /\ UNCHANGED <<interrupted, sweep>> /\ NoEntry \notin Callers
  BY PartitionAssumption DEF Arrive, Reacquire
<1>2. CASE Refuse(c)
  <2>1. /\ pc' = [pc EXCEPT ![c] = IF op[c] = NoEntry THEN "refused" ELSE "undoing"]
        /\ UNCHANGED <<op, job, pending, callback>>
    BY <1>2 DEF Refuse, Goto, opVars
  <2>2. \A v \in Callers : Owned(v)' <=> Owned(v)
    BY <1>1, <2>1 DEF Owned
  <2>3. Answered'
    BY <2>1, <2>2 DEF Answered
  <2>4. Careful'
    BY <1>1, <2>1 DEF Careful
  <2> QED  BY <2>3, <2>4
<1>3. ASSUME NEW e, ConsumeOp(c), Borrow(c, e) PROVE (Answered /\ Careful)'
  <2>1. /\ pc' = [pc EXCEPT ![c] = "admitting"] /\ op' = [op EXCEPT ![c] = NoEntry]
        /\ pending' = [v \in Callers |-> IF v = op[c] THEN "none" ELSE pending[v]]
        /\ UNCHANGED <<job, callback>>
    BY <1>3 DEF ConsumeOp, Borrow, Goto
  <2>2. \A v \in Callers : v # op[c] => (Owned(v)' <=> Owned(v))
    BY <1>1, <2>1 DEF Owned
  <2>3. \A v \in Callers : v = op[c] => ~Owned(v)' /\ v \notin callback
    BY <1>1, <2>1 DEF Owned, Promises
  <2>4. Answered'
    BY <1>1, <2>1, <2>2, <2>3 DEF Answered
  <2>5. Careful'
    BY <1>1, <2>1 DEF Careful
  <2> QED  BY <2>4, <2>5
<1>4. CASE UseExisting(c) \/ Create(c)
  BY <1>3, <1>4 DEF UseExisting, Create
<1>5. CASE RejectLimit(c) /\ Arrive(c)
  <2>1. /\ pc' = [pc EXCEPT ![c] = "limited"] /\ pc[c] = "idle"
        /\ UNCHANGED <<op, job, pending, callback>>
    BY <1>5 DEF RejectLimit, Goto, opVars, Arrive
  <2>2. \A v \in Callers : Owned(v)' <=> Owned(v)
    BY <1>1, <2>1 DEF Owned
  <2>3. Answered'
    BY <2>1, <2>2 DEF Answered
  <2>4. Careful'
    BY <1>1, <2>1 DEF Careful
  <2> QED  BY <2>3, <2>4
<1>6. ASSUME NEW v \in partitions, Arrive(c), RemoveChildren({v}, "EVICTION", "running"),
             \/ /\ pc' = [pc EXCEPT ![c] = "refused"] /\ op' = op
                /\ callback' = callback \cup {v}
             \/ /\ \E next \in {"evicting", "awaiting"} : pc' = [pc EXCEPT ![c] = next]
                /\ op' = [op EXCEPT ![c] = v] /\ callback' = callback
      PROVE  (Answered /\ Careful)'
  <2>1. /\ v \in Callers /\ job[v] = "none" /\ pc[c] = "idle"
        /\ v \notin callback /\ ~\E d \in Callers : op[d] = v
    BY <1>1, <1>6 DEF Lives, Arrive
  <2>2. /\ pending' = [pending EXCEPT ![v] = "EVICTION"]
        /\ job' = [job EXCEPT ![v] = "running"]
    BY <1>6 DEF RemoveChildren
  <2>3. \A e \in Callers : e # v => (Owned(e)' <=> Owned(e))
    BY <1>1, <1>6, <2>1 DEF Owned
  <2>4. Owned(v)' <=> op' # op
    BY <1>1, <1>6, <2>1 DEF Owned
  <2>5. op' = op <=> callback' # callback
    BY <1>1, <1>6, <2>1
  <2>6. Answered'
    BY <1>6, <2>1, <2>2, <2>3, <2>4, <2>5 DEF Answered
  <2>7. Careful'
    BY <1>1, <1>6, <2>1, <2>2 DEF Careful
  <2> QED  BY <2>6, <2>7
<1>7. ASSUME NEW v \in partitions, Arrive(c), NEW next \in {"evicting", "awaiting"},
             Evict(c, v, next)
      PROVE  (Answered /\ Careful)'
  BY <1>6, <1>7 DEF Evict, Goto
<1>8. ASSUME NEW v \in partitions, Arrive(c), EvictExpired(c, v) PROVE (Answered /\ Careful)'
  BY <1>6, <1>8 DEF EvictExpired, Goto
<1> QED  BY <1>2, <1>4, <1>5, <1>7, <1>8 DEF Arrive, Reacquire

LEMMA CarefulCaller ==
    ASSUME CarefulInv, ~TransfersCancelled, NEW c \in Callers,
           \/ Interrupted(c) \/ Timeout(c) \/ Cancel(c)
           \/ RunTransfer(c) \/ ResumeTransferred(c) \/ RunUndo(c)
           \/ Grant(c) \/ AdmitFails(c) \/ ExitChild(c) \/ ReturnReference(c)
    PROVE  (Answered /\ Careful)'
<1> USE DEF CarefulInv, ManagerInv, TypeOK, OwnsOp, Goto, mapVars, opVars, callerVars
<1>1. NoEntry \notin Callers
  BY PartitionAssumption
<1>2. ASSUME NEW state, state # "transferred", pc' = [pc EXCEPT ![c] = state],
             pc[c] # "transferred", state = "undoing" => job[op[c]] = "done",
             \A d \in interrupted' : d \in interrupted /\ (d = c => state = "evicting"),
             UNCHANGED <<op, job, pending, callback, sweep>>
      PROVE  (Answered /\ Careful)'
  <2>1. \A v \in Callers : Owned(v)' <=> Owned(v)
    BY <1>2 DEF Owned
  <2>2. Answered'
    BY <1>2, <2>1 DEF Answered
  <2>3. Careful'
    BY <1>2 DEF Careful
  <2> QED  BY <2>2, <2>3
<1>3. CASE Interrupted(c)
  BY <1>2, <1>3 DEF Interrupted
<1>4. CASE Timeout(c)
  BY <1>2, <1>4 DEF Timeout
<1>5. CASE Cancel(c)
  <2>1. CASE pc[c] = "awaiting"
    BY <1>2, <1>5, <2>1 DEF Cancel
  <2>2. CASE pc[c] # "awaiting"
    <3>1. pc[c] = "evicting" /\ UNCHANGED <<pc, op, job, pending, callback, sweep>>
          /\ interrupted' = interrupted \cup {c}
      BY <1>5, <2>2 DEF Cancel
    <3> QED  BY <3>1 DEF Answered, Careful, Owned
  <2> QED  BY <2>1, <2>2
<1>6. CASE RunTransfer(c)
  <2>1. /\ pc[c] = "transferring" /\ pc' = [pc EXCEPT ![c] = "transferred"]
        /\ callback' = callback \cup {op[c]} /\ op[c] \in Callers
        /\ UNCHANGED <<op, job, pending, interrupted, sweep>>
    BY <1>6 DEF RunTransfer
  <2>2. \A v \in Callers : v # op[c] => (Owned(v)' <=> Owned(v))
    BY <2>1 DEF Owned
  <2>3. Owned(op[c]) /\ ~Owned(op[c])'
    BY <1>1, <2>1 DEF Owned, Promises
  <2>4. Answered'
    BY <2>1, <2>2, <2>3 DEF Answered
  <2>5. Careful'
    BY <2>1 DEF Careful
  <2> QED  BY <2>4, <2>5
<1>7. CASE ResumeTransferred(c)
  <2>1. /\ pc[c] = "transferred" /\ c \notin interrupted
        /\ pc' = [pc EXCEPT ![c] = "refused"] /\ op' = [op EXCEPT ![c] = NoEntry]
        /\ interrupted' = interrupted \ {c}
        /\ UNCHANGED <<job, pending, callback, sweep>>
    BY <1>7 DEF ResumeTransferred, Careful
  <2>2. \A v \in Callers : Owned(v)' <=> Owned(v)
    BY <1>1, <2>1 DEF Owned
  <2>3. Answered'
    BY <2>1, <2>2 DEF Answered
  <2>4. Careful'
    BY <2>1 DEF Careful
  <2> QED  BY <2>3, <2>4
<1>8. CASE RunUndo(c)
  <2>1. /\ pc[c] = "undoing" /\ op[c] \in Callers /\ Owned(op[c])
        /\ pending[op[c]] = "EVICTION" /\ job[op[c]] = "done" /\ op[c] \notin callback
    BY <1>8 DEF RunUndo, Owned, Answered, Careful
  <2>2. /\ pc' = [pc EXCEPT ![c] = "refused"] /\ op' = [op EXCEPT ![c] = NoEntry]
        /\ pending' = [pending EXCEPT ![op[c]] = "none"]
        /\ UNCHANGED <<job, callback, interrupted, sweep>>
    BY <1>8, <2>1 DEF RunUndo, ReleaseOp
  <2>3. \A v \in Callers : v # op[c] => (Owned(v)' <=> Owned(v))
    BY <1>1, <2>1, <2>2 DEF Owned
  <2>4. \A v \in Callers : v = op[c] => ~Owned(v)'
    BY <1>1, <2>1, <2>2 DEF Owned, Promises
  <2>5. Answered'
    BY <2>1, <2>2, <2>3, <2>4 DEF Answered
  <2>6. Careful'
    BY <2>1, <2>2 DEF Careful
  <2> QED  BY <2>5, <2>6
<1>9. CASE Grant(c) \/ AdmitFails(c) \/ ExitChild(c)
  <2>1. c \notin interrupted
    BY <1>9 DEF Grant, AdmitFails, ExitChild, Careful
  <2> QED  BY <1>2, <1>9, <2>1 DEF Grant, AdmitFails, ExitChild, OnlyCaller
<1>10. CASE ReturnReference(c)
  <2>1. c \notin interrupted
    BY <1>10 DEF ReturnReference, Careful
  <2> QED  BY <1>2, <1>10, <2>1 DEF ReturnReference
<1> QED  BY <1>3, <1>4, <1>5, <1>6, <1>7, <1>8, <1>9, <1>10

\* Idle children leave for maintenance.
LEMMA CarefulMaintenance ==
    ASSUME CarefulInv, NEW V \in SUBSET partitions,
           NEW task \in {"ready", "running"}, RemoveChildren(V, "MAINTENANCE", task),
           UNCHANGED <<callback, callerVars>>,
           \/ sweep' = sweep
           \/ task = "ready" /\ \E t \in Keepers : sweep' = [sweep EXCEPT ![t] = V]
    PROVE  (Answered /\ Careful)'
<1> USE DEF CarefulInv, ManagerInv, TypeOK, callerVars
<1>1. \A e \in V : job[e] = "none" /\ e \in Callers /\ e \notin callback /\ ~Owned(e)
  BY PartitionAssumption DEF Lives, Owned
<1>2. /\ pending' = [e \in Callers |-> IF e \in V THEN "MAINTENANCE" ELSE pending[e]]
      /\ job' = [e \in Callers |-> IF e \in V THEN task ELSE job[e]]
  BY DEF RemoveChildren
<1>3. \A v \in Callers : Owned(v)' <=> Owned(v)
  BY DEF Owned
<1>4. Answered'
  BY <1>1, <1>2, <1>3 DEF Answered
<1>5. Careful'
  <2>1. /\ \A c \in interrupted' : pc'[c] = "evicting"
        /\ \A c \in Callers : pc'[c] = "undoing" => job'[op'[c]] = "done"
        /\ \A e \in Callers : job'[e] # "lost"
    BY <1>1, <1>2 DEF Careful, OwnsOp
  <2>2. \A t \in Keepers : \A e \in sweep'[t] : job'[e] = "ready"
    BY <1>1, <1>2 DEF Careful
  <2>3. \A t, u \in Keepers : t # u => sweep'[t] \cap sweep'[u] = {}
    BY <1>1 DEF Careful
  <2> QED  BY <2>1, <2>2, <2>3 DEF Careful
<1> QED  BY <1>4, <1>5

LEMMA CarefulOther ==
    ASSUME CarefulInv, ~SweepsCancelled,
           \/ \E v \in Callers :
                 ReleaseByCallback(v) \/ FinishClose(v) \/ Discard(v) \/ CloseChild(v)
           \/ \E t \in Keepers : Sweep(t) \/ StartSweep(t) \/ CancelSweep(t)
           \/ Close
           \/ \E s \in Closers :
                 CloseAndWait(s) \/ WaitClosed(s) \/ CancelWaiter(s) \/ ReturnClosed(s)
           \/ UNCHANGED vars
    PROVE  (Answered /\ Careful)'
<1> USE DEF CarefulInv, ManagerInv, TypeOK, mapVars, opVars, callerVars
<1>1. ASSUME UNCHANGED <<pc, op, interrupted>>
      PROVE  \A v \in Callers : Owned(v)' <=> Owned(v)
  BY <1>1 DEF Owned
<1>2. ASSUME NEW v \in Callers, ReleaseByCallback(v) PROVE (Answered /\ Careful)'
  <2>1. /\ v \in callback /\ job[v] = "done" /\ callback' = callback \ {v}
        /\ pending[v] = "EVICTION" /\ ~Owned(v)
        /\ UNCHANGED <<job, pc, op, interrupted, sweep>>
    BY <1>2 DEF ReleaseByCallback, Answered
  <2>2. pending' = [pending EXCEPT ![v] = "none"]
    BY <1>2, <2>1 DEF ReleaseByCallback, ReleaseOp
  <2>3. Answered'
    BY <1>1, <2>1, <2>2 DEF Answered
  <2>4. Careful'
    BY <2>1 DEF Careful
  <2> QED  BY <2>3, <2>4
<1>3. ASSUME NEW v \in Callers, FinishClose(v) PROVE (Answered /\ Careful)'
  <2>1. /\ job[v] = "running" /\ job' = [job EXCEPT ![v] = "done"]
        /\ \/ pending[v] = "MAINTENANCE" /\ pending' = [pending EXCEPT ![v] = "none"]
           \/ pending[v] # "MAINTENANCE" /\ pending' = pending
        /\ UNCHANGED <<callback, pc, op, interrupted, sweep>>
    BY <1>3 DEF FinishClose, ReleaseOp
  <2>2. Answered'
    BY <1>1, <2>1 DEF Answered
  <2>3. Careful'
    BY <2>1 DEF Careful
  <2> QED  BY <2>2, <2>3
<1>4. ASSUME NEW v \in Callers, Discard(v) PROVE (Answered /\ Careful)'
  BY <1>4, CarefulMaintenance DEF Discard, Idle
<1>5. ASSUME NEW t \in Keepers, Sweep(t) PROVE (Answered /\ Careful)'
  <2>1. PICK e \in partitions :
            /\ RemoveChildren(Stale(e), "MAINTENANCE", "ready")
            /\ sweep' = [sweep EXCEPT ![t] = Stale(e)]
    BY <1>5 DEF Sweep
  <2>2. Stale(e) \in SUBSET partitions
    BY DEF Stale
  <2> QED  BY <1>5, <2>1, <2>2, CarefulMaintenance DEF Sweep
<1>6. ASSUME NEW t \in Keepers, StartSweep(t) \/ CancelSweep(t) PROVE (Answered /\ Careful)'
  <2>1. /\ job' = [e \in Callers |-> IF e \in sweep[t] THEN "running" ELSE job[e]]
        /\ sweep' = [sweep EXCEPT ![t] = {}]
        /\ UNCHANGED <<pending, callback, pc, op, interrupted>>
    BY <1>6 DEF StartSweep, CancelSweep, EndSweep
  <2>2. \A e \in sweep[t] : job[e] = "ready" /\ e \in Callers
    BY DEF Careful
  <2>3. Answered'
    BY <1>1, <2>1, <2>2 DEF Answered
  <2>4. Careful'
    BY <2>1, <2>2 DEF Careful, OwnsOp
  <2> QED  BY <2>3, <2>4
<1>7. ASSUME \/ Close \/ \E v \in Callers : CloseChild(v)
             \/ \E s \in Closers :
                   CloseAndWait(s) \/ WaitClosed(s) \/ CancelWaiter(s) \/ ReturnClosed(s)
             \/ UNCHANGED vars
      PROVE  (Answered /\ Careful)'
  <2>1. UNCHANGED <<pending, job, callback, pc, op, interrupted, sweep>>
    BY <1>7 DEF Close, CloseChild, CloseAndWait, WaitClosed, CancelWaiter, ReturnClosed, vars
  <2> QED  BY <1>1, <2>1 DEF Answered, Careful
<1> QED  BY <1>2, <1>3, <1>4, <1>5, <1>6, <1>7

LEMMA CarefulAlways ==
    ASSUME ~SweepsCancelled, ~TransfersCancelled
    PROVE  Spec => []CarefulInv
<1>1. Init => CarefulInv
  <2> SUFFICES ASSUME Init PROVE Answered /\ Careful
    BY ManagerInit DEF CarefulInv
  <2> QED
    BY PartitionAssumption DEF Init, Answered, Careful, Owned
<1>2. CarefulInv /\ [Next]_vars => CarefulInv'
  <2> SUFFICES ASSUME CarefulInv, [Next]_vars PROVE CarefulInv'
    OBVIOUS
  <2>1. (Answered /\ Careful)'
    BY CarefulAcquire, CarefulCaller, CarefulOther DEF Next, Terminated
  <2> QED  BY <2>1, ManagerStep DEF CarefulInv
<1> QED  BY <1>1, <1>2, PTL DEF Spec

\* Where no cleanup task is cancelled at the two places that lose an op, every op is
\* released exactly once: inline, by the callback or by its task.
THEOREM OpsAreReleasedOnce ==
    ASSUME ~SweepsCancelled, ~TransfersCancelled
    PROVE  Spec => []ReleasedOnce
<1>1. CarefulInv => ReleasedOnce
  <2> SUFFICES ASSUME CarefulInv, NEW v \in Callers
      PROVE  LET owners == {c \in Callers : op[c] = v /\ pc[c] # "transferred"} IN
             /\ pending[v] = "EVICTION" <=> owners # {} \/ v \in callback
             /\ Cardinality(owners) <= 1 /\ (v \in callback => owners = {})
             /\ pending[v] = "MAINTENANCE" <=>
                   pending[v] # "EVICTION" /\ job[v] \in {"ready", "running"}
    BY DEF ReleasedOnce
  <2> DEFINE owners == {c \in Callers : op[c] = v /\ pc[c] # "transferred"}
  <2>1. owners # {} <=> Owned(v)
    BY DEF Owned
  <2>2. Cardinality(owners) <= 1
    <3>1. \A c, d \in owners : c = d
      BY PartitionAssumption DEF CarefulInv, ManagerInv, Promises
    <3> HIDE DEF owners
    <3>2. owners = {} \/ \E c : owners = {c}
      BY <3>1
    <3>3. owners = {} => Cardinality(owners) = 0
      BY FS_EmptySet
    <3>4. ASSUME NEW c, owners = {c} PROVE Cardinality(owners) = 1
      BY <3>4, FS_Singleton
    <3> QED  BY <3>2, <3>3, <3>4
  <2> QED  BY <2>1, <2>2 DEF CarefulInv, Answered
<1> QED  BY <1>1, CarefulAlways, PTL

\* The drain is for ever.
LEMMA DrainStays ==
    ASSUME ManagerInv, [Next]_vars, drained
    PROVE  /\ drained' /\ partitions' \subseteq partitions
<1>1. lifecycle # "OPEN"
  BY DEF ManagerInv, DrainExact
<1>2. partitions' \subseteq partitions
  <2>1. ASSUME NEW c \in Callers, UseExisting(c) \/ Create(c) PROVE FALSE
    BY <1>1, <2>1 DEF UseExisting, Create, ConsumeOp, Borrow
  <2> QED  BY <2>1, LeaseSteps DEF ManagerInv, SameLeases, ReturnReference
<1>3. ASSUME NEW c \in Callers, Arrive(c) \/ Reacquire(c) PROVE drained'
  BY <1>3 DEF Arrive, Reacquire, Refuse, UseExisting, Create, ConsumeOp, Borrow,
              RejectLimit, Evict, EvictExpired, opVars
<1>4. ASSUME NEW v, ReleaseOp(v) \/ UNCHANGED <<pending, drained>> PROVE drained'
  BY <1>4 DEF ReleaseOp, SignalDrained
<1>5. ASSUME NEW c \in Callers,
             \/ Interrupted(c) \/ Timeout(c) \/ Cancel(c)
             \/ RunTransfer(c) \/ ResumeTransferred(c) \/ RunUndo(c)
             \/ Grant(c) \/ AdmitFails(c) \/ ExitChild(c) \/ ReturnReference(c)
      PROVE  drained'
  BY <1>4, <1>5
     DEF Interrupted, Timeout, Cancel, RunTransfer, ResumeTransferred, RunUndo, Grant,
         AdmitFails, ExitChild, OnlyCaller, ReturnReference, SignalDrained, opVars
<1>6. ASSUME \/ \E v \in Callers :
                   ReleaseByCallback(v) \/ FinishClose(v) \/ Discard(v) \/ CloseChild(v)
             \/ \E t \in Keepers : Sweep(t) \/ StartSweep(t) \/ CancelSweep(t)
             \/ Close
             \/ \E s \in Closers :
                   CloseAndWait(s) \/ WaitClosed(s) \/ CancelWaiter(s) \/ ReturnClosed(s)
             \/ UNCHANGED vars
      PROVE  drained'
  BY <1>1, <1>4, <1>6
     DEF ReleaseByCallback, FinishClose, Discard, CloseChild, Sweep, StartSweep, CancelSweep,
         EndSweep, Close, CloseAndWait, BeginClose, WaitClosed, CancelWaiter, ReturnClosed,
         opVars, vars
<1> QED  BY <1>2, <1>3, <1>5, <1>6 DEF Next, Terminated

\* Whoever waits for the shutdown returns after the drain.
LEMMA ReturnStep ==
    ASSUME ManagerInv, ReturnedAfterDrain, [Next]_vars
    PROVE  ReturnedAfterDrain'
<1>1. CASE \E s \in Closers : shut[s] = "returned"
  BY <1>1, DrainStays DEF ReturnedAfterDrain
<1>2. CASE ~\E s \in Closers : shut[s] = "returned"
  <2> USE DEF ManagerInv, TypeOK, mapVars, opVars, shutdownVars
  <2>1. ASSUME NEW c \in Callers,
               \/ Arrive(c) \/ Reacquire(c) \/ Interrupted(c)
               \/ Timeout(c) \/ Cancel(c) \/ RunTransfer(c) \/ ResumeTransferred(c)
               \/ RunUndo(c) \/ Grant(c) \/ AdmitFails(c) \/ ExitChild(c)
               \/ ReturnReference(c)
               \/ ReleaseByCallback(c) \/ FinishClose(c) \/ Discard(c) \/ CloseChild(c)
        PROVE  shut' = shut
    BY <2>1 DEF Arrive, Reacquire, Interrupted, Timeout, Cancel, RunTransfer,
                ResumeTransferred, RunUndo, Grant, AdmitFails, ExitChild, OnlyCaller,
                ReturnReference, ReleaseByCallback, FinishClose, Discard, CloseChild
  <2>2. ASSUME \/ \E t \in Keepers : Sweep(t) \/ StartSweep(t) \/ CancelSweep(t)
               \/ Close \/ UNCHANGED vars
        PROVE  shut' = shut
    BY <2>2 DEF Sweep, StartSweep, CancelSweep, EndSweep, Close, vars
  <2>3. ASSUME NEW s \in Closers, CloseAndWait(s) \/ WaitClosed(s) \/ CancelWaiter(s)
        PROVE  ReturnedAfterDrain'
    BY <1>2, <2>3
       DEF CloseAndWait, WaitClosed, CancelWaiter, ShutStep, ReturnedAfterDrain
  <2>4. ASSUME NEW s \in Closers, ReturnClosed(s) PROVE ReturnedAfterDrain'
    BY <2>4 DEF ReturnClosed, ReturnedAfterDrain
  <2> QED
    BY <1>2, <2>1, <2>2, <2>3, <2>4 DEF Next, Terminated, ReturnedAfterDrain
<1> QED  BY <1>1, <1>2

\* Then a shutdown that returned left nothing behind: no lease, no op, no child,
\* none that is still being closed.
THEOREM ShutdownIsComplete ==
    ASSUME ~SweepsCancelled, ~TransfersCancelled
    PROVE  Spec => []ReturnedMeansDrained
<1>1. Init => ReturnedAfterDrain
  BY DEF Init, ReturnedAfterDrain
<1>2. CarefulInv /\ ReturnedAfterDrain /\ [Next]_vars => ReturnedAfterDrain'
  BY ReturnStep DEF CarefulInv
<1>3. CarefulInv /\ ReturnedAfterDrain => ReturnedMeansDrained
  <2> SUFFICES ASSUME CarefulInv, ReturnedAfterDrain, \E s \in Closers : shut[s] = "returned"
               PROVE  /\ \A c \in Callers : pc[c] \notin (OwnsOp \ {"transferred"}) \cup Leased
                      /\ PendingOps = {} /\ partitions = {}
                      /\ \A e \in Callers : job[e] \in {"none", "done"}
    BY DEF ReturnedMeansDrained
  <2> USE DEF CarefulInv, ManagerInv
  <2>1. leased = 0 /\ PendingOps = {} /\ partitions = {}
    BY DEF ReturnedAfterDrain, DrainExact
  <2>2. \A c \in Callers : pc[c] \notin Leased
    BY <2>1, NoLeaseNoChild DEF TypeOK
  <2>3. \A v \in Callers : pending[v] = "none"
    BY <2>1 DEF PendingOps
  <2>4. \A c \in Callers : pc[c] \notin OwnsOp \ {"transferred"}
    BY <2>3 DEF TypeOK, Answered, Owned
  <2>5. \A e \in Callers : job[e] \in {"none", "done"}
    BY <2>3 DEF TypeOK, Jobs, Answered, Careful
  <2> QED  BY <2>1, <2>2, <2>4, <2>5
<1> QED  BY <1>1, <1>2, <1>3, CarefulAlways, PTL DEF Spec

-----------------------------------------------------------------------------
(* What a step does to the children, the leases and the totals.            *)

SameLimited == UNCHANGED wanted /\ Limited' = Limited

\* Nothing, but for a manager that closes.
Quiet ==
    /\ SameLimited /\ UNCHANGED <<partitions, borrowers, held, totals>>
    /\ lifecycle # "OPEN" => lifecycle' # "OPEN"

\* A caller is told of the limit.
Rejected(c) ==
    /\ lifecycle = "OPEN" /\ c \notin Limited
    /\ Counted("limit_rejected", 1) /\ Limited' = Limited \cup {c}
    /\ UNCHANGED <<partitions, borrowers, held, wanted, lifecycle>>

\* Idle children are reclaimed.
Removed(V, name) ==
    /\ lifecycle = "OPEN" /\ V \subseteq partitions /\ \A e \in V : Idle(e)
    /\ partitions' = partitions \ V /\ Counted(name, Cardinality(V))
    /\ SameLimited /\ UNCHANGED <<borrowers, held, lifecycle>>

\* A child that is retained, or made in this step, is lent.
Used(c) == UseExisting(c) /\ SameLimited /\ UNCHANGED lifecycle
Made(c) == Create(c) /\ SameLimited /\ UNCHANGED lifecycle
GivenBack(c) == ReturnReference(c) /\ SameLimited /\ UNCHANGED lifecycle

\* The children of a closed manager without leases are forgotten.
Forgotten ==
    /\ lifecycle # "OPEN" /\ leased = 0
    /\ partitions' = {} /\ SameLimited
    /\ UNCHANGED <<borrowers, held, totals, lifecycle>>

MapStep ==
    \/ Quiet
    \/ Forgotten
    \/ \E c \in Callers : Rejected(c)
    \/ \E c \in Callers : held[c] = NoEntry /\ (Used(c) \/ Made(c))
    \/ \E c \in Callers : GivenBack(c)
    \/ \E V \in SUBSET Callers : \E name \in {"evicted", "discarded"} : Removed(V, name)

LEMMA EveryMapStep == ASSUME ManagerInv, [Next]_vars PROVE MapStep
<1> USE DEF ManagerInv, TypeOK, mapVars, callerVars, shutdownVars, MapStep
<1>1. ASSUME NEW c \in Callers, NEW state, pc' = [pc EXCEPT ![c] = state],
             pc[c] # "limited", state # "limited"
      PROVE  Limited' = Limited
  BY <1>1 DEF Limited
<1>2. ASSUME NEW c \in Callers, Arrive(c) \/ Reacquire(c) PROVE MapStep
  <2>1. /\ pc[c] \in {"idle", "evicting", "awaiting"} /\ held[c] = NoEntry
        /\ UNCHANGED <<wanted, lifecycle>>
    BY <1>2 DEF Arrive, Reacquire, HasChild, Leased
  <2>2. CASE Refuse(c)
    <3>1. Limited' = Limited
      <4>1. PICK state \in {"refused", "undoing"} : pc' = [pc EXCEPT ![c] = state]
        BY <2>2 DEF Refuse, Goto
      <4> QED  BY <1>1, <2>1, <4>1
    <3> QED  BY <2>1, <2>2, <3>1 DEF Refuse, Quiet, SameLimited
  <2>3. CASE UseExisting(c) \/ Create(c)
    <3>1. Limited' = Limited
      BY <1>1, <2>1, <2>3 DEF UseExisting, Create, Borrow, Goto
    <3> QED  BY <2>1, <2>3, <3>1 DEF Used, Made, SameLimited
  <2>4. CASE RejectLimit(c)
    <3>1. Limited' = Limited \cup {c} /\ c \notin Limited
      BY <2>1, <2>4 DEF RejectLimit, Goto, Limited
    <3> QED  BY <2>1, <2>4, <3>1 DEF RejectLimit, NoRoom, Rejected
  <2>5. ASSUME NEW v \in partitions, NEW state, state # "limited",
               lifecycle = "OPEN", Idle(v), Counted("evicted", 1),
               RemoveChildren({v}, "EVICTION", "running"), Goto(c, state),
               UNCHANGED <<borrowers, held>>
        PROVE  MapStep
    <3>1. Limited' = Limited
      BY <1>1, <2>1, <2>5 DEF Goto
    <3>2. {v} \in SUBSET Callers /\ Cardinality({v}) = 1
      BY FS_Singleton
    <3>3. Removed({v}, "evicted")
      BY <2>1, <2>5, <3>1, <3>2 DEF Removed, RemoveChildren, SameLimited
    <3> QED  BY <3>2, <3>3
  <2>6. ASSUME NEW v \in partitions, EvictExpired(c, v) PROVE MapStep
    BY <2>5, <2>6 DEF EvictExpired, NoRoom, LeastRecentIdle
  <2>7. ASSUME NEW v \in partitions, NEW next \in {"evicting", "awaiting"}, Evict(c, v, next)
        PROVE  MapStep
    BY <2>5, <2>7 DEF Evict, NoRoom, LeastRecentIdle
  <2> QED  BY <1>2, <2>2, <2>3, <2>4, <2>6, <2>7 DEF Arrive, Reacquire
<1>3. ASSUME NEW c \in Callers, Interrupted(c) \/ Timeout(c) PROVE MapStep
  <2>1. Limited' = Limited
    BY <1>1, <1>3 DEF Interrupted, Timeout, Goto
  <2> QED  BY <1>3, <2>1 DEF Interrupted, Timeout, Quiet, SameLimited
<1>4. ASSUME NEW c \in Callers, Cancel(c) PROVE MapStep
  <2>1. Limited' = Limited
    BY <1>1, <1>4 DEF Cancel, Goto, Limited
  <2> QED  BY <1>4, <2>1 DEF Cancel, Quiet, SameLimited
<1>5. ASSUME NEW c \in Callers, RunTransfer(c) \/ ResumeTransferred(c) PROVE MapStep
  <2>1. Limited' = Limited
    BY <1>1, <1>5 DEF RunTransfer, ResumeTransferred, Goto
  <2> QED  BY <1>5, <2>1 DEF RunTransfer, ResumeTransferred, Quiet, SameLimited
<1>6. ASSUME NEW c \in Callers, RunUndo(c) PROVE MapStep
  <2>1. Limited' = Limited
    BY <1>1, <1>6 DEF RunUndo, Goto
  <2> QED  BY <1>6, <2>1 DEF RunUndo, Quiet, SameLimited
<1>7. ASSUME NEW c \in Callers, Grant(c) \/ AdmitFails(c) \/ ExitChild(c) PROVE MapStep
  <2>1. Limited' = Limited
    BY <1>1, <1>7 DEF Grant, AdmitFails, ExitChild, Goto
  <2> QED  BY <1>7, <2>1 DEF Grant, AdmitFails, ExitChild, OnlyCaller, Quiet, SameLimited
<1>8. ASSUME NEW c \in Callers, ReturnReference(c) PROVE MapStep
  <2>1. Limited' = Limited
    BY <1>1, <1>8 DEF ReturnReference, Goto
  <2>2. GivenBack(c)
    BY <1>8, <2>1 DEF GivenBack, SameLimited, ReturnReference
  <2> QED  BY <2>2
<1>9. ASSUME UNCHANGED pc PROVE Limited' = Limited
  BY <1>9 DEF Limited
<1>10. ASSUME NEW v \in Callers, ReleaseByCallback(v) \/ FinishClose(v) \/ CloseChild(v)
       PROVE  MapStep
  BY <1>9, <1>10 DEF ReleaseByCallback, FinishClose, CloseChild, Quiet, SameLimited
<1>11. ASSUME NEW v \in Callers, Discard(v) PROVE MapStep
  <2>1. {v} \in SUBSET Callers /\ Cardinality({v}) = 1
    BY FS_Singleton
  <2>2. Removed({v}, "discarded")
    BY <1>9, <1>11, <2>1 DEF Discard, Idle, RemoveChildren, Removed, SameLimited
  <2> QED  BY <2>1, <2>2
<1>12. ASSUME NEW t \in Keepers, Sweep(t) PROVE MapStep
  <2>1. PICK e \in partitions :
            /\ RemoveChildren(Stale(e), "MAINTENANCE", "ready")
            /\ Counted("evicted", Cardinality(Stale(e)))
    BY <1>12 DEF Sweep
  <2>2. Stale(e) \subseteq partitions /\ \A d \in Stale(e) : Idle(d)
    BY DEF Stale
  <2>3. Removed(Stale(e), "evicted")
    BY <1>9, <1>12, <2>1, <2>2 DEF Sweep, RemoveChildren, Removed, SameLimited
  <2> QED  BY <2>2, <2>3
<1>13. ASSUME \/ \E t \in Keepers : StartSweep(t) \/ CancelSweep(t)
              \/ Close
              \/ \E s \in Closers : CloseAndWait(s) \/ WaitClosed(s) \/ CancelWaiter(s)
              \/ UNCHANGED vars
       PROVE  MapStep
  BY <1>9, <1>13
     DEF StartSweep, CancelSweep, EndSweep, Close, CloseAndWait, BeginClose, WaitClosed,
         CancelWaiter, vars, Quiet, SameLimited
<1>14. ASSUME NEW s \in Closers, ReturnClosed(s) PROVE MapStep
  <2>1. lifecycle # "OPEN"
    BY <1>14 DEF ReturnClosed, DrainExact
  <2> QED  BY <1>9, <1>14, <2>1 DEF ReturnClosed, Forgotten, SameLimited
<1> QED
  BY <1>2, <1>3, <1>4, <1>5, <1>6, <1>7, <1>8, <1>10, <1>11, <1>12, <1>13, <1>14
     DEF Next, Terminated

-----------------------------------------------------------------------------
(* The refinement.                                                         *)

\* Whether an operator of the abstract module is that of FiniteSets is a matter
\* of unfolding both.
LEMMA SameCardinality == \A S : Pool!Cardinality(S) = Cardinality(S)
BY DEF Pool!Cardinality, Cardinality

\* There are no more keys than children.
LEMMA KeysAreFewer ==
    ASSUME TypeOK, NEW S \in SUBSET Callers
    PROVE  LET K == {wanted[e] : e \in S} IN
           /\ IsFiniteSet(K) /\ Cardinality(K) \in Nat
           /\ Cardinality(K) <= Cardinality(S)
<1> DEFINE K == {wanted[e] : e \in S}
           f == [e \in S |-> wanted[e]]
<1>1. f \in Surjection(S, K)
  BY DEF Surjection
<1>2. IsFiniteSet(S)
  BY Finite
<1> QED  BY <1>1, <1>2, FS_Surjection, FS_CardinalityType

\* What a caller uses, as the abstract pool sees it.
InUse(c) == IF HasChild(c) THEN wanted[held[c]] ELSE NoEntry

LEMMA BorrowRefines ==
    ASSUME ManagerInv, WithinLimit', NEW c \in Callers, wanted' = wanted, lifecycle' = lifecycle,
           held[c] = NoEntry, UseExisting(c) \/ Create(c), NEW n, n = wanted[c]
    PROVE  Pool!Borrow(c, n)
<1> USE PartitionAssumption DEF ManagerInv, TypeOK, HasChild
<1>1. lifecycle = "OPEN" /\ \E e \in Callers : held' = [held EXCEPT ![c] = e] /\ wanted[e] = wanted[c]
  BY DEF UseExisting, Create, Borrow
<1>2. [b \in Callers |-> InUse(b)]' =
          [[b \in Callers |-> InUse(b)] EXCEPT ![c] = wanted[c]]
  <2>1. ASSUME NEW b \in Callers
        PROVE  InUse(b)' = IF b = c THEN wanted[c] ELSE InUse(b)
    BY <1>1 DEF InUse
  <2> QED  BY <2>1
<1>3. InUse(c) = NoEntry
  BY DEF InUse
<1>4. /\ {wanted'[e] : e \in partitions'} = {wanted[e] : e \in partitions} \cup {wanted[c]}
      /\ \/ wanted[c] \in {wanted[e] : e \in partitions}
         \/ Cardinality({wanted[e] : e \in partitions}) < MaxPartitions
  <2>1. CASE UseExisting(c)
    BY <2>1 DEF UseExisting
  <2>2. CASE Create(c)
    <3>1. partitions' = partitions \cup {c} /\ c \notin partitions
      BY <2>2 DEF Create, InMap
    <3>2. Cardinality(partitions') = Cardinality(partitions) + 1
      BY <3>1, Finite, FS_AddElement
    <3>3. /\ partitions' \in SUBSET Callers /\ Reserved' \in SUBSET Callers
      BY <3>1 DEF Reserved
    <3>4. /\ Cardinality(partitions) \in Nat /\ Cardinality(Reserved') \in Nat
          /\ Cardinality(partitions') + Cardinality(Reserved') <= MaxPartitions
      BY <3>3, Finite DEF WithinLimit, Logical
    <3>5. Cardinality(partitions) < MaxPartitions
      BY <3>2, <3>4
    <3>6. Cardinality({wanted[e] : e \in partitions}) < MaxPartitions
      <4>1. /\ Cardinality({wanted[e] : e \in partitions}) \in Nat
            /\ Cardinality({wanted[e] : e \in partitions}) <= Cardinality(partitions)
        BY KeysAreFewer
      <4> QED  BY <3>4, <3>5, <4>1
    <3> QED  BY <3>1, <3>6
  <2> QED  BY <2>1, <2>2
<1> QED
  BY <1>1, <1>2, <1>3, <1>4, SameCardinality DEF Pool!Borrow, InUse

LEMMA ReclaimRefines ==
    ASSUME ManagerInv, NEW V \in SUBSET Callers, NEW name, Removed(V, name),
           NEW N, N = {wanted[e] : e \in V}
    PROVE  Pool!Reclaim(N)
<1> USE PartitionAssumption DEF ManagerInv, TypeOK, HasChild
<1>1. /\ lifecycle = "OPEN" /\ V \subseteq partitions /\ partitions' = partitions \ V
      /\ UNCHANGED <<held, wanted, lifecycle>>
  BY DEF Removed, SameLimited
<1>2. ASSUME NEW e \in V, NEW c \in Callers PROVE InUse(c) # wanted[e]
  <2>1. CASE HasChild(c)
    <3>1. held[c] # e /\ held[c] \in partitions
      BY <2>1, IdleIsUnused DEF Removed, Lives
    <3> QED  BY <1>1, <2>1, <3>1 DEF OnePartitionPerKey, InUse
  <2>2. CASE ~HasChild(c)
    BY <1>1, <2>2 DEF InUse
  <2> QED  BY <2>1, <2>2
<1>3. {wanted'[e] : e \in partitions'} =
          {wanted[e] : e \in partitions} \ {wanted[e] : e \in V}
  BY <1>1 DEF OnePartitionPerKey
<1>4. \A k \in N : Pool!Unused(k)
  BY <1>2 DEF Pool!Unused, InUse
<1>5. UNCHANGED <<[c \in Callers |-> IF HasChild(c) THEN wanted[held[c]] ELSE NoEntry],
                  lifecycle = "OPEN">>
  BY <1>1
<1> QED  BY <1>1, <1>3, <1>4, <1>5 DEF Pool!Reclaim

\* A borrow or a return is a step of the pool.
LEMMA PoolMoves ==
    ASSUME NEW c \in Callers,
           Pool!GiveBack(c) \/ \E n \in Keys : Pool!Borrow(c, n)
    PROVE  Pool!Next
BY DEF Pool!Next

LEMMA PoolStep ==
    ASSUME ManagerInv, WithinLimit', [Next]_vars
    PROVE  [Pool!Next]_(Pool!pool)
<1> USE PartitionAssumption DEF ManagerInv, TypeOK, HasChild
<1>1. CASE Quiet
  <2>1. UNCHANGED <<partitions, held, wanted>> /\ (lifecycle # "OPEN" => lifecycle' # "OPEN")
    BY <1>1 DEF Quiet, SameLimited
  <2>2. CASE (lifecycle = "OPEN") = (lifecycle' = "OPEN")
    BY <2>1, <2>2 DEF Pool!pool
  <2>3. CASE lifecycle' # "OPEN"
    <3>1. Pool!Close
      BY <2>1, <2>3 DEF Pool!Close
    <3> QED  BY <3>1 DEF Pool!Next
  <2> QED  BY <2>1, <2>2, <2>3
<1>2. CASE Forgotten
  <2>1. \A c \in Callers : ~HasChild(c)
    BY <1>2, NoLeaseNoChild DEF Forgotten
  <2>2. Pool!Clear
    BY <1>2, <2>1 DEF Forgotten, SameLimited, Pool!Clear, Pool!Unused
  <2> QED  BY <2>2 DEF Pool!Next
<1>3. ASSUME NEW c \in Callers, Rejected(c) PROVE UNCHANGED Pool!pool
  BY <1>3 DEF Rejected, Pool!pool
<1>4. ASSUME NEW c \in Callers, held[c] = NoEntry, Used(c) \/ Made(c) PROVE Pool!Next
  <2>1. PICK n \in Keys : n = wanted[c]
    OBVIOUS
  <2>2. Pool!Borrow(c, n)
    BY <1>4, <2>1, BorrowRefines DEF Used, Made, SameLimited
  <2> QED  BY <2>2, PoolMoves
<1>5. ASSUME NEW c \in Callers, GivenBack(c) PROVE Pool!Next
  <2>1. /\ held[c] # NoEntry /\ wanted[held[c]] # NoEntry
        /\ held' = [held EXCEPT ![c] = NoEntry]
        /\ UNCHANGED <<partitions, wanted, lifecycle>>
    BY <1>5 DEF GivenBack, ReturnReference, SameLimited, Leased
  <2>2. [b \in Callers |-> InUse(b)]' =
            [[b \in Callers |-> InUse(b)] EXCEPT ![c] = NoEntry]
    BY <2>1 DEF InUse
  <2>3. Pool!GiveBack(c)
    BY <2>1, <2>2 DEF Pool!GiveBack, InUse
  <2> QED  BY <2>3, PoolMoves
<1>6. ASSUME NEW V \in SUBSET Callers, NEW name, Removed(V, name) PROVE Pool!Next
  <2>1. PICK N \in SUBSET Keys : N = {wanted[e] : e \in V}
    <3>1. {wanted[e] : e \in V} \subseteq Keys
      OBVIOUS
    <3> QED  BY <3>1
  <2>2. Pool!Reclaim(N)
    BY <1>6, <2>1, ReclaimRefines
  <2> QED  BY <2>2 DEF Pool!Next
<1> QED  BY <1>1, <1>2, <1>3, <1>4, <1>5, <1>6, EveryMapStep DEF MapStep

\* The manager is a pool: whatever evictions, sweeps, cancellations and
\* shutdowns overlap, each of its steps is one step of the abstract
\* specification or leaves keys, leases and openness alone.
THEOREM ManagerIsPool == Spec => ImplementsPool
<1>1. Init => Pool!Init
  BY DEF Init, Pool!Init, HasChild
<1>2. ManagerInv /\ ManagerInv' /\ [Next]_vars => [Pool!Next]_(Pool!pool)
  BY PoolStep DEF ManagerInv
<1> QED  BY <1>1, <1>2, ManagerAlways, PTL DEF Spec, ImplementsPool, Pool!Spec

-----------------------------------------------------------------------------
(* Reports and their differences.                                          *)

\* A child is active exactly while some caller has it, so as many are active as
\* there are keys in use: no two children share a key.
LEMMA ActiveAreKeys ==
    ASSUME ManagerInv
    PROVE  ActivePartitions = Cardinality({wanted[c] : c \in {d \in Callers : HasChild(d)}})
<1> USE DEF ManagerInv, TypeOK, HasChild
<1> DEFINE A == {e \in partitions : borrowers[e] > 0}
           K == {wanted[c] : c \in {d \in Callers : HasChild(d)}}
           f == [e \in A |-> wanted[e]]
<1>1. ASSUME NEW e \in partitions
      PROVE  borrowers[e] > 0 <=> \E c \in Callers : held[c] = e
  <2> DEFINE S == {c \in Callers : held[c] = e}
  <2>1. borrowers[e] = Cardinality(S) /\ IsFiniteSet(S) /\ Cardinality(S) \in Nat
    BY Finite DEF LeaseAccounting
  <2>2. S = {} <=> Cardinality(S) = 0
    BY <2>1, FS_EmptySet
  <2>3. S = {} <=> ~\E c \in Callers : held[c] = e
    OBVIOUS
  <2> HIDE DEF S
  <2> QED  BY <2>1, <2>2, <2>3
<1>2. A \in SUBSET Callers /\ IsFiniteSet(A)
  BY Finite
<1>3. ASSUME NEW e \in A PROVE wanted[e] \in K
  <2>1. PICK c \in Callers : held[c] = e
    BY <1>1, <1>3
  <2>2. HasChild(c) /\ wanted[e] = wanted[c]
    BY <2>1, PartitionAssumption DEF OnePartitionPerKey
  <2> QED  BY <2>2
<1>4. ASSUME NEW k \in K PROVE \E e \in A : wanted[e] = k
  <2>1. PICK c \in Callers : HasChild(c) /\ k = wanted[c]
    OBVIOUS
  <2>2. held[c] \in A /\ wanted[held[c]] = k
    BY <1>1, <2>1 DEF Lives, OnePartitionPerKey
  <2> QED  BY <2>2
<1>5. f \in Bijection(A, K)
  <2>1. f \in [A -> K] /\ \A e \in A : f[e] = wanted[e]
    BY <1>3
  <2>2. \A d, e \in A : f[d] = f[e] => d = e
    BY <2>1 DEF OnePartitionPerKey
  <2>3. \A k \in K : \E e \in A : f[e] = k
    BY <1>4, <2>1
  <2> HIDE DEF f, A, K
  <2> QED  BY <2>1, <2>2, <2>3 DEF Bijection, Injection, Surjection, IsInjective
<1>6. Cardinality(A) = Cardinality(K)
  BY <1>2, <1>5, FS_Bijection DEF ExistsBijection
<1> QED  BY <1>6 DEF ActivePartitions

\* What the step that counts n more of name does to children and refusals.
Grows(name, n) ==
    /\ totals' = [totals EXCEPT ![name] = @ + n]
    /\ lifecycle # "OPEN" => lifecycle' # "OPEN" /\ n = 0
    /\ \/ /\ name = "created" => Cardinality(partitions') = Cardinality(partitions) + n
          /\ name \in {"evicted", "discarded"} =>
                Cardinality(partitions') = Cardinality(partitions) - n
          /\ name = "limit_rejected" => partitions' = partitions
       \/ lifecycle # "OPEN" /\ partitions' = {}
    /\ name \in {"evicted", "discarded"} => n + ActivePartitions <= Cardinality(partitions)
    /\ name = "created" /\ n > 0 => Cardinality(partitions) < MaxPartitions
    /\ name = "limit_rejected" => Cardinality(Limited' \ Limited) = n
    /\ name # "limit_rejected" => Limited' = Limited
    /\ n # 0 \/ lifecycle # "OPEN" \/ partitions' = partitions

LEMMA SoundFrom ==
    ASSUME ManagerInv, partitions' \in SUBSET Callers,
           NEW name \in Totals, NEW n \in Nat, Grows(name, n)
    PROVE  SoundStep
<1> USE PartitionAssumption DEF ManagerInv, TypeOK, Grows
<1> DEFINE s == Status
           t == Status'
           i == Interval(s, t)
<1>1. /\ s.partition_count = Cardinality(partitions) /\ t.partition_count = Cardinality(partitions')
      /\ s.active_partitions = ActivePartitions
      /\ s.totals = totals /\ t.totals = totals'
      /\ s.is_closed = (lifecycle # "OPEN") /\ t.is_closed = (lifecycle' # "OPEN")
  BY DEF Status
<1>2. /\ Cardinality(partitions) \in Nat /\ Cardinality(partitions') \in Nat
      /\ ActivePartitions \in Nat /\ ActivePartitions <= Cardinality(partitions)
  <2>1. {e \in partitions : borrowers[e] > 0} \in SUBSET Callers
    OBVIOUS
  <2>2. IsFiniteSet(partitions)
    BY Finite
  <2>3. Cardinality({e \in partitions : borrowers[e] > 0}) <= Cardinality(partitions)
    BY <2>2, FS_Subset
  <2> QED  BY <2>1, <2>3, Finite DEF ActivePartitions
<1> HIDE DEF s, t
<1>3. \A k \in Totals :
         /\ totals[k] \in Nat /\ totals'[k] = totals[k] + (IF k = name THEN n ELSE 0)
         /\ i[k] = IF k = name THEN n ELSE 0
  BY <1>1 DEF Interval
<1> HIDE DEF i
<1>4. /\ i["created"] = IF name = "created" THEN n ELSE 0
      /\ i["evicted"] = IF name = "evicted" THEN n ELSE 0
      /\ i["discarded"] = IF name = "discarded" THEN n ELSE 0
      /\ i["limit_rejected"] = IF name = "limit_rejected" THEN n ELSE 0
  BY <1>3 DEF Totals
<1>5. Reclaimed(i) = IF name \in {"evicted", "discarded"} THEN n ELSE 0
  BY <1>4 DEF Reclaimed
<1>6. HasActivity(i) <=> n # 0
  BY <1>3 DEF HasActivity
<1>7. Comparable(s, t)
  BY <1>1, <1>3 DEF Comparable
<1>8. \/ t.partition_count - s.partition_count = i["created"] - Reclaimed(i)
      \/ s.is_closed /\ partitions' = {}
  <2>1. i["created"] - Reclaimed(i) = (IF name = "created" THEN n ELSE 0)
                                      - (IF name \in {"evicted", "discarded"} THEN n ELSE 0)
    BY <1>4, <1>5
  <2>2. CASE lifecycle # "OPEN" /\ partitions' = {}
    BY <1>1, <2>2
  <2>3. CASE ~(lifecycle # "OPEN" /\ partitions' = {})
    <3>1. Cardinality(partitions') - Cardinality(partitions) = i["created"] - Reclaimed(i)
      BY <1>2, <2>1, <2>3 DEF Totals
    <3> QED  BY <1>1, <3>1
  <2> QED  BY <2>2, <2>3
<1>9. Reclaimed(i) <= IdlePartitions(s)
  BY <1>1, <1>2, <1>5 DEF IdlePartitions
<1>10. i["created"] > 0 => ~IsAtLimit(s)
  BY <1>1, <1>2, <1>4 DEF IsAtLimit
<1>11. /\ s.is_closed => ~HasActivity(i)
       /\ i["limit_rejected"] = Cardinality(Limited' \ Limited)
       /\ HasActivity(i) \/ s.is_closed \/ partitions' = partitions
  <2>1. name # "limit_rejected" => Cardinality(Limited' \ Limited) = 0
    BY FS_EmptySet
  <2> QED  BY <1>1, <1>4, <1>6, <2>1
<1>12. s.active_partitions = Cardinality({wanted[c] : c \in {d \in Callers : HasChild(d)}})
  BY <1>1, ActiveAreKeys
<1> QED  BY <1>7, <1>8, <1>9, <1>10, <1>11, <1>12, Zenon DEF SoundStep, i, s, t

\* Only idle children can be taken away.
LEMMA IdleAreInactive ==
    ASSUME TypeOK, NEW V \in SUBSET partitions, \A e \in V : Idle(e)
    PROVE  /\ Cardinality(partitions \ V) = Cardinality(partitions) - Cardinality(V)
           /\ Cardinality(V) + ActivePartitions <= Cardinality(partitions)
           /\ Cardinality(V) = 0 => partitions \ V = partitions
<1> USE DEF TypeOK
<1> DEFINE A == {e \in partitions : borrowers[e] > 0}
<1>1. /\ IsFiniteSet(partitions) /\ IsFiniteSet(V) /\ IsFiniteSet(A)
      /\ Cardinality(partitions) \in Nat /\ Cardinality(V) \in Nat /\ Cardinality(A) \in Nat
      /\ Cardinality(partitions \ V) \in Nat
  BY Finite
<1>2. V \cap A = {} /\ A \subseteq partitions \ V
  BY DEF Idle
<1>3. Cardinality(partitions \ V) = Cardinality(partitions) - Cardinality(V)
  <2>1. partitions \cap V = V
    OBVIOUS
  <2> QED  BY <1>1, <2>1, FS_Difference
<1>4. Cardinality(A) <= Cardinality(partitions \ V)
  <2>1. IsFiniteSet(partitions \ V)
    BY Finite
  <2> QED  BY <1>2, <2>1, FS_Subset
<1>5. Cardinality(V) = 0 => V = {}
  BY <1>1, FS_EmptySet
<1> HIDE DEF A
<1>6. ActivePartitions = Cardinality(A)
  BY DEF ActivePartitions, A
<1> QED  BY <1>1, <1>3, <1>4, <1>5, <1>6

LEMMA EveryStepSound ==
    ASSUME ManagerInv, ManagerInv', [Next]_vars PROVE SoundStep
<1>1. /\ partitions' \in SUBSET Callers /\ totals \in [Totals -> Nat]
      /\ "created" \in Totals /\ "evicted" \in Totals /\ "discarded" \in Totals
      /\ "limit_rejected" \in Totals
      /\ \A S \in SUBSET Callers : IsFiniteSet(S) /\ Cardinality(S) \in Nat
      /\ ManagerInv /\ Cardinality(partitions) \in Nat /\ Cardinality(partitions') \in Nat
  BY Finite DEF Totals, ManagerInv, TypeOK
<1>2. ASSUME totals' = totals, Limited' = Limited,
             lifecycle # "OPEN" => lifecycle' # "OPEN",
             partitions' = partitions \/ (lifecycle # "OPEN" /\ partitions' = {})
      PROVE  SoundStep
  <2>1. Grows("created", 0)
    BY <1>1, <1>2 DEF Grows
  <2> QED  BY <1>1, <2>1, SoundFrom
<1>3. CASE Quiet
  BY <1>2, <1>3 DEF Quiet, SameLimited
<1>4. CASE Forgotten
  BY <1>2, <1>4 DEF Forgotten, SameLimited
<1>5. ASSUME NEW c \in Callers, Used(c) \/ GivenBack(c) PROVE SoundStep
  BY <1>2, <1>5 DEF Used, UseExisting, GivenBack, ReturnReference, SameLimited, mapVars
<1>6. ASSUME NEW c \in Callers, Rejected(c) PROVE SoundStep
  <2>1. Limited' \ Limited = {c}
    BY <1>6 DEF Rejected
  <2>2. Cardinality(Limited' \ Limited) = 1
    BY <2>1, FS_Singleton
  <2>3. Grows("limit_rejected", 1)
    BY <1>6, <2>2 DEF Rejected, Counted, Grows
  <2> QED  BY <1>1, <2>3, SoundFrom
<1>7. ASSUME NEW c \in Callers, Made(c) PROVE SoundStep
  <2>1. /\ partitions' = partitions \cup {c} /\ c \notin partitions
        /\ Counted("created", 1) /\ Limited' = Limited
        /\ lifecycle = "OPEN"
    BY <1>7 DEF Made, Create, Borrow, InMap, SameLimited
  <2>2. Cardinality(partitions') = Cardinality(partitions) + 1
    <3>1. partitions \in SUBSET Callers
      BY DEF ManagerInv, TypeOK
    <3> QED  BY <1>1, <2>1, <3>1, FS_AddElement
  <2>3. Cardinality(partitions) < MaxPartitions
    <3>1. Reserved' \in SUBSET Callers
      BY DEF Reserved
    <3>2. Cardinality(partitions') + Cardinality(Reserved') <= MaxPartitions
      BY DEF ManagerInv, WithinLimit, Logical
    <3> QED  BY <1>1, <2>2, <3>1, <3>2, PartitionAssumption
  <2>4. Grows("created", 1)
    BY <2>1, <2>2, <2>3 DEF Counted, Grows
  <2> QED  BY <1>1, <2>4, SoundFrom
<1>8. ASSUME NEW V \in SUBSET Callers, NEW name \in {"evicted", "discarded"}, Removed(V, name)
      PROVE  SoundStep
  <2> DEFINE n == Cardinality(V)
  <2>1. /\ V \in SUBSET partitions /\ \A e \in V : Idle(e)
        /\ partitions' = partitions \ V /\ Counted(name, n)
        /\ Limited' = Limited /\ lifecycle = "OPEN" /\ n \in Nat
    BY <1>1, <1>8 DEF Removed, SameLimited
  <2>2. /\ Cardinality(partitions') = Cardinality(partitions) - n
        /\ n + ActivePartitions <= Cardinality(partitions)
        /\ n = 0 => partitions' = partitions
    BY <2>1, IdleAreInactive DEF ManagerInv
  <2> HIDE DEF n
  <2>3. name \in Totals /\ name # "created" /\ name # "limit_rejected"
    BY <1>1
  <2>4. Grows(name, n)
    BY <2>1, <2>2, <2>3 DEF Counted, Grows
  <2> QED  BY <1>1, <2>1, <2>3, <2>4, SoundFrom
<1> QED  BY <1>3, <1>4, <1>5, <1>6, <1>7, <1>8, EveryMapStep DEF MapStep

\* Whatever happens between two reports of the manager, they can be compared and
\* the interval accounts for every child made or reclaimed and every refusal.
THEOREM ManagerIntervalsAreSound == Spec => IntervalIsSound
<1>1. ManagerInv /\ ManagerInv' /\ [Next]_vars => [SoundStep]_vars
  BY EveryStepSound
<1> QED  BY <1>1, ManagerAlways, PTL DEF Spec, IntervalIsSound
=============================================================================
