--------------------------- MODULE RegistryProofs ---------------------------
(***************************************************************************)
(* Proofs about Registry for any sets of bulkheads, labels, event loops    *)
(* and operations.  What a removal or a shutdown relies on is that nothing *)
(* undoes it: a drained bulkhead stays drained, a binding to a loop is     *)
(* final (BulkheadStep), and membership only ever loses a drained bulkhead *)
(* or gains a new one (MembershipStep).                                    *)
(***************************************************************************)
EXTENDS Registry, TLAPS

-----------------------------------------------------------------------------
(* Types.                                                                  *)

\* A removal in progress has found a bulkhead.
Targeted ==
    \A r \in Removers : removal[r] \in {"fetched", "waiting"} => target[r] \in Bulkheads

Typed == TypeOK /\ Targeted

LEMMA TypedInit == Init => Typed
<1> SUFFICES ASSUME Init PROVE Typed
  OBVIOUS
<1>1. loop \in [Tasks -> Loops \cup {None}]
  BY DEF Init
<1>2. TypeOK
  BY <1>1 DEF Init, TypeOK, RemovalStates, Phases
<1>3. Targeted
  BY DEF Init, Targeted
<1> QED BY <1>2, <1>3 DEF Typed

LEMMA TypedStep == Typed /\ [Next]_vars => Typed'
<1> SUFFICES ASSUME Typed, [Next]_vars PROVE Typed'
  OBVIOUS
<1> USE DEF Typed, TypeOK, Targeted
<1>1. ASSUME NEW u \in Users, NEW b \in Bulkheads, Enter(u, b) PROVE Typed'
  BY <1>1 DEF Enter, Bind, Tasks, memberVars, removerVars, collectorVars
<1>2. ASSUME NEW u \in Users, NEW b \in Bulkheads, CloseMember(u, b) PROVE Typed'
  BY <1>2 DEF CloseMember, Bind, Tasks, memberVars, removerVars, collectorVars
<1>3. ASSUME NEW u \in Users, Leave(u) PROVE Typed'
  BY <1>3 DEF Leave, memberVars, removerVars, collectorVars
<1>4. ASSUME NEW l \in Labels, NEW b \in Bulkheads, Create(l, b) PROVE Typed'
  BY <1>4 DEF Create, bulkheadVars, removerVars, collectorVars
<1>5. ASSUME NEW r \in Removers, NEW l \in Labels, NEW e \in Loops, Fetch(r, l, e)
      PROVE  Typed'
  BY <1>5 DEF Fetch, RemovalStates, Tasks, memberVars, bulkheadVars, collectorVars
<1>6. ASSUME NEW r \in Removers, NEW l \in Labels, FetchFails(r, l) PROVE Typed'
  BY <1>6 DEF FetchFails, EndRemoval, RemovalStates, Tasks, memberVars, bulkheadVars,
              collectorVars
<1>7. ASSUME NEW r \in Removers, CloseTarget(r) PROVE Typed'
  BY <1>7 DEF CloseTarget, CanUse, Bind, EndRemoval, RemovalStates, Tasks, memberVars,
              collectorVars
<1>8. ASSUME NEW r \in Removers, Delete(r) PROVE Typed'
  BY <1>8 DEF Delete, EndRemoval, RemovalStates, Tasks, bulkheadVars, collectorVars
<1>9. ASSUME NEW k \in Collectors, NEW operation \in Kinds, NEW e \in Loops,
             Begin(k, operation, e)
      PROVE  Typed'
  <2>1. Registered \subseteq Bulkheads
    BY DEF Registered, Range
  <2> QED BY <1>9, <2>1 DEF Begin, Call, Phases, Tasks, bulkheadVars, removerVars
<1>10. ASSUME NEW k \in Collectors, NEW e \in Loops, RefuseWait(k, e) PROVE Typed'
  BY <1>10 DEF RefuseWait, Call, Phases, Kinds, Tasks, bulkheadVars, removerVars
<1>11. ASSUME NEW k \in Collectors, NEW b \in Bulkheads, Attempt(k, b) PROVE Typed'
  BY <1>11 DEF Attempt, Bind, CanUse, Tasks, memberVars, removerVars
<1>12. ASSUME NEW k \in Collectors, Finish(k) \/ CancelCollector(k) PROVE Typed'
  BY <1>12 DEF Finish, CancelCollector, Phases, memberVars, bulkheadVars, removerVars
<1>13. ASSUME UNCHANGED vars PROVE Typed'
  BY <1>13 DEF vars, memberVars, bulkheadVars, removerVars, collectorVars
<1> QED
  BY <1>1, <1>2, <1>3, <1>4, <1>5, <1>6, <1>7, <1>8, <1>9, <1>10, <1>11, <1>12, <1>13
     DEF Next, Terminated

\* Every variable always has its type.
THEOREM TypeCorrect == Spec => []TypeOK
<1>1. Typed => TypeOK
  BY DEF Typed
<1> QED BY TypedInit, TypedStep, <1>1, PTL DEF Spec

-----------------------------------------------------------------------------
(* What a step can do to bulkheads and to membership.                      *)

\* Closing, draining and binding to an event loop are final.
LEMMA BulkheadStep ==
  ASSUME Typed, [Next]_vars, NEW b \in Bulkheads
  PROVE  /\ b \in closed => b \in closed'
         /\ Drained(b) => Drained(b)'
         /\ bound[b] # None => bound'[b] = bound[b]
<1> USE DEF Typed, TypeOK, Drained, Empty
<1>1. ASSUME NEW u \in Users, NEW c \in Bulkheads, Enter(u, c) \/ CloseMember(u, c)
      PROVE  /\ b \in closed => b \in closed'
             /\ Drained(b) => Drained(b)'
             /\ bound[b] # None => bound'[b] = bound[b]
  BY <1>1 DEF Enter, CloseMember, Bind, CanUse
<1>2. ASSUME NEW u \in Users, Leave(u)
      PROVE  /\ b \in closed => b \in closed'
             /\ Drained(b) => Drained(b)'
             /\ bound[b] # None => bound'[b] = bound[b]
  BY <1>2, RegistryAssumption DEF Leave
<1>3. ASSUME NEW r \in Removers, CloseTarget(r)
      PROVE  /\ b \in closed => b \in closed'
             /\ Drained(b) => Drained(b)'
             /\ bound[b] # None => bound'[b] = bound[b]
  BY <1>3 DEF CloseTarget, Bind, CanUse, Targeted
<1>4. ASSUME NEW k \in Collectors, NEW c \in Bulkheads, Attempt(k, c)
      PROVE  /\ b \in closed => b \in closed'
             /\ Drained(b) => Drained(b)'
             /\ bound[b] # None => bound'[b] = bound[b]
  BY <1>4 DEF Attempt, Bind, CanUse
<1>5. UNCHANGED bulkheadVars \/ ~UNCHANGED bulkheadVars
  OBVIOUS
<1>6. CASE UNCHANGED bulkheadVars
  BY <1>6 DEF bulkheadVars
<1>7. CASE ~UNCHANGED bulkheadVars
  BY <1>1, <1>2, <1>3, <1>4, <1>7
     DEF Next, Terminated, vars, Create, Fetch, FetchFails, Delete, Begin, RefuseWait,
         Call, Finish, CancelCollector
<1> QED BY <1>6, <1>7

\* No bulkhead is created in a closed registry, and a name is only ever taken
\* from a bulkhead that has drained.
LEMMA MembershipStep ==
  ASSUME Typed, [Next]_vars
  PROVE  \/ /\ created' = created
            /\ Registered' \subseteq Registered
            /\ \A b \in Registered \ Registered' : Drained(b)
         \/ /\ ~is_closed
            /\ \E b \in Bulkheads :
                  /\ created' = created \cup {b}
                  /\ Registered' = Registered \cup {b}
<1> USE DEF Typed, TypeOK, Registered, Range
<1>1. ASSUME NEW l \in Labels, NEW b \in Bulkheads, Create(l, b)
      PROVE  /\ ~is_closed
             /\ created' = created \cup {b}
             /\ Registered' = Registered \cup {b}
  BY <1>1, RegistryAssumption DEF Create
<1>2. ASSUME NEW r \in Removers, Delete(r)
      PROVE  /\ created' = created
             /\ Registered' \subseteq Registered
             /\ \A b \in Registered \ Registered' : Drained(b)
  <2>1. CASE members' = members
    BY <1>2, <2>1 DEF Delete
  <2>2. CASE members' # members
    <3>1. /\ Drained(target[r]) /\ members[name[r]] = target[r]
          /\ members' = [members EXCEPT ![name[r]] = None]
          /\ created' = created
      BY <1>2, <2>2 DEF Delete
    <3>2. \A l \in Labels : members'[l] # members[l] => members[l] = target[r] /\ members'[l] = None
      BY <3>1
    <3> QED BY <3>1, <3>2
  <2> QED BY <2>1, <2>2
<1>3. CASE members' = members /\ created' = created
  BY <1>3
<1>4. CASE ~(members' = members /\ created' = created)
  <2>1. \/ \E l \in Labels, b \in Bulkheads : Create(l, b)
        \/ \E r \in Removers : Delete(r)
    BY <1>4 DEF Next, Terminated, vars, memberVars, Enter, CloseMember, Leave, Fetch,
         FetchFails, CloseTarget, Begin, RefuseWait, Call, Attempt, Finish, CancelCollector
  <2> QED BY <1>1, <1>2, <2>1
<1> QED BY <1>3, <1>4

-----------------------------------------------------------------------------
(* Removal.                                                                *)

LEMMA RemovedStep ==
  ASSUME Typed, RemovedIsDrained, [Next]_vars
  PROVE  RemovedIsDrained'
<1> SUFFICES ASSUME NEW b \in created', b \notin Registered' PROVE Drained(b)'
  BY DEF RemovedIsDrained
<1>1. b \in created /\ b \in Bulkheads
  BY MembershipStep DEF Typed, TypeOK
<1>2. Drained(b)
  BY <1>1, MembershipStep DEF RemovedIsDrained
<1> QED BY <1>1, <1>2, BulkheadStep

\* The registry never silently abandons a live bulkhead: whatever has no name
\* any more is closed and empty.
THEOREM RemovedIsDrainedCorrect == Spec => []RemovedIsDrained
<1>1. Init => RemovedIsDrained
  BY DEF Init, RemovedIsDrained
<1> QED BY TypedInit, TypedStep, <1>1, RemovedStep, PTL DEF Spec

-----------------------------------------------------------------------------
(* Collective shutdown.                                                    *)

\* A shutdown in progress: its snapshot covers what is still registered, since a
\* closed registry creates nothing, and what it has attempted is closed or was
\* reported.  A report is for being bound to another event loop.
Covered(k) ==
    /\ Registered \subseteq items[k]
    /\ \A b \in items[k] : b \in todo[k] \cup failures[k] \cup closed

ShutdownInv ==
    \A k \in Collectors :
        /\ kind[k] = "none" <=> phase[k] = "idle"
        /\ phase[k] = "idle" => failures[k] = {}
        /\ kind[k] \in Closing => is_closed
        /\ kind[k] \in Closing => phase[k] \in {"running", "ended"}
        /\ kind[k] \in Closing /\ phase[k] = "running" => Covered(k)
        /\ \A b \in failures[k] : bound[b] \notin {None, loop[k]}

IInv == Typed /\ RemovedIsDrained /\ ShutdownInv /\ NobodyEscapes /\ ShutdownAttemptsAll

\* Steps that are no step of operation k leave its frame alone.
Frame(k) ==
    /\ phase'[k] = phase[k] /\ kind'[k] = kind[k] /\ loop'[k] = loop[k]
    /\ items'[k] = items[k] /\ todo'[k] = todo[k] /\ failures'[k] = failures[k]

StepOf(k) ==
    \/ \E operation \in Kinds, e \in Loops : Begin(k, operation, e)
    \/ \E e \in Loops : RefuseWait(k, e)
    \/ \E b \in Bulkheads : Attempt(k, b)
    \/ Finish(k) \/ CancelCollector(k)

LEMMA OwnStep ==
  ASSUME Typed, [Next]_vars, NEW k \in Collectors
  PROVE  Frame(k) \/ StepOf(k)
<1> USE DEF Typed, TypeOK, Frame
<1>1. ASSUME NEW r \in Removers,
             \/ \E l \in Labels : FetchFails(r, l) \/ \E e \in Loops : Fetch(r, l, e)
             \/ CloseTarget(r) \/ Delete(r)
      PROVE  Frame(k)
  BY <1>1, RegistryAssumption
     DEF FetchFails, Fetch, CloseTarget, Delete, EndRemoval, collectorVars, Tasks
<1>2. ASSUME NEW j \in Collectors, j # k, StepOf(j)
      PROVE  Frame(k)
  BY <1>2 DEF StepOf, Begin, RefuseWait, Call, Attempt, Finish, CancelCollector, Tasks
<1>3. ASSUME NEW u \in Users,
             (\E b \in Bulkheads : Enter(u, b) \/ CloseMember(u, b)) \/ Leave(u)
      PROVE  Frame(k)
  BY <1>3 DEF Enter, CloseMember, Leave, collectorVars
<1>4. ASSUME NEW l \in Labels, NEW b \in Bulkheads, Create(l, b) PROVE Frame(k)
  BY <1>4 DEF Create, collectorVars
<1>5. CASE UNCHANGED vars
  BY <1>5 DEF vars, collectorVars
<1> QED BY <1>1, <1>2, <1>3, <1>4, <1>5 DEF Next, Terminated, StepOf

\* A closed registry stays closed and its members only drain.
LEMMA ClosedRegistry ==
  ASSUME Typed, [Next]_vars, is_closed
  PROVE  /\ is_closed'
         /\ created' = created
         /\ Registered' \subseteq Registered
<1>1. is_closed'
  BY DEF Next, Terminated, vars, memberVars, Enter, CloseMember, Leave, Create, Fetch,
         FetchFails, CloseTarget, Delete, Begin, RefuseWait, Call, Attempt, Finish,
         CancelCollector
<1> QED BY <1>1, MembershipStep

LEMMA ShutdownStep ==
  ASSUME IInv, [Next]_vars
  PROVE  ShutdownInv'
<1> SUFFICES ASSUME NEW k \in Collectors
             PROVE  /\ kind'[k] = "none" <=> phase'[k] = "idle"
                    /\ phase'[k] = "idle" => failures'[k] = {}
                    /\ kind'[k] \in Closing => is_closed'
                    /\ kind'[k] \in Closing => phase'[k] \in {"running", "ended"}
                    /\ kind'[k] \in Closing /\ phase'[k] = "running" => Covered(k)'
                    /\ \A b \in failures'[k] : bound'[b] \notin {None, loop'[k]}
  BY DEF ShutdownInv
<1> USE DEF IInv, Typed, TypeOK, ShutdownInv
<1>1. CASE Frame(k)
  <2>1. \A b \in failures'[k] : bound'[b] \notin {None, loop'[k]}
    BY <1>1, BulkheadStep DEF Frame
  <2>2. kind'[k] \in Closing /\ phase'[k] = "running" => Covered(k)'
    BY <1>1, BulkheadStep, ClosedRegistry DEF Frame, Covered
  <2> QED BY <1>1, <2>1, <2>2, ClosedRegistry DEF Frame
<1>2. ASSUME NEW operation \in Kinds, NEW e \in Loops, Begin(k, operation, e)
      PROVE  /\ kind'[k] = operation /\ phase'[k] = "running" /\ failures'[k] = {}
             /\ operation \in Closing => is_closed' /\ Covered(k)'
  <2>1. Registered' = Registered
    BY <1>2 DEF Begin, Call, Registered
  <2> QED BY <1>2, <2>1 DEF Begin, Call, Covered
<1>3. ASSUME NEW e \in Loops, RefuseWait(k, e)
      PROVE  kind'[k] = "wait_closed" /\ phase'[k] = "refused" /\ failures'[k] = {}
  BY <1>3 DEF RefuseWait, Call
<1>4. ASSUME NEW b \in Bulkheads, Attempt(k, b)
      PROVE  /\ UNCHANGED <<kind, phase, loop>>
             /\ phase[k] = "running"
             /\ kind[k] \in Closing => is_closed' /\ Covered(k)'
             /\ \A c \in failures'[k] : bound'[c] \notin {None, loop[k]}
  <2>1. Registered' = Registered /\ is_closed' = is_closed
    BY <1>4 DEF Attempt, Registered, memberVars
  <2>2. \A c \in failures'[k] : bound'[c] \notin {None, loop[k]}
    <3>1. CASE CanUse(k, b)
      BY <1>4, <3>1, BulkheadStep DEF Attempt
    <3>2. CASE ~CanUse(k, b)
      BY <1>4, <3>2 DEF Attempt, CanUse
    <3> QED BY <3>1, <3>2
  <2>3. kind[k] \in Closing => Covered(k)'
    BY <1>4, <2>1 DEF Attempt, Covered
  <2> QED BY <1>4, <2>1, <2>2, <2>3 DEF Attempt
<1>5. ASSUME Finish(k)
      PROVE  /\ UNCHANGED <<kind, loop, failures, bound, is_closed>>
             /\ phase[k] = "running" /\ phase'[k] = "ended"
  BY <1>5 DEF Finish, memberVars, bulkheadVars
<1>6. ASSUME CancelCollector(k)
      PROVE  /\ UNCHANGED <<kind, loop, failures, bound, is_closed>>
             /\ phase[k] = "running" /\ phase'[k] = "cancelled" /\ kind[k] \notin Closing
  BY <1>6 DEF CancelCollector, memberVars, bulkheadVars
<1> QED
  BY <1>1, <1>2, <1>3, <1>4, <1>5, <1>6, OwnStep DEF StepOf, Kinds, Closing

\* What has been drained or closed when a shutdown ends stays so.
LEMMA EndedStep ==
  ASSUME IInv, [Next]_vars
  PROVE  NobodyEscapes' /\ ShutdownAttemptsAll'
<1> USE DEF IInv, Typed, TypeOK
<1>1. ASSUME NEW k \in Collectors, phase'[k] = "ended", kind'[k] \in Closing
      PROVE  /\ created' \ closed' \subseteq failures'[k]
             /\ \A b \in failures'[k] : bound'[b] \notin {None, loop'[k]}
             /\ kind'[k] = "close_and_wait" /\ failures'[k] = {}
                    => \A b \in created' : Drained(b)'
  <2>1. \A b \in failures'[k] : bound'[b] \notin {None, loop'[k]}
    BY ShutdownStep DEF ShutdownInv
  <2>2. CASE Frame(k)
    <3>1. created' = created
      BY <1>1, <2>2, ClosedRegistry DEF Frame, ShutdownInv
    <3>2. created' \ closed' \subseteq failures'[k]
      BY <1>1, <2>2, <3>1, BulkheadStep DEF Frame, ShutdownAttemptsAll
    <3>3. kind'[k] = "close_and_wait" /\ failures'[k] = {} => \A b \in created' : Drained(b)'
      BY <1>1, <2>2, <3>1, BulkheadStep DEF Frame, NobodyEscapes
    <3> QED BY <2>1, <3>2, <3>3
  <2>3. CASE Finish(k)
    <3>1. /\ created' = created /\ closed' = closed /\ inside' = inside
          /\ failures' = failures /\ kind' = kind /\ todo[k] = {} /\ phase[k] = "running"
          /\ kind[k] \in Waiting => \A b \in items[k] \ failures[k] : Drained(b)
      BY <2>3 DEF Finish, memberVars, bulkheadVars
    <3>2. Covered(k)
      BY <1>1, <3>1 DEF ShutdownInv
    <3>3. created \ closed \subseteq failures[k]
      BY <3>1, <3>2 DEF Covered, RemovedIsDrained, Drained
    <3>4. ASSUME kind[k] = "close_and_wait", failures[k] = {}, NEW b \in created
          PROVE  Drained(b)'
      <4>1. Drained(b)
        BY <3>1, <3>2, <3>4 DEF Covered, RemovedIsDrained, Waiting
      <4> QED BY <3>1, <4>1 DEF Drained, Empty
    <3> QED BY <2>1, <3>1, <3>3, <3>4
  <2>4. ~Frame(k) => Finish(k)
    BY <1>1, OwnStep
       DEF StepOf, Begin, RefuseWait, Call, Attempt, CancelCollector, ShutdownInv
  <2> QED BY <2>2, <2>3, <2>4
<1>2. "close_and_wait" \in Closing
  BY DEF Closing
<1> QED BY <1>1, <1>2 DEF NobodyEscapes, ShutdownAttemptsAll

LEMMA Invariance == Spec => []IInv
<1>1. Init => IInv
  <2>1. Init => ShutdownInv /\ NobodyEscapes /\ ShutdownAttemptsAll /\ RemovedIsDrained
    BY DEF Init, ShutdownInv, NobodyEscapes, ShutdownAttemptsAll, RemovedIsDrained, Closing
  <2> QED BY <2>1, TypedInit DEF IInv
<1>2. IInv /\ [Next]_vars => IInv'
  BY TypedStep, RemovedStep, ShutdownStep, EndedStep DEF IInv
<1> QED BY <1>1, <1>2, PTL DEF Spec

\* A close_and_wait that returned without a failure left no bulkhead alive that
\* the registry ever created.
THEOREM NobodyEscapesCorrect == Spec => []NobodyEscapes
<1>1. IInv => NobodyEscapes
  BY DEF IInv
<1> QED BY <1>1, Invariance, PTL

\* A collective shutdown has closed every bulkhead or reported it, and reports
\* only those bound to another event loop.
THEOREM ShutdownAttemptsAllCorrect == Spec => []ShutdownAttemptsAll
<1>1. IInv => ShutdownAttemptsAll
  BY DEF IInv
<1> QED BY <1>1, Invariance, PTL
=============================================================================
