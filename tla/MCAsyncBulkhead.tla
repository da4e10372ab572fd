-------------------------- MODULE MCAsyncBulkhead --------------------------
EXTENDS AsyncBulkhead, TLC

\* Calls, contexts and handlers are alike.
BulkheadSymmetry ==
    Permutations(Calls) \cup Permutations(Contexts) \cup Permutations(Handlers)

\* Nothing the run checks or the bulkhead does depends on the totals and peaks.
WithoutHistory ==
    <<parallelism, waiters, in_flight, closed, drained, entry, timed, pc,
      interrupted, shut, contextVars, handlerVars>>
=============================================================================
