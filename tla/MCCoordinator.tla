--------------------------- MODULE MCCoordinator ---------------------------
(***************************************************************************)
(* One job on one node, for the question what is retried.  The larger      *)
(* instances of Coordinator are in MCRevalidation.                         *)
(***************************************************************************)
EXTENDS Coordinator

CONSTANTS n1, j1, k1

\* A job with external side effects: retry_safe is false.
SideEffectJob ==
  {[job |-> j1, key |-> k1, goal |-> None, rev |-> 0, max_attempts |-> 3, may_retry |-> FALSE,
    supported_by |-> {n1}, preferred_by |-> {}, hashed_by |-> {n1}]}
=============================================================================
