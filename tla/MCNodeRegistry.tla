-------------------------- MODULE MCNodeRegistry --------------------------
(***************************************************************************)
(* Small instances of NodeRegistry.  A behaviour follows one scenario: one *)
(* process that calls every handler, or two that call those which hold the *)
(* node's or the enrollment's flock from their read to their write.        *)
(***************************************************************************)
EXTENDS NodeRegistry

CONSTANTS p1, p2

VARIABLE scenario

Scenarios ==
  {[processes |-> {p1}, failures |-> 1, generations |-> 2, directives |-> 2, ops |-> Op],
   [processes |-> {p1, p2}, failures |-> 3, generations |-> 3, directives |-> 0,
    ops |-> {"idle", "late", "limited", "wrong", "submit_pairing", "pending_node", "approve",
             "revoke_node", "delete_node", "remove", "import_approved_node", "connect_node",
             "disconnect_node", "expire_stale_nodes"}]}

\* What is being done, and how far the counters go.
InScenario ==
  /\ \A p \in Process : at[p].op \in scenario.ops
  /\ \A e \in Enrollment : knows[e] \subseteq scenario.processes /\ wrong[e] <= scenario.failures
  /\ node.session_generation <= scenario.generations
  /\ \A p \in Process : nextNode[p].session_generation <= scenario.generations
  /\ issued <= scenario.directives

MCInit == Init /\ scenario \in Scenarios

\* Next, for the processes of the scenario.
MCNext ==
  /\ \/ \E p \in scenario.processes :
          \/ Pairing(p) \/ Hosting(p) \/ Directing(p)
          \/ PutEnrollment(p) \/ PutNode(p) \/ Refused(p) \/ Crash(p)
     \/ \E e \in Enrollment : Lapse(e)
     \/ WorkerLost
  /\ UNCHANGED scenario
  /\ InScenario'

MCSpec == MCInit /\ [][MCNext]_<<vars, scenario>>
=============================================================================
