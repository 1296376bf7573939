--------------------------- MODULE MCRevalidation ---------------------------
(***************************************************************************)
(* Small instances of Revalidation and, in it, of Coordinator.  A          *)
(* behaviour follows one scenario: one job on two nodes; two revisions of  *)
(* one Goal; or one request for revalidation, by workers or by the host.   *)
(***************************************************************************)
EXTENDS Revalidation

CONSTANTS n1, n2, j0, j1, j2, j3, j4, k1, k2, k3, k4, g1, e1, e2, e3, f1, f2,
          worker, chain, cycle

M(j, k, g, r, able, pref, hashed) ==
  [job |-> j, key |-> k, goal |-> g, rev |-> r, max_attempts |-> 2, may_retry |-> TRUE,
   supported_by |-> able, preferred_by |-> pref, hashed_by |-> hashed]

\* The node the plain job prefers computes another manifest hash; the job has the
\* key of one of the revalidation jobs.
Plain == M(j0, k4, None, 0, {n1, n2}, {n1}, {n2})
AtFirst == M(j1, k1, g1, 1, {n1}, {}, {n1})
AtSecond == M(j2, k2, g1, 2, {n1}, {}, {n1})
Redo1 == M(j3, k3, g1, 1, {n1}, {}, {n1})
Redo2 == M(j4, k4, g1, 1, {n1}, {}, {n1})

Manifests == {Plain, AtFirst, AtSecond, Redo1, Redo2}
Criteria == [m \in Manifests |-> IF m = Redo2 THEN 2 ELSE 1]

\* f1 is an input of criterion 1, f2 of criterion 2.  Criteria 1 and 3 share
\* a piece of evidence.
WithDependencies(deps) ==
  [c \in Criterion |->
     [inputs |-> IF c = 1 THEN {f1} ELSE IF c = 2 THEN {f2} ELSE {},
      depends_on |-> deps[c],
      evidence_ids |-> IF c = 1 THEN {e1, e3} ELSE IF c = 2 THEN {e2} ELSE {e3}]]

\* A chain that one pass in the order of the ids does not follow, and a cycle.
DependenciesOf(r) ==
  CASE r = worker -> <<{}, {1}, {}>>
    [] r = chain -> <<{}, {3}, {1}>>
    [] r = cycle -> <<{2}, {3}, {1}>>

Payloads ==
  [r \in Request |->
     [goal |-> g1, rev |-> 1, graph |-> WithDependencies(DependenciesOf(r)), changed |-> {f1},
      mode |-> IF r = worker THEN "worker_reexecution" ELSE "host_validation",
      criteria |-> IF r = worker THEN {1, 2} ELSE {1},
      manifests |-> IF r = worker THEN {Redo1, Redo2} ELSE {}]]

VARIABLE scenario

Scenarios ==
  {[jobs |-> {j0}, request |-> None, nodes |-> {n1, n2}, leases |-> 3,
    sequence |-> 2, ends |-> TerminalState],
   [jobs |-> {j1, j2}, request |-> None, nodes |-> {n1}, leases |-> 2,
    sequence |-> 1, ends |-> {"cancelled"}],
   [jobs |-> {j0, j3, j4}, request |-> worker, nodes |-> {n1}, leases |-> 2,
    sequence |-> 1, ends |-> TerminalState]}
  \cup {[jobs |-> {}, request |-> r, nodes |-> {}, leases |-> 0,
         sequence |-> 0, ends |-> {}] :
           r \in Request \ {worker}}

\* While a request is carried out its node stays, its leases last and its jobs
\* only report how they end: what else may happen to a job is in the others.
Calm ==
  scenario.request # None =>
    /\ \A n \in Node : nodes[n] = "schedulable" => nodes'[n] = "schedulable"
    /\ \A l \in DOMAIN leases : ~leases'[l].expired
    /\ \A j \in Job : \A i \in DOMAIN events'[j] : events'[j][i].state \in TerminalState

\* What may happen in the scenario: which jobs there are, who asks for what,
\* which nodes serve, how far the counters go.
InScenario ==
  /\ \A j \in Job : Exists(j) => j \in scenario.jobs
  /\ \A r \in Request : r # scenario.request => calls[r].pc = "idle"
  /\ \A n \in Node : nodes[n] = "schedulable" => n \in scenario.nodes
  /\ Len(leases) <= scenario.leases
  /\ \A j \in Job : \A i \in DOMAIN events[j] :
       /\ events[j][i].sequence <= scenario.sequence
       /\ events[j][i].state \in ProgressState \cup scenario.ends

MCInit == RInit /\ scenario \in Scenarios
MCNext == RNext /\ UNCHANGED scenario /\ InScenario' /\ Calm
MCSpec == MCInit /\ [][MCNext]_<<rvars, scenario>>

\* No guard reads the quarantine: outside the scenario of two revisions, states
\* that differ in it alone are one.
WithoutQuarantine ==
  <<jobs, submitted, idempotency, authority, leases, events, nodes, revalidation, scenario,
    IF j1 \in scenario.jobs THEN quarantine ELSE {}>>
=============================================================================
