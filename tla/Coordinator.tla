---------------------------- MODULE Coordinator ----------------------------
(***************************************************************************)
(* The job side of WorkerCoordinator (coordinator.py): submission under an *)
(* idempotency key, the Goal revision authority, scheduling, job leases,   *)
(* the worker's event stream, cancellation, expiry recovery and node       *)
(* revocation.  Every action is one whole handler, run to completion: the  *)
(* asyncio listener never suspends inside a handler.  What two PROCESSES   *)
(* on the same store do to each other inside a handler is the subject of   *)
(* TerminalCommit.                                                         *)
(*                                                                         *)
(* Abstractions.  The clock is reduced to what the handlers compare it     *)
(* with: a lease is expired or not (LeaseExpires is time passing), and a   *)
(* renewal is invisible because only an unexpired lease is renewed.  A     *)
(* lease id is its index in the order of issue.  A worker event carries a  *)
(* fresh id and echoes the lease's own Goal binding, so an event IS its    *)
(* identity and a resubmission is the same record again.  A revoked node,  *)
(* like every other that is not schedulable, is "away".  Refusals that     *)
(* only leave an audit line are not actions.  Of a quarantine entry its    *)
(* lease is kept and whether it holds an event or only the lease.  Model   *)
(* grants, artifacts and receipts are records of their own, not kept here. *)
(***************************************************************************)
EXTENDS Naturals, Sequences

CONSTANTS
  Node,            \* worker nodes
  Job,             \* job ids
  Key,             \* idempotency keys
  Goal,            \* Goal ids
  Manifest,        \* the manifests hosts may submit
  ProgressState,   \* the non-terminal states workers report
  TerminalState,   \* TERMINAL_JOB_STATES
  None,            \* absent value
  HostCancel,      \* the terminal id cancel_job invents for a queued job
  MaxRevision,     \* bound: largest Goal revision
  MaxLeases,       \* bound: leases ever issued
  MaxSequence      \* bound: largest event sequence number

\* retry_policy is kept as the two facts the handlers read from it: may_retry is
\* "retry_safe and not external_side_effects".  hashed_by are the nodes whose
\* client computes the manifest hash and Goal binding that the lease carries.
ManifestType ==
  [job : Job, key : Key, goal : Goal \cup {None}, rev : Nat,
   max_attempts : Nat, may_retry : BOOLEAN,
   supported_by : SUBSET Node, preferred_by : SUBSET Node, hashed_by : SUBSET Node]

\* A host gives every manifest its own job id.  What happens to a job id that
\* is submitted again under another key is not this module's subject.
ASSUME ManifestAssumption ==
  /\ Manifest \subseteq ManifestType
  /\ \A m \in Manifest : m.goal # None => m.rev > 0
  /\ \A m1, m2 \in Manifest : m1.job = m2.job => m1 = m2
ASSUME BoundsAssumption ==
  MaxRevision \in Nat /\ MaxLeases \in Nat /\ MaxSequence \in Nat

EventState == ProgressState \cup TerminalState
HostState == {"absent", "queued", "leased", "stale", "waiting_review"}
EventType == [lease : Nat \ {0}, sequence : Nat, state : EventState]

\* The states the worker client sends are none of the host's own.
ASSUME NamesAssumption ==
  /\ TerminalState \cap ProgressState = {}
  /\ HostState \cap EventState = {}
  /\ "cancelled" \in TerminalState
  /\ None \notin Goal \cup Node \cup Manifest
  /\ None # HostCancel /\ None \notin EventType /\ HostCancel \notin EventType

NoLease == 0

LeaseType ==
  [job : Job, node : Node, attempt : Nat, acknowledged : BOOLEAN, expired : BOOLEAN]

JobType ==
  [manifest : Manifest \cup {None}, status : HostState \cup EventState,
   attempt : Nat, node : Node \cup {None}, lease : Nat,
   terminal : EventType \cup {None, HostCancel}, cancel : BOOLEAN]

NoJob ==
  [manifest |-> None, status |-> "absent", attempt |-> 0, node |-> None,
   lease |-> NoLease, terminal |-> None, cancel |-> FALSE]

VARIABLES
  jobs,         \* collection "jobs": job id -> record
  submitted,    \* the job ids in the order of their created_at
  idempotency,  \* collection "idempotency": key -> manifest first submitted
  authority,    \* collection "goal_revisions": Goal -> revision, 0 if none
  leases,       \* collection "leases", in order of issue
  events,       \* collection "events": job id -> event log
  quarantine,   \* collection "quarantine": lease and kind of each entry
  nodes         \* the schedulability of each node record

vars == <<jobs, submitted, idempotency, authority, leases, events, quarantine, nodes>>

TypeOK ==
  /\ jobs \in [Job -> JobType]
  /\ submitted \in Seq(Job)
  /\ idempotency \in [Key -> Manifest \cup {None}]
  /\ authority \in [Goal -> Nat]
  /\ leases \in Seq(LeaseType)
  /\ events \in [Job -> Seq(EventType)]
  /\ quarantine \subseteq (DOMAIN leases) \X {"event", "lease"}
  /\ nodes \in [Node -> {"schedulable", "away"}]

Init ==
  /\ jobs = [j \in Job |-> NoJob]
  /\ submitted = <<>>
  /\ idempotency = [k \in Key |-> None]
  /\ authority = [g \in Goal |-> 0]
  /\ leases = <<>>
  /\ events = [j \in Job |-> <<>>]
  /\ quarantine = {}
  /\ nodes = [n \in Node |-> "away"]

-----------------------------------------------------------------------------
(* Helpers the handlers share.                                             *)

Exists(j) == jobs[j].status # "absent"
Terminal(j) == jobs[j].terminal # None

\* _authorized_goal_revision: the watermark, or the binding's own revision
\* when the host never recorded one.
authorized_goal_revision(m) ==
  IF m.goal = None THEN m.rev
  ELSE IF authority[m.goal] = 0 THEN m.rev ELSE authority[m.goal]

StaleRevision(m) == m.goal # None /\ m.rev # authorized_goal_revision(m)

\* The job collection once job j has given up its lease.
Released(j, status) ==
  [jobs EXCEPT ![j] = [@ EXCEPT !.status = status, !.node = None, !.lease = NoLease]]

RequeueStatus(j) == IF StaleRevision(jobs[j].manifest) THEN "stale" ELSE "queued"

\* Faults of requeue_expired: any lease of the job may requeue it; a finished
\* job is requeued; a superseded job is queued again.
requeue_expired_any_lease(l) ==
  LET j == leases[l].job IN IF Terminal(j) THEN jobs ELSE Released(j, RequeueStatus(j))
requeue_expired_terminal(l) ==
  LET j == leases[l].job
  IN IF jobs[j].lease # l THEN jobs ELSE Released(j, RequeueStatus(j))
requeue_expired_unfenced(l) ==
  LET j == leases[l].job
  IN IF Terminal(j) \/ jobs[j].lease # l THEN jobs ELSE Released(j, "queued")

\* _requeue_expired, as the job collection it leaves: nothing happens unless
\* the lease is still the job's and the job is open.  The retry policy is
\* not consulted.
requeue_expired(l) ==
  LET j == leases[l].job
  IN IF Terminal(j) \/ jobs[j].lease # l THEN jobs ELSE Released(j, RequeueStatus(j))

\* The job collection after the fencing loop of authorize_goal_revision.
Fenced(g, r) ==
  [j \in Job |->
     IF Exists(j) /\ jobs[j].manifest.goal = g /\ jobs[j].manifest.rev < r /\ ~Terminal(j)
     THEN [jobs[j] EXCEPT !.status = "stale", !.cancel = TRUE]
     ELSE jobs[j]]

-----------------------------------------------------------------------------
(* Host operations.                                                        *)

authorize_goal_revision(g, r) ==
  /\ r >= authority[g]
  /\ authority' = [authority EXCEPT ![g] = r]
  /\ jobs' = IF r > authority[g] THEN Fenced(g, r) ELSE jobs
  /\ UNCHANGED <<submitted, idempotency, leases, events, quarantine, nodes>>

\* A known key returns the existing job, or refuses another manifest: either
\* way nothing is written.  submit_job acts only where the key resolves to no
\* job, and only at a revision that is not behind the authority.
Admissible(m) ==
  /\ idempotency[m.key] # None => ~Exists(idempotency[m.key].job)
  /\ m.goal # None => m.rev >= authority[m.goal]

RaisesRevision(m) == m.goal # None /\ m.rev > authority[m.goal]

AuthorityAfterSubmit(m) ==
  IF RaisesRevision(m) THEN [authority EXCEPT ![m.goal] = m.rev] ELSE authority
JobsAfterSubmit(m) ==
  IF RaisesRevision(m) THEN Fenced(m.goal, m.rev) ELSE jobs

submit_job(m) ==
  /\ Admissible(m)
  /\ authority' = AuthorityAfterSubmit(m)
  /\ jobs' = [JobsAfterSubmit(m) EXCEPT ![m.job] =
                [NoJob EXCEPT !.manifest = m, !.status = "queued"]]
  /\ submitted' = Append(submitted, m.job)
  /\ idempotency' = [idempotency EXCEPT ![m.key] = m]
  /\ UNCHANGED <<leases, events, quarantine, nodes>>

\* _validate_inputs raises after the revision was already authorized: the
\* submission is refused but its fence stays.
submit_job_bad_inputs(m) ==
  /\ Admissible(m)
  /\ RaisesRevision(m)
  /\ authority' = AuthorityAfterSubmit(m)
  /\ jobs' = JobsAfterSubmit(m)
  /\ UNCHANGED <<submitted, idempotency, leases, events, quarantine, nodes>>

cancel_job(j) ==
  /\ Exists(j) /\ ~Terminal(j)
  /\ jobs' = [jobs EXCEPT ![j] =
       IF @.status = "queued"
       THEN [@ EXCEPT !.cancel = TRUE, !.status = "cancelled", !.terminal = HostCancel]
       ELSE [@ EXCEPT !.cancel = TRUE]]
  /\ UNCHANGED <<submitted, idempotency, authority, leases, events, quarantine, nodes>>

\* One pass over every expired lease a job still holds; unlike
\* requeue_expired it honours the retry policy.
LostLease(j) ==
  ~Terminal(j) /\ jobs[j].lease # NoLease /\ leases[jobs[j].lease].expired

RecoveredStatus(j) ==
  LET m == jobs[j].manifest
  IN IF StaleRevision(m) THEN "stale"
     ELSE IF m.may_retry /\ jobs[j].attempt < m.max_attempts
          THEN "queued" ELSE "waiting_review"

recover_expired_leases ==
  /\ \E j \in Job : LostLease(j)
  /\ jobs' = [j \in Job |->
       IF LostLease(j)
       THEN [jobs[j] EXCEPT !.status = RecoveredStatus(j), !.node = None, !.lease = NoLease]
       ELSE jobs[j]]
  /\ UNCHANGED <<submitted, idempotency, authority, leases, events, quarantine, nodes>>

\* Jobs the node still owns go to human review and lose their lease.
revoke_node(n) ==
  /\ nodes' = [nodes EXCEPT ![n] = "away"]
  /\ jobs' = [j \in Job |->
       IF jobs[j].node = n /\ ~Terminal(j)
       THEN [jobs[j] EXCEPT !.status = "waiting_review", !.node = None, !.lease = NoLease]
       ELSE jobs[j]]
  /\ UNCHANGED <<submitted, idempotency, authority, leases, events, quarantine>>

\* Everything else that writes a node record: connect, disconnect, heartbeat,
\* drain, update and re-import.  Some of them bring a revoked node back, so
\* any of them may happen at any time.
node_changes(n, s) ==
  /\ s # nodes[n]
  /\ nodes' = [nodes EXCEPT ![n] = s]
  /\ UNCHANGED <<jobs, submitted, idempotency, authority, leases, events, quarantine>>

-----------------------------------------------------------------------------
(* Scheduling.                                                             *)

\* choose_node ranks by preferred labels first; load, disk and node id only
\* break ties, and any of them may be what they need to be.
choose_node(m) ==
  LET able == {n \in m.supported_by : nodes[n] = "schedulable"}
      best == able \cap m.preferred_by
  IN IF best # {} THEN best ELSE able

Leasable(j, n) ==
  /\ jobs[j].status = "queued"
  /\ ~StaleRevision(jobs[j].manifest)
  /\ n \in choose_node(jobs[j].manifest)

Before(k, j) ==
  \E a, b \in DOMAIN submitted : a < b /\ submitted[a] = k /\ submitted[b] = j

\* Fault: the attempt is counted in the lease only.
JobsAfterLease_same_attempt(j, n) ==
  [jobs EXCEPT ![j] = [@ EXCEPT !.status = "leased", !.node = n, !.lease = Len(leases) + 1]]

\* The job collection after _lease_next_locked gave j to n: queued jobs of a
\* stale revision met on the way are marked.
JobsAfterLease(j, n) ==
  [k \in Job |->
     IF k = j
     THEN [jobs[j] EXCEPT !.status = "leased", !.attempt = @ + 1,
                          !.node = n, !.lease = Len(leases) + 1]
     ELSE IF jobs[k].status = "queued" /\ StaleRevision(jobs[k].manifest) /\ Before(k, j)
     THEN [jobs[k] EXCEPT !.status = "stale"]
     ELSE jobs[k]]

\* The oldest job for which this node is the choice.
lease_next(n) ==
  /\ nodes[n] = "schedulable"
  /\ Len(leases) < MaxLeases
  /\ \E j \in Job :
       /\ Leasable(j, n)
       /\ \A k \in Job : Leasable(k, n) /\ Before(k, j)
                           => choose_node(jobs[k].manifest) # {n}
       /\ leases' = Append(leases,
            [job |-> j, node |-> n, attempt |-> jobs[j].attempt + 1,
             acknowledged |-> FALSE, expired |-> FALSE])
       /\ jobs' = JobsAfterLease(j, n)
  /\ UNCHANGED <<submitted, idempotency, authority, events, quarantine, nodes>>

-----------------------------------------------------------------------------
(* The worker's side of a lease.                                           *)

\* The clock passes expires_at.
LeaseExpires(l) ==
  /\ ~leases[l].expired
  /\ leases' = [leases EXCEPT ![l].expired = TRUE]
  /\ UNCHANGED <<jobs, submitted, idempotency, authority, events, quarantine, nodes>>

\* A job's manifest never changes, so the copy of its revision that the lease
\* carries is the job's own.
ManifestOf(l) == jobs[leases[l].job].manifest

\* What the worker echoes depends on its client only: a node that misreads a
\* manifest misreads it every time.
EchoMatches(l) == leases[l].node \in ManifestOf(l).hashed_by

\* _quarantine_lease_submission, and the entries _record_event appends.
Quarantine(l, kind) == quarantine' = quarantine \cup {<<l, kind>>}

\* Whether the job still holds the lease is not asked.
acknowledge_lease(l) ==
  /\ \/ /\ leases[l].expired \/ ~EchoMatches(l)
        /\ jobs' = requeue_expired(l)
        /\ UNCHANGED <<leases, quarantine>>
     \/ /\ ~leases[l].expired /\ EchoMatches(l) /\ StaleRevision(ManifestOf(l))
        /\ jobs' = requeue_expired(l)
        /\ Quarantine(l, "lease")
        /\ UNCHANGED leases
     \/ /\ ~leases[l].expired /\ EchoMatches(l) /\ ~StaleRevision(ManifestOf(l))
        /\ leases' = [leases EXCEPT ![l].acknowledged = TRUE]
        /\ UNCHANGED <<jobs, quarantine>>
  /\ UNCHANGED <<submitted, idempotency, authority, events, nodes>>

\* Renewal of a live lease and the refusal of an unacknowledged one change
\* nothing here.
heartbeat_lease(l) ==
  /\ \/ /\ StaleRevision(ManifestOf(l))
        /\ Quarantine(l, "lease")
        /\ UNCHANGED jobs
     \/ /\ ~StaleRevision(ManifestOf(l))
        /\ leases[l].acknowledged /\ leases[l].expired
        /\ jobs' = requeue_expired(l)
        /\ UNCHANGED quarantine
  /\ UNCHANGED <<submitted, idempotency, authority, leases, events, nodes>>

\* The checks of _record_event, in the order they are made.
JobOf(ev) == leases[ev.lease].job

WrongRevision(ev) == StaleRevision(ManifestOf(ev.lease))

ForeignLease(ev) ==
  LET job == jobs[JobOf(ev)]
  IN \/ job.lease # ev.lease
     \/ job.node # leases[ev.lease].node
     \/ job.attempt # leases[ev.lease].attempt

Duplicate(ev) == \E i \in DOMAIN events[JobOf(ev)] : events[JobOf(ev)][i] = ev

\* Fault: a repeated sequence number is let through.
OutOfSequence_strict(ev) ==
  \E i \in DOMAIN events[JobOf(ev)] :
    /\ leases[events[JobOf(ev)][i].lease].attempt = leases[ev.lease].attempt
    /\ ev.sequence < events[JobOf(ev)][i].sequence

OutOfSequence(ev) ==
  \E i \in DOMAIN events[JobOf(ev)] :
    /\ leases[events[JobOf(ev)][i].lease].attempt = leases[ev.lease].attempt
    /\ ev.sequence <= events[JobOf(ev)][i].sequence

record_event_quarantined(ev) ==
  /\ WrongRevision(ev) \/ ForeignLease(ev)
  /\ Quarantine(ev.lease, "event")
  /\ UNCHANGED <<jobs, submitted, idempotency, authority, leases, events, nodes>>

record_event_unacknowledged(ev) ==
  /\ ~WrongRevision(ev) /\ ~ForeignLease(ev) /\ ~Duplicate(ev)
  /\ ~leases[ev.lease].acknowledged
  /\ Quarantine(ev.lease, "lease")
  /\ UNCHANGED <<jobs, submitted, idempotency, authority, leases, events, nodes>>

record_event_expired(ev) ==
  /\ ~WrongRevision(ev) /\ ~ForeignLease(ev) /\ ~Duplicate(ev)
  /\ leases[ev.lease].acknowledged /\ leases[ev.lease].expired
  /\ Quarantine(ev.lease, "lease")
  /\ jobs' = requeue_expired(ev.lease)
  /\ UNCHANGED <<submitted, idempotency, authority, leases, events, nodes>>

Accepts(ev) ==
  /\ ~WrongRevision(ev) /\ ~ForeignLease(ev) /\ ~Duplicate(ev)
  /\ leases[ev.lease].acknowledged /\ ~leases[ev.lease].expired
  /\ ~OutOfSequence(ev)

\* job.get("terminal_event_id") raises "already has a valid terminal event".
StillOpen(j) == ~Terminal(j)

WithEvent(j, ev) ==
  IF ev.state \in TerminalState
  THEN [jobs[j] EXCEPT !.status = ev.state, !.terminal = ev]
  ELSE [jobs[j] EXCEPT !.status = ev.state]

\* A terminal event whose artifacts are not all verified is refused too, which
\* is the case in which this action is not taken.
record_event(ev) ==
  LET j == JobOf(ev)
  IN /\ Accepts(ev) /\ StillOpen(j)
     /\ events' = [events EXCEPT ![j] = Append(@, ev)]
     /\ jobs' = [jobs EXCEPT ![j] = WithEvent(j, ev)]
     /\ UNCHANGED <<submitted, idempotency, authority, leases, quarantine, nodes>>

-----------------------------------------------------------------------------
Events == [lease : DOMAIN leases, sequence : 1..MaxSequence, state : EventState]

HostStep ==
  \/ \E m \in Manifest : submit_job(m) \/ submit_job_bad_inputs(m)
  \/ \E g \in Goal, r \in 1..MaxRevision : authorize_goal_revision(g, r)
  \/ \E j \in Job : cancel_job(j)
  \/ recover_expired_leases
  \/ \E n \in Node : revoke_node(n)

WorkerStep ==
  \/ \E n \in Node, s \in {"schedulable", "away"} : node_changes(n, s)
  \/ \E n \in Node : lease_next(n)
  \/ \E l \in DOMAIN leases :
       acknowledge_lease(l) \/ heartbeat_lease(l) \/ LeaseExpires(l)
  \/ \E ev \in Events :
       \/ record_event(ev) \/ record_event_quarantined(ev)
       \/ record_event_unacknowledged(ev) \/ record_event_expired(ev)

Next == HostStep \/ WorkerStep

Spec == Init /\ [][Next]_vars

-----------------------------------------------------------------------------
(* Properties.                                                             *)

\* A job that holds a lease holds the newest lease ever issued for it, and the
\* two records agree on node and attempt; a job without one names no node.
\* This is what makes the three comparisons of _record_event a fence.
LeaseOwnership ==
  \A j \in Job :
    IF jobs[j].lease = NoLease
    THEN jobs[j].node = None
    ELSE /\ jobs[j].lease \in DOMAIN leases
         /\ leases[jobs[j].lease].job = j
         /\ leases[jobs[j].lease].node = jobs[j].node
         /\ leases[jobs[j].lease].attempt = jobs[j].attempt
         /\ \A l \in DOMAIN leases : leases[l].job = j => l <= jobs[j].lease

\* Two workers never execute one job at a time: a second lease is issued only
\* after every acknowledged earlier one has expired, however late or often the
\* old holder's messages arrive.
NoDoubleExecution ==
  \A l1, l2 \in DOMAIN leases :
    l1 < l2 /\ leases[l1].job = leases[l2].job /\ leases[l1].acknowledged
      => leases[l1].expired

\* The terminal state a job reports is the one terminal event of its log, the
\* last entry of it, or the host's own cancellation and then no worker event.
TerminalAgreement ==
  \A j \in Job : Exists(j) =>
    /\ \A i \in DOMAIN events[j] :
         events[j][i].state \in TerminalState
           => i = Len(events[j]) /\ jobs[j].terminal = events[j][i]
    /\ jobs[j].terminal \in EventType
         => /\ events[j] # <<>> /\ events[j][Len(events[j])] = jobs[j].terminal
            /\ jobs[j].status = jobs[j].terminal.state

\* Once a job is terminal its record and its log never change again: no late
\* event, expiry, revocation, fence or cancellation reopens it.  Only the
\* rollback of a revalidation batch may remove it.
TerminalStable ==
  [][\A j \in Job :
       Terminal(j) /\ Exists(j)' => jobs'[j] = jobs[j] /\ events'[j] = events[j]]_vars

\* An open job of a superseded Goal revision is never runnable: whatever order
\* of expiry, acknowledgement, revocation and authorization brought it here,
\* it is stale or under review, and its worker is told to stop.
SupersededFenced ==
  \A j \in Job :
    Exists(j) /\ ~Terminal(j) /\ StaleRevision(jobs[j].manifest)
      => jobs[j].status \in {"stale", "waiting_review"} /\ jobs[j].cancel

\* Once an event was refused for its revision or its lease, no event of that
\* lease is recorded any more: a refusal is never undone by a later change of
\* authority or ownership.
QuarantineFinal ==
  [][\A j \in Job :
       Len(events'[j]) > Len(events[j])
         => <<events'[j][Len(events'[j])].lease, "event">> \notin quarantine]_vars

\* The log of a job is ordered by attempt and, within one attempt, by strictly
\* increasing sequence numbers: late events of an older attempt never follow
\* those of a newer one.
LogOrdered ==
  \A j \in Job : \A i, k \in DOMAIN events[j] :
    i < k => LET a == leases[events[j][i].lease].attempt
                 b == leases[events[j][k].lease].attempt
             IN a < b \/ (a = b /\ events[j][i].sequence < events[j][k].sequence)

\* What the host's recovery does for every job, the worker-driven requeues
\* ought to do too: a job that must not be retried is executed by at most one
\* acknowledged lease.
SideEffectsNotRetried ==
  \A l1, l2 \in DOMAIN leases :
    l1 < l2 /\ leases[l1].job = leases[l2].job /\ leases[l1].acknowledged
      => jobs[leases[l1].job].manifest.may_retry

\* The log of a job is the one account of it: ordered through all attempts, and
\* closed by the very event that decided the job.
LogAgrees == LogOrdered /\ TerminalAgreement

\* What was decided stays decided: a terminal job, and the refusal of an event.
DecisionsFinal == TerminalStable /\ QuarantineFinal
=============================================================================
