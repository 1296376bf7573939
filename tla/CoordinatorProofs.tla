------------------------- MODULE CoordinatorProofs -------------------------
(***************************************************************************)
(* Proofs about Coordinator, for any nodes, jobs, Goals and manifests and  *)
(* without the bounds that TLC needs, and about Revalidation on top of it. *)
(***************************************************************************)
EXTENDS Revalidation, WellFoundedInduction, FiniteSetTheorems, TLAPS

JobsType == [Job -> JobType]

\* The record an absent job is given is a job record.
LEMMA NoJobType == NoJob \in JobType
BY DEF NoJob, JobType, HostState, NoLease

\* Replacing one element keeps a sequence a sequence.
LEMMA SeqUpdate ==
  ASSUME NEW S, NEW q \in Seq(S), NEW i \in DOMAIN q, NEW v \in S
  PROVE  [q EXCEPT ![i] = v] \in Seq(S) /\ DOMAIN [q EXCEPT ![i] = v] = DOMAIN q
OBVIOUS

\* A lease index names a lease of some job.
LEMMA LeaseFields ==
  ASSUME TypeOK, NEW l \in DOMAIN leases
  PROVE  leases[l] \in LeaseType /\ leases[l].job \in Job
<1>1. leases[l] \in LeaseType
  BY DEF TypeOK
<1> QED BY <1>1 DEF LeaseType

\* Giving up a lease keeps the record's type and all but three fields.
LEMMA ReleasedType ==
  ASSUME NEW j \in Job, NEW s \in HostState, jobs \in JobsType
  PROVE  Released(j, s) \in JobsType
<1>1. jobs[j] \in JobType
  BY DEF JobsType
<1>2. [jobs[j] EXCEPT !.status = s, !.node = None, !.lease = NoLease] \in JobType
  BY <1>1 DEF JobType, NoLease
<1> QED BY <1>2 DEF Released, JobsType

\* requeue_expired keeps the type of the job collection.
LEMMA RequeueType ==
  ASSUME TypeOK, NEW l \in DOMAIN leases
  PROVE  requeue_expired(l) \in JobsType
<1>1. leases[l].job \in Job /\ jobs \in JobsType
  BY LeaseFields DEF TypeOK, JobsType
<1>2. RequeueStatus(leases[l].job) \in HostState
  BY DEF RequeueStatus, HostState
<1> QED BY <1>1, <1>2, ReleasedType DEF requeue_expired

\* So does the fencing loop.
LEMMA FencedType ==
  ASSUME jobs \in JobsType, NEW g, NEW r
  PROVE  Fenced(g, r) \in JobsType
<1>1. ASSUME NEW j \in Job PROVE [jobs[j] EXCEPT !.status = "stale", !.cancel = TRUE] \in JobType
  <2>1. jobs[j] \in JobType
    BY DEF JobsType
  <2> QED BY <2>1 DEF JobType, HostState
<1> QED BY <1>1 DEF Fenced, JobsType

\* TypeOK holds initially.
LEMMA InitTypeOK == Init => TypeOK
<1> SUFFICES ASSUME Init PROVE TypeOK
  OBVIOUS
<1>1. jobs \in [Job -> JobType]
  BY NoJobType DEF Init
<1> QED BY <1>1 DEF Init, TypeOK

\* Host operations keep it.
LEMMA HostTypeOK == ASSUME TypeOK, HostStep PROVE TypeOK'
<1>0. jobs \in JobsType
  BY DEF TypeOK, JobsType
<1>1. ASSUME NEW m \in Manifest, submit_job(m) \/ submit_job_bad_inputs(m) PROVE TypeOK'
  <2>1. m.job \in Job /\ m.key \in Key /\ m.goal \in Goal \cup {None} /\ m.rev \in Nat
    BY ManifestAssumption DEF ManifestType
  <2>2. authority' \in [Goal -> Nat]
    BY <1>1, <2>1 DEF TypeOK, submit_job, submit_job_bad_inputs, AuthorityAfterSubmit, RaisesRevision
  <2>3. JobsAfterSubmit(m) \in JobsType
    BY <1>0, FencedType DEF JobsAfterSubmit
  <2>4. [NoJob EXCEPT !.manifest = m, !.status = "queued"] \in JobType
    BY NoJobType DEF JobType, HostState
  <2>5. jobs' \in JobsType
    BY <1>1, <2>1, <2>3, <2>4 DEF JobsType, submit_job, submit_job_bad_inputs
  <2>6. submitted' \in Seq(Job)
    <3>1. submitted' = submitted \/ submitted' = Append(submitted, m.job)
      BY <1>1 DEF submit_job, submit_job_bad_inputs
    <3>2. submitted \in Seq(Job)
      BY DEF TypeOK
    <3> QED BY <2>1, <3>1, <3>2
  <2>7. idempotency' \in [Key -> Manifest \cup {None}]
    BY <1>1, <2>1 DEF TypeOK, submit_job, submit_job_bad_inputs
  <2> QED BY <1>1, <2>2, <2>5, <2>6, <2>7 DEF TypeOK, JobsType, submit_job, submit_job_bad_inputs
<1>2. ASSUME NEW g \in Goal, NEW r \in 1..MaxRevision, authorize_goal_revision(g, r) PROVE TypeOK'
  <2>1. jobs' \in JobsType
    BY <1>0, <1>2, FencedType DEF authorize_goal_revision
  <2>2. r \in Nat
    BY BoundsAssumption
  <2> QED BY <1>2, <2>1, <2>2 DEF TypeOK, JobsType, authorize_goal_revision
<1>3. ASSUME NEW j \in Job, cancel_job(j) PROVE TypeOK'
  <2>1. jobs[j] \in JobType
    BY DEF TypeOK
  <2>2. [jobs[j] EXCEPT !.cancel = TRUE, !.status = "cancelled", !.terminal = HostCancel] \in JobType
    BY <2>1, NamesAssumption DEF JobType, EventState
  <2>3. [jobs[j] EXCEPT !.cancel = TRUE] \in JobType
    BY <2>1 DEF JobType
  <2>4. jobs' \in JobsType
    BY <1>0, <1>3, <2>2, <2>3 DEF JobsType, cancel_job
  <2> QED BY <1>3, <2>4 DEF TypeOK, JobsType, cancel_job
<1>4. CASE recover_expired_leases
  <2>1. ASSUME NEW j \in Job
        PROVE  [jobs[j] EXCEPT !.status = RecoveredStatus(j), !.node = None, !.lease = NoLease] \in JobType
    <3>1. RecoveredStatus(j) \in HostState
      BY DEF RecoveredStatus, HostState
    <3>2. jobs[j] \in JobType
      BY DEF TypeOK
    <3> QED BY <3>1, <3>2 DEF JobType, NoLease
  <2>2. jobs' \in JobsType
    BY <1>0, <1>4, <2>1 DEF JobsType, recover_expired_leases
  <2> QED BY <1>4, <2>2 DEF TypeOK, JobsType, recover_expired_leases
<1>5. ASSUME NEW n \in Node, revoke_node(n) PROVE TypeOK'
  <2>1. ASSUME NEW j \in Job
        PROVE  [jobs[j] EXCEPT !.status = "waiting_review", !.node = None, !.lease = NoLease] \in JobType
    <3>1. jobs[j] \in JobType
      BY DEF TypeOK
    <3> QED BY <3>1 DEF JobType, NoLease, HostState
  <2>2. jobs' \in JobsType
    BY <1>0, <1>5, <2>1 DEF JobsType, revoke_node
  <2> QED BY <1>5, <2>2 DEF TypeOK, JobsType, revoke_node
<1> QED BY <1>1, <1>2, <1>3, <1>4, <1>5 DEF HostStep

\* Worker messages and the clock keep it.
LEMMA WorkerTypeOK == ASSUME TypeOK, WorkerStep PROVE TypeOK'
<1>0. jobs \in JobsType
  BY DEF TypeOK, JobsType
<1>1. ASSUME NEW n \in Node, NEW s \in {"schedulable", "away"}, node_changes(n, s) PROVE TypeOK'
  BY <1>1 DEF TypeOK, node_changes
<1>2. ASSUME NEW n \in Node, lease_next(n) PROVE TypeOK'
  <2>1. PICK j \in Job :
          /\ leases' = Append(leases,
               [job |-> j, node |-> n, attempt |-> jobs[j].attempt + 1,
                acknowledged |-> FALSE, expired |-> FALSE])
          /\ jobs' = JobsAfterLease(j, n)
    BY <1>2 DEF lease_next
  <2>2. jobs[j] \in JobType /\ jobs[j].attempt + 1 \in Nat /\ Len(leases) + 1 \in Nat
    <3>1. jobs[j] \in JobType /\ Len(leases) \in Nat
      BY DEF TypeOK
    <3> QED BY <3>1 DEF JobType
  <2>3. leases' \in Seq(LeaseType) /\ DOMAIN leases \subseteq DOMAIN leases'
    <3>1. [job |-> j, node |-> n, attempt |-> jobs[j].attempt + 1,
           acknowledged |-> FALSE, expired |-> FALSE] \in LeaseType
      BY <2>2 DEF LeaseType
    <3> QED BY <2>1, <3>1 DEF TypeOK
  <2>4. [jobs[j] EXCEPT !.status = "leased", !.attempt = @ + 1,
                        !.node = n, !.lease = Len(leases) + 1] \in JobType
    BY <2>2 DEF JobType, HostState
  <2>5. ASSUME NEW k \in Job PROVE [jobs[k] EXCEPT !.status = "stale"] \in JobType
    <3>1. jobs[k] \in JobType
      BY DEF TypeOK
    <3> QED BY <3>1 DEF JobType, HostState
  <2>6. jobs' \in JobsType
    BY <1>0, <2>1, <2>4, <2>5 DEF JobsType, JobsAfterLease
  <2>7. quarantine' \subseteq (DOMAIN leases') \X {"event", "lease"}
    BY <1>2, <2>3 DEF TypeOK, lease_next
  <2> QED BY <1>2, <2>3, <2>6, <2>7 DEF TypeOK, JobsType, lease_next
<1>3. ASSUME NEW l \in DOMAIN leases, acknowledge_lease(l) PROVE TypeOK'
  <2>1. jobs' \in JobsType
    BY <1>0, <1>3, RequeueType DEF acknowledge_lease
  <2>2. leases' \in Seq(LeaseType) /\ DOMAIN leases' = DOMAIN leases
    <3> DEFINE new == [leases[l] EXCEPT !.acknowledged = TRUE]
    <3>1. new \in LeaseType
      BY LeaseFields DEF LeaseType
    <3>2. leases' = leases \/ leases' = [leases EXCEPT ![l] = new]
      BY <1>3 DEF acknowledge_lease
    <3>3. leases \in Seq(LeaseType)
      BY DEF TypeOK
    <3> HIDE DEF new
    <3> QED BY <3>1, <3>2, <3>3, SeqUpdate
  <2>3. quarantine' \subseteq (DOMAIN leases') \X {"event", "lease"}
    BY <1>3, <2>2 DEF TypeOK, acknowledge_lease, Quarantine
  <2> QED BY <1>3, <2>1, <2>2, <2>3 DEF TypeOK, JobsType, acknowledge_lease
<1>4. ASSUME NEW l \in DOMAIN leases, heartbeat_lease(l) PROVE TypeOK'
  <2>1. jobs' \in JobsType
    BY <1>0, <1>4, RequeueType DEF heartbeat_lease
  <2>2. quarantine' \subseteq (DOMAIN leases') \X {"event", "lease"}
    BY <1>4 DEF TypeOK, heartbeat_lease, Quarantine
  <2> QED BY <1>4, <2>1, <2>2 DEF TypeOK, JobsType, heartbeat_lease
<1>5. ASSUME NEW l \in DOMAIN leases, LeaseExpires(l) PROVE TypeOK'
  <2>1. [leases[l] EXCEPT !.expired = TRUE] \in LeaseType
    BY LeaseFields DEF LeaseType
  <2>2. leases' \in Seq(LeaseType) /\ DOMAIN leases' = DOMAIN leases
    BY <1>5, <2>1 DEF TypeOK, LeaseExpires
  <2> QED BY <1>5, <2>2 DEF TypeOK, LeaseExpires
<1>6. ASSUME NEW ev \in Events, record_event(ev) PROVE TypeOK'
  <2> DEFINE j == JobOf(ev)
  <2>1. ev \in EventType /\ j \in Job
    <3>1. ev.lease \in DOMAIN leases /\ ev \in EventType
      BY BoundsAssumption DEF Events, EventType, TypeOK
    <3> QED BY <3>1, LeaseFields DEF JobOf
  <2>2. WithEvent(j, ev) \in JobType
    <3>1. jobs[j] \in JobType /\ ev.state \in EventState
      BY <2>1 DEF TypeOK, EventType
    <3> QED BY <2>1, <3>1 DEF JobType, WithEvent
  <2>3. jobs' \in JobsType
    <3>1. jobs' = [jobs EXCEPT ![j] = WithEvent(j, ev)]
      BY <1>6 DEF record_event
    <3> QED BY <1>0, <2>1, <2>2, <3>1 DEF JobsType
  <2>4. events' \in [Job -> Seq(EventType)]
    BY <1>6, <2>1 DEF TypeOK, record_event
  <2> QED BY <1>6, <2>3, <2>4 DEF TypeOK, JobsType, record_event
<1>7. ASSUME NEW ev \in Events, record_event_quarantined(ev) \/ record_event_unacknowledged(ev)
      PROVE  TypeOK'
  <2>1. ev.lease \in DOMAIN leases
    BY DEF Events
  <2> QED BY <1>7, <2>1
        DEF TypeOK, record_event_quarantined, record_event_unacknowledged, Quarantine
<1>8. ASSUME NEW ev \in Events, record_event_expired(ev) PROVE TypeOK'
  <2>1. ev.lease \in DOMAIN leases
    BY DEF Events
  <2>2. jobs' \in JobsType
    BY <1>8, <2>1, RequeueType DEF record_event_expired
  <2> QED BY <1>8, <2>1, <2>2 DEF TypeOK, JobsType, record_event_expired, Quarantine
<1> QED BY <1>1, <1>2, <1>3, <1>4, <1>5, <1>6, <1>7, <1>8 DEF WorkerStep

\* The step theorem behind TypeCorrect, for steps and stutters.
LEMMA StepTypeOK == ASSUME TypeOK, [Next]_vars PROVE TypeOK'
<1>1. CASE UNCHANGED vars
  BY <1>1 DEF TypeOK, vars
<1> QED BY <1>1, HostTypeOK, WorkerTypeOK DEF Next

\* Every collection keeps its record types, in every behaviour of the
\* coordinator's handlers.
THEOREM TypeCorrect == Spec => []TypeOK
BY InitTypeOK, StepTypeOK, PTL DEF Spec

-----------------------------------------------------------------------------
(* LeaseOwnership.  Only lease_next gives a job a lease; every other step  *)
(* leaves it the one it has or takes it away.                              *)

Keeps(j) ==
  /\ jobs'[j].lease = jobs[j].lease
  /\ jobs'[j].node = jobs[j].node
  /\ jobs'[j].attempt = jobs[j].attempt
Drops(j) == jobs'[j].lease = NoLease /\ jobs'[j].node = None
KeepsOrDrops == \A j \in Job : Keeps(j) \/ Drops(j)

SameLeases ==
  /\ DOMAIN leases' = DOMAIN leases
  /\ \A l \in DOMAIN leases :
       /\ leases'[l].job = leases[l].job
       /\ leases'[l].node = leases[l].node
       /\ leases'[l].attempt = leases[l].attempt

\* requeue_expired only ever takes a lease away.
LEMMA RequeueDrops ==
  ASSUME TypeOK, NEW l \in DOMAIN leases, jobs' = requeue_expired(l)
  PROVE  KeepsOrDrops
<1>1. leases[l].job \in Job /\ jobs \in JobsType
  BY LeaseFields DEF TypeOK, JobsType
<1>2. jobs' = jobs \/ jobs' = Released(leases[l].job, RequeueStatus(leases[l].job))
  BY DEF requeue_expired
<1>3. CASE jobs' = jobs
  BY <1>3 DEF KeepsOrDrops, Keeps
<1>4. CASE jobs' = Released(leases[l].job, RequeueStatus(leases[l].job))
  <2> SUFFICES ASSUME NEW j \in Job PROVE Keeps(j) \/ Drops(j)
    BY DEF KeepsOrDrops
  <2>1. jobs[j] \in JobType
    BY DEF TypeOK
  <2>2. CASE j = leases[l].job
    BY <1>1, <1>4, <2>1, <2>2 DEF Drops, Released, JobType, JobsType
  <2>3. CASE j # leases[l].job
    BY <1>1, <1>4, <2>3 DEF Keeps, Released, JobsType
  <2> QED BY <2>2, <2>3
<1> QED BY <1>2, <1>3, <1>4

\* The fencing loop leaves every job its lease.
LEMMA FencedKeeps ==
  ASSUME TypeOK, NEW g, NEW r, NEW j \in Job
  PROVE  /\ Fenced(g, r)[j].lease = jobs[j].lease
         /\ Fenced(g, r)[j].node = jobs[j].node
         /\ Fenced(g, r)[j].attempt = jobs[j].attempt
<1>1. jobs[j] \in JobType
  BY DEF TypeOK
<1>2. Fenced(g, r)[j] = jobs[j] \/ Fenced(g, r)[j] = [jobs[j] EXCEPT !.status = "stale", !.cancel = TRUE]
  BY DEF Fenced
<1> QED BY <1>1, <1>2 DEF JobType

\* Host operations issue no lease.
LEMMA HostKeepsOrDrops ==
  ASSUME TypeOK, HostStep
  PROVE  KeepsOrDrops /\ leases' = leases
<1>0. jobs \in JobsType /\ \A j \in Job : jobs[j] \in JobType
  BY DEF TypeOK, JobsType
<1>1. ASSUME NEW m \in Manifest, submit_job(m) \/ submit_job_bad_inputs(m) PROVE KeepsOrDrops
  <2> SUFFICES ASSUME NEW j \in Job PROVE Keeps(j) \/ Drops(j)
    BY DEF KeepsOrDrops
  <2>1. /\ JobsAfterSubmit(m)[j].lease = jobs[j].lease
        /\ JobsAfterSubmit(m)[j].node = jobs[j].node
        /\ JobsAfterSubmit(m)[j].attempt = jobs[j].attempt
    BY FencedKeeps DEF JobsAfterSubmit
  <2>2. JobsAfterSubmit(m) \in JobsType
    BY <1>0, FencedType DEF JobsAfterSubmit
  <2>3. CASE submit_job(m) /\ j = m.job
    <3>1. jobs'[j] = [NoJob EXCEPT !.manifest = m, !.status = "queued"]
      BY <2>2, <2>3 DEF submit_job, JobsType
    <3> QED BY <3>1 DEF Drops, NoJob
  <2>4. CASE submit_job(m) /\ j # m.job
    <3>1. jobs'[j] = JobsAfterSubmit(m)[j]
      BY <2>2, <2>4 DEF submit_job, JobsType
    <3> QED BY <2>1, <3>1 DEF Keeps
  <2>5. CASE submit_job_bad_inputs(m)
    BY <2>1, <2>5 DEF submit_job_bad_inputs, Keeps
  <2> QED BY <1>1, <2>3, <2>4, <2>5
<1>2. ASSUME NEW g \in Goal, NEW r \in 1..MaxRevision, authorize_goal_revision(g, r) PROVE KeepsOrDrops
  BY <1>2, FencedKeeps DEF authorize_goal_revision, KeepsOrDrops, Keeps
<1>3. ASSUME NEW k \in Job, cancel_job(k) PROVE KeepsOrDrops
  <2> SUFFICES ASSUME NEW j \in Job PROVE Keeps(j) \/ Drops(j)
    BY DEF KeepsOrDrops
  <2>1. \/ jobs'[j] = jobs[j]
        \/ jobs'[j] = [jobs[j] EXCEPT !.cancel = TRUE, !.status = "cancelled", !.terminal = HostCancel]
        \/ jobs'[j] = [jobs[j] EXCEPT !.cancel = TRUE]
    BY <1>0, <1>3 DEF cancel_job, JobsType
  <2> QED BY <1>0, <2>1 DEF Keeps, JobType
<1>4. ASSUME recover_expired_leases PROVE KeepsOrDrops
  <2> SUFFICES ASSUME NEW j \in Job PROVE Keeps(j) \/ Drops(j)
    BY DEF KeepsOrDrops
  <2>1. \/ jobs'[j] = jobs[j]
        \/ jobs'[j] = [jobs[j] EXCEPT !.status = RecoveredStatus(j), !.node = None, !.lease = NoLease]
    BY <1>4 DEF recover_expired_leases
  <2> QED BY <1>0, <2>1 DEF Keeps, Drops, JobType
<1>5. ASSUME NEW n \in Node, revoke_node(n) PROVE KeepsOrDrops
  <2> SUFFICES ASSUME NEW j \in Job PROVE Keeps(j) \/ Drops(j)
    BY DEF KeepsOrDrops
  <2>1. \/ jobs'[j] = jobs[j]
        \/ jobs'[j] = [jobs[j] EXCEPT !.status = "waiting_review", !.node = None, !.lease = NoLease]
    BY <1>5 DEF revoke_node
  <2> QED BY <1>0, <2>1 DEF Keeps, Drops, JobType
<1>6. leases' = leases
  BY DEF HostStep, submit_job, submit_job_bad_inputs, authorize_goal_revision, cancel_job,
         recover_expired_leases, revoke_node
<1> QED BY <1>1, <1>2, <1>3, <1>4, <1>5, <1>6 DEF HostStep

\* Nor does anything a worker sends except a lease request.
LEMMA WorkerKeepsOrDrops ==
  ASSUME TypeOK, WorkerStep, ~ \E n \in Node : lease_next(n)
  PROVE  KeepsOrDrops /\ SameLeases
<1>0. jobs \in JobsType /\ \A l \in DOMAIN leases : leases[l] \in LeaseType
  BY LeaseFields DEF TypeOK, JobsType
<1>1. ASSUME NEW n \in Node, NEW s \in {"schedulable", "away"}, node_changes(n, s)
      PROVE  KeepsOrDrops /\ SameLeases
  BY <1>1 DEF node_changes, KeepsOrDrops, Keeps, SameLeases
<1>2. ASSUME NEW l \in DOMAIN leases, acknowledge_lease(l) PROVE KeepsOrDrops /\ SameLeases
  <2>1. CASE UNCHANGED jobs /\ leases' = [leases EXCEPT ![l].acknowledged = TRUE]
    BY <1>0, <2>1 DEF KeepsOrDrops, Keeps, SameLeases, LeaseType
  <2>2. CASE jobs' = requeue_expired(l) /\ UNCHANGED leases
    BY <2>2, RequeueDrops DEF SameLeases
  <2> QED BY <1>2, <2>1, <2>2 DEF acknowledge_lease
<1>3. ASSUME NEW l \in DOMAIN leases, heartbeat_lease(l) PROVE KeepsOrDrops /\ SameLeases
  BY <1>3, RequeueDrops DEF heartbeat_lease, KeepsOrDrops, Keeps, SameLeases
<1>4. ASSUME NEW l \in DOMAIN leases, LeaseExpires(l) PROVE KeepsOrDrops /\ SameLeases
  BY <1>0, <1>4 DEF LeaseExpires, KeepsOrDrops, Keeps, SameLeases, LeaseType
<1>5. ASSUME NEW ev \in Events, record_event(ev) PROVE KeepsOrDrops /\ SameLeases
  <2> SUFFICES ASSUME NEW j \in Job PROVE Keeps(j) \/ Drops(j)
    BY <1>5 DEF KeepsOrDrops, record_event, SameLeases
  <2>1. \/ jobs'[j] = jobs[j]
        \/ j = JobOf(ev) /\ jobs'[j] = WithEvent(j, ev)
    BY <1>0, <1>5 DEF record_event, JobsType
  <2>2. jobs[j] \in JobType
    BY <1>0 DEF JobsType
  <2> QED BY <2>1, <2>2 DEF Keeps, WithEvent, JobType
<1>6. ASSUME NEW ev \in Events, record_event_quarantined(ev) \/ record_event_unacknowledged(ev)
      PROVE  KeepsOrDrops /\ SameLeases
  BY <1>6 DEF record_event_quarantined, record_event_unacknowledged, KeepsOrDrops, Keeps, SameLeases
<1>7. ASSUME NEW ev \in Events, record_event_expired(ev) PROVE KeepsOrDrops /\ SameLeases
  <2>1. ev.lease \in DOMAIN leases
    BY DEF Events
  <2> QED BY <1>7, <2>1, RequeueDrops DEF record_event_expired, SameLeases
<1> QED BY <1>1, <1>2, <1>3, <1>4, <1>5, <1>6, <1>7 DEF WorkerStep

\* A job that keeps or drops its lease stays its owner.
LEMMA OwnershipKept ==
  ASSUME LeaseOwnership, KeepsOrDrops, SameLeases
  PROVE  LeaseOwnership'
BY DEF LeaseOwnership, KeepsOrDrops, Keeps, Drops, SameLeases

\* The lease a job is given is newer than all the others.
LEMMA OwnershipLeased ==
  ASSUME TypeOK, LeaseOwnership, NEW n \in Node, lease_next(n)
  PROVE  LeaseOwnership'
<1> DEFINE new(j) == [job |-> j, node |-> n, attempt |-> jobs[j].attempt + 1,
                      acknowledged |-> FALSE, expired |-> FALSE]
<1>1. PICK j \in Job : leases' = Append(leases, new(j)) /\ jobs' = JobsAfterLease(j, n)
  BY DEF lease_next
<1>2. leases \in Seq(LeaseType) /\ Len(leases) \in Nat /\ jobs[j] \in JobType
  BY DEF TypeOK
<1>3. new(j) \in LeaseType
  BY <1>2 DEF LeaseType, JobType
<1>4. /\ DOMAIN leases = 1..Len(leases) /\ DOMAIN leases' = 1..(Len(leases) + 1)
      /\ \A l \in 1..Len(leases) : leases'[l] = leases[l]
      /\ leases'[Len(leases) + 1] = new(j)
  <2> HIDE DEF new
  <2> QED BY <1>1, <1>2, <1>3
<1>5. /\ jobs'[j].lease = Len(leases) + 1 /\ jobs'[j].node = n
      /\ jobs'[j].attempt = jobs[j].attempt + 1
  <2>1. jobs'[j] = [jobs[j] EXCEPT !.status = "leased", !.attempt = jobs[j].attempt + 1,
                                   !.node = n, !.lease = Len(leases) + 1]
    BY <1>1 DEF JobsAfterLease
  <2> QED BY <1>2, <2>1 DEF JobType
<1>6. ASSUME NEW k \in Job, k # j
      PROVE  /\ jobs'[k].lease = jobs[k].lease /\ jobs'[k].node = jobs[k].node
             /\ jobs'[k].attempt = jobs[k].attempt
  <2>1. jobs'[k] = jobs[k] \/ jobs'[k] = [jobs[k] EXCEPT !.status = "stale"]
    BY <1>1, <1>6 DEF JobsAfterLease
  <2>2. jobs[k] \in JobType
    BY DEF TypeOK
  <2> QED BY <2>1, <2>2 DEF JobType
<1> SUFFICES ASSUME NEW k \in Job
             PROVE  IF jobs'[k].lease = NoLease
                    THEN jobs'[k].node = None
                    ELSE /\ jobs'[k].lease \in DOMAIN leases'
                         /\ leases'[jobs'[k].lease].job = k
                         /\ leases'[jobs'[k].lease].node = jobs'[k].node
                         /\ leases'[jobs'[k].lease].attempt = jobs'[k].attempt
                         /\ \A l \in DOMAIN leases' : leases'[l].job = k => l <= jobs'[k].lease
  BY DEF LeaseOwnership
<1>7. CASE k = j
  <2>1. jobs'[k].lease # NoLease
    BY <1>2, <1>5, <1>7 DEF NoLease
  <2> QED BY <1>2, <1>4, <1>5, <1>7, <2>1
<1>8. CASE k # j
  <2>1. leases'[Len(leases) + 1].job # k
    BY <1>4, <1>8
  <2>2. \A l \in DOMAIN leases' : leases'[l].job = k => l \in DOMAIN leases
    BY <1>2, <1>4, <2>1
  <2> QED BY <1>4, <1>6, <1>8, <2>2 DEF LeaseOwnership
<1> QED BY <1>7, <1>8

\* The lease fence holds for any number of nodes, jobs, Goals and leases: a job
\* and the newest lease issued for it always agree, or the job has none.
THEOREM OwnershipCorrect == Spec => []LeaseOwnership
<1>1. Init => LeaseOwnership
  BY DEF Init, LeaseOwnership, NoJob
<1>2. ASSUME TypeOK, LeaseOwnership, [Next]_vars PROVE LeaseOwnership'
  <2>1. CASE UNCHANGED vars
    BY <1>2, <2>1 DEF LeaseOwnership, vars
  <2>2. CASE HostStep
    BY <1>2, <2>2, HostKeepsOrDrops, OwnershipKept DEF SameLeases
  <2>3. CASE WorkerStep
    BY <1>2, <2>3, WorkerKeepsOrDrops, OwnershipKept, OwnershipLeased
  <2> QED BY <1>2, <2>1, <2>2, <2>3 DEF Next
<1> QED BY <1>1, <1>2, TypeCorrect, PTL DEF Spec

-----------------------------------------------------------------------------
(* NoDoubleExecution.  It is not inductive: what keeps a second lease from *)
(* being issued is that a job is only ever queued when none of its leases  *)
(* can still be executed, and that a job id is created once.               *)

\* Nobody executes under this lease any more, or ever will.
Finished(l) == leases[l].expired \/ ~EchoMatches(l)

JobsRegistered ==
  \A j \in Job : Exists(j) =>
    /\ jobs[j].manifest \in Manifest /\ jobs[j].manifest.job = j
    /\ idempotency[jobs[j].manifest.key] = jobs[j].manifest
Registered == JobsRegistered /\ \A l \in DOMAIN leases : Exists(leases[l].job)

AcknowledgedMatch == \A l \in DOMAIN leases : leases[l].acknowledged => EchoMatches(l)
QueuedFree ==
  \A l \in DOMAIN leases : jobs[leases[l].job].status = "queued" => Finished(l)
OlderFinished ==
  \A l1, l2 \in DOMAIN leases :
    l1 < l2 /\ leases[l1].job = leases[l2].job => Finished(l1)

ExecInv == Registered /\ AcknowledgedMatch /\ QueuedFree /\ OlderFinished

\* What a step that issues no lease and creates no job does to the others.
Regains(j) ==
  /\ jobs[j].lease \in DOMAIN leases /\ leases[jobs[j].lease].job = j
  /\ Finished(jobs[j].lease)
Persists(j) ==
  /\ jobs'[j].manifest = jobs[j].manifest
  /\ jobs'[j].status = "absent" <=> jobs[j].status = "absent"
  /\ jobs'[j].status = "queued" => jobs[j].status = "queued" \/ Regains(j)
Advances ==
  \A l \in DOMAIN leases :
    /\ leases[l].expired => leases'[l].expired
    /\ leases'[l].acknowledged => leases[l].acknowledged \/ EchoMatches(l)

\* A finished lease stays finished while manifests persist.
LEMMA FinishedStable ==
  ASSUME SameLeases, Advances, NEW l \in DOMAIN leases,
         jobs'[leases[l].job].manifest = jobs[leases[l].job].manifest
  PROVE  (EchoMatches(l)' <=> EchoMatches(l)) /\ (Finished(l) => Finished(l)')
<1>1. EchoMatches(l)' <=> EchoMatches(l)
  BY DEF EchoMatches, ManifestOf, SameLeases
<1> QED BY <1>1 DEF Finished, Advances

\* Steps of that shape keep the invariant.
LEMMA ExecKept ==
  ASSUME TypeOK, LeaseOwnership, ExecInv, SameLeases, Advances,
         \A j \in Job : Persists(j), idempotency' = idempotency
  PROVE  ExecInv'
<1>1. \A l \in DOMAIN leases :
        (EchoMatches(l)' <=> EchoMatches(l)) /\ (Finished(l) => Finished(l)')
  BY FinishedStable, LeaseFields DEF Persists
<1>2. Registered'
  BY LeaseFields DEF ExecInv, Registered, JobsRegistered, Exists, Persists, SameLeases
<1>3. AcknowledgedMatch'
  BY <1>1 DEF ExecInv, AcknowledgedMatch, Advances, SameLeases
<1>4. OlderFinished'
  BY <1>1 DEF ExecInv, OlderFinished, SameLeases
<1>5. QueuedFree'
  <2> SUFFICES ASSUME NEW l \in DOMAIN leases, jobs'[leases[l].job].status = "queued"
               PROVE  Finished(l)
    BY <1>1 DEF QueuedFree, SameLeases
  <2> DEFINE j == leases[l].job
  <2>1. j \in Job
    BY LeaseFields
  <2>2. CASE jobs[j].status = "queued"
    BY <2>2 DEF ExecInv, QueuedFree
  <2>3. CASE Regains(j)
    <3>1. DOMAIN leases = 1..Len(leases) /\ Len(leases) \in Nat
      BY DEF TypeOK
    <3>2. l <= jobs[j].lease
      BY <2>1, <2>3, <3>1 DEF Regains, LeaseOwnership, NoLease
    <3>3. l = jobs[j].lease \/ l < jobs[j].lease
      BY <2>3, <3>1, <3>2 DEF Regains
    <3> QED BY <2>3, <3>3 DEF Regains, ExecInv, OlderFinished
  <2> QED BY <2>1, <2>2, <2>3 DEF Persists
<1> QED BY <1>2, <1>3, <1>4, <1>5 DEF ExecInv

\* A job that is absent holds no lease and names no node.
AbsentFree ==
  \A j \in Job : ~Exists(j) => jobs[j].lease = NoLease /\ jobs[j].node = None

LEMMA AbsentIsFree == ASSUME LeaseOwnership, ExecInv PROVE AbsentFree
BY DEF LeaseOwnership, ExecInv, Registered, AbsentFree

\* requeue_expired has that shape whenever the lease is finished or its
\* revision superseded.
LEMMA RequeuePersists ==
  ASSUME TypeOK, LeaseOwnership, ExecInv, NEW l \in DOMAIN leases,
         jobs' = requeue_expired(l), Finished(l) \/ StaleRevision(ManifestOf(l)),
         NEW j \in Job
  PROVE  Persists(j)
<1>1. leases[l].job \in Job /\ jobs[j] \in JobType /\ jobs \in JobsType
  BY LeaseFields DEF TypeOK, JobsType
<1>2. CASE jobs'[j] = jobs[j]
  BY <1>2 DEF Persists
<1>3. CASE jobs'[j] # jobs[j]
  <2>1. j = leases[l].job /\ jobs[j].lease = l /\ jobs' = Released(j, RequeueStatus(j))
    BY <1>1, <1>3 DEF requeue_expired, Released, JobsType
  <2>2. jobs'[j] = [jobs[j] EXCEPT !.status = RequeueStatus(j), !.node = None, !.lease = NoLease]
    BY <1>1, <2>1 DEF Released, JobsType
  <2>3. jobs'[j].manifest = jobs[j].manifest /\ jobs'[j].status = RequeueStatus(j)
    BY <1>1, <2>2 DEF JobType
  <2>4. jobs[j].status # "absent" /\ RequeueStatus(j) # "absent"
    BY <2>1 DEF ExecInv, Registered, JobsRegistered, Exists, RequeueStatus
  <2>5. RequeueStatus(j) = "queued" => Regains(j)
    BY <2>1 DEF RequeueStatus, Regains, ManifestOf
  <2> QED BY <2>3, <2>4, <2>5 DEF Persists
<1> QED BY <1>2, <1>3

\* The fencing loop has it too.
LEMMA FencedPersists ==
  ASSUME TypeOK, NEW g, NEW r, NEW j \in Job
  PROVE  /\ Fenced(g, r)[j].manifest = jobs[j].manifest
         /\ Fenced(g, r)[j].status = "absent" <=> jobs[j].status = "absent"
         /\ Fenced(g, r)[j].status = "queued" => jobs[j].status = "queued"
<1>1. jobs[j] \in JobType
  BY DEF TypeOK
<1>2. \/ Fenced(g, r)[j] = jobs[j]
      \/ Exists(j) /\ Fenced(g, r)[j] = [jobs[j] EXCEPT !.status = "stale", !.cancel = TRUE]
  BY DEF Fenced
<1> QED BY <1>1, <1>2 DEF JobType, Exists

\* submit_job writes a job id that is not there yet and a key that resolves to
\* no other job.
LEMMA SubmitFresh ==
  ASSUME JobsRegistered, NEW m \in Manifest, Admissible(m)
  PROVE  /\ m.job \in Job /\ m.key \in Key /\ ~Exists(m.job)
         /\ \A j \in Job : Exists(j) => jobs[j].manifest.key # m.key
<1>1. m.job \in Job /\ m.key \in Key /\ m # None
  BY ManifestAssumption, NamesAssumption DEF ManifestType
<1>2. ASSUME NEW j \in Job, Exists(j), jobs[j].manifest.key = m.key PROVE FALSE
  <2>1. idempotency[m.key] = jobs[j].manifest /\ jobs[j].manifest \in Manifest /\ jobs[j].manifest.job = j
    BY <1>2 DEF JobsRegistered
  <2> QED BY <1>2, <2>1, NamesAssumption DEF Admissible
<1>3. ASSUME Exists(m.job) PROVE FALSE
  <2>1. jobs[m.job].manifest = m
    BY <1>1, <1>3, ManifestAssumption DEF JobsRegistered
  <2> QED BY <1>1, <1>2, <1>3, <2>1
<1> QED BY <1>1, <1>2, <1>3

\* A submission keeps the invariant.
LEMMA ExecSubmitted ==
  ASSUME TypeOK, ExecInv, NEW m \in Manifest, submit_job(m)
  PROVE  ExecInv'
<1>1. /\ m.job \in Job /\ m.key \in Key /\ ~Exists(m.job)
      /\ \A j \in Job : Exists(j) => jobs[j].manifest.key # m.key
  BY SubmitFresh DEF submit_job, ExecInv, Registered
<1>2. /\ leases' = leases /\ idempotency' = [idempotency EXCEPT ![m.key] = m]
      /\ jobs' = [JobsAfterSubmit(m) EXCEPT ![m.job] =
                    [NoJob EXCEPT !.manifest = m, !.status = "queued"]]
  BY DEF submit_job
<1>3. JobsAfterSubmit(m) \in JobsType
  BY FencedType DEF JobsAfterSubmit, TypeOK, JobsType
<1>4. jobs'[m.job].manifest = m /\ jobs'[m.job].status = "queued"
  <2>1. jobs'[m.job] = [NoJob EXCEPT !.manifest = m, !.status = "queued"]
    BY <1>1, <1>2, <1>3 DEF JobsType
  <2> QED BY <2>1 DEF NoJob
<1>5. ASSUME NEW j \in Job, j # m.job
      PROVE  /\ jobs'[j].manifest = jobs[j].manifest
             /\ jobs'[j].status = "absent" <=> jobs[j].status = "absent"
             /\ jobs'[j].status = "queued" => jobs[j].status = "queued"
  <2>1. jobs'[j] = JobsAfterSubmit(m)[j]
    BY <1>2, <1>3, <1>5 DEF JobsType
  <2> QED BY <2>1, FencedPersists DEF JobsAfterSubmit
<1>6. \A l \in DOMAIN leases : leases[l].job \in Job /\ leases[l].job # m.job
  BY <1>1, LeaseFields DEF ExecInv, Registered, JobsRegistered
<1>7. \A l \in DOMAIN leases : (EchoMatches(l)' <=> EchoMatches(l)) /\ (Finished(l)' <=> Finished(l))
  BY <1>2, <1>5, <1>6 DEF EchoMatches, ManifestOf, Finished
<1>8. Registered'
  <2>1. \A l \in DOMAIN leases : jobs'[leases[l].job].status # "absent"
    BY <1>2, <1>5, <1>6 DEF ExecInv, Registered, JobsRegistered, Exists
  <2>2. ASSUME NEW j \in Job, Exists(j)'
        PROVE  /\ jobs'[j].manifest \in Manifest /\ jobs'[j].manifest.job = j
               /\ idempotency'[jobs'[j].manifest.key] = jobs'[j].manifest
    <3>0. idempotency \in [Key -> Manifest \cup {None}]
      BY DEF TypeOK
    <3>1. CASE j = m.job
      BY <1>1, <1>2, <1>4, <3>0, <3>1
    <3>2. CASE j # m.job
      <4>1. Exists(j) /\ jobs'[j].manifest = jobs[j].manifest
        BY <1>5, <2>2, <3>2 DEF Exists
      <4>2. jobs[j].manifest.key # m.key
        BY <1>1, <4>1
      <4>3. /\ jobs[j].manifest \in Manifest /\ jobs[j].manifest.job = j
            /\ idempotency[jobs[j].manifest.key] = jobs[j].manifest
        BY <4>1 DEF ExecInv, Registered, JobsRegistered
      <4>4. jobs[j].manifest.key \in Key
        BY <4>3, ManifestAssumption DEF ManifestType
      <4> QED BY <1>2, <3>0, <4>1, <4>2, <4>3, <4>4
    <3> QED BY <3>1, <3>2
  <2> QED BY <1>2, <2>1, <2>2 DEF Registered, JobsRegistered, Exists
<1>9. AcknowledgedMatch' /\ OlderFinished'
  BY <1>2, <1>7 DEF ExecInv, AcknowledgedMatch, OlderFinished
<1>10. QueuedFree'
  BY <1>2, <1>5, <1>6, <1>7 DEF ExecInv, QueuedFree
<1> QED BY <1>8, <1>9, <1>10 DEF ExecInv

\* So do the other host operations.
LEMMA ExecHost ==
  ASSUME TypeOK, LeaseOwnership, ExecInv, HostStep
  PROVE  ExecInv'
<1>0. jobs \in JobsType /\ \A j \in Job : jobs[j] \in JobType
  BY DEF TypeOK, JobsType
<1>1. ASSUME leases' = leases, idempotency' = idempotency, \A j \in Job : Persists(j) PROVE ExecInv'
  <2>1. SameLeases /\ Advances
    BY <1>1 DEF SameLeases, Advances
  <2> QED BY <1>1, <2>1, ExecKept
<1>2. ASSUME NEW m \in Manifest, submit_job_bad_inputs(m) PROVE ExecInv'
  <2>1. \A j \in Job : Persists(j)
    BY <1>2, FencedPersists DEF submit_job_bad_inputs, JobsAfterSubmit, Persists
  <2> QED BY <1>1, <1>2, <2>1 DEF submit_job_bad_inputs
<1>3. ASSUME NEW g \in Goal, NEW r \in 1..MaxRevision, authorize_goal_revision(g, r) PROVE ExecInv'
  <2>1. \A j \in Job : Persists(j)
    BY <1>3, FencedPersists DEF authorize_goal_revision, Persists
  <2> QED BY <1>1, <1>3, <2>1 DEF authorize_goal_revision
<1>4. ASSUME NEW k \in Job, cancel_job(k) PROVE ExecInv'
  <2>1. ASSUME NEW j \in Job PROVE Persists(j)
    <3>1. \/ jobs'[j] = jobs[j]
          \/ /\ Exists(j)
             /\ \/ jobs'[j] = [jobs[j] EXCEPT !.cancel = TRUE, !.status = "cancelled", !.terminal = HostCancel]
                \/ jobs'[j] = [jobs[j] EXCEPT !.cancel = TRUE]
      BY <1>0, <1>4 DEF cancel_job, JobsType
    <3> QED BY <1>0, <3>1 DEF Persists, Exists, JobType
  <2> QED BY <1>1, <1>4, <2>1 DEF cancel_job
<1>5. ASSUME recover_expired_leases PROVE ExecInv'
  <2>1. ASSUME NEW j \in Job PROVE Persists(j)
    <3>1. CASE ~LostLease(j)
      BY <1>5, <3>1 DEF recover_expired_leases, Persists
    <3>2. CASE LostLease(j)
      <4>1. jobs'[j] = [jobs[j] EXCEPT !.status = RecoveredStatus(j), !.node = None, !.lease = NoLease]
        BY <1>5, <3>2 DEF recover_expired_leases
      <4>2. jobs'[j].manifest = jobs[j].manifest /\ jobs'[j].status # "absent"
        BY <1>0, <4>1 DEF JobType, RecoveredStatus
      <4>3. Regains(j) /\ Exists(j)
        BY <3>2, AbsentIsFree DEF AbsentFree, LostLease, Regains, Finished, LeaseOwnership
      <4> QED BY <4>2, <4>3 DEF Persists, Exists
    <3> QED BY <3>1, <3>2
  <2> QED BY <1>1, <1>5, <2>1 DEF recover_expired_leases
<1>6. ASSUME NEW n \in Node, revoke_node(n) PROVE ExecInv'
  <2>1. ASSUME NEW j \in Job PROVE Persists(j)
    <3>1. \/ jobs'[j] = jobs[j]
          \/ /\ jobs[j].node = n
             /\ jobs'[j] = [jobs[j] EXCEPT !.status = "waiting_review", !.node = None, !.lease = NoLease]
      BY <1>6 DEF revoke_node
    <3>2. jobs[j].node = n => Exists(j)
      BY AbsentIsFree, NamesAssumption DEF AbsentFree
    <3> QED BY <1>0, <3>1, <3>2 DEF Persists, Exists, JobType
  <2> QED BY <1>1, <1>6, <2>1 DEF revoke_node
<1> QED BY <1>2, <1>3, <1>4, <1>5, <1>6, ExecSubmitted DEF HostStep

\* lease_next gives out a queued job, all of whose older leases are finished.
LEMMA ExecLeased ==
  ASSUME TypeOK, LeaseOwnership, ExecInv, NEW n \in Node, lease_next(n)
  PROVE  ExecInv'
<1> DEFINE new(j) == [job |-> j, node |-> n, attempt |-> jobs[j].attempt + 1,
                      acknowledged |-> FALSE, expired |-> FALSE]
<1>1. PICK j \in Job :
        /\ jobs[j].status = "queued"
        /\ leases' = Append(leases, new(j)) /\ jobs' = JobsAfterLease(j, n)
  BY DEF lease_next, Leasable
<1>2. leases \in Seq(LeaseType) /\ Len(leases) \in Nat /\ jobs[j] \in JobType
  BY DEF TypeOK
<1>3. new(j) \in LeaseType
  BY <1>2 DEF LeaseType, JobType
<1> DEFINE last == Len(leases) + 1
<1>4. /\ DOMAIN leases = 1..Len(leases) /\ DOMAIN leases' = 1..last
      /\ \A l \in DOMAIN leases : leases'[l] = leases[l]
      /\ leases'[last] = new(j)
  <2> HIDE DEF new
  <2> QED BY <1>1, <1>2, <1>3
<1>5. jobs'[j].manifest = jobs[j].manifest /\ jobs'[j].status = "leased"
  <2>1. jobs'[j] = [jobs[j] EXCEPT !.status = "leased", !.attempt = jobs[j].attempt + 1,
                                   !.node = n, !.lease = Len(leases) + 1]
    BY <1>1 DEF JobsAfterLease
  <2> QED BY <1>2, <2>1 DEF JobType
<1>6. ASSUME NEW k \in Job
      PROVE  /\ jobs'[k].manifest = jobs[k].manifest
             /\ jobs'[k].status = "absent" <=> jobs[k].status = "absent"
             /\ jobs'[k].status = "queued" => k # j /\ jobs[k].status = "queued"
  <2>1. CASE k = j
    BY <1>1, <1>5, <2>1
  <2>2. CASE k # j
    <3>1. \/ jobs'[k] = jobs[k]
          \/ jobs[k].status = "queued" /\ jobs'[k] = [jobs[k] EXCEPT !.status = "stale"]
      BY <1>1, <2>2 DEF JobsAfterLease
    <3>2. jobs[k] \in JobType
      BY DEF TypeOK
    <3> QED BY <2>2, <3>1, <3>2 DEF JobType
  <2> QED BY <2>1, <2>2
<1>7. \A l \in DOMAIN leases : (EchoMatches(l)' <=> EchoMatches(l)) /\ (Finished(l)' <=> Finished(l))
  BY <1>4, <1>6, LeaseFields DEF EchoMatches, ManifestOf, Finished
<1>8. \A l \in DOMAIN leases' : l \in DOMAIN leases \/ l = last
  BY <1>2, <1>4
<1>9. leases'[last].job = j /\ ~leases'[last].acknowledged
  BY <1>4
<1>10. Registered'
  <2>1. idempotency' = idempotency
    BY DEF lease_next
  <2>2. \A l \in DOMAIN leases' : jobs'[leases'[l].job].status # "absent"
    BY <1>1, <1>4, <1>6, <1>8, <1>9, LeaseFields DEF ExecInv, Registered, JobsRegistered, Exists
  <2> QED BY <1>6, <2>1, <2>2 DEF ExecInv, Registered, JobsRegistered, Exists
<1>11. AcknowledgedMatch'
  BY <1>4, <1>7, <1>8, <1>9 DEF ExecInv, AcknowledgedMatch
<1>12. QueuedFree'
  <2> SUFFICES ASSUME NEW l \in DOMAIN leases', jobs'[leases'[l].job].status = "queued"
               PROVE  Finished(l)'
    BY DEF QueuedFree
  <2>1. CASE l = last
    BY <1>6, <1>9, <2>1
  <2>2. CASE l \in DOMAIN leases
    BY <1>4, <1>6, <1>7, <2>2, LeaseFields DEF ExecInv, QueuedFree
  <2> QED BY <1>8, <2>1, <2>2
<1>13. OlderFinished'
  <2> SUFFICES ASSUME NEW l1 \in DOMAIN leases', NEW l2 \in DOMAIN leases',
                      l1 < l2, leases'[l1].job = leases'[l2].job
               PROVE  Finished(l1)'
    BY DEF OlderFinished
  <2>1. l1 \in DOMAIN leases
    BY <1>2, <1>4
  <2>2. CASE l2 = last
    BY <1>1, <1>4, <1>7, <1>9, <2>1, <2>2 DEF ExecInv, QueuedFree
  <2>3. CASE l2 \in DOMAIN leases
    BY <1>4, <1>7, <2>1, <2>3 DEF ExecInv, OlderFinished
  <2> QED BY <1>8, <2>2, <2>3
<1> QED BY <1>10, <1>11, <1>12, <1>13 DEF ExecInv

\* Worker messages and the clock keep the invariant.
LEMMA ExecWorker ==
  ASSUME TypeOK, LeaseOwnership, ExecInv, WorkerStep
  PROVE  ExecInv'
<1>0. jobs \in JobsType /\ \A l \in DOMAIN leases : leases[l] \in LeaseType
  BY LeaseFields DEF TypeOK, JobsType
<1>1. CASE \E n \in Node : lease_next(n)
  BY <1>1, ExecLeased
<1>2. CASE ~ \E n \in Node : lease_next(n)
  <2>1. SameLeases
    BY <1>2, WorkerKeepsOrDrops
  <2>2. idempotency' = idempotency
    BY <1>2 DEF WorkerStep, node_changes, acknowledge_lease, heartbeat_lease, LeaseExpires, record_event,
         record_event_quarantined, record_event_unacknowledged, record_event_expired
  <2>3. ASSUME Advances, \A j \in Job : Persists(j) PROVE ExecInv'
    BY <2>1, <2>2, <2>3, ExecKept
  <2>4. leases' = leases => Advances
    BY DEF Advances
  <2>5. jobs' = jobs => \A j \in Job : Persists(j)
    BY DEF Persists
  <2>6. ASSUME NEW n \in Node, NEW s \in {"schedulable", "away"}, node_changes(n, s) PROVE ExecInv'
    BY <2>3, <2>4, <2>5, <2>6 DEF node_changes
  <2>7. ASSUME NEW l \in DOMAIN leases, acknowledge_lease(l) PROVE ExecInv'
    <3>1. CASE leases' = leases
      <4>1. \/ jobs' = requeue_expired(l) /\ (Finished(l) \/ StaleRevision(ManifestOf(l)))
            \/ jobs' = jobs
        BY <2>7 DEF acknowledge_lease, Finished
      <4> QED BY <2>3, <2>4, <2>5, <3>1, <4>1, RequeuePersists
    <3>2. CASE leases' # leases
      <4>1. leases' = [leases EXCEPT ![l].acknowledged = TRUE] /\ jobs' = jobs /\ EchoMatches(l)
        BY <2>7, <3>2 DEF acknowledge_lease
      <4>2. Advances
        BY <1>0, <4>1 DEF Advances, LeaseType
      <4> QED BY <2>3, <2>5, <4>1, <4>2
    <3> QED BY <3>1, <3>2
  <2>8. ASSUME NEW l \in DOMAIN leases, heartbeat_lease(l) PROVE ExecInv'
    <3>1. leases' = leases /\ (jobs' = jobs \/ (jobs' = requeue_expired(l) /\ Finished(l)))
      BY <2>8 DEF heartbeat_lease, Finished
    <3> QED BY <2>3, <2>4, <2>5, <3>1, RequeuePersists
  <2>9. ASSUME NEW l \in DOMAIN leases, LeaseExpires(l) PROVE ExecInv'
    <3>1. Advances
      BY <1>0, <2>9 DEF LeaseExpires, Advances, LeaseType
    <3> QED BY <2>3, <2>5, <2>9, <3>1 DEF LeaseExpires
  <2>10. ASSUME NEW ev \in Events, record_event(ev) PROVE ExecInv'
    <3>1. ASSUME NEW j \in Job PROVE Persists(j)
      <4>1. \/ jobs'[j] = jobs[j]
            \/ j = JobOf(ev) /\ jobs'[j] = WithEvent(j, ev)
        BY <1>0, <2>10 DEF record_event, JobsType
      <4>2. jobs[j] \in JobType /\ ev.state \in EventState /\ ev.lease \in DOMAIN leases
        BY <1>0 DEF JobsType, Events
      <4>3. ev.state # "absent" /\ ev.state # "queued"
        BY <4>2, NamesAssumption DEF HostState
      <4>4. j = JobOf(ev) => jobs[j].status # "absent"
        BY <4>2 DEF JobOf, ExecInv, Registered, Exists
      <4> QED BY <4>1, <4>2, <4>3, <4>4 DEF Persists, WithEvent, JobType
    <3> QED BY <2>3, <2>4, <2>10, <3>1 DEF record_event
  <2>11. ASSUME NEW ev \in Events, record_event_quarantined(ev) \/ record_event_unacknowledged(ev)
         PROVE  ExecInv'
    BY <2>3, <2>4, <2>5, <2>11 DEF record_event_quarantined, record_event_unacknowledged
  <2>12. ASSUME NEW ev \in Events, record_event_expired(ev) PROVE ExecInv'
    <3>1. ev.lease \in DOMAIN leases /\ Finished(ev.lease)
      BY <2>12 DEF Events, record_event_expired, Finished
    <3> QED BY <2>3, <2>4, <2>12, <3>1, RequeuePersists DEF record_event_expired
  <2> QED BY <1>2, <2>6, <2>7, <2>8, <2>9, <2>10, <2>11, <2>12 DEF WorkerStep
<1> QED BY <1>1, <1>2

\* The step lemma behind ExecutionExclusive, for steps and stutters.
LEMMA StepExecInv == ASSUME TypeOK, LeaseOwnership, ExecInv, [Next]_vars PROVE ExecInv'
<1>1. CASE UNCHANGED vars
  <2>1. SameLeases /\ Advances /\ idempotency' = idempotency /\ \A j \in Job : Persists(j)
    BY <1>1 DEF vars, SameLeases, Advances, Persists
  <2> QED BY <2>1, ExecKept
<1> QED BY <1>1, ExecHost, ExecWorker DEF Next

\* Two workers never execute one job at the same time, for any number of nodes,
\* jobs, Goals, retries and late messages.
THEOREM ExecutionExclusive == Spec => []NoDoubleExecution
<1>1. Init => ExecInv
  <2> SUFFICES ASSUME Init PROVE ExecInv
    OBVIOUS
  <2>1. DOMAIN leases = {} /\ \A j \in Job : ~Exists(j)
    BY DEF Init, Exists, NoJob
  <2> QED BY <2>1 DEF ExecInv, Registered, JobsRegistered, AcknowledgedMatch, QueuedFree, OlderFinished
<1>2. ExecInv => NoDoubleExecution
  BY DEF ExecInv, AcknowledgedMatch, OlderFinished, Finished, NoDoubleExecution
<1> QED BY <1>1, <1>2, StepExecInv, TypeCorrect, OwnershipCorrect, PTL DEF Spec
-----------------------------------------------------------------------------
(* What one step may do to one job.  The three results below rest on this  *)
(* summary of the fifteen handlers: a finished job is left alone, a job id *)
(* is created once, and an open job moves on in few ways.                  *)

\* A job that waits for a node, or is not there, is not finished.
OpenInv ==
  \A j \in Job : jobs[j].status \in {"absent", "queued"} => jobs[j].terminal = None

Created(j) ==
  \E m \in Manifest :
    /\ m.job = j /\ ~Exists(j) /\ submit_job(m)
    /\ jobs'[j] = [NoJob EXCEPT !.manifest = m, !.status = "queued"]

Recorded(j) == \E ev \in Events : record_event(ev) /\ JobOf(ev) = j

MovesOn(j) ==
  /\ Exists(j) /\ ~Terminal(j)
  /\ jobs'[j].manifest = jobs[j].manifest
  /\ jobs'[j].status # "absent"
  /\ jobs'[j].status = "queued" => jobs'[j].terminal = None
  /\ jobs[j].cancel => jobs'[j].cancel
  /\ jobs'[j].attempt >= jobs[j].attempt
  /\ jobs'[j].lease \in {jobs[j].lease, NoLease, Len(leases) + 1}
  /\ StaleRevision(jobs[j].manifest) /\ jobs'[j].terminal = None
       => jobs'[j].status \in {jobs[j].status, "stale", "waiting_review"}
  /\ jobs'[j].terminal \in {None, HostCancel} \/ Recorded(j)

JobStep(j) == jobs'[j] = jobs[j] \/ Created(j) \/ MovesOn(j)

\* A change of status alone, of an open job that stays open, moves it on.
LEMMA MovesStatus ==
  ASSUME TypeOK, NEW j \in Job, NEW s, Exists(j), ~Terminal(j),
         jobs'[j] = [jobs[j] EXCEPT !.status = s, !.node = None, !.lease = NoLease],
         s \in {"queued", "stale", "waiting_review"},
         StaleRevision(jobs[j].manifest) => s # "queued"
  PROVE  MovesOn(j)
<1>1. jobs[j] \in JobType
  BY DEF TypeOK
<1>2. /\ jobs'[j].manifest = jobs[j].manifest /\ jobs'[j].status = s
      /\ jobs'[j].terminal = jobs[j].terminal /\ jobs'[j].cancel = jobs[j].cancel
      /\ jobs'[j].attempt = jobs[j].attempt /\ jobs'[j].lease = NoLease
      /\ jobs[j].attempt \in Nat
  BY <1>1 DEF JobType
<1> QED BY <1>2 DEF MovesOn, Terminal

\* What the fencing loop does to an open job.
LEMMA MovesFenced ==
  ASSUME TypeOK, NEW j \in Job, NEW g, NEW r, jobs'[j] = Fenced(g, r)[j]
  PROVE  JobStep(j)
<1>1. jobs[j] \in JobType
  BY DEF TypeOK
<1>2. CASE jobs'[j] = jobs[j]
  BY <1>2 DEF JobStep
<1>3. CASE jobs'[j] # jobs[j]
  <2>1. /\ Exists(j) /\ ~Terminal(j)
        /\ jobs'[j] = [jobs[j] EXCEPT !.status = "stale", !.cancel = TRUE]
    BY <1>3 DEF Fenced
  <2>2. /\ jobs'[j].manifest = jobs[j].manifest /\ jobs'[j].status = "stale"
        /\ jobs'[j].terminal = jobs[j].terminal /\ jobs'[j].cancel
        /\ jobs'[j].attempt = jobs[j].attempt /\ jobs'[j].lease = jobs[j].lease
        /\ jobs[j].attempt \in Nat
    BY <1>1, <2>1 DEF JobType
  <2> QED BY <2>1, <2>2 DEF JobStep, MovesOn, Terminal
<1> QED BY <1>2, <1>3

\* What a requeue does to a job.
LEMMA MovesRequeued ==
  ASSUME TypeOK, NEW l \in DOMAIN leases, Exists(leases[l].job), jobs' = requeue_expired(l),
         NEW j \in Job
  PROVE  JobStep(j)
<1>1. leases[l].job \in Job /\ jobs[j] \in JobType /\ jobs \in JobsType
  BY LeaseFields DEF TypeOK, JobsType
<1>2. CASE jobs'[j] = jobs[j]
  BY <1>2 DEF JobStep
<1>3. CASE jobs'[j] # jobs[j]
  <2>1. j = leases[l].job /\ ~Terminal(j) /\ jobs' = Released(j, RequeueStatus(j))
    BY <1>1, <1>3 DEF requeue_expired, Released, JobsType
  <2>2. jobs'[j] = [jobs[j] EXCEPT !.status = RequeueStatus(j), !.node = None, !.lease = NoLease]
    BY <1>1, <2>1 DEF Released, JobsType
  <2>3. Exists(j)
    BY <2>1
  <2>4. /\ RequeueStatus(j) \in {"queued", "stale", "waiting_review"}
        /\ StaleRevision(jobs[j].manifest) => RequeueStatus(j) # "queued"
    BY DEF RequeueStatus
  <2> QED BY <2>1, <2>2, <2>3, <2>4, MovesStatus DEF JobStep
<1> QED BY <1>2, <1>3

\* Host operations.
LEMMA HostJobStep ==
  ASSUME TypeOK, JobsRegistered, AbsentFree, HostStep, NEW j \in Job
  PROVE  JobStep(j)
<1>0. jobs \in JobsType /\ jobs[j] \in JobType
  BY DEF TypeOK, JobsType
<1>1. ASSUME NEW m \in Manifest, submit_job(m) PROVE JobStep(j)
  <2>1. JobsAfterSubmit(m) \in JobsType
    BY <1>0, FencedType DEF JobsAfterSubmit
  <2>2. m.job \in Job /\ ~Exists(m.job)
    BY <1>1, SubmitFresh DEF submit_job
  <2>3. CASE j = m.job
    <3>1. jobs'[j] = [NoJob EXCEPT !.manifest = m, !.status = "queued"]
      BY <1>1, <2>1, <2>3 DEF submit_job, JobsType
    <3> QED BY <1>1, <2>2, <2>3, <3>1 DEF JobStep, Created
  <2>4. CASE j # m.job
    <3>1. jobs'[j] = jobs[j] \/ jobs'[j] = Fenced(m.goal, m.rev)[j]
      BY <1>1, <2>1, <2>4 DEF submit_job, JobsType, JobsAfterSubmit
    <3> QED BY <3>1, MovesFenced DEF JobStep
  <2> QED BY <2>3, <2>4
<1>2. ASSUME NEW m \in Manifest, submit_job_bad_inputs(m) PROVE JobStep(j)
  BY <1>2, MovesFenced DEF submit_job_bad_inputs, JobsAfterSubmit, JobStep
<1>3. ASSUME NEW g \in Goal, NEW r \in 1..MaxRevision, authorize_goal_revision(g, r) PROVE JobStep(j)
  BY <1>3, MovesFenced DEF authorize_goal_revision, JobStep
<1>4. ASSUME NEW k \in Job, cancel_job(k) PROVE JobStep(j)
  <2>1. CASE j # k
    BY <1>0, <1>4, <2>1 DEF cancel_job, JobsType, JobStep
  <2>2. CASE j = k /\ jobs[j].status = "queued"
    <3>1. jobs'[j] = [jobs[j] EXCEPT !.cancel = TRUE, !.status = "cancelled", !.terminal = HostCancel]
      BY <1>0, <1>4, <2>2 DEF cancel_job, JobsType
    <3>2. /\ jobs'[j].manifest = jobs[j].manifest /\ jobs'[j].status = "cancelled"
          /\ jobs'[j].terminal = HostCancel /\ jobs'[j].cancel
          /\ jobs'[j].attempt = jobs[j].attempt /\ jobs'[j].lease = jobs[j].lease
          /\ jobs[j].attempt \in Nat
      BY <1>0, <3>1 DEF JobType
    <3>3. Exists(j) /\ ~Terminal(j)
      BY <1>4, <2>2 DEF cancel_job
    <3> QED BY <3>2, <3>3, NamesAssumption DEF JobStep, MovesOn
  <2>3. CASE j = k /\ jobs[j].status # "queued"
    <3>1. jobs'[j] = [jobs[j] EXCEPT !.cancel = TRUE]
      BY <1>0, <1>4, <2>3 DEF cancel_job, JobsType
    <3>2. /\ jobs'[j].manifest = jobs[j].manifest /\ jobs'[j].status = jobs[j].status
          /\ jobs'[j].terminal = jobs[j].terminal /\ jobs'[j].cancel
          /\ jobs'[j].attempt = jobs[j].attempt /\ jobs'[j].lease = jobs[j].lease
          /\ jobs[j].attempt \in Nat
      BY <1>0, <3>1 DEF JobType
    <3>3. Exists(j) /\ ~Terminal(j)
      BY <1>4, <2>3 DEF cancel_job
    <3> QED BY <3>2, <3>3 DEF JobStep, MovesOn, Exists, Terminal
  <2> QED BY <2>1, <2>2, <2>3
<1>5. ASSUME recover_expired_leases PROVE JobStep(j)
  <2>1. CASE ~LostLease(j)
    BY <1>5, <2>1 DEF recover_expired_leases, JobStep
  <2>2. CASE LostLease(j)
    <3>1. jobs'[j] = [jobs[j] EXCEPT !.status = RecoveredStatus(j), !.node = None, !.lease = NoLease]
      BY <1>5, <2>2 DEF recover_expired_leases
    <3>2. Exists(j) /\ ~Terminal(j)
      BY <2>2 DEF LostLease, AbsentFree
    <3>3. /\ RecoveredStatus(j) \in {"queued", "stale", "waiting_review"}
          /\ StaleRevision(jobs[j].manifest) => RecoveredStatus(j) # "queued"
      BY DEF RecoveredStatus
    <3> QED BY <3>1, <3>2, <3>3, MovesStatus DEF JobStep
  <2> QED BY <2>1, <2>2
<1>6. ASSUME NEW n \in Node, revoke_node(n) PROVE JobStep(j)
  <2>1. CASE jobs'[j] = jobs[j]
    BY <2>1 DEF JobStep
  <2>2. CASE jobs'[j] # jobs[j]
    <3>1. /\ jobs[j].node = n /\ ~Terminal(j)
          /\ jobs'[j] = [jobs[j] EXCEPT !.status = "waiting_review", !.node = None, !.lease = NoLease]
      BY <1>6, <2>2 DEF revoke_node
    <3>2. Exists(j)
      BY <3>1, NamesAssumption DEF AbsentFree
    <3> QED BY <3>1, <3>2, MovesStatus DEF JobStep
  <2> QED BY <2>1, <2>2
<1> QED BY <1>1, <1>2, <1>3, <1>4, <1>5, <1>6 DEF HostStep

\* The job that lease_next gives away, and those it passes over.
LEMMA LeaseJobStep ==
  ASSUME TypeOK, OpenInv, NEW n \in Node, lease_next(n), NEW j \in Job
  PROVE  JobStep(j)
<1>0. jobs \in JobsType /\ jobs[j] \in JobType
  BY DEF TypeOK, JobsType
<1>1. PICK k \in Job : Leasable(k, n) /\ jobs' = JobsAfterLease(k, n)
  BY DEF lease_next
<1>2. CASE jobs'[j] = jobs[j]
  BY <1>2 DEF JobStep
<1>3. CASE j = k
  <2>1. jobs'[j] = [jobs[j] EXCEPT !.status = "leased", !.attempt = jobs[j].attempt + 1,
                                   !.node = n, !.lease = Len(leases) + 1]
    BY <1>1, <1>3 DEF JobsAfterLease
  <2>2. /\ jobs'[j].manifest = jobs[j].manifest /\ jobs'[j].status = "leased"
        /\ jobs'[j].terminal = jobs[j].terminal /\ jobs'[j].cancel = jobs[j].cancel
        /\ jobs'[j].attempt = jobs[j].attempt + 1 /\ jobs'[j].lease = Len(leases) + 1
        /\ jobs[j].attempt \in Nat
    BY <1>0, <2>1 DEF JobType
  <2>3. jobs[j].status = "queued" /\ ~StaleRevision(jobs[j].manifest)
    BY <1>1, <1>3 DEF Leasable
  <2> QED BY <2>2, <2>3 DEF JobStep, MovesOn, OpenInv, Exists, Terminal
<1>4. CASE j # k /\ jobs'[j] # jobs[j]
  <2>1. jobs[j].status = "queued" /\ jobs'[j] = [jobs[j] EXCEPT !.status = "stale"]
    BY <1>1, <1>4 DEF JobsAfterLease
  <2>2. /\ jobs'[j].manifest = jobs[j].manifest /\ jobs'[j].status = "stale"
        /\ jobs'[j].terminal = jobs[j].terminal /\ jobs'[j].cancel = jobs[j].cancel
        /\ jobs'[j].attempt = jobs[j].attempt /\ jobs'[j].lease = jobs[j].lease
        /\ jobs[j].attempt \in Nat
    BY <1>0, <2>1 DEF JobType
  <2> QED BY <2>1, <2>2 DEF JobStep, MovesOn, OpenInv, Exists, Terminal
<1> QED BY <1>2, <1>3, <1>4

\* Messages about a lease whose job is there, and the clock.
LEMMA MessageJobStep ==
  ASSUME TypeOK, NEW l \in DOMAIN leases, Exists(leases[l].job),
         acknowledge_lease(l) \/ heartbeat_lease(l), NEW j \in Job
  PROVE  JobStep(j)
BY MovesRequeued DEF acknowledge_lease, heartbeat_lease, JobStep

\* An event of a job that is there.
LEMMA EventJobStep ==
  ASSUME TypeOK, NEW ev \in Events, Exists(JobOf(ev)),
         \/ record_event(ev) \/ record_event_quarantined(ev)
         \/ record_event_unacknowledged(ev) \/ record_event_expired(ev),
         NEW j \in Job
  PROVE  JobStep(j)
<1>0. jobs \in JobsType /\ jobs[j] \in JobType /\ ev.lease \in DOMAIN leases
  BY DEF TypeOK, JobsType, Events
<1>1. CASE record_event_expired(ev)
  BY <1>0, <1>1, MovesRequeued DEF record_event_expired, JobOf
<1>2. CASE record_event(ev)
  <2>1. CASE jobs'[j] = jobs[j]
    BY <2>1 DEF JobStep
  <2>2. CASE jobs'[j] # jobs[j]
    <3>1. j = JobOf(ev) /\ jobs'[j] = WithEvent(j, ev) /\ ~Terminal(j) /\ ~WrongRevision(ev)
      BY <1>0, <1>2, <2>2 DEF record_event, JobsType, StillOpen, Accepts
    <3>2. ev.state \in EventState /\ ev.lease \in DOMAIN leases
      BY DEF Events
    <3>3. ev.state # "absent" /\ ev.state # "queued"
      BY <3>2, NamesAssumption DEF HostState
    <3>4. /\ jobs'[j].manifest = jobs[j].manifest /\ jobs'[j].status = ev.state
          /\ jobs'[j].cancel = jobs[j].cancel
          /\ jobs'[j].attempt = jobs[j].attempt /\ jobs'[j].lease = jobs[j].lease
          /\ jobs[j].attempt \in Nat
      BY <1>0, <3>1 DEF JobType, WithEvent
    <3>5. Exists(j) /\ ~StaleRevision(jobs[j].manifest)
      BY <3>1, <3>2 DEF JobOf, ExecInv, Registered, WrongRevision, ManifestOf
    <3>6. Recorded(j)
      BY <1>2, <3>1 DEF Recorded
    <3> QED BY <3>1, <3>3, <3>4, <3>5, <3>6 DEF JobStep, MovesOn
  <2> QED BY <2>1, <2>2
<1> QED BY <1>1, <1>2 DEF record_event_quarantined, record_event_unacknowledged, JobStep

\* Worker messages and the clock.
LEMMA WorkerJobStep ==
  ASSUME TypeOK, ExecInv, OpenInv, WorkerStep, NEW j \in Job
  PROVE  JobStep(j)
<1>1. jobs' = jobs => JobStep(j)
  BY DEF JobStep
<1>2. \A l \in DOMAIN leases : Exists(leases[l].job)
  BY DEF ExecInv, Registered
<1>3. \A ev \in Events : Exists(JobOf(ev))
  BY <1>2 DEF Events, JobOf
<1> QED BY <1>1, <1>2, <1>3, LeaseJobStep, MessageJobStep, EventJobStep
      DEF WorkerStep, node_changes, LeaseExpires

\* The summary covers every step.
LEMMA EachJobStep ==
  ASSUME TypeOK, LeaseOwnership, ExecInv, OpenInv, [Next]_vars, NEW j \in Job
  PROVE  JobStep(j)
<1>1. CASE UNCHANGED vars
  BY <1>1 DEF vars, JobStep
<1> QED BY <1>1, AbsentIsFree, HostJobStep, WorkerJobStep DEF Next, ExecInv, Registered

\* What lease_next adds, and that nothing else changes what a lease says.
LEMMA LeasesGrow ==
  ASSUME TypeOK, [Next]_vars
  PROVE  /\ DOMAIN leases \subseteq DOMAIN leases'
         /\ \A l \in DOMAIN leases :
              leases'[l].job = leases[l].job /\ leases'[l].attempt = leases[l].attempt
         /\ \A l \in DOMAIN leases' : l \notin DOMAIN leases =>
              /\ l = Len(leases) + 1
              /\ leases'[l].attempt = jobs'[leases'[l].job].attempt
<1>1. CASE UNCHANGED vars
  BY <1>1 DEF vars
<1>2. CASE HostStep
  BY <1>2, HostKeepsOrDrops
<1>3. CASE WorkerStep /\ ~ \E n \in Node : lease_next(n)
  BY <1>3, WorkerKeepsOrDrops DEF SameLeases
<1>4. ASSUME NEW n \in Node, lease_next(n)
      PROVE  /\ DOMAIN leases \subseteq DOMAIN leases'
             /\ \A l \in DOMAIN leases :
                  leases'[l].job = leases[l].job /\ leases'[l].attempt = leases[l].attempt
             /\ \A l \in DOMAIN leases' : l \notin DOMAIN leases =>
                  /\ l = Len(leases) + 1
                  /\ leases'[l].attempt = jobs'[leases'[l].job].attempt
  <2> DEFINE new(j) == [job |-> j, node |-> n, attempt |-> jobs[j].attempt + 1,
                        acknowledged |-> FALSE, expired |-> FALSE]
  <2>1. PICK j \in Job : leases' = Append(leases, new(j)) /\ jobs' = JobsAfterLease(j, n)
    BY <1>4 DEF lease_next
  <2>2. leases \in Seq(LeaseType) /\ Len(leases) \in Nat /\ jobs[j] \in JobType
    BY DEF TypeOK
  <2>3. new(j) \in LeaseType
    BY <2>2 DEF LeaseType, JobType
  <2>4. /\ DOMAIN leases = 1..Len(leases) /\ DOMAIN leases' = 1..(Len(leases) + 1)
        /\ \A l \in 1..Len(leases) : leases'[l] = leases[l]
        /\ leases'[Len(leases) + 1] = new(j)
    <3> HIDE DEF new
    <3> QED BY <2>1, <2>2, <2>3
  <2>5. jobs'[j].attempt = jobs[j].attempt + 1
    <3>1. jobs'[j] = [jobs[j] EXCEPT !.status = "leased", !.attempt = jobs[j].attempt + 1,
                                     !.node = n, !.lease = Len(leases) + 1]
      BY <2>1 DEF JobsAfterLease
    <3> QED BY <2>2, <3>1 DEF JobType
  <2>6. leases'[Len(leases) + 1].job = j /\ leases'[Len(leases) + 1].attempt = jobs[j].attempt + 1
    BY <2>4
  <2> QED BY <2>2, <2>4, <2>5, <2>6
<1> QED BY <1>1, <1>2, <1>3, <1>4 DEF Next

\* The only step that writes a log appends the event it records.
LEMMA LogsGrow ==
  ASSUME [Next]_vars, NEW j \in Job, TypeOK
  PROVE  \/ events'[j] = events[j]
         \/ \E ev \in Events :
              record_event(ev) /\ JobOf(ev) = j /\ events'[j] = Append(events[j], ev)
<1>1. events' = events \/ \E ev \in Events : record_event(ev)
  BY DEF Next, HostStep, WorkerStep, submit_job, submit_job_bad_inputs, authorize_goal_revision,
         cancel_job, recover_expired_leases, revoke_node, node_changes, lease_next,
         acknowledge_lease, heartbeat_lease, LeaseExpires, record_event_quarantined,
         record_event_unacknowledged, record_event_expired, vars
<1>2. ASSUME NEW ev \in Events, record_event(ev), events'[j] # events[j]
      PROVE  JobOf(ev) = j /\ events'[j] = Append(events[j], ev)
  BY <1>2 DEF record_event, TypeOK
<1> QED BY <1>1, <1>2

-----------------------------------------------------------------------------
(* SupersededFenced.  StaleRevision compares for equality, so a job could  *)
(* also be "stale" by being AHEAD of the authority; that it never is, is   *)
(* the first half of the invariant.                                        *)

\* The authority of a Goal is at or above the revision of each of its jobs.
WatermarkInv ==
  \A j \in Job : Exists(j) /\ jobs[j].manifest.goal # None
                   => jobs[j].manifest.rev <= authority[jobs[j].manifest.goal]

\* What a step does to the authority: it raises the watermark of one Goal and
\* then fences every open job that falls behind, or leaves it alone.
LEMMA AuthorityStep ==
  ASSUME TypeOK, LeaseOwnership, ExecInv, [Next]_vars, NEW g \in Goal
  PROVE  \/ authority'[g] = authority[g]
         \/ /\ authority'[g] > authority[g]
            /\ \A j \in Job :
                 Exists(j) /\ ~Terminal(j) /\ jobs[j].manifest.goal = g
                   /\ jobs[j].manifest.rev < authority'[g]
                   => jobs'[j].status = "stale" /\ jobs'[j].cancel
<1>0. authority \in [Goal -> Nat] /\ jobs \in JobsType /\ \A j \in Job : jobs[j] \in JobType
  BY DEF TypeOK, JobsType
<1>1. ASSUME NEW j \in Job, NEW r, Exists(j), ~Terminal(j), jobs[j].manifest.goal = g,
             jobs[j].manifest.rev < r
      PROVE  Fenced(g, r)[j].status = "stale" /\ Fenced(g, r)[j].cancel
  <2>1. Fenced(g, r)[j] = [jobs[j] EXCEPT !.status = "stale", !.cancel = TRUE]
    BY <1>1 DEF Fenced
  <2> QED BY <1>0, <2>1 DEF JobType
<1>2. authority' = authority
        \/ (\E m \in Manifest : submit_job(m) \/ submit_job_bad_inputs(m))
        \/ \E h \in Goal, r \in 1..MaxRevision : authorize_goal_revision(h, r)
  BY DEF Next, HostStep, WorkerStep, cancel_job, recover_expired_leases, revoke_node, node_changes,
         lease_next, acknowledge_lease, heartbeat_lease, LeaseExpires, record_event,
         record_event_quarantined, record_event_unacknowledged, record_event_expired, vars
<1> SUFFICES ASSUME authority'[g] # authority[g]
             PROVE  /\ authority'[g] > authority[g]
                    /\ \A j \in Job :
                         Exists(j) /\ ~Terminal(j) /\ jobs[j].manifest.goal = g
                           /\ jobs[j].manifest.rev < authority'[g]
                           => jobs'[j].status = "stale" /\ jobs'[j].cancel
  OBVIOUS
<1>3. ASSUME NEW m \in Manifest, submit_job(m) \/ submit_job_bad_inputs(m)
      PROVE  /\ authority'[g] > authority[g]
             /\ \A j \in Job :
                  Exists(j) /\ ~Terminal(j) /\ jobs[j].manifest.goal = g
                    /\ jobs[j].manifest.rev < authority'[g]
                    => jobs'[j].status = "stale" /\ jobs'[j].cancel
  <2>1. RaisesRevision(m) /\ authority' = [authority EXCEPT ![m.goal] = m.rev]
    BY <1>3 DEF submit_job, submit_job_bad_inputs, AuthorityAfterSubmit
  <2>2. g = m.goal /\ authority'[g] = m.rev /\ m.rev > authority[g]
    BY <1>0, <2>1 DEF RaisesRevision
  <2>3. ASSUME NEW j \in Job, Exists(j) PROVE jobs'[j] = Fenced(g, m.rev)[j]
    <3>1. CASE submit_job_bad_inputs(m)
      BY <2>1, <2>2, <3>1 DEF submit_job_bad_inputs, JobsAfterSubmit
    <3>2. CASE submit_job(m)
      <4>1. j # m.job /\ Fenced(g, m.rev) \in JobsType
        BY <1>0, <2>3, <3>2, SubmitFresh, FencedType DEF submit_job, ExecInv, Registered
      <4> QED BY <2>1, <2>2, <3>2, <4>1 DEF submit_job, JobsAfterSubmit, JobsType
    <3> QED BY <1>3, <3>1, <3>2
  <2> QED BY <1>1, <2>2, <2>3
<1>4. ASSUME NEW h \in Goal, NEW r \in 1..MaxRevision, authorize_goal_revision(h, r)
      PROVE  /\ authority'[g] > authority[g]
             /\ \A j \in Job :
                  Exists(j) /\ ~Terminal(j) /\ jobs[j].manifest.goal = g
                    /\ jobs[j].manifest.rev < authority'[g]
                    => jobs'[j].status = "stale" /\ jobs'[j].cancel
  <2>1. g = h /\ authority'[g] = r /\ r >= authority[g]
    BY <1>0, <1>4 DEF authorize_goal_revision
  <2>2. r > authority[g] /\ jobs' = Fenced(g, r)
    <3>1. r \in Nat /\ authority[g] \in Nat
      BY <1>0, BoundsAssumption
    <3>2. r > authority[g]
      BY <2>1, <3>1
    <3> QED BY <1>4, <2>1, <3>2 DEF authorize_goal_revision
  <2> QED BY <1>1, <2>1, <2>2
<1> QED BY <1>2, <1>3, <1>4

\* The watermark and what its jobs' manifests say.
LEMMA RevisionTypes ==
  ASSUME TypeOK, ExecInv, NEW j \in Job, Exists(j), jobs[j].manifest.goal # None
  PROVE  /\ jobs[j].manifest.goal \in Goal /\ jobs[j].manifest.rev \in Nat \ {0}
         /\ authority[jobs[j].manifest.goal] \in Nat
<1>1. jobs[j].manifest \in Manifest
  BY DEF ExecInv, Registered, JobsRegistered
<1>2. jobs[j].manifest \in ManifestType /\ jobs[j].manifest.rev > 0
  BY <1>1, ManifestAssumption
<1> QED BY <1>2 DEF ManifestType, TypeOK

\* Under the watermark, stale means behind.
LEMMA StaleIsBehind ==
  ASSUME TypeOK, ExecInv, WatermarkInv, NEW j \in Job, Exists(j)
  PROVE  StaleRevision(jobs[j].manifest)
           <=> /\ jobs[j].manifest.goal # None
               /\ jobs[j].manifest.rev < authority[jobs[j].manifest.goal]
<1>1. CASE jobs[j].manifest.goal = None
  BY <1>1 DEF StaleRevision
<1>2. CASE jobs[j].manifest.goal # None
  <2>1. /\ jobs[j].manifest.rev \in Nat \ {0} /\ authority[jobs[j].manifest.goal] \in Nat
        /\ jobs[j].manifest.rev <= authority[jobs[j].manifest.goal]
    BY <1>2, RevisionTypes DEF WatermarkInv
  <2> QED BY <1>2, <2>1 DEF StaleRevision, authorized_goal_revision
<1> QED BY <1>1, <1>2

\* The watermark is never overtaken.
LEMMA WatermarkKept ==
  ASSUME TypeOK, LeaseOwnership, ExecInv, OpenInv, WatermarkInv, [Next]_vars
  PROVE  WatermarkInv'
<1> SUFFICES ASSUME NEW j \in Job, jobs'[j].status # "absent", jobs'[j].manifest.goal # None
             PROVE  jobs'[j].manifest.rev <= authority'[jobs'[j].manifest.goal]
  BY DEF WatermarkInv, Exists
<1>1. CASE Exists(j) /\ jobs'[j].manifest = jobs[j].manifest
  <2> DEFINE g == jobs[j].manifest.goal
  <2>1. g \in Goal /\ jobs[j].manifest.rev \in Nat /\ authority[g] \in Nat
    BY <1>1, RevisionTypes
  <2>2. jobs[j].manifest.rev <= authority[g]
    BY <1>1 DEF WatermarkInv
  <2>3. authority'[g] \in Nat /\ authority'[g] >= authority[g]
    <3>1. authority' \in [Goal -> Nat]
      BY StepTypeOK DEF TypeOK
    <3> QED BY <2>1, <3>1, AuthorityStep
  <2> QED BY <1>1, <2>1, <2>2, <2>3
<1>2. CASE Created(j)
  <2>1. PICK m \in Manifest : submit_job(m) /\ jobs'[j] = [NoJob EXCEPT !.manifest = m, !.status = "queued"]
    BY <1>2 DEF Created
  <2>2. jobs'[j].manifest = m
    BY <2>1 DEF NoJob
  <2>3. m.goal \in Goal /\ m.rev \in Nat /\ authority \in [Goal -> Nat]
    BY <2>2, ManifestAssumption DEF ManifestType, TypeOK
  <2>4. m.rev >= authority[m.goal] /\ authority' = AuthorityAfterSubmit(m)
    BY <2>1, <2>2 DEF submit_job, Admissible
  <2> QED BY <2>2, <2>3, <2>4 DEF AuthorityAfterSubmit, RaisesRevision
<1> QED BY <1>1, <1>2, EachJobStep DEF JobStep, MovesOn, Exists

\* A superseded open job is fenced by the step that supersedes it and stays so.
LEMMA FenceKept ==
  ASSUME TypeOK, LeaseOwnership, ExecInv, OpenInv, WatermarkInv, SupersededFenced, [Next]_vars
  PROVE  SupersededFenced'
<1>0. TypeOK' /\ ExecInv' /\ WatermarkInv'
  BY StepTypeOK, StepExecInv, WatermarkKept
<1> SUFFICES ASSUME NEW j \in Job, Exists(j)', ~Terminal(j)', StaleRevision(jobs[j].manifest)'
             PROVE  jobs'[j].status \in {"stale", "waiting_review"} /\ jobs'[j].cancel
  BY DEF SupersededFenced
<1>1. jobs'[j].manifest.goal # None /\ jobs'[j].manifest.rev < authority'[jobs'[j].manifest.goal]
  <2> DEFINE g == jobs'[j].manifest.goal
  <2>1. jobs'[j].manifest \in Manifest
    BY <1>0 DEF ExecInv, Registered, JobsRegistered
  <2>2. g # None /\ jobs'[j].manifest.rev # (IF authority'[g] = 0 THEN jobs'[j].manifest.rev ELSE authority'[g])
    BY DEF StaleRevision, authorized_goal_revision
  <2>3. g \in Goal /\ jobs'[j].manifest.rev \in Nat /\ authority'[g] \in Nat
    <3>1. jobs'[j].manifest \in ManifestType
      BY <2>1, ManifestAssumption
    <3> QED BY <1>0, <2>2, <3>1 DEF ManifestType, TypeOK
  <2>4. jobs'[j].manifest.rev <= authority'[g]
    BY <1>0, <2>2 DEF WatermarkInv
  <2> QED BY <2>2, <2>3, <2>4
<1>2. CASE Created(j)
  <2>1. PICK m \in Manifest : submit_job(m) /\ jobs'[j] = [NoJob EXCEPT !.manifest = m, !.status = "queued"]
    BY <1>2 DEF Created
  <2>2. jobs'[j].manifest = m
    BY <2>1 DEF NoJob
  <2>3. m.goal \in Goal /\ m.rev \in Nat /\ authority \in [Goal -> Nat]
    BY <1>1, <2>2, ManifestAssumption DEF ManifestType, TypeOK
  <2>4. authority'[m.goal] <= m.rev
    BY <1>1, <2>1, <2>2, <2>3 DEF submit_job, Admissible, AuthorityAfterSubmit, RaisesRevision
  <2> QED BY <1>0, <1>1, <2>2, <2>3, <2>4 DEF TypeOK
<1>3. CASE Exists(j) /\ ~Terminal(j) /\ jobs'[j].manifest = jobs[j].manifest
            /\ (jobs'[j] = jobs[j] \/ MovesOn(j))
  <2> DEFINE g == jobs[j].manifest.goal
  <2>1. g \in Goal
    BY <1>1, <1>3, RevisionTypes
  <2>2. CASE authority'[g] = authority[g]
    <3>1. StaleRevision(jobs[j].manifest)
      BY <1>1, <1>3, <2>2, StaleIsBehind
    <3>2. jobs[j].status \in {"stale", "waiting_review"} /\ jobs[j].cancel
      BY <1>3, <3>1 DEF SupersededFenced
    <3> QED BY <1>3, <3>1, <3>2 DEF MovesOn, Terminal
  <2>3. CASE authority'[g] # authority[g]
    BY <1>1, <1>3, <2>1, <2>3, AuthorityStep
  <2> QED BY <2>2, <2>3
<1> QED BY <1>2, <1>3, EachJobStep DEF JobStep, MovesOn, Exists, Terminal

\* A job that is queued or absent is never a finished one.
LEMMA OpenKept ==
  ASSUME TypeOK, LeaseOwnership, ExecInv, OpenInv, [Next]_vars
  PROVE  OpenInv'
<1> SUFFICES ASSUME NEW j \in Job, jobs'[j].status \in {"absent", "queued"}
             PROVE  jobs'[j].terminal = None
  BY DEF OpenInv
<1>1. CASE jobs'[j] = jobs[j]
  BY <1>1 DEF OpenInv
<1>2. CASE Created(j)
  BY <1>2 DEF Created, NoJob
<1>3. CASE MovesOn(j)
  BY <1>3 DEF MovesOn
<1> QED BY <1>1, <1>2, <1>3, EachJobStep DEF JobStep

\* What holds in every reachable state, for the theorems that follow.
CoreInv == TypeOK /\ LeaseOwnership /\ ExecInv /\ OpenInv /\ WatermarkInv

\* CoreInv is inductive.
LEMMA CoreCorrect == Spec => []CoreInv
<1>1. Init => OpenInv /\ WatermarkInv /\ ExecInv
  <2> SUFFICES ASSUME Init PROVE OpenInv /\ WatermarkInv /\ ExecInv
    OBVIOUS
  <2>1. DOMAIN leases = {} /\ \A j \in Job : ~Exists(j) /\ jobs[j].terminal = None
    BY DEF Init, Exists, NoJob
  <2> QED BY <2>1 DEF ExecInv, Registered, JobsRegistered, AcknowledgedMatch, QueuedFree, OlderFinished, OpenInv,
                      WatermarkInv
<1>2. ASSUME TypeOK, LeaseOwnership, ExecInv, OpenInv, WatermarkInv, [Next]_vars
      PROVE  ExecInv' /\ OpenInv' /\ WatermarkInv'
  BY <1>2, StepExecInv, OpenKept, WatermarkKept
<1> QED BY <1>1, <1>2, TypeCorrect, OwnershipCorrect, PTL DEF Spec, CoreInv

\* No order of submissions, authorizations, requeues, recoveries, revocations
\* and worker messages leaves an open job of a superseded revision runnable, or
\* its worker not told to stop, for any number of Goals, jobs and revisions.
THEOREM SupersededCorrect == Spec => []SupersededFenced
<1>1. Init => SupersededFenced
  BY DEF Init, SupersededFenced, Exists, NoJob
<1>2. ASSUME CoreInv, SupersededFenced, [Next]_vars PROVE SupersededFenced'
  BY <1>2, FenceKept DEF CoreInv
<1> QED BY <1>1, <1>2, CoreCorrect, PTL DEF Spec

-----------------------------------------------------------------------------
(* DecisionsFinal.  A refused lease stays refused: it never becomes its    *)
(* job's lease again, because the leases to come have indices of their     *)
(* own, and a superseded revision stays behind a watermark that only rises.*)

Refused(l) == StaleRevision(ManifestOf(l)) \/ jobs[leases[l].job].lease # l

QuarantineInv == \A l \in DOMAIN leases : <<l, "event">> \in quarantine => Refused(l)

\* A refused lease stays refused.
LEMMA RefusedStable ==
  ASSUME CoreInv, [Next]_vars, NEW l \in DOMAIN leases, Refused(l)
  PROVE  Refused(l)'
<1> DEFINE j == leases[l].job
<1>1. j \in Job /\ Exists(j) /\ leases'[l].job = j
  BY LeaseFields, LeasesGrow DEF CoreInv, ExecInv, Registered
<1>2. jobs'[j] = jobs[j] \/ MovesOn(j)
  BY <1>1, EachJobStep DEF CoreInv, JobStep, Created
<1>3. jobs'[j].manifest = jobs[j].manifest
  BY <1>2 DEF MovesOn
<1>4. CASE jobs[j].lease # l
  <2>1. jobs'[j].lease \in {jobs[j].lease, NoLease, Len(leases) + 1}
    BY <1>2 DEF MovesOn
  <2>2. l # NoLease /\ l # Len(leases) + 1
    <3>1. DOMAIN leases = 1..Len(leases) /\ Len(leases) \in Nat
      BY DEF CoreInv, TypeOK
    <3> QED BY <3>1 DEF NoLease
  <2> QED BY <1>1, <1>4, <2>1, <2>2 DEF Refused
<1>5. CASE StaleRevision(ManifestOf(l))
  <2> DEFINE g == jobs[j].manifest.goal
  <2>1. g # None /\ jobs[j].manifest.rev < authority[g]
    BY <1>1, <1>5, StaleIsBehind DEF CoreInv, ManifestOf
  <2>2. g \in Goal /\ jobs[j].manifest.rev \in Nat /\ authority[g] \in Nat
    BY <1>1, <2>1, RevisionTypes DEF CoreInv
  <2>3. authority'[g] \in Nat /\ authority'[g] >= authority[g]
    <3>1. authority' \in [Goal -> Nat]
      BY StepTypeOK DEF CoreInv, TypeOK
    <3> QED BY <2>2, <3>1, AuthorityStep DEF CoreInv
  <2>4. authority'[g] # 0 /\ authority'[g] # jobs[j].manifest.rev
    BY <2>1, <2>2, <2>3
  <2> QED BY <1>1, <1>3, <2>1, <2>4
        DEF Refused, StaleRevision, authorized_goal_revision, ManifestOf
<1> QED BY <1>4, <1>5 DEF Refused

\* Only a refused event leaves an entry of the kind "event".
LEMMA QuarantineGrows ==
  ASSUME [Next]_vars, NEW l, <<l, "event">> \in quarantine'
  PROVE  \/ <<l, "event">> \in quarantine
         \/ \E ev \in Events : record_event_quarantined(ev) /\ ev.lease = l
<1>1. \/ quarantine' = quarantine
      \/ \E k : quarantine' = quarantine \cup {<<k, "lease">>}
      \/ \E ev \in Events :
           record_event_quarantined(ev) /\ quarantine' = quarantine \cup {<<ev.lease, "event">>}
  BY DEF Next, HostStep, WorkerStep, submit_job, submit_job_bad_inputs, authorize_goal_revision,
         cancel_job, recover_expired_leases, revoke_node, node_changes, lease_next,
         acknowledge_lease, heartbeat_lease, LeaseExpires, record_event, record_event_quarantined,
         record_event_unacknowledged, record_event_expired, Quarantine, vars
<1> QED BY <1>1

\* The lease of a quarantined event stays refused.
LEMMA QuarantineKept ==
  ASSUME CoreInv, QuarantineInv, [Next]_vars
  PROVE  QuarantineInv'
<1> SUFFICES ASSUME NEW l \in DOMAIN leases', <<l, "event">> \in quarantine'
             PROVE  Refused(l)'
  BY DEF QuarantineInv
<1>1. CASE <<l, "event">> \in quarantine
  <2>1. l \in DOMAIN leases
    BY <1>1 DEF CoreInv, TypeOK
  <2> QED BY <1>1, <2>1, RefusedStable DEF QuarantineInv
<1>2. ASSUME NEW ev \in Events, record_event_quarantined(ev), ev.lease = l PROVE Refused(l)'
  <2>1. l \in DOMAIN leases /\ leases[l].job \in Job
    BY <1>2, LeaseFields DEF Events, CoreInv
  <2>2. WrongRevision(ev) \/ jobs[leases[l].job].lease # l
    <3> SUFFICES ASSUME ForeignLease(ev), jobs[leases[l].job].lease = l PROVE FALSE
      BY <1>2 DEF record_event_quarantined
    <3>1. l # NoLease
      BY <2>1 DEF NoLease, CoreInv, TypeOK
    <3> QED BY <1>2, <2>1, <3>1 DEF ForeignLease, JobOf, CoreInv, LeaseOwnership
  <2>3. Refused(l)
    BY <1>2, <2>2 DEF Refused, WrongRevision
  <2> QED BY <2>1, <2>3, RefusedStable
<1> QED BY <1>1, <1>2, QuarantineGrows

\* No step changes a finished job or its log.
LEMMA TerminalKept ==
  ASSUME CoreInv, [Next]_vars, NEW j \in Job, Terminal(j)
  PROVE  jobs'[j] = jobs[j] /\ events'[j] = events[j]
<1>1. jobs'[j] = jobs[j]
  BY EachJobStep DEF CoreInv, JobStep, Created, MovesOn, OpenInv, Exists, Terminal
<1>2. events'[j] = events[j]
  BY LogsGrow DEF CoreInv, record_event, StillOpen
<1> QED BY <1>1, <1>2

\* A finished job and the refusal of an event are never undone by anything a
\* host, a worker or the clock does later, in any interleaving.
THEOREM DecisionsCorrect == Spec => DecisionsFinal
<1>1. Init => QuarantineInv
  BY DEF Init, QuarantineInv
<1>2. ASSUME CoreInv, QuarantineInv, [Next]_vars PROVE QuarantineInv'
  BY <1>2, QuarantineKept
<1>3. ASSUME CoreInv, [Next]_vars
      PROVE  \A j \in Job :
               Terminal(j) /\ Exists(j)' => jobs'[j] = jobs[j] /\ events'[j] = events[j]
  BY <1>3, TerminalKept
<1>4. ASSUME CoreInv, QuarantineInv, [Next]_vars
      PROVE  \A j \in Job :
               Len(events'[j]) > Len(events[j])
                 => <<events'[j][Len(events'[j])].lease, "event">> \notin quarantine
  <2> SUFFICES ASSUME NEW j \in Job, Len(events'[j]) > Len(events[j])
               PROVE  <<events'[j][Len(events'[j])].lease, "event">> \notin quarantine
    OBVIOUS
  <2>1. events \in [Job -> Seq(EventType)] /\ Len(events[j]) \in Nat
    BY <1>4 DEF CoreInv, TypeOK
  <2>2. events'[j] # events[j]
    BY <2>1
  <2>3. PICK ev \in Events : record_event(ev) /\ events'[j] = Append(events[j], ev)
    BY <1>4, <2>2, LogsGrow DEF CoreInv
  <2>4. ev \in EventType /\ ev.lease \in DOMAIN leases
    BY <1>4, BoundsAssumption DEF Events, EventType, CoreInv, TypeOK
  <2>5. events'[j][Len(events'[j])] = ev
    BY <2>1, <2>3, <2>4
  <2>6. ~Refused(ev.lease)
    BY <2>3 DEF record_event, Accepts, Refused, WrongRevision, ForeignLease, JobOf
  <2> QED BY <1>4, <2>4, <2>5, <2>6 DEF QuarantineInv
<1>5. Spec => TerminalStable
  BY <1>3, CoreCorrect, PTL DEF Spec, TerminalStable
<1>6. Spec => QuarantineFinal
  BY <1>1, <1>2, <1>4, CoreCorrect, PTL DEF Spec, QuarantineFinal
<1> QED BY <1>5, <1>6 DEF DecisionsFinal

-----------------------------------------------------------------------------
(* LogAgrees.  A log is ordered because an event is only recorded under    *)
(* the lease its job holds, whose attempt is the highest of the job's.     *)

AttemptsBelow ==
  \A l \in DOMAIN leases : leases[l].attempt <= jobs[leases[l].job].attempt
LoggedLeases ==
  \A j \in Job : \A i \in DOMAIN events[j] :
    events[j][i].lease \in DOMAIN leases /\ leases[events[j][i].lease].job = j
LogInv == AttemptsBelow /\ LoggedLeases /\ LogAgrees

\* The attempts of leases and jobs are numbers.
LEMMA AttemptTypes ==
  ASSUME TypeOK
  PROVE  /\ \A l \in DOMAIN leases : leases[l].attempt \in Nat
         /\ \A j \in Job : jobs[j].attempt \in Nat
<1>1. ASSUME NEW j \in Job PROVE jobs[j].attempt \in Nat
  <2>1. jobs[j] \in JobType
    BY DEF TypeOK
  <2> QED BY <2>1 DEF JobType
<1> QED BY <1>1, LeaseFields DEF LeaseType

\* No lease runs ahead of its job.
LEMMA AttemptsKept ==
  ASSUME CoreInv, AttemptsBelow, [Next]_vars
  PROVE  AttemptsBelow'
<1>0. TypeOK'
  BY StepTypeOK DEF CoreInv
<1> SUFFICES ASSUME NEW l \in DOMAIN leases' PROVE leases'[l].attempt <= jobs'[leases'[l].job].attempt
  BY DEF AttemptsBelow
<1>1. leases'[l].job \in Job /\ leases'[l].attempt \in Nat
  <2>1. leases'[l] \in LeaseType
    BY <1>0 DEF TypeOK
  <2> QED BY <2>1 DEF LeaseType
<1>2. CASE l \notin DOMAIN leases
  <2>1. leases'[l].attempt = jobs'[leases'[l].job].attempt
    BY <1>2, LeasesGrow DEF CoreInv
  <2> QED BY <1>1, <2>1
<1>3. CASE l \in DOMAIN leases
  <2> DEFINE j == leases[l].job
  <2>1. j \in Job /\ Exists(j) /\ leases'[l].job = j /\ leases'[l].attempt = leases[l].attempt
    BY <1>3, LeaseFields, LeasesGrow DEF CoreInv, ExecInv, Registered
  <2>2. jobs[j].attempt \in Nat /\ jobs'[j].attempt \in Nat /\ leases[l].attempt \in Nat
    <3>1. jobs'[j] \in JobType
      BY <1>0, <2>1 DEF TypeOK
    <3> QED BY <1>3, <2>1, <3>1, AttemptTypes DEF CoreInv, JobType
  <2>3. jobs'[j].attempt >= jobs[j].attempt
    <3>1. jobs'[j] = jobs[j] \/ MovesOn(j)
      BY <2>1, EachJobStep DEF CoreInv, JobStep, Created
    <3> QED BY <2>2, <3>1 DEF MovesOn
  <2>4. leases[l].attempt <= jobs[j].attempt
    BY <1>3 DEF AttemptsBelow
  <2> QED BY <2>1, <2>2, <2>3, <2>4
<1> QED BY <1>2, <1>3

\* What an accepted event is, against the log it joins.
LEMMA EventNewest ==
  ASSUME CoreInv, LogInv, NEW ev \in Events, record_event(ev), NEW j, j = JobOf(ev)
  PROVE  /\ j \in Job /\ ev \in EventType /\ ev.lease \in DOMAIN leases /\ ~Terminal(j)
         /\ \A i \in DOMAIN events[j] :
              LET a == leases[events[j][i].lease].attempt
                  b == leases[ev.lease].attempt
              IN a < b \/ (a = b /\ events[j][i].sequence < ev.sequence)
<1>1. ev \in EventType /\ ev.lease \in DOMAIN leases /\ ev.sequence \in Nat
  BY BoundsAssumption DEF Events, EventType, CoreInv, TypeOK
<1>2. j \in Job /\ leases[ev.lease].job = j
  BY <1>1, LeaseFields DEF JobOf, CoreInv
<1>3. ~Terminal(j) /\ ~OutOfSequence(ev) /\ jobs[j].attempt = leases[ev.lease].attempt
  BY DEF record_event, StillOpen, Accepts, ForeignLease
<1>4. ASSUME NEW i \in DOMAIN events[j]
      PROVE  LET a == leases[events[j][i].lease].attempt
                 b == leases[ev.lease].attempt
             IN a < b \/ (a = b /\ events[j][i].sequence < ev.sequence)
  <2> DEFINE l == events[j][i].lease
  <2>1. l \in DOMAIN leases /\ leases[l].job = j
    BY <1>2 DEF LogInv, LoggedLeases
  <2>2. leases[l].attempt \in Nat /\ leases[ev.lease].attempt \in Nat /\ events[j][i].sequence \in Nat
    <3>1. events[j][i] \in EventType
      BY <1>2 DEF CoreInv, TypeOK
    <3> QED BY <1>1, <2>1, <3>1, AttemptTypes DEF CoreInv, EventType
  <2>3. leases[l].attempt <= leases[ev.lease].attempt
    BY <1>3, <2>1 DEF LogInv, AttemptsBelow
  <2>4. leases[l].attempt = leases[ev.lease].attempt => ~(ev.sequence <= events[j][i].sequence)
    BY <1>3 DEF OutOfSequence
  <2> QED BY <1>1, <2>2, <2>3, <2>4
<1> QED BY <1>1, <1>2, <1>3, <1>4

\* What a log is after a step: the one before, or one event more.
LEMMA LogAfter ==
  ASSUME CoreInv, NEW j \in Job, NEW ev \in EventType, events'[j] = Append(events[j], ev)
  PROVE  /\ Len(events[j]) \in Nat /\ DOMAIN events[j] = 1..Len(events[j])
         /\ Len(events'[j]) = Len(events[j]) + 1
         /\ DOMAIN events'[j] = 1..(Len(events[j]) + 1)
         /\ \A i \in DOMAIN events[j] : events'[j][i] = events[j][i]
         /\ events'[j][Len(events[j]) + 1] = ev
<1>1. events[j] \in Seq(EventType)
  BY DEF CoreInv, TypeOK
<1> QED BY <1>1

\* The log order is kept.
LEMMA OrderKept ==
  ASSUME CoreInv, LogInv, [Next]_vars
  PROVE  LoggedLeases' /\ LogOrdered'
<1>1. ASSUME NEW j \in Job
      PROVE  /\ \A i \in DOMAIN events'[j] :
                  events'[j][i].lease \in DOMAIN leases /\ leases[events'[j][i].lease].job = j
             /\ \A i, k \in DOMAIN events'[j] :
                  i < k => LET a == leases[events'[j][i].lease].attempt
                               b == leases[events'[j][k].lease].attempt
                           IN a < b \/ (a = b /\ events'[j][i].sequence < events'[j][k].sequence)
  <2>1. CASE events'[j] = events[j]
    BY <2>1 DEF LogInv, LoggedLeases, LogAgrees, LogOrdered
  <2>2. CASE events'[j] # events[j]
    <3>1. PICK ev \in Events : record_event(ev) /\ JobOf(ev) = j /\ events'[j] = Append(events[j], ev)
      BY <2>2, LogsGrow DEF CoreInv
    <3>2. /\ ev \in EventType /\ ev.lease \in DOMAIN leases /\ leases[ev.lease].job = j
          /\ \A i \in DOMAIN events[j] :
               LET a == leases[events[j][i].lease].attempt
                   b == leases[ev.lease].attempt
               IN a < b \/ (a = b /\ events[j][i].sequence < ev.sequence)
      BY <3>1, EventNewest DEF JobOf
    <3>3. /\ Len(events[j]) \in Nat /\ DOMAIN events[j] = 1..Len(events[j])
          /\ DOMAIN events'[j] = 1..(Len(events[j]) + 1)
          /\ \A i \in DOMAIN events[j] : events'[j][i] = events[j][i]
          /\ events'[j][Len(events[j]) + 1] = ev
      BY <3>1, <3>2, LogAfter
    <3>4. \A i \in DOMAIN events'[j] :
            events'[j][i].lease \in DOMAIN leases /\ leases[events'[j][i].lease].job = j
      BY <3>2, <3>3 DEF LogInv, LoggedLeases
    <3>5. ASSUME NEW i \in DOMAIN events'[j], NEW k \in DOMAIN events'[j], i < k
          PROVE  LET a == leases[events'[j][i].lease].attempt
                     b == leases[events'[j][k].lease].attempt
                 IN a < b \/ (a = b /\ events'[j][i].sequence < events'[j][k].sequence)
      <4>1. i \in DOMAIN events[j]
        BY <3>3, <3>5
      <4>2. CASE k \in DOMAIN events[j]
        BY <3>3, <3>5, <4>1, <4>2 DEF LogInv, LogAgrees, LogOrdered
      <4>3. CASE k = Len(events[j]) + 1
        BY <3>2, <3>3, <4>1, <4>3
      <4> QED BY <3>3, <4>2, <4>3
    <3> QED BY <3>4, <3>5
  <2> QED BY <2>1, <2>2
<1>2. \A l \in DOMAIN leases :
        /\ l \in DOMAIN leases' /\ leases'[l].job = leases[l].job
        /\ leases'[l].attempt = leases[l].attempt
  BY LeasesGrow DEF CoreInv
<1> QED BY <1>1, <1>2 DEF LoggedLeases, LogOrdered

\* A step that records nothing about a job keeps what its log says of it.
LEMMA AgreementKept ==
  ASSUME CoreInv, LogInv, [Next]_vars
  PROVE  TerminalAgreement'
<1> SUFFICES ASSUME NEW j \in Job, Exists(j)'
             PROVE  /\ \A i \in DOMAIN events'[j] :
                         events'[j][i].state \in TerminalState
                           => i = Len(events'[j]) /\ jobs'[j].terminal = events'[j][i]
                    /\ jobs'[j].terminal \in EventType
                         => /\ events'[j] # <<>> /\ events'[j][Len(events'[j])] = jobs'[j].terminal
                            /\ jobs'[j].status = jobs'[j].terminal.state
  BY DEF TerminalAgreement
<1>0. ~Exists(j) => DOMAIN events[j] = {}
  BY DEF LogInv, LoggedLeases, CoreInv, ExecInv, Registered
<1>1. ASSUME ~Terminal(j), NEW i \in DOMAIN events[j] PROVE events[j][i].state \notin TerminalState
  <2>1. Exists(j) /\ events[j][i] \in EventType
    BY <1>0, <1>1 DEF CoreInv, TypeOK
  <2> QED BY <1>1, <2>1, NamesAssumption DEF LogInv, LogAgrees, TerminalAgreement, Terminal
<1>2. CASE Terminal(j)
  <2>1. jobs'[j] = jobs[j] /\ events'[j] = events[j]
    BY <1>2, TerminalKept
  <2> QED BY <2>1 DEF LogInv, LogAgrees, TerminalAgreement, Exists
<1>3. CASE ~Terminal(j) /\ events'[j] = events[j]
  <2>1. jobs'[j].terminal \in {None, HostCancel}
    <3>1. CASE jobs'[j] = jobs[j]
      BY <1>3, <3>1 DEF Terminal
    <3>2. CASE Created(j)
      BY <3>2 DEF Created, NoJob
    <3>3. CASE MovesOn(j)
      <4>1. ~Recorded(j)
        <5> SUFFICES ASSUME NEW ev \in Events, record_event(ev), JobOf(ev) = j PROVE FALSE
          BY DEF Recorded
        <5>1. ev \in EventType /\ events[j] \in Seq(EventType)
          BY EventNewest DEF CoreInv, TypeOK
        <5>2. events'[j] = Append(events[j], ev)
          BY DEF record_event, CoreInv, TypeOK
        <5> QED BY <1>3, <5>1, <5>2, LogAfter
      <4> QED BY <3>3, <4>1 DEF MovesOn
    <3> QED BY <3>1, <3>2, <3>3, EachJobStep DEF CoreInv, JobStep
  <2> QED BY <1>1, <1>3, <2>1, NamesAssumption
<1>4. CASE ~Terminal(j) /\ events'[j] # events[j]
  <2>1. PICK ev \in Events : record_event(ev) /\ JobOf(ev) = j /\ events'[j] = Append(events[j], ev)
    BY <1>4, LogsGrow DEF CoreInv
  <2>2. ev \in EventType
    BY <2>1, EventNewest
  <2>3. /\ Len(events[j]) \in Nat /\ DOMAIN events[j] = 1..Len(events[j])
        /\ Len(events'[j]) = Len(events[j]) + 1
        /\ DOMAIN events'[j] = 1..(Len(events[j]) + 1)
        /\ \A i \in DOMAIN events[j] : events'[j][i] = events[j][i]
        /\ events'[j][Len(events[j]) + 1] = ev
    BY <2>1, <2>2, LogAfter
  <2>4. /\ ev.state \in TerminalState => jobs'[j].terminal = ev /\ jobs'[j].status = ev.state
        /\ ev.state \notin TerminalState => jobs'[j].terminal = None
    <3>1. jobs'[j] = WithEvent(j, ev) /\ jobs[j] \in JobType
      BY <2>1 DEF record_event, CoreInv, TypeOK
    <3> QED BY <1>4, <3>1 DEF WithEvent, JobType, Terminal
  <2>5. events'[j] # <<>>
    BY <2>3
  <2>6. ASSUME NEW i \in DOMAIN events'[j], events'[j][i].state \in TerminalState
        PROVE  i = Len(events'[j]) /\ jobs'[j].terminal = events'[j][i]
    BY <1>1, <1>4, <2>3, <2>4, <2>6
  <2>7. ASSUME jobs'[j].terminal \in EventType
        PROVE  /\ events'[j][Len(events'[j])] = jobs'[j].terminal
               /\ jobs'[j].status = jobs'[j].terminal.state
    BY <2>3, <2>4, <2>7, NamesAssumption
  <2> QED BY <2>5, <2>6, <2>7
<1> QED BY <1>2, <1>3, <1>4

\* The log of every job is ordered through all its attempts and closed by the
\* very event that decided it, for any number of nodes, jobs and retries.
THEOREM LogCorrect == Spec => []LogAgrees
<1>1. Init => LogInv
  BY DEF Init, LogInv, AttemptsBelow, LoggedLeases, LogAgrees, LogOrdered, TerminalAgreement, Exists,
         NoJob
<1>2. ASSUME CoreInv, LogInv, [Next]_vars PROVE LogInv'
  <2>1. AttemptsBelow'
    BY <1>2, AttemptsKept DEF LogInv
  <2> QED BY <1>2, <2>1, OrderKept, AgreementKept DEF LogInv, LogAgrees
<1>3. LogInv => LogAgrees
  BY DEF LogInv
<1> QED BY <1>1, <1>2, <1>3, CoreCorrect, PTL DEF Spec
-----------------------------------------------------------------------------
(* Revalidation: the closure compute_invalidation takes, pass by pass.  The *)
(* facts about a recursive function follow from the least input that would  *)
(* break them.                                                              *)

\* Every set of naturals that is not empty has a least element.
LEMMA LeastNatural ==
  ASSUME NEW T \in SUBSET Nat, T # {}
  PROVE  \E x \in T : \A y \in T : x <= y
<1>1. IsWellFoundedOn(OpToRel(<, Nat), Nat)
  BY NatLessThanWellFounded, Zenon
<1>2. \E x \in T : \A y \in T : ~(<<y, x>> \in OpToRel(<, Nat))
  BY <1>1, WFMin, Zenon
<1>3. \A x \in Nat : \A y \in Nat : y < x => <<y, x>> \in OpToRel(<, Nat)
  BY DEF OpToRel
<1>4. \E x \in T : \A y \in T : ~(y < x)
  BY <1>2, <1>3, Zenon
<1>5. \A x \in T : \A y \in T : ~(y < x) => x <= y
  OBVIOUS
<1> QED BY <1>4, <1>5, Zenon

\* One pass of the loop of compute_invalidation over a set of affected criteria.
Pass(graph, S) == S \cup {c \in Criterion : graph[c].depends_on \cap S # {}}

\* f lists the affected criteria after each of the first n passes.
Passes(f, graph, changed, n) ==
  f = [i \in 0..n |-> IF i = 0 THEN DirectlyAffected(graph, changed) ELSE Pass(graph, f[i - 1])]

\* There is such a list for any number of passes.
LEMMA PassesExist ==
  ASSUME NEW graph, NEW changed, NEW n \in Nat
  PROVE  \E f : Passes(f, graph, changed, n)
<1> DEFINE T == {i \in Nat : ~ \E f : Passes(f, graph, changed, i)}
<1> SUFFICES ASSUME T # {} PROVE FALSE
  OBVIOUS
<1>1. PICK i \in T : \A k \in T : i <= k
  BY LeastNatural
<1>2. CASE i = 0
  <2> DEFINE f == [k \in 0..0 |-> DirectlyAffected(graph, changed)]
  <2>1. Passes(f, graph, changed, 0)
    BY DEF Passes
  <2> QED BY <1>1, <1>2, <2>1
<1>3. CASE i # 0
  <2>1. i - 1 \in Nat /\ i - 1 \notin T
    BY <1>1, <1>3
  <2>2. PICK f : Passes(f, graph, changed, i - 1)
    BY <2>1
  <2> DEFINE g == [k \in 0..i |-> IF k = i THEN Pass(graph, f[i - 1]) ELSE f[k]]
  <2>3. ASSUME NEW k \in 0..i
        PROVE  g[k] = IF k = 0 THEN DirectlyAffected(graph, changed) ELSE Pass(graph, g[k - 1])
    <3>1. CASE k = 0
      BY <1>3, <2>1, <2>2, <3>1 DEF Passes
    <3>2. CASE k # 0 /\ k # i
      BY <2>1, <2>2, <3>2 DEF Passes
    <3>3. CASE k = i
      BY <1>3, <2>1, <2>2, <3>3 DEF Passes
    <3> QED BY <3>1, <3>2, <3>3
  <2>4. Passes(g, graph, changed, i)
    <3> HIDE DEF g
    <3>1. g = [k \in 0..i |-> g[k]]
      BY DEF g
    <3> QED BY <2>3, <3>1 DEF Passes
  <2> QED BY <1>1, <2>4
<1> QED BY <1>2, <1>3

\* AffectedBy is the last of them.
LEMMA AffectedByPasses ==
  ASSUME NEW graph, NEW changed, Cardinality(Criterion) \in Nat
  PROVE  \E f : /\ Passes(f, graph, changed, Cardinality(Criterion))
                /\ AffectedBy(graph, changed) = f[Cardinality(Criterion)]
<1>1. \E f : Passes(f, graph, changed, Cardinality(Criterion))
  BY PassesExist
<1> QED BY <1>1 DEF AffectedBy, Passes, Pass

\* A set of criteria that the change reaches and that is closed under
\* dependence, as InvalidationMeant puts it.
ClosedUnder(graph, changed, S) ==
  /\ DirectlyAffected(graph, changed) \subseteq S
  /\ \A c \in Criterion : graph[c].depends_on \cap S # {} => c \in S

\* The passes stay within the criteria, and within any closed set; no pass
\* drops a criterion.
LEMMA PassesWithin ==
  ASSUME NEW graph, NEW changed, NEW n \in Nat, NEW f, Passes(f, graph, changed, n),
         NEW S \in SUBSET Criterion, ClosedUnder(graph, changed, S)
  PROVE  \A i \in 0..n : f[i] \subseteq S
<1> DEFINE T == {i \in 0..n : ~(f[i] \subseteq S)}
<1> SUFFICES ASSUME T # {} PROVE FALSE
  OBVIOUS
<1>1. PICK i \in T : \A k \in T : i <= k
  <2>1. T \in SUBSET Nat
    OBVIOUS
  <2> HIDE DEF T
  <2> QED BY <2>1, LeastNatural
<1>2. CASE i = 0
  BY <1>1, <1>2 DEF Passes, ClosedUnder
<1>3. CASE i # 0
  <2>1. i - 1 \in 0..n /\ f[i - 1] \subseteq S
    BY <1>1, <1>3
  <2>2. f[i] = Pass(graph, f[i - 1])
    BY <1>1, <1>3 DEF Passes
  <2>3. Pass(graph, f[i - 1]) \subseteq S
    BY <2>1 DEF Pass, ClosedUnder
  <2> QED BY <1>1, <2>2, <2>3
<1> QED BY <1>2, <1>3

\* A pass that adds nothing is followed by none that does.
LEMMA PassesSettle ==
  ASSUME NEW graph, NEW changed, NEW n \in Nat, NEW f, Passes(f, graph, changed, n),
         NEW k \in 0..n, Pass(graph, f[k]) = f[k]
  PROVE  \A i \in k..n : f[i] = f[k]
<1> DEFINE T == {i \in k..n : f[i] # f[k]}
<1> SUFFICES ASSUME T # {} PROVE FALSE
  OBVIOUS
<1>1. PICK i \in T : \A j \in T : i <= j
  <2>1. T \in SUBSET Nat
    OBVIOUS
  <2> HIDE DEF T
  <2> QED BY <2>1, LeastNatural
<1>2. i # k /\ i - 1 \in k..n /\ i \in 0..n /\ i # 0
  BY <1>1
<1>3. f[i - 1] = f[k]
  BY <1>1, <1>2
<1>4. f[i] = Pass(graph, f[i - 1])
  BY <1>2 DEF Passes
<1> QED BY <1>1, <1>3, <1>4

\* As long as every pass adds something, there are more affected criteria than
\* passes.
LEMMA PassesGrow ==
  ASSUME NEW graph, NEW changed, NEW n \in Nat, NEW f, Passes(f, graph, changed, n),
         IsFiniteSet(Criterion), \A i \in 0..n : f[i] \subseteq Criterion,
         f[0] # {}, \A i \in 1..n : f[i] # f[i - 1]
  PROVE  \A i \in 0..n : Cardinality(f[i]) > i
<1> DEFINE T == {i \in 0..n : ~(Cardinality(f[i]) > i)}
<1> SUFFICES ASSUME T # {} PROVE FALSE
  OBVIOUS
<1>1. PICK i \in T : \A j \in T : i <= j
  <2>1. T \in SUBSET Nat
    OBVIOUS
  <2> HIDE DEF T
  <2> QED BY <2>1, LeastNatural
<1>2. \A k \in 0..n : IsFiniteSet(f[k]) /\ Cardinality(f[k]) \in Nat
  BY FS_Subset, FS_CardinalityType
<1>3. CASE i = 0
  <2>1. Cardinality(f[0]) # 0
    BY <1>2, FS_EmptySet
  <2> QED BY <1>1, <1>2, <1>3, <2>1
<1>4. CASE i # 0
  <2>1. i - 1 \in 0..n /\ i \in 1..n /\ Cardinality(f[i - 1]) > i - 1
    BY <1>1, <1>4
  <2>2. f[i] = Pass(graph, f[i - 1])
    BY <2>1 DEF Passes
  <2>3. f[i - 1] \subseteq f[i] /\ f[i - 1] # f[i]
    BY <2>1, <2>2 DEF Pass
  <2>4. Cardinality(f[i - 1]) <= Cardinality(f[i]) /\ Cardinality(f[i - 1]) # Cardinality(f[i])
    BY <1>2, <2>1, <2>3, FS_Subset
  <2>5. Cardinality(f[i - 1]) \in Nat /\ Cardinality(f[i]) \in Nat
    BY <1>2, <2>1
  <2>6. Cardinality(f[i]) > i
    BY <2>1, <2>4, <2>5
  <2> QED BY <1>1, <2>6
<1> QED BY <1>3, <1>4

\* compute_invalidation finds the least closed set of criteria, whatever cycles
\* the dependencies have: the passes settle before they outnumber the criteria.
LEMMA AffectedByLeast ==
  ASSUME NEW graph, NEW changed
  PROVE  /\ AffectedBy(graph, changed) \subseteq Criterion
         /\ ClosedUnder(graph, changed, AffectedBy(graph, changed))
         /\ \A S \in SUBSET Criterion :
              ClosedUnder(graph, changed, S) => AffectedBy(graph, changed) \subseteq S
<1> DEFINE N == Cardinality(Criterion)
<1>1. N \in Nat /\ IsFiniteSet(Criterion)
  BY RequestAssumption, FS_CardinalityType
<1>2. PICK f : Passes(f, graph, changed, N) /\ AffectedBy(graph, changed) = f[N]
  BY <1>1, AffectedByPasses
<1>3. ClosedUnder(graph, changed, Criterion)
  BY DEF ClosedUnder, DirectlyAffected
<1>4. \A i \in 0..N : f[i] \subseteq Criterion
  BY <1>1, <1>2, <1>3, PassesWithin
<1>5. ASSUME NEW S \in SUBSET Criterion, ClosedUnder(graph, changed, S) PROVE f[N] \subseteq S
  <2>1. N \in 0..N
    BY <1>1
  <2>2. \A i \in 0..N : f[i] \subseteq S
    BY <1>1, <1>2, <1>5, PassesWithin
  <2> QED BY <2>1, <2>2
<1>6. \A i \in 1..N : f[i] = Pass(graph, f[i - 1])
  BY <1>1, <1>2 DEF Passes
<1>7. f[0] = DirectlyAffected(graph, changed)
  BY <1>1, <1>2 DEF Passes
<1>8. Pass(graph, f[N]) = f[N]
  <2>1. CASE \E k \in 0..N : Pass(graph, f[k]) = f[k]
    BY <1>1, <1>2, <2>1, PassesSettle
  <2>2. CASE \A k \in 0..N : Pass(graph, f[k]) # f[k]
    <3>1. \A i \in 1..N : i - 1 \in 0..N /\ f[i] # f[i - 1]
      BY <1>1, <1>6, <2>2
    <3>2. f[0] # {}
      BY <1>1, <2>2 DEF Pass
    <3>3. Cardinality(f[N]) > N
      BY <1>1, <1>2, <1>4, <3>1, <3>2, PassesGrow
    <3>4. Cardinality(f[N]) <= N /\ Cardinality(f[N]) \in Nat
      BY <1>1, <1>4, FS_Subset, FS_CardinalityType
    <3> QED BY <1>1, <3>3, <3>4
  <2> QED BY <2>1, <2>2
<1>9. f[0] \subseteq f[N]
  <2> DEFINE T == {i \in 0..N : ~(f[0] \subseteq f[i])}
  <2> SUFFICES ASSUME T # {} PROVE FALSE
    BY <1>1
  <2>1. PICK i \in T : \A k \in T : i <= k
    <3>1. T \in SUBSET Nat
      BY <1>1
    <3> HIDE DEF T
    <3> QED BY <3>1, LeastNatural
  <2>2. i # 0 /\ i \in 1..N /\ i - 1 \in 0..N /\ f[0] \subseteq f[i - 1]
    BY <1>1, <2>1
  <2> QED BY <1>6, <2>1, <2>2 DEF Pass
<1>10. ClosedUnder(graph, changed, f[N])
  BY <1>7, <1>8, <1>9 DEF ClosedUnder, Pass
<1> QED BY <1>1, <1>2, <1>4, <1>5, <1>10

\* What Without leaves of a sequence after each position.
Kept(f, s, gone, n) ==
  f = [i \in 0..n |-> IF i = 0 THEN << >> ELSE IF s[i] \in gone THEN f[i - 1] ELSE Append(f[i - 1], s[i])]

\* There is such a list, and its members are sequences.
LEMMA KeptExists ==
  ASSUME NEW S, NEW s \in Seq(S), NEW gone, NEW n \in 0..Len(s)
  PROVE  \E f : Kept(f, s, gone, n) /\ f \in [0..n -> Seq(S)]
<1> DEFINE P(i) == \E f : Kept(f, s, gone, i) /\ f \in [0..i -> Seq(S)]
<1> DEFINE T == {i \in 0..Len(s) : ~P(i)}
<1> SUFFICES ASSUME T # {} PROVE FALSE
  OBVIOUS
<1>0. Len(s) \in Nat
  OBVIOUS
<1>1. PICK i \in T : \A k \in T : i <= k
  <2>1. T \in SUBSET Nat
    BY <1>0
  <2> HIDE DEF T
  <2> QED BY <2>1, LeastNatural
<1>2. CASE i = 0
  <2> DEFINE f == [k \in 0..0 |-> << >>]
  <2>0. << >> \in Seq(S)
    OBVIOUS
  <2>1. f \in [0..0 -> Seq(S)]
    BY <2>0, Zenon
  <2>2. \A k \in 0..0 : k = 0
    OBVIOUS
  <2>3. Kept(f, s, gone, 0)
    BY <2>2, Zenon DEF Kept
  <2> QED BY <1>1, <1>2, <2>1, <2>3
<1>3. CASE i # 0
  <2>1. i - 1 \in 0..Len(s) /\ i - 1 \notin T /\ i \in 1..Len(s)
    <3> HIDE DEF P
    <3> QED BY <1>0, <1>1, <1>3
  <2>2. PICK f : Kept(f, s, gone, i - 1) /\ f \in [0..(i - 1) -> Seq(S)]
    BY <2>1
  <2> DEFINE last == IF s[i] \in gone THEN f[i - 1] ELSE Append(f[i - 1], s[i])
             g == [k \in 0..i |-> IF k = i THEN last ELSE f[k]]
  <2>3. ASSUME NEW k \in 0..i
        PROVE  g[k] = IF k = 0 THEN << >> ELSE IF s[k] \in gone THEN g[k - 1] ELSE Append(g[k - 1], s[k])
    <3>1. CASE k = 0
      <4>1. 0 \in 0..(i - 1) /\ 0 # i
        BY <1>3, <2>1
      <4>2. f[0] = << >>
        BY <2>2, <4>1, Zenon DEF Kept
      <4>3. g[0] = f[0]
        BY <3>1, <4>1
      <4> QED BY <3>1, <4>2, <4>3, Zenon
    <3>2. CASE k # 0 /\ k # i
      <4>1. k \in 0..(i - 1) /\ k - 1 \in 0..i /\ k - 1 # i
        BY <2>1, <3>2
      <4>2. f[k] = IF s[k] \in gone THEN f[k - 1] ELSE Append(f[k - 1], s[k])
        BY <2>2, <3>2, <4>1, Zenon DEF Kept
      <4>3. g[k] = f[k] /\ g[k - 1] = f[k - 1]
        BY <3>2, <4>1, Zenon
      <4> QED BY <3>2, <4>2, <4>3, Zenon
    <3>3. CASE k = i
      BY <1>3, <2>1, <2>2, <3>3 DEF Kept
    <3> QED BY <3>1, <3>2, <3>3
  <2>4. g \in [0..i -> Seq(S)]
    <3>1. last \in Seq(S)
      BY <2>1, <2>2
    <3> HIDE DEF last
    <3> QED BY <2>1, <2>2, <3>1
  <2>5. Kept(g, s, gone, i)
    <3> HIDE DEF g
    <3>1. g = [k \in 0..i |-> g[k]]
      BY DEF g
    <3> QED BY <2>3, <3>1 DEF Kept
  <2> QED BY <1>1, <2>4, <2>5
<1> QED BY <1>2, <1>3

\* Two such lists are one.
LEMMA KeptUnique ==
  ASSUME NEW s, NEW gone, NEW n \in Nat, NEW f, NEW g, Kept(f, s, gone, n), Kept(g, s, gone, n)
  PROVE  \A i \in 0..n : f[i] = g[i]
<1> DEFINE T == {i \in 0..n : f[i] # g[i]}
<1> SUFFICES ASSUME T # {} PROVE FALSE
  OBVIOUS
<1>1. PICK i \in T : \A k \in T : i <= k
  <2>1. T \in SUBSET Nat
    OBVIOUS
  <2> HIDE DEF T
  <2> QED BY <2>1, LeastNatural
<1>2. CASE i = 0
  BY <1>1, <1>2 DEF Kept
<1>3. CASE i # 0
  <2>1. i - 1 \in 0..n /\ f[i - 1] = g[i - 1]
    BY <1>1, <1>3
  <2> QED BY <1>1, <1>3, <2>1 DEF Kept
<1> QED BY <1>2, <1>3

\* Leaving jobs out of a sequence of jobs leaves a sequence of jobs.
LEMMA WithoutType ==
  ASSUME NEW S, NEW s \in Seq(S), NEW gone
  PROVE  Without(s, gone) \in Seq(S)
<1>1. Len(s) \in Nat /\ Len(s) \in 0..Len(s)
  OBVIOUS
<1>2. PICK f : Kept(f, s, gone, Len(s)) /\ f \in [0..Len(s) -> Seq(S)]
  BY <1>1, KeptExists
<1>3. PICK g : Kept(g, s, gone, Len(s)) /\ Without(s, gone) = g[Len(s)]
  BY <1>2 DEF Without, Kept
<1>4. g[Len(s)] = f[Len(s)]
  BY <1>1, <1>2, <1>3, KeptUnique
<1> QED BY <1>1, <1>2, <1>3, <1>4
-----------------------------------------------------------------------------
(* The coordinator under Revalidation, where a job may be taken back and   *)
(* messages about it keep coming.                                          *)

BoardInv == TypeOK /\ JobsRegistered /\ AbsentFree /\ OpenInv

\* Every step of the coordinator but the rollback.
BoardStep ==
  \/ HostStep
  \/ \E n \in Node, s \in {"schedulable", "away"} : node_changes(n, s)
  \/ \E n \in Node : lease_next(n)
  \/ \E l \in DOMAIN leases : LeaseMessage(l)
  \/ \E ev \in Events :
       Exists(JobOf(ev)) /\ (record_event(ev) \/ record_event_quarantined(ev)
                             \/ record_event_unacknowledged(ev) \/ record_event_expired(ev))
  \/ UNCHANGED vars

LEMMA BoardTypeOK == ASSUME TypeOK, BoardStep PROVE TypeOK'
<1>1. CASE HostStep \/ WorkerStep
  BY <1>1, HostTypeOK, WorkerTypeOK
<1>2. ASSUME NEW l \in DOMAIN leases, OrphanMessage(l) PROVE TypeOK'
  <2>1. CASE leases' = [leases EXCEPT ![l].acknowledged = TRUE] /\ UNCHANGED quarantine
    <3> DEFINE new == [leases[l] EXCEPT !.acknowledged = TRUE]
    <3>1. new \in LeaseType
      BY LeaseFields DEF LeaseType
    <3>2. leases' = [leases EXCEPT ![l] = new] /\ leases \in Seq(LeaseType)
      BY <2>1 DEF TypeOK
    <3> HIDE DEF new
    <3>3. leases' \in Seq(LeaseType) /\ DOMAIN leases' = DOMAIN leases
      BY <3>1, <3>2, SeqUpdate
    <3> QED BY <1>2, <2>1, <3>3 DEF OrphanMessage, TypeOK
  <2>2. CASE Quarantine(l, "lease") /\ UNCHANGED leases
    BY <1>2, <2>2 DEF OrphanMessage, Quarantine, TypeOK
  <2> QED BY <1>2, <2>1, <2>2 DEF OrphanMessage
<1>3. CASE UNCHANGED vars
  BY <1>3 DEF vars, TypeOK
<1> QED BY <1>1, <1>2, <1>3 DEF BoardStep, LeaseMessage, WorkerStep

\* The summary of what a step may do to a job covers these steps too.
LEMMA BoardJobStep == ASSUME BoardInv, BoardStep, NEW j \in Job PROVE JobStep(j)
<1>1. jobs' = jobs => JobStep(j)
  BY DEF JobStep
<1>2. ASSUME NEW l \in DOMAIN leases, LeaseMessage(l) PROVE JobStep(j)
  BY <1>1, <1>2, MessageJobStep DEF BoardInv, LeaseMessage, OrphanMessage, LeaseExpires
<1> QED BY <1>1, <1>2, HostJobStep, LeaseJobStep, EventJobStep
      DEF BoardInv, BoardStep, node_changes, vars

\* Only submit_job registers a key.
LEMMA BoardKeys ==
  ASSUME BoardStep
  PROVE  \/ idempotency' = idempotency /\ submitted' = submitted
         \/ \E m \in Manifest : submit_job(m)
BY DEF BoardStep, HostStep, LeaseMessage, OrphanMessage, submit_job_bad_inputs,
       authorize_goal_revision, cancel_job, recover_expired_leases, revoke_node, node_changes,
       lease_next, acknowledge_lease, heartbeat_lease, LeaseExpires, record_event,
       record_event_quarantined, record_event_unacknowledged, record_event_expired, vars

LEMMA BoardKept == ASSUME BoardInv, BoardStep PROVE BoardInv'
<1>1. TypeOK'
  BY BoardTypeOK DEF BoardInv
<1>2. JobsRegistered'
  <2> SUFFICES ASSUME NEW j \in Job, Exists(j)'
               PROVE  /\ jobs'[j].manifest \in Manifest /\ jobs'[j].manifest.job = j
                      /\ idempotency'[jobs'[j].manifest.key] = jobs'[j].manifest
    BY DEF JobsRegistered
  <2>1. ASSUME Exists(j), jobs'[j].manifest = jobs[j].manifest
        PROVE  /\ jobs'[j].manifest \in Manifest /\ jobs'[j].manifest.job = j
               /\ idempotency'[jobs'[j].manifest.key] = jobs'[j].manifest
    <3>1. /\ jobs[j].manifest \in Manifest /\ jobs[j].manifest.job = j
          /\ idempotency[jobs[j].manifest.key] = jobs[j].manifest
          /\ jobs[j].manifest.key \in Key
      BY <2>1, ManifestAssumption DEF BoardInv, JobsRegistered, ManifestType
    <3>2. ASSUME NEW m \in Manifest, submit_job(m)
          PROVE  idempotency'[jobs[j].manifest.key] = idempotency[jobs[j].manifest.key]
      BY <2>1, <3>1, <3>2, SubmitFresh DEF submit_job, BoardInv, TypeOK
    <3> QED BY <2>1, <3>1, <3>2, BoardKeys
  <2>2. CASE Created(j)
    <3>1. PICK m \in Manifest : m.job = j /\ submit_job(m) /\
                                jobs'[j] = [NoJob EXCEPT !.manifest = m, !.status = "queued"]
      BY <2>2 DEF Created
    <3>2. jobs'[j].manifest = m /\ m.key \in Key
      BY <3>1, ManifestAssumption DEF NoJob, ManifestType
    <3> QED BY <3>1, <3>2 DEF submit_job, BoardInv, TypeOK
  <2> QED BY <2>1, <2>2, BoardJobStep DEF JobStep, MovesOn, Exists
<1>3. AbsentFree'
  <2> SUFFICES ASSUME NEW j \in Job, ~Exists(j)' PROVE jobs'[j].lease = NoLease /\ jobs'[j].node = None
    BY DEF AbsentFree
  <2>1. jobs'[j] = jobs[j]
    BY BoardJobStep DEF JobStep, MovesOn, Created, Exists, NoJob
  <2> QED BY <2>1 DEF BoardInv, AbsentFree, Exists
<1>4. OpenInv'
  <2> SUFFICES ASSUME NEW j \in Job, jobs'[j].status \in {"absent", "queued"}
               PROVE  jobs'[j].terminal = None
    BY DEF OpenInv
  <2> QED BY BoardJobStep DEF JobStep, MovesOn, Created, NoJob, BoardInv, OpenInv
<1> QED BY <1>1, <1>2, <1>3, <1>4 DEF BoardInv

\* A job that is there stays, a finished one as it is, and none is created but
\* by submit_job.
LEMMA BoardLasting ==
  ASSUME BoardInv, BoardStep, NEW j \in Job
  PROVE  /\ Exists(j) => Exists(j)'
         /\ Terminal(j) => jobs'[j] = jobs[j]
         /\ Exists(j)' => Exists(j) \/ \E m \in Manifest : m.job = j /\ submit_job(m)
<1>1. Terminal(j) => Exists(j)
  BY DEF BoardInv, OpenInv, Terminal, Exists
<1> QED BY <1>1, BoardJobStep DEF JobStep, MovesOn, Created, Exists

\* Unless it is recorded from an event, the end of a job is its cancellation.
LEMMA BoardEnds ==
  ASSUME BoardInv, BoardStep, NEW j \in Job,
         \A ev \in Events : record_event(ev) => ev.state \notin TerminalState
  PROVE  jobs'[j].terminal \in {jobs[j].terminal, HostCancel}
<1>1. CASE jobs'[j] = jobs[j]
  BY <1>1
<1>2. CASE Created(j)
  BY <1>2 DEF Created, NoJob, BoardInv, OpenInv, Exists
<1>3. CASE MovesOn(j) /\ ~Recorded(j)
  BY <1>3 DEF MovesOn, Terminal
<1>4. CASE Recorded(j)
  <2>1. PICK ev \in Events : record_event(ev) /\ JobOf(ev) = j
    BY <1>4 DEF Recorded
  <2>2. jobs'[j] = WithEvent(j, ev) /\ jobs[j] \in JobType /\ ev.state \notin TerminalState
    BY <2>1 DEF record_event, BoardInv, TypeOK
  <2> QED BY <2>2 DEF WithEvent, JobType
<1> QED BY <1>1, <1>2, <1>3, <1>4, BoardJobStep DEF JobStep
-----------------------------------------------------------------------------
(* The invariant of Revalidation.                                          *)

\* The jobs a request asks for.
JobIds(r) == {m.job : m \in Payload[r].manifests}

\* A call in flight has no answer yet; what it names is there, and the jobs it
\* may still take back belong to no attempt.
CallInv(r) ==
  /\ calls[r].pc # "idle" => started[r] = None /\ Plannable(r)
  /\ calls[r].job_ids \subseteq JobIds(r)
  /\ calls[r].created \subseteq Payload[r].manifests
  /\ \A j \in calls[r].job_ids : Exists(j)
  /\ \A m \in calls[r].created : m.job \in calls[r].job_ids
  /\ calls[r].pc = "submit" =>
       /\ Worker(r) /\ Remaining(r) # {}
       /\ \A m \in calls[r].created : \A a \in AttemptId :
            attempts[a] # None => m.job \notin attempts[a].job_ids
  /\ calls[r].pc \in {"plan", "attempt", "rewrite", "key"} => calls[r].job_ids = JobIds(r)
  /\ calls[r].pc \in {"rewrite", "key"} => attempts[IdOf(r)] # None
CallsInv == \A r \in Request : CallInv(r)

\* A stored attempt has the plan of its request and every one of its jobs.
AttemptInv(a) ==
  /\ attempts[a].plan = compute_invalidation(a[1])
  /\ Plannable(a[1])
  /\ attempts[a].job_ids = JobIds(a[1])
  /\ \A j \in attempts[a].job_ids : Exists(j)
AttemptsInv == \A a \in AttemptId : attempts[a] # None => AttemptInv(a)

\* An idempotency record names a stored attempt, which is what was answered.
AnswersInv ==
  \A r \in Request :
    /\ answered[r] # None => started[r] = answered[r]
    /\ started[r] # None => started[r][1] = r /\ attempts[started[r]] # None

\* OutcomeReported, of every attempt that is stored.
Excused(a) == \E j \in attempts[a].job_ids : jobs[j].terminal = HostCancel \/ j \in early
OutcomeInv ==
  /\ verified \subseteq Ended
  /\ OutcomeTrue
  /\ \A a \in AttemptId :
       attempts[a] # None /\ Worker(a[1]) /\ attempts[a].job_ids \subseteq Ended
         => attempts[a].state \in {"completed", "needs_review"} \/ Excused(a)

\* NoStrayJobs, while calls are in flight too.
Owned(r, m) ==
  \/ \E a \in AttemptId : attempts[a] # None /\ m.job \in attempts[a].job_ids
  \/ calls[r].pc \in {"submit", "plan", "attempt"} /\ m \in calls[r].created
StrayInv ==
  faults = 0 => \A r \in Request : \A m \in Payload[r].manifests : Exists(m.job) => Owned(r, m)

BatchInv == CallsInv /\ AttemptsInv /\ AnswersInv /\ OutcomeInv /\ StrayInv

\* What the payload of a request and the identity of manifests give.
LEMMA PayloadFacts ==
  ASSUME NEW r \in Request
  PROVE  /\ Payload[r] \in PayloadType /\ Payload[r].manifests \subseteq Manifest
         /\ JobIds(r) \subseteq Job
         /\ Worker(r) => JobIds(r) # {}
         /\ ~Worker(r) => JobIds(r) = {}
         /\ \A m \in Payload[r].manifests : Worker(r) => CriterionOf[m] \in Nat
         /\ \A m, k \in Payload[r].manifests : m.job = k.job => m = k
<1>1. Payload[r] \in PayloadType
  BY RequestAssumption
<1>2. /\ Payload[r].manifests \subseteq Manifest /\ Payload[r].criteria \subseteq Criterion
      /\ Payload[r].criteria # {} /\ Payload[r].mode \in {"host_validation", "worker_reexecution"}
  BY <1>1 DEF PayloadType
<1>3. \A m \in Manifest : m.job \in Job
  BY ManifestAssumption DEF ManifestType
<1>4. Worker(r) => {CriterionOf[m] : m \in Payload[r].manifests} = Payload[r].criteria
  BY RequestAssumption DEF Worker
<1>5. ~Worker(r) => Payload[r].manifests = {}
  BY <1>2, RequestAssumption DEF Worker
<1>6. Criterion \subseteq Nat
  <2>1. Cardinality(Criterion) \in Nat
    BY RequestAssumption, FS_CardinalityType
  <2> QED BY <2>1, RequestAssumption
<1>7. Worker(r) => JobIds(r) # {}
  BY <1>2, <1>4 DEF JobIds
<1>8. \A m, k \in Payload[r].manifests : m.job = k.job => m = k
  BY <1>2, ManifestAssumption
<1> QED BY <1>1, <1>2, <1>3, <1>4, <1>5, <1>6, <1>7, <1>8 DEF JobIds

\* Two requests have no job in common.
LEMMA JobsApart ==
  ASSUME NEW r \in Request, NEW q \in Request, q # r
  PROVE  JobIds(q) \cap JobIds(r) = {}
<1>1. Payload[r].manifests \subseteq Manifest /\ Payload[q].manifests \subseteq Manifest
  BY PayloadFacts
<1>2. Payload[q].manifests \cap Payload[r].manifests = {}
  BY RequestAssumption
<1> QED BY <1>1, <1>2, ManifestAssumption DEF JobIds

\* The plan is of its type.
LEMMA PlanTyped == ASSUME NEW r \in Request PROVE compute_invalidation(r) \in PlanType
<1>1. Payload[r].graph \in GraphType /\ Payload[r].criteria \subseteq Criterion
  BY PayloadFacts DEF PayloadType
<1>2. AffectedBy(Payload[r].graph, Payload[r].changed) \subseteq Criterion
  BY AffectedByLeast
<1>3. ASSUME NEW C \in SUBSET Criterion PROVE EvidenceOf(Payload[r].graph, C) \subseteq Evidence
  BY <1>1 DEF EvidenceOf, GraphType
<1>4. /\ EvidenceOf(Payload[r].graph, Payload[r].criteria) \subseteq Evidence
      /\ EvidenceOf(Payload[r].graph, Criterion) \subseteq Evidence
  BY <1>1, <1>3
<1> QED BY <1>2, <1>4 DEF compute_invalidation, PlanType

\* While manifests remain, the next one is among them.
LEMMA NextChosen ==
  ASSUME NEW r \in Request, Worker(r), Remaining(r) # {}
  PROVE  NextManifest(r) \in Remaining(r)
<1> DEFINE T == {CriterionOf[m] : m \in Remaining(r)}
<1>1. T \in SUBSET Nat /\ T # {}
  BY PayloadFacts DEF Remaining
<1>2. \E x \in T : \A y \in T : x <= y
  <2> HIDE DEF T
  <2> QED BY <1>1, LeastNatural
<1>3. \E m \in Remaining(r) : \A k \in Remaining(r) : CriterionOf[m] <= CriterionOf[k]
  BY <1>2
<1> QED BY <1>3 DEF NextManifest

\* Types of what the call of a request writes.
LEMMA CallFields ==
  ASSUME RevalidationTypeOK, NEW r \in Request
  PROVE  /\ calls[r] \in CallType /\ calls[r].try \in 0..MaxTries
         /\ IdOf(r) \in AttemptId /\ IdOf(r)[1] = r
         /\ PlanIdOf(r) \in (0..MaxTries) \X PlanType
         /\ NewAttempt(r) \in AttemptType /\ NewAttempt(r) # None
<1>1. calls[r] \in CallType
  BY DEF RevalidationTypeOK
<1>2. calls[r].try \in 0..MaxTries /\ calls[r].job_ids \subseteq Job
  BY <1>1 DEF CallType
<1>3. compute_invalidation(r) \in PlanType
  BY PlanTyped
<1>4. NewAttempt(r) \in AttemptType
  BY <1>2, <1>3 DEF NewAttempt, AttemptType
<1> QED BY <1>1, <1>2, <1>3, <1>4, NoneAssumption DEF IdOf, AttemptId, PlanIdOf

\* An attempt id names its request.
LEMMA IdFields == ASSUME NEW a \in AttemptId PROVE a[1] \in Request
BY DEF AttemptId

\* A stored attempt is of its type.
LEMMA AttemptFields ==
  ASSUME RevalidationTypeOK, NEW a \in AttemptId, attempts[a] # None
  PROVE  attempts[a] \in AttemptType /\ attempts[a].job_ids \subseteq Job
<1>1. attempts[a] \in AttemptType
  BY DEF RevalidationTypeOK
<1> QED BY <1>1 DEF AttemptType

\* The jobs of a set are not taken back.
Stay(S) == \A j \in S : Exists(j) => Exists(j)'

\* A step leaves every attempt its plan and its jobs.
SamePlans ==
  \A a \in AttemptId :
    /\ attempts'[a] = None <=> attempts[a] = None
    /\ attempts[a] # None =>
         attempts'[a].plan = attempts[a].plan /\ attempts'[a].job_ids = attempts[a].job_ids

\* A step outside a request's call that leaves its jobs and its attempts alone
\* leaves the call as it was.
LEMMA CallKept ==
  ASSUME RevalidationTypeOK, CallsInv, AttemptsInv', NEW q \in Request,
         calls'[q] = calls[q], started'[q] = started[q],
         \A a \in AttemptId : a[1] = q =>
           /\ attempts'[a] = None <=> attempts[a] = None
           /\ attempts[a] # None => attempts'[a].job_ids = attempts[a].job_ids,
         Stay(JobIds(q))
  PROVE  CallInv(q)'
<1>1. IdOf(q)' = IdOf(q) /\ IdOf(q) \in AttemptId /\ IdOf(q)[1] = q
  BY CallFields DEF IdOf
<1>2. Remaining(q)' = Remaining(q)
  BY DEF Remaining
<1>3. ASSUME calls[q].pc = "submit", NEW m \in calls[q].created, NEW a \in AttemptId, attempts'[a] # None
      PROVE  m.job \notin attempts'[a].job_ids
  <2>1. m.job \in JobIds(q)
    BY <1>3 DEF CallsInv, CallInv
  <2>2. CASE a[1] = q
    BY <1>3, <2>2 DEF CallsInv, CallInv
  <2>3. CASE a[1] # q
    BY <1>3, <2>1, <2>3, IdFields, JobsApart DEF AttemptsInv, AttemptInv
  <2> QED BY <2>2, <2>3
<1>4. \A j \in calls[q].job_ids : Exists(j)'
  BY DEF CallsInv, CallInv, Stay
<1> QED BY <1>1, <1>2, <1>3, <1>4 DEF CallsInv, CallInv

\* Attempts keep what they say of their request.
LEMMA PlansKept ==
  ASSUME AttemptsInv, SamePlans,
         \A a \in AttemptId : attempts[a] # None => Stay(attempts[a].job_ids)
  PROVE  AttemptsInv'
<1> SUFFICES ASSUME NEW a \in AttemptId, attempts'[a] # None PROVE AttemptInv(a)'
  BY DEF AttemptsInv
<1>1. /\ attempts[a] # None /\ AttemptInv(a) /\ Stay(attempts[a].job_ids)
      /\ attempts'[a].plan = attempts[a].plan /\ attempts'[a].job_ids = attempts[a].job_ids
  BY DEF SamePlans, AttemptsInv
<1> QED BY <1>1 DEF AttemptInv, Stay

\* A step that makes no call and takes no job back.
LEMMA RecordsKept ==
  ASSUME RevalidationTypeOK, CallsInv, AttemptsInv, AnswersInv, SamePlans, Stay(Job),
         UNCHANGED <<calls, started, answered>>
  PROVE  CallsInv' /\ AttemptsInv' /\ AnswersInv'
<1>1. \A a \in AttemptId : attempts[a] # None => Stay(attempts[a].job_ids)
  BY AttemptFields DEF Stay
<1>2. AttemptsInv'
  BY <1>1, PlansKept
<1>3. \A q \in Request : Stay(JobIds(q))
  BY PayloadFacts DEF Stay
<1>4. CallsInv'
  BY <1>2, <1>3, CallKept DEF CallsInv, SamePlans
<1>5. AnswersInv'
  <2>1. \A r \in Request : started[r] # None => started[r] \in AttemptId
    BY DEF RevalidationTypeOK
  <2> QED BY <2>1 DEF AnswersInv, SamePlans
<1> QED BY <1>2, <1>4, <1>5

\* A step of the coordinator in which no job ends but by its cancellation.
Quiet ==
  \A j \in Job :
    /\ Terminal(j) => jobs'[j] = jobs[j]
    /\ jobs'[j].terminal \in {jobs[j].terminal, HostCancel}

\* Such a step keeps what every attempt reports.
LEMMA OutcomeQuiet ==
  ASSUME RevalidationTypeOK, OutcomeInv, Quiet, UNCHANGED <<attempts, verified, early>>
  PROVE  OutcomeInv'
<1>1. Ended \subseteq Ended'
  BY DEF Ended, Quiet, Terminal
<1>2. OutcomeTrue'
  BY <1>1 DEF OutcomeInv, OutcomeTrue
<1>3. ASSUME NEW a \in AttemptId, attempts[a] # None, Worker(a[1]), attempts[a].job_ids \subseteq Ended'
      PROVE  attempts[a].state \in {"completed", "needs_review"} \/ Excused(a)'
  <2>1. attempts[a].job_ids \subseteq Job
    BY <1>3, AttemptFields
  <2>2. Excused(a) => Excused(a)'
    BY <2>1, NamesAssumption DEF Excused, Quiet, Terminal
  <2>3. CASE attempts[a].job_ids \subseteq Ended
    BY <1>3, <2>2, <2>3 DEF OutcomeInv
  <2>4. ASSUME NEW j \in attempts[a].job_ids, j \notin Ended PROVE jobs'[j].terminal = HostCancel
    BY <1>3, <2>1, <2>4 DEF Ended, Terminal, Quiet
  <2> QED BY <2>3, <2>4 DEF Excused
<1> QED BY <1>1, <1>2, <1>3 DEF OutcomeInv

\* The event a step records is the last of its log.
LEMMA EventLogged ==
  ASSUME TypeOK, NEW e \in Events, record_event(e)
  PROVE  /\ JobOf(e) \in Job /\ e \in EventType
         /\ events' = [events EXCEPT ![JobOf(e)] = Append(events[JobOf(e)], e)]
         /\ Len(events'[JobOf(e)]) = Len(events[JobOf(e)]) + 1
         /\ events'[JobOf(e)][Len(events[JobOf(e)]) + 1] = e
         /\ Len(events[JobOf(e)]) \in Nat
<1>1. e.lease \in DOMAIN leases /\ e \in EventType
  BY BoundsAssumption DEF Events, EventType, TypeOK
<1>2. JobOf(e) \in Job
  BY <1>1, LeaseFields DEF JobOf
<1>3. events[JobOf(e)] \in Seq(EventType) /\ events \in [Job -> Seq(EventType)]
  BY <1>2 DEF TypeOK
<1>4. events' = [events EXCEPT ![JobOf(e)] = Append(events[JobOf(e)], e)]
  BY DEF record_event
<1>5. events'[JobOf(e)] = Append(events[JobOf(e)], e)
  BY <1>2, <1>3, <1>4
<1> QED BY <1>1, <1>2, <1>3, <1>4, <1>5

\* Beside a call, jobs end by cancellation only: an event that ends one is a
\* terminal_event.
LEMMA NoEndRecorded ==
  ASSUME TypeOK, CoordinatorStep, NEW ev \in Events, record_event(ev)
  PROVE  ev.state \notin TerminalState
<1>2. CASE events' = events
  BY <1>2, EventLogged
<1>3. ASSUME NEW e \in Events, record_event(e), e.state \notin TerminalState PROVE ev = e
  <2>1. JobOf(ev) = JobOf(e)
    <3>1. JobOf(ev) # JobOf(e) => events'[JobOf(ev)] = events[JobOf(ev)]
      BY <1>3, EventLogged DEF TypeOK
    <3> QED BY <3>1, EventLogged
  <2> QED BY <1>3, <2>1, EventLogged
<1>4. events' = events \/ \E e \in Events : record_event(e) /\ e.state \notin TerminalState
  BY DEF CoordinatorStep, HostStep, LeaseMessage, EventMessage, OrphanMessage, submit_job,
         submit_job_bad_inputs, authorize_goal_revision, cancel_job, recover_expired_leases,
         revoke_node, node_changes, lease_next, acknowledge_lease, heartbeat_lease, LeaseExpires,
         record_event_quarantined, record_event_unacknowledged, record_event_expired
<1> QED BY <1>2, <1>3, <1>4

\* What the coordinator does beside the calls.
LEMMA CoordinatorQuiet ==
  ASSUME BoardInv, CoordinatorStep
  PROVE  /\ BoardStep /\ Quiet /\ Stay(Job)
         /\ \A m \in Batched : Exists(m.job)' => Exists(m.job)
<1>1. BoardStep
  BY DEF CoordinatorStep, EventMessage, BoardStep
<1>2. Quiet /\ Stay(Job)
  BY <1>1, BoardEnds, BoardLasting, NoEndRecorded DEF Quiet, Stay, BoardInv
<1>3. ASSUME NEW m \in Batched, Exists(m.job)' PROVE Exists(m.job)
  <2>1. m.job \in Job
    BY PayloadFacts, ManifestAssumption DEF Batched, ManifestType
  <2>2. CASE submitted' = submitted
    <3>1. ASSUME NEW k \in Manifest, submit_job(k) PROVE FALSE
      <4>1. submitted' = Append(submitted, k.job) /\ k.job \in Job
        BY <3>1, ManifestAssumption DEF submit_job, ManifestType
      <4>2. submitted \in Seq(Job)
        BY DEF BoardInv, TypeOK
      <4> QED BY <2>2, <4>1, <4>2
    <3> QED BY <1>1, <1>3, <2>1, <3>1, BoardLasting
  <2>3. submitted' = submitted \/ (Exists(m.job)' => Exists(m.job))
    BY DEF CoordinatorStep, LeaseMessage, EventMessage, OrphanMessage, node_changes,
           lease_next, acknowledge_lease, heartbeat_lease, LeaseExpires, record_event,
           record_event_quarantined, record_event_unacknowledged, record_event_expired
  <2> QED BY <1>3, <2>2, <2>3
<1> QED BY <1>1, <1>2, <1>3

RInv == BoardInv /\ RevalidationTypeOK /\ BatchInv

\* A step of the coordinator keeps the records of revalidation true.
LEMMA InvCoordinator == ASSUME RInv, CoordinatorStep PROVE RInv'
<1>1. /\ BoardStep /\ Quiet /\ Stay(Job) /\ UNCHANGED revalidation
      /\ \A m \in Batched : Exists(m.job)' => Exists(m.job)
  BY CoordinatorQuiet DEF RInv, CoordinatorStep
<1>2. BoardInv'
  BY <1>1, BoardKept DEF RInv
<1>3. RevalidationTypeOK'
  BY <1>1, <1>2 DEF RInv, BoardInv, RevalidationTypeOK, revalidation
<1>4. SamePlans
  BY <1>1 DEF SamePlans, revalidation
<1>5. CallsInv' /\ AttemptsInv' /\ AnswersInv'
  BY <1>1, <1>4, RecordsKept DEF RInv, BatchInv, revalidation
<1>6. OutcomeInv'
  BY <1>1, OutcomeQuiet DEF RInv, BatchInv, revalidation
<1>7. StrayInv'
  <2>1. \A r \in Request : Payload[r].manifests \subseteq Batched
    BY DEF Batched
  <2> QED BY <1>1, <2>1 DEF RInv, BatchInv, StrayInv, Owned, revalidation
<1> QED BY <1>2, <1>3, <1>5, <1>6, <1>7 DEF RInv, BatchInv

\* What update_attempts does to one attempt.
LEMMA AttemptUpdated ==
  ASSUME RevalidationTypeOK, NEW j, update_attempts(j), NEW a \in AttemptId
  PROVE  /\ attempts'[a] = None <=> attempts[a] = None
         /\ attempts[a] # None =>
              /\ attempts'[a] \in AttemptType
              /\ attempts'[a].plan = attempts[a].plan
              /\ attempts'[a].job_ids = attempts[a].job_ids
              /\ j \notin attempts[a].job_ids => attempts'[a] = attempts[a]
              /\ j \in attempts[a].job_ids =>
                   attempts'[a].state = Judgement(Ended', verified', attempts[a].job_ids)
<1>1. CASE attempts[a] = None
  BY <1>1 DEF update_attempts
<1>2. CASE attempts[a] # None
  <2> DEFINE s == Judgement(Ended', verified', attempts[a].job_ids)
             new == [attempts[a] EXCEPT !.state = s]
  <2>1. attempts[a] \in AttemptType
    BY <1>2, AttemptFields
  <2>2. s \in {"running", "completed", "needs_review"}
    BY DEF Judgement
  <2>3. attempts'[a] = IF j \notin attempts[a].job_ids THEN attempts[a] ELSE new
    BY <1>2 DEF update_attempts
  <2>4. /\ new \in AttemptType /\ new.plan = attempts[a].plan
        /\ new.job_ids = attempts[a].job_ids /\ new.state = s
    <3> HIDE DEF s
    <3> QED BY <2>1, <2>2 DEF AttemptType
  <2> HIDE DEF s, new
  <2>5. attempts'[a] \in AttemptType
    BY <2>1, <2>3, <2>4
  <2> QED BY <1>2, <2>3, <2>4, <2>5, NoneAssumption DEF s
<1> QED BY <1>1, <1>2

\* What the event of a job's end does to the jobs.
LEMMA EndRecorded ==
  ASSUME BoardInv, NEW ev \in Events, ev.state \in TerminalState, record_event(ev)
  PROVE  /\ JobOf(ev) \in Job /\ JobOf(ev) \notin Ended
         /\ Ended' = Ended \cup {JobOf(ev)}
         /\ \A k \in Job : k # JobOf(ev) => jobs'[k] = jobs[k]
<1> DEFINE j == JobOf(ev)
<1>1. ev.lease \in DOMAIN leases /\ ev \in EventType
  BY BoundsAssumption DEF Events, EventType, BoardInv, TypeOK
<1>2. j \in Job
  BY <1>1, LeaseFields DEF JobOf, BoardInv
<1>3. jobs \in [Job -> JobType] /\ jobs' = [jobs EXCEPT ![j] = WithEvent(j, ev)] /\ ~Terminal(j)
  BY DEF record_event, BoardInv, TypeOK, StillOpen
<1>4. jobs'[j].terminal = ev
  BY <1>2, <1>3 DEF WithEvent, JobType
<1>5. ev # None
  BY <1>1, NamesAssumption
<1> HIDE DEF j
<1>6. \A k \in Job : k # j => jobs'[k] = jobs[k]
  BY <1>3
<1>7. Ended' = Ended \cup {j} /\ j \notin Ended
  BY <1>2, <1>3, <1>4, <1>5, <1>6 DEF Ended, Terminal
<1> QED BY <1>2, <1>6, <1>7 DEF j

\* The terminal commit reports to every attempt that names the job.
LEMMA InvTerminalEvent ==
  ASSUME RInv, NEW ev \in Events, Exists(JobOf(ev)), terminal_event(ev)
  PROVE  RInv'
<1> DEFINE j == JobOf(ev)
<1>0. /\ ev.state \in TerminalState /\ record_event(ev) /\ update_attempts(j)
      /\ UNCHANGED <<plans, started, calls, answered, early, faults>>
      /\ verified' = verified \/ verified' = verified \cup {j}
  BY DEF terminal_event
<1>1. BoardStep
  BY <1>0 DEF BoardStep
<1>2. BoardInv'
  BY <1>1, BoardKept DEF RInv
<1>3. /\ j \in Job /\ j \notin Ended /\ Ended' = Ended \cup {j}
      /\ \A k \in Job : k # j => jobs'[k] = jobs[k]
  BY <1>0, EndRecorded DEF RInv
<1>4. Stay(Job) /\ \A k \in Job : Exists(k)' => Exists(k)
  BY <1>1, <1>3, BoardLasting DEF RInv, Stay, Exists
<1>5. \A a \in AttemptId :
        /\ attempts'[a] = None <=> attempts[a] = None
        /\ attempts[a] # None =>
             /\ attempts'[a] \in AttemptType
             /\ attempts'[a].plan = attempts[a].plan
             /\ attempts'[a].job_ids = attempts[a].job_ids
             /\ j \notin attempts[a].job_ids => attempts'[a] = attempts[a]
             /\ j \in attempts[a].job_ids =>
                  attempts'[a].state = Judgement(Ended', verified', attempts[a].job_ids)
  BY <1>0, AttemptUpdated DEF RInv
<1> HIDE DEF j
<1>6. RevalidationTypeOK'
  <2>1. attempts' \in [AttemptId -> AttemptType \cup {None}]
    <3>1. attempts' = [a \in AttemptId |-> attempts'[a]]
      BY <1>0 DEF update_attempts
    <3>2. \A a \in AttemptId : attempts'[a] \in AttemptType \cup {None}
      BY <1>5
    <3> QED BY <3>1, <3>2
  <2> QED BY <1>0, <1>2, <1>3, <2>1 DEF RInv, BoardInv, RevalidationTypeOK
<1>7. CallsInv' /\ AttemptsInv' /\ AnswersInv'
  BY <1>0, <1>4, <1>5, RecordsKept DEF RInv, BatchInv, SamePlans
<1>8. OutcomeInv'
  <2>1. verified' \subseteq Ended' /\ Ended \subseteq Ended'
    BY <1>0, <1>3 DEF RInv, BatchInv, OutcomeInv
  <2>2. ASSUME NEW a \in AttemptId, attempts'[a] # None, j \in attempts[a].job_ids
        PROVE  /\ attempts'[a].state = "completed" => attempts'[a].job_ids \subseteq verified'
               /\ attempts'[a].state = "needs_review" =>
                    attempts'[a].job_ids \subseteq Ended' /\ ~(attempts'[a].job_ids \subseteq verified')
               /\ attempts'[a].job_ids \subseteq Ended'
                    => attempts'[a].state \in {"completed", "needs_review"}
    BY <1>5, <2>2 DEF Judgement
  <2>3. ASSUME NEW a \in AttemptId, attempts'[a] # None, j \notin attempts[a].job_ids
        PROVE  /\ attempts[a] # None /\ attempts'[a] = attempts[a]
               /\ attempts[a].job_ids \subseteq Ended' <=> attempts[a].job_ids \subseteq Ended
               /\ attempts[a].job_ids \subseteq verified' <=> attempts[a].job_ids \subseteq verified
               /\ Excused(a)' <=> Excused(a)
    <3>1. attempts[a] # None /\ attempts'[a] = attempts[a] /\ attempts[a].job_ids \subseteq Job
      BY <1>5, <2>3, AttemptFields DEF RInv
    <3> QED BY <1>0, <1>3, <2>3, <3>1 DEF Excused
  <2>4. OutcomeTrue'
    <3> SUFFICES ASSUME NEW a \in AttemptId, attempts'[a] # None, attempts'[a].job_ids # {}
                 PROVE  /\ attempts'[a].state = "completed" => attempts'[a].job_ids \subseteq verified'
                        /\ attempts'[a].state = "needs_review" =>
                             attempts'[a].job_ids \subseteq Ended' /\ ~(attempts'[a].job_ids \subseteq verified')
      BY DEF OutcomeTrue
    <3>1. CASE j \in attempts[a].job_ids
      BY <2>2, <3>1
    <3>2. CASE j \notin attempts[a].job_ids
      BY <2>3, <3>2 DEF RInv, BatchInv, OutcomeInv, OutcomeTrue
    <3> QED BY <3>1, <3>2
  <2>5. ASSUME NEW a \in AttemptId, attempts'[a] # None, Worker(a[1]),
               attempts'[a].job_ids \subseteq Ended'
        PROVE  attempts'[a].state \in {"completed", "needs_review"} \/ Excused(a)'
    <3>1. CASE j \in attempts[a].job_ids
      BY <2>2, <2>5, <3>1
    <3>2. CASE j \notin attempts[a].job_ids
      BY <2>3, <2>5, <3>2 DEF RInv, BatchInv, OutcomeInv
    <3> QED BY <3>1, <3>2
  <2> QED BY <2>1, <2>4, <2>5 DEF OutcomeInv
<1>9. StrayInv'
  <2> SUFFICES ASSUME faults' = 0, NEW r \in Request, NEW m \in Payload[r].manifests, Exists(m.job)'
               PROVE  Owned(r, m)'
    BY DEF StrayInv
  <2>1. m.job \in Job
    BY PayloadFacts DEF JobIds
  <2>2. Owned(r, m)
    BY <1>0, <1>4, <2>1 DEF RInv, BatchInv, StrayInv
  <2> QED BY <1>0, <1>5, <2>2 DEF Owned
<1> QED BY <1>2, <1>6, <1>7, <1>8, <1>9 DEF RInv, BatchInv

\* complete touches the attempt of a host, which has no jobs.
LEMMA InvComplete ==
  ASSUME RInv, NEW r \in Request, NEW d \in Digest, complete(r, d)
  PROVE  RInv'
<1> DEFINE a == answered[r]
           new == [attempts[a] EXCEPT !.state = "completed", !.receipt = d]
<1>0. /\ a # None /\ ~Worker(r) /\ attempts[a] # None
      /\ attempts' = [attempts EXCEPT ![a] = new]
      /\ UNCHANGED <<vars, plans, started, calls, answered, verified, early, faults>>
  BY DEF complete
<1>1. a \in AttemptId /\ a[1] = r
  BY <1>0 DEF RInv, RevalidationTypeOK, BatchInv, AnswersInv
<1>2. attempts[a] \in AttemptType /\ attempts[a].job_ids = {} /\ attempts \in [AttemptId -> AttemptType \cup {None}]
  BY <1>0, <1>1, AttemptFields, PayloadFacts DEF RInv, RevalidationTypeOK, BatchInv, AttemptsInv, AttemptInv
<1>3. new \in AttemptType /\ new.plan = attempts[a].plan /\ new.job_ids = attempts[a].job_ids
  BY <1>2 DEF AttemptType
<1>4. /\ attempts'[a] = new /\ new # None
      /\ \A b \in AttemptId : b # a => attempts'[b] = attempts[b]
  <2> HIDE DEF new
  <2> QED BY <1>0, <1>1, <1>2, <1>3, NoneAssumption
<1> HIDE DEF a, new
<1>5. BoardInv'
  <2>1. BoardStep
    BY <1>0 DEF BoardStep
  <2> QED BY <2>1, BoardKept DEF RInv
<1>6. RevalidationTypeOK'
  <2>1. attempts' \in [AttemptId -> AttemptType \cup {None}]
    BY <1>0, <1>2, <1>3
  <2> QED BY <1>0, <1>5, <2>1 DEF RInv, BoardInv, RevalidationTypeOK
<1>7. jobs' = jobs /\ Stay(Job) /\ SamePlans
  BY <1>0, <1>3, <1>4 DEF vars, Stay, Exists, SamePlans
<1>8. CallsInv' /\ AttemptsInv' /\ AnswersInv'
  BY <1>0, <1>7, RecordsKept DEF RInv, BatchInv
<1>9. OutcomeInv'
  <2>1. Ended' = Ended
    BY <1>7 DEF Ended, Terminal
  <2>2. attempts'[a].job_ids = {} /\ ~Worker(a[1])
    BY <1>0, <1>1, <1>2, <1>3, <1>4
  <2>3. \A b \in AttemptId : b # a => attempts'[b] = attempts[b] /\ (Excused(b)' <=> Excused(b))
    BY <1>0, <1>4, <1>7 DEF Excused
  <2>4. OutcomeTrue'
    BY <1>0, <2>1, <2>2, <2>3 DEF RInv, BatchInv, OutcomeInv, OutcomeTrue
  <2> QED BY <1>0, <2>1, <2>2, <2>3, <2>4 DEF RInv, BatchInv, OutcomeInv
<1>10. StrayInv'
  BY <1>0, <1>7 DEF RInv, BatchInv, StrayInv, Owned, SamePlans, Exists
<1> QED BY <1>5, <1>6, <1>8, <1>9, <1>10 DEF RInv, BatchInv

\* The call of one request leaves the records of the others alone.
OthersSame(r) ==
  \A q \in Request : q # r =>
    calls'[q] = calls[q] /\ started'[q] = started[q] /\ answered'[q] = answered[q]

\* A call that writes no attempt and takes no job back only has to account for
\* itself.
LEMMA CallAlone ==
  ASSUME RInv, NEW r \in Request, OthersSame(r), CallInv(r)', UNCHANGED <<attempts, verified, early>>,
         Quiet, Stay(Job)
  PROVE  CallsInv' /\ AttemptsInv' /\ OutcomeInv'
<1>1. SamePlans
  BY DEF SamePlans
<1>2. \A a \in AttemptId : attempts[a] # None => Stay(attempts[a].job_ids)
  BY AttemptFields DEF Stay, RInv
<1>3. AttemptsInv'
  BY <1>1, <1>2, PlansKept DEF RInv, BatchInv
<1>4. \A q \in Request : Stay(JobIds(q))
  BY PayloadFacts DEF Stay
<1>5. CallsInv'
  BY <1>3, <1>4, CallKept DEF CallsInv, OthersSame, RInv, BatchInv
<1>6. OutcomeInv'
  BY OutcomeQuiet DEF RInv, BatchInv
<1> QED BY <1>3, <1>5, <1>6

\* What a call that leaves the coordinator alone need not show.
LEMMA NothingMoves ==
  ASSUME UNCHANGED vars
  PROVE  /\ BoardInv => BoardInv'
         /\ Quiet /\ Stay(Job) /\ \A j : Exists(j)' <=> Exists(j)
BY BoardKept DEF BoardStep, vars, Quiet, Stay, Exists, Terminal

\* start checks, and leaves the writing to the steps that follow.
LEMMA InvStart == ASSUME RInv, NEW r \in Request, start(r) PROVE RInv'
<1> DEFINE c == [NoCall EXCEPT !.pc = IF Worker(r) THEN "submit" ELSE "plan", !.try = NextTry(r)]
<1>0. /\ calls[r].pc = "idle" /\ started[r] = None /\ Plannable(r) /\ NextTry(r) <= MaxTries
      /\ calls' = [calls EXCEPT ![r] = c]
      /\ UNCHANGED <<vars, attempts, plans, started, answered, verified, early, faults>>
  BY DEF start, NotStarted, Preflight, Call
<1>1. BoardInv' /\ Quiet /\ Stay(Job) /\ \A j : Exists(j)' <=> Exists(j)
  BY <1>0, NothingMoves DEF RInv
<1>2. /\ calls \in [Request -> CallType] /\ calls'[r] = c
      /\ \A q \in Request : q # r => calls'[q] = calls[q]
  <2> HIDE DEF c
  <2> QED BY <1>0 DEF RInv, RevalidationTypeOK
<1>3. NextTry(r) \in 0..MaxTries
  BY <1>0, TriesAssumption, CallFields DEF NextTry, RInv
<1>4. /\ c \in CallType /\ c.job_ids = {} /\ c.created = {}
      /\ c.pc = IF Worker(r) THEN "submit" ELSE "plan"
  BY <1>3 DEF NoCall, CallType
<1> HIDE DEF c
<1>5. RevalidationTypeOK'
  <2>1. calls' \in [Request -> CallType]
    BY <1>0, <1>2, <1>4
  <2> QED BY <1>0, <1>1, <2>1 DEF RInv, BoardInv, RevalidationTypeOK
<1>6. CallInv(r)'
  <2>1. Remaining(r)' = Payload[r].manifests
    BY <1>2, <1>4 DEF Remaining
  <2>2. Worker(r) => Payload[r].manifests # {}
    BY PayloadFacts DEF JobIds
  <2> QED BY <1>0, <1>2, <1>4, <2>1, <2>2, PayloadFacts DEF CallInv
<1>7. CallsInv' /\ AttemptsInv' /\ OutcomeInv'
  BY <1>0, <1>1, <1>2, <1>6, CallAlone DEF OthersSame
<1>8. AnswersInv'
  BY <1>0 DEF RInv, BatchInv, AnswersInv
<1>9. StrayInv'
  <2>1. \A q \in Request : \A m : Owned(q, m) => Owned(q, m)'
    BY <1>0, <1>2 DEF Owned
  <2> QED BY <1>0, <1>1, <2>1 DEF RInv, BatchInv, StrayInv
<1> QED BY <1>1, <1>5, <1>7, <1>8, <1>9 DEF RInv, BatchInv

\* A repeated request is answered as before.
LEMMA InvStartAgain == ASSUME RInv, NEW r \in Request, start_again(r) PROVE RInv'
<1>0. /\ started[r] # None
      /\ answered' = [answered EXCEPT ![r] = started[r]]
      /\ UNCHANGED <<vars, attempts, plans, started, calls, verified, early, faults>>
  BY DEF start_again
<1>1. BoardInv' /\ Quiet /\ Stay(Job) /\ \A j : Exists(j)' <=> Exists(j)
  BY <1>0, NothingMoves DEF RInv
<1>2. RevalidationTypeOK'
  BY <1>0, <1>1 DEF RInv, BoardInv, RevalidationTypeOK
<1>3. CallsInv' /\ AttemptsInv'
  BY <1>0, <1>1 DEF RInv, BatchInv, CallsInv, CallInv, AttemptsInv, AttemptInv, Remaining, IdOf
<1>4. AnswersInv'
  BY <1>0 DEF RInv, BatchInv, AnswersInv, RevalidationTypeOK
<1>5. OutcomeInv'
  BY <1>0, <1>1, OutcomeQuiet DEF RInv, BatchInv
<1>6. StrayInv'
  BY <1>0, <1>1 DEF RInv, BatchInv, StrayInv, Owned
<1> QED BY <1>1, <1>2, <1>3, <1>4, <1>5, <1>6 DEF RInv, BatchInv

\* The plan is written once every job is there.
LEMMA InvPutPlan == ASSUME RInv, NEW r \in Request, put_plan(r) PROVE RInv'
<1> DEFINE c == [calls[r] EXCEPT !.pc = "attempt", !.new_plan = PlanIdOf(r) \notin plans]
<1>0. /\ calls[r].pc = "plan" /\ plans' = plans \cup {PlanIdOf(r)}
      /\ calls' = [calls EXCEPT ![r] = c]
      /\ UNCHANGED <<vars, attempts, started, answered, verified, early, faults>>
  BY DEF put_plan, Call
<1>1. BoardInv' /\ Quiet /\ Stay(Job) /\ \A j : Exists(j)' <=> Exists(j)
  BY <1>0, NothingMoves DEF RInv
<1>2. /\ calls \in [Request -> CallType] /\ calls'[r] = c
      /\ \A q \in Request : q # r => calls'[q] = calls[q]
  <2> HIDE DEF c
  <2> QED BY <1>0 DEF RInv, RevalidationTypeOK
<1>3. /\ c \in CallType /\ c.job_ids = calls[r].job_ids /\ c.created = calls[r].created
      /\ c.pc = "attempt"
  <2> DEFINE b == PlanIdOf(r) \notin plans
  <2>1. b \in BOOLEAN /\ calls[r] \in CallType
    BY <1>2
  <2> HIDE DEF b
  <2>2. [calls[r] EXCEPT !.pc = "attempt", !.new_plan = b] \in CallType
    BY <2>1 DEF CallType
  <2>3. /\ [calls[r] EXCEPT !.pc = "attempt", !.new_plan = b].job_ids = calls[r].job_ids
        /\ [calls[r] EXCEPT !.pc = "attempt", !.new_plan = b].created = calls[r].created
        /\ [calls[r] EXCEPT !.pc = "attempt", !.new_plan = b].pc = "attempt"
    BY <2>1 DEF CallType
  <2> QED BY <2>2, <2>3 DEF b
<1> HIDE DEF c
<1>4. RevalidationTypeOK'
  <2>1. calls' \in [Request -> CallType]
    BY <1>0, <1>2, <1>3
  <2>2. plans' \subseteq (0..MaxTries) \X PlanType
    BY <1>0, CallFields DEF RInv, RevalidationTypeOK
  <2> QED BY <1>0, <1>1, <2>1, <2>2 DEF RInv, BoardInv, RevalidationTypeOK
<1>5. CallInv(r)'
  BY <1>0, <1>1, <1>2, <1>3 DEF RInv, BatchInv, CallsInv, CallInv
<1>6. CallsInv' /\ AttemptsInv' /\ OutcomeInv'
  BY <1>0, <1>1, <1>2, <1>5, CallAlone DEF OthersSame
<1>7. AnswersInv'
  BY <1>0 DEF RInv, BatchInv, AnswersInv
<1>8. StrayInv'
  <2>1. \A q \in Request : \A m : Owned(q, m) => Owned(q, m)'
    BY <1>0, <1>2, <1>3 DEF Owned
  <2> QED BY <1>0, <1>1, <2>1 DEF RInv, BatchInv, StrayInv
<1> QED BY <1>1, <1>4, <1>6, <1>7, <1>8 DEF RInv, BatchInv

\* A call that ends, one way or another, leaves no locals.
LEMMA CallOver ==
  ASSUME RevalidationTypeOK, NEW r \in Request, Call(r, [NoCall EXCEPT !.try = calls[r].try])
  PROVE  /\ calls' \in [Request -> CallType]
         /\ calls'[r].pc = "idle" /\ calls'[r].job_ids = {} /\ calls'[r].created = {}
         /\ \A q \in Request : q # r => calls'[q] = calls[q]
<1> DEFINE c == [NoCall EXCEPT !.try = calls[r].try]
<1>1. c \in CallType /\ c.pc = "idle" /\ c.job_ids = {} /\ c.created = {}
  BY CallFields DEF NoCall, CallType
<1>2. calls' = [calls EXCEPT ![r] = c] /\ calls \in [Request -> CallType]
  BY DEF Call, RevalidationTypeOK
<1> HIDE DEF c
<1> QED BY <1>1, <1>2

\* The key is written last: from then on the request has an answer.
LEMMA InvPutKey == ASSUME RInv, NEW r \in Request, put_key(r) PROVE RInv'
<1>0. /\ calls[r].pc = "key" /\ started' = [started EXCEPT ![r] = IdOf(r)]
      /\ answered' = [answered EXCEPT ![r] = IdOf(r)]
      /\ Call(r, [NoCall EXCEPT !.try = calls[r].try])
      /\ UNCHANGED <<vars, attempts, plans, verified, early, faults>>
  BY DEF put_key
<1>1. BoardInv' /\ Quiet /\ Stay(Job) /\ \A j : Exists(j)' <=> Exists(j)
  BY <1>0, NothingMoves DEF RInv
<1>2. /\ calls' \in [Request -> CallType]
      /\ calls'[r].pc = "idle" /\ calls'[r].job_ids = {} /\ calls'[r].created = {}
      /\ \A q \in Request : q # r => calls'[q] = calls[q]
  BY <1>0, CallOver DEF RInv
<1>3. IdOf(r) \in AttemptId /\ IdOf(r)[1] = r /\ attempts[IdOf(r)] # None
  BY <1>0, CallFields DEF RInv, BatchInv, CallsInv, CallInv
<1>4. RevalidationTypeOK'
  BY <1>0, <1>1, <1>2, <1>3 DEF RInv, BoardInv, RevalidationTypeOK
<1>5. /\ started'[r] = IdOf(r) /\ answered'[r] = IdOf(r)
      /\ \A q \in Request : q # r => started'[q] = started[q] /\ answered'[q] = answered[q]
  BY <1>0 DEF RInv, RevalidationTypeOK
<1>6. CallInv(r)'
  BY <1>2 DEF CallInv
<1>7. CallsInv' /\ AttemptsInv' /\ OutcomeInv'
  BY <1>0, <1>1, <1>2, <1>5, <1>6, CallAlone DEF OthersSame
<1>8. AnswersInv'
  BY <1>0, <1>3, <1>5 DEF RInv, BatchInv, AnswersInv
<1>9. StrayInv'
  <2>1. \A q \in Request : \A m : Owned(q, m) => Owned(q, m)'
    BY <1>0, <1>2 DEF Owned
  <2> QED BY <1>0, <1>1, <2>1 DEF RInv, BatchInv, StrayInv
<1> QED BY <1>1, <1>4, <1>7, <1>8, <1>9 DEF RInv, BatchInv

\* A call that dies leaves what it wrote.
LEMMA InvCallDies == ASSUME RInv, NEW r \in Request, call_dies(r) PROVE RInv'
<1>0. /\ faults < MaxFaults /\ faults' = faults + 1
      /\ Call(r, [NoCall EXCEPT !.try = calls[r].try])
      /\ UNCHANGED <<vars, attempts, plans, started, answered, verified, early>>
  BY DEF call_dies
<1>1. BoardInv' /\ Quiet /\ Stay(Job)
  BY <1>0, NothingMoves DEF RInv
<1>2. /\ calls' \in [Request -> CallType]
      /\ calls'[r].pc = "idle" /\ calls'[r].job_ids = {} /\ calls'[r].created = {}
      /\ \A q \in Request : q # r => calls'[q] = calls[q]
  BY <1>0, CallOver DEF RInv
<1>3. faults' \in 0..MaxFaults /\ faults' # 0
  BY <1>0, TriesAssumption DEF RInv, RevalidationTypeOK
<1>4. RevalidationTypeOK'
  BY <1>0, <1>1, <1>2, <1>3 DEF RInv, BoardInv, RevalidationTypeOK
<1>5. CallInv(r)'
  BY <1>2 DEF CallInv
<1>6. CallsInv' /\ AttemptsInv' /\ OutcomeInv'
  BY <1>0, <1>1, <1>2, <1>5, CallAlone DEF OthersSame
<1> QED BY <1>0, <1>1, <1>3, <1>4, <1>6 DEF RInv, BatchInv, AnswersInv, StrayInv

\* The submission of a job ends none and creates no other.
LEMMA SubmitQuiet ==
  ASSUME BoardInv, NEW m \in Manifest, submit_job(m)
  PROVE  /\ BoardInv' /\ Quiet /\ Stay(Job)
         /\ m.job \in Job /\ ~Exists(m.job) /\ Exists(m.job)'
         /\ \A j \in Job : Exists(j)' => Exists(j) \/ j = m.job
<1>1. HostStep /\ BoardStep
  BY DEF HostStep, BoardStep
<1>2. ASSUME NEW ev \in Events PROVE ~record_event(ev)
  BY EventLogged DEF submit_job, BoardInv
<1>3. BoardInv' /\ Quiet /\ Stay(Job)
  BY <1>1, <1>2, BoardKept, BoardEnds, BoardLasting DEF Quiet, Stay
<1>4. m.job \in Job /\ ~Exists(m.job)
  BY SubmitFresh DEF submit_job, BoardInv
<1>5. jobs' = [JobsAfterSubmit(m) EXCEPT ![m.job] = [NoJob EXCEPT !.manifest = m, !.status = "queued"]]
  BY DEF submit_job
<1>6. JobsAfterSubmit(m) \in JobsType
  BY FencedType DEF JobsAfterSubmit, BoardInv, TypeOK, JobsType
<1>7. jobs'[m.job].status = "queued"
  BY <1>4, <1>5, <1>6 DEF JobsType, NoJob
<1>8. ASSUME NEW j \in Job, j # m.job, Exists(j)' PROVE Exists(j)
  <2>1. jobs'[j] = JobsAfterSubmit(m)[j]
    BY <1>5, <1>6, <1>8 DEF JobsType
  <2>2. JobsAfterSubmit(m)[j] = jobs[j] \/ Exists(j)
    BY DEF JobsAfterSubmit, Fenced
  <2> QED BY <1>8, <2>1, <2>2 DEF Exists
<1> QED BY <1>3, <1>4, <1>7, <1>8 DEF Exists

\* One more job of the batch is there, created now or earlier.
LEMMA InvSubmitNext == ASSUME RInv, NEW r \in Request, submit_next(r) PROVE RInv'
<1>m. PICK m : m = NextManifest(r)
  OBVIOUS
<1>0. /\ calls[r].pc = "submit"
      /\ UNCHANGED <<attempts, plans, started, answered, verified, early, faults>>
  BY DEF submit_next
<1>1. /\ CallInv(r) /\ Worker(r) /\ calls[r] \in CallType
      /\ calls \in [Request -> CallType] /\ m \in Remaining(r)
      /\ \A a \in AttemptId : attempts[a] # None => AttemptInv(a)
  BY <1>m, <1>0, NextChosen DEF RInv, RevalidationTypeOK, BatchInv, CallsInv, CallInv, AttemptsInv
<1>2. /\ m \in Payload[r].manifests /\ m \in Manifest /\ m.job \in Job /\ m.job \notin calls[r].job_ids
      /\ m.job \in JobIds(r)
  BY <1>1, PayloadFacts DEF Remaining, JobIds
<1>3. PICK new \in {calls[r].created, calls[r].created \cup {m}} :
        /\ Submitted(r, m, new)
        /\ \/ new = calls[r].created /\ Known(m) /\ UNCHANGED vars
           \/ new = calls[r].created \cup {m} /\ submit_job(m)
  BY <1>m DEF submit_next
<1>4. /\ BoardInv' /\ Quiet /\ Stay(Job) /\ Exists(m.job)'
      /\ \A j \in Job : Exists(j)' => Exists(j) \/ (j = m.job /\ m \in new)
      /\ Exists(m.job) \/ m \in new
      /\ m \in new => (Exists(m.job) /\ m \in calls[r].created) \/ ~Exists(m.job)
  <2>1. CASE new = calls[r].created /\ Known(m) /\ UNCHANGED vars
    <3>1. m \notin calls[r].created
      BY <1>1, <1>2 DEF CallInv
    <3> QED BY <2>1, <3>1, NothingMoves DEF RInv, Known, Exists
  <2>2. CASE new = calls[r].created \cup {m} /\ submit_job(m)
    BY <1>2, <2>2, SubmitQuiet DEF RInv
  <2> QED BY <1>3, <2>1, <2>2
<1> DEFINE pc == IF Remaining(r) = {m} THEN "plan" ELSE "submit"
           c == [calls[r] EXCEPT !.job_ids = calls[r].job_ids \cup {m.job}, !.created = new, !.pc = pc]
<1>5. calls' = [calls EXCEPT ![r] = c]
  BY <1>3 DEF Submitted, Call
<1>6. /\ c \in CallType /\ c.job_ids = calls[r].job_ids \cup {m.job} /\ c.created = new
      /\ c.pc = pc /\ c.try = calls[r].try
  <2>1. pc \in {"plan", "submit"} /\ new \subseteq Manifest
    BY <1>1, <1>2, <1>3, PayloadFacts DEF CallInv
  <2> HIDE DEF pc
  <2> QED BY <1>1, <1>2, <2>1 DEF CallType
<1> HIDE DEF c
<1>7. /\ calls' \in [Request -> CallType] /\ calls'[r] = c
      /\ \A q \in Request : q # r => calls'[q] = calls[q]
  BY <1>1, <1>5, <1>6
<1>8. RevalidationTypeOK'
  BY <1>0, <1>4, <1>7 DEF RInv, BoardInv, RevalidationTypeOK
<1>9. CallInv(r)'
  <2>1. calls'[r].job_ids \subseteq JobIds(r) /\ calls'[r].created \subseteq Payload[r].manifests
    BY <1>1, <1>2, <1>3, <1>6, <1>7 DEF CallInv
  <2>2. \A j \in calls'[r].job_ids : Exists(j)'
    BY <1>1, <1>4, <1>6, <1>7, PayloadFacts DEF CallInv, Stay
  <2>3. \A k \in calls'[r].created : k.job \in calls'[r].job_ids
    BY <1>1, <1>3, <1>6, <1>7 DEF CallInv
  <2>4. ASSUME NEW k \in calls'[r].created, NEW a \in AttemptId, attempts'[a] # None
        PROVE  k.job \notin attempts'[a].job_ids
    <3>1. CASE k \in calls[r].created
      BY <1>0, <1>1, <2>4, <3>1 DEF CallInv
    <3>2. CASE k = m /\ ~Exists(m.job)
      BY <1>0, <1>1, <2>4, <3>2 DEF AttemptInv
    <3> QED BY <1>3, <1>4, <1>6, <1>7, <2>4, <3>1, <3>2
  <2>5. CASE Remaining(r) = {m}
    <3>1. calls'[r].pc = "plan"
      BY <1>6, <1>7, <2>5
    <3>2. \A k \in Payload[r].manifests : k.job \in calls'[r].job_ids
      BY <1>6, <1>7, <2>5 DEF Remaining
    <3>3. calls'[r].job_ids = JobIds(r)
      BY <2>1, <3>2 DEF JobIds
    <3> QED BY <1>0, <1>1, <2>1, <2>2, <2>3, <3>1, <3>3 DEF CallInv
  <2>6. CASE Remaining(r) # {m}
    <3>1. calls'[r].pc = "submit"
      BY <1>6, <1>7, <2>6
    <3>2. PICK k \in Remaining(r) : k # m
      BY <1>1, <2>6
    <3>3. k \in Remaining(r)'
      BY <1>2, <1>6, <1>7, <3>2, PayloadFacts DEF Remaining
    <3> QED BY <1>0, <1>1, <2>1, <2>2, <2>3, <2>4, <3>1, <3>3 DEF CallInv
  <2> QED BY <2>5, <2>6
<1>10. CallsInv' /\ AttemptsInv' /\ OutcomeInv'
  BY <1>0, <1>4, <1>7, <1>9, CallAlone DEF OthersSame
<1>11. AnswersInv'
  BY <1>0 DEF RInv, BatchInv, AnswersInv
<1>12. StrayInv'
  <2> SUFFICES ASSUME faults' = 0, NEW q \in Request, NEW k \in Payload[q].manifests, Exists(k.job)'
               PROVE  Owned(q, k)'
    BY DEF StrayInv
  <2>1. Owned(q, k) => Owned(q, k)'
    <3>1. q = r => calls'[q].pc \in {"plan", "submit"} /\ calls[q].created \subseteq calls'[q].created
      BY <1>3, <1>6, <1>7
    <3> QED BY <1>0, <1>7, <3>1 DEF Owned
  <2>2. k.job \in Job
    BY PayloadFacts DEF JobIds
  <2>3. CASE Exists(k.job)
    BY <1>0, <2>1, <2>3 DEF RInv, BatchInv, StrayInv
  <2>4. CASE k.job = m.job /\ m \in new
    <3>1. k \in Manifest
      BY PayloadFacts
    <3>2. k = m
      BY <1>2, <2>4, <3>1, ManifestAssumption
    <3>3. q = r
      BY <1>2, <3>2, RequestAssumption
    <3> QED BY <1>6, <1>7, <2>4, <3>2, <3>3 DEF Owned
  <2> QED BY <1>4, <2>2, <2>3, <2>4
<1> QED BY <1>4, <1>8, <1>10, <1>11, <1>12 DEF RInv, BatchInv

\* What the writing of one attempt, or its withdrawal, leaves of the others.
LEMMA AttemptWritten ==
  ASSUME RInv, NEW r \in Request, NEW rec \in AttemptType \cup {None},
         attempts' = [attempts EXCEPT ![IdOf(r)] = rec]
  PROVE  /\ attempts' \in [AttemptId -> AttemptType \cup {None}]
         /\ attempts'[IdOf(r)] = rec
         /\ \A a \in AttemptId : a # IdOf(r) => attempts'[a] = attempts[a]
<1>1. attempts \in [AttemptId -> AttemptType \cup {None}] /\ IdOf(r) \in AttemptId
  BY CallFields DEF RInv, RevalidationTypeOK
<1> QED BY <1>1

\* A worker's attempt is stored twice, each time as it was when the call began;
\* a job that has ended by then is what early remembers.
LEMMA InvPutAttempt == ASSUME RInv, NEW r \in Request, put_attempt(r) PROVE RInv'
<1> DEFINE pc == IF Worker(r) /\ calls[r].pc = "attempt" THEN "rewrite" ELSE "key"
           c == [calls[r] EXCEPT !.pc = pc]
<1>i. PICK id \in AttemptId : id = IdOf(r) /\ id[1] = r
  BY CallFields DEF RInv
<1>n. PICK new \in AttemptType : new = NewAttempt(r) /\ new # None
  BY CallFields DEF RInv
<1>0. /\ calls[r].pc \in {"attempt", "rewrite"}
      /\ attempts' = [attempts EXCEPT ![id] = new]
      /\ calls' = [calls EXCEPT ![r] = c]
      /\ early' = early \cup (calls[r].job_ids \cap Ended)
      /\ UNCHANGED <<vars, plans, started, answered, verified, faults>>
  BY <1>i, <1>n DEF put_attempt, Call
<1>1. BoardInv' /\ Stay(Job) /\ \A j : Exists(j)' <=> Exists(j)
  BY <1>0, NothingMoves DEF RInv
<1>2. /\ CallInv(r) /\ calls[r] \in CallType /\ calls \in [Request -> CallType]
      /\ calls[r].job_ids = JobIds(r) /\ started[r] = None /\ Plannable(r)
  BY <1>0 DEF RInv, RevalidationTypeOK, BatchInv, CallsInv, CallInv
<1>3. /\ c \in CallType /\ c.job_ids = calls[r].job_ids /\ c.created = calls[r].created
      /\ c.pc \in {"rewrite", "key"} /\ c.try = calls[r].try
  BY <1>2 DEF CallType
<1> HIDE DEF c
<1>4. /\ calls' \in [Request -> CallType] /\ calls'[r] = c
      /\ \A q \in Request : q # r => calls'[q] = calls[q]
  BY <1>0, <1>2, <1>3
<1>5. /\ attempts' \in [AttemptId -> AttemptType \cup {None}] /\ attempts'[id] = new
      /\ \A a \in AttemptId : a # id => attempts'[a] = attempts[a]
  BY <1>i, <1>0, AttemptWritten
<1>6. /\ new.plan = compute_invalidation(r) /\ new.job_ids = JobIds(r)
      /\ new.state \in {"queued", "awaiting_host_evidence"}
  BY <1>n, <1>2 DEF NewAttempt
<1>7. RevalidationTypeOK'
  <2>1. early' \subseteq Job
    BY <1>0 DEF RInv, RevalidationTypeOK, Ended
  <2> QED BY <1>0, <1>1, <1>4, <1>5, <2>1 DEF RInv, BoardInv, RevalidationTypeOK
<1>8. AttemptsInv'
  <2> SUFFICES ASSUME NEW a \in AttemptId, attempts'[a] # None PROVE AttemptInv(a)'
    BY DEF AttemptsInv
  <2>1. CASE a = id
    BY <1>i, <1>1, <1>2, <1>5, <1>6, <2>1 DEF AttemptInv, CallInv
  <2>2. CASE a # id
    BY <1>1, <1>5, <2>2 DEF RInv, BatchInv, AttemptsInv, AttemptInv
  <2> QED BY <2>1, <2>2
<1>9. CallInv(r)'
  <2>1. IdOf(r)' = id
    BY <1>i, <1>3, <1>4 DEF IdOf
  <2> QED BY <1>n, <1>0, <1>1, <1>2, <1>3, <1>4, <1>5, <2>1 DEF CallInv
<1>10. CallsInv'
  <2>1. \A q \in Request : Stay(JobIds(q))
    BY <1>1 DEF Stay
  <2>2. ASSUME NEW q \in Request, q # r PROVE CallInv(q)'
    <3>1. \A a \in AttemptId : a[1] = q => attempts'[a] = attempts[a]
      BY <1>i, <1>5, <2>2
    <3> QED BY <1>0, <1>4, <1>8, <2>1, <2>2, <3>1, CallKept DEF RInv, BatchInv
  <2> QED BY <1>9, <2>2 DEF CallsInv
<1>11. AnswersInv'
  <2>1. \A q \in Request : started[q] # None => started[q] \in AttemptId
    BY DEF RInv, RevalidationTypeOK
  <2> QED BY <1>i, <1>n, <1>0, <1>2, <1>5, <2>1 DEF RInv, BatchInv, AnswersInv
<1>12. OutcomeInv'
  <2>1. Ended' = Ended /\ jobs' = jobs
    BY <1>0 DEF Ended, Terminal, vars
  <2>2. OutcomeTrue'
    <3> SUFFICES ASSUME NEW a \in AttemptId, attempts'[a] # None, attempts'[a].job_ids # {}
                 PROVE  /\ attempts'[a].state = "completed" => attempts'[a].job_ids \subseteq verified'
                        /\ attempts'[a].state = "needs_review" =>
                             attempts'[a].job_ids \subseteq Ended' /\ ~(attempts'[a].job_ids \subseteq verified')
      BY DEF OutcomeTrue
    <3>1. CASE a = id
      BY <1>5, <1>6, <3>1
    <3>2. CASE a # id
      BY <1>0, <1>5, <2>1, <3>2 DEF RInv, BatchInv, OutcomeInv, OutcomeTrue
    <3> QED BY <3>1, <3>2
  <2>3. ASSUME NEW a \in AttemptId, attempts'[a] # None, Worker(a[1]),
               attempts'[a].job_ids \subseteq Ended'
        PROVE  attempts'[a].state \in {"completed", "needs_review"} \/ Excused(a)'
    <3>1. CASE a = id
      <4>1. PICK j \in JobIds(r) : TRUE
        BY <1>i, <2>3, <3>1, PayloadFacts
      <4>2. j \in attempts'[a].job_ids /\ j \in early'
        BY <1>0, <1>2, <1>5, <1>6, <2>1, <2>3, <3>1
      <4> QED BY <4>2 DEF Excused
    <3>2. CASE a # id
      BY <1>0, <1>5, <2>1, <2>3, <3>2 DEF RInv, BatchInv, OutcomeInv, Excused
    <3> QED BY <3>1, <3>2
  <2> QED BY <1>0, <2>1, <2>2, <2>3 DEF RInv, BatchInv, OutcomeInv
<1>13. StrayInv'
  <2> SUFFICES ASSUME faults' = 0, NEW q \in Request, NEW m \in Payload[q].manifests, Exists(m.job)'
               PROVE  Owned(q, m)'
    BY DEF StrayInv
  <2>1. Owned(q, m)
    BY <1>0, <1>1 DEF RInv, BatchInv, StrayInv
  <2>2. CASE q = r
    BY <1>n, <1>5, <1>6, <2>2 DEF Owned, JobIds
  <2>3. CASE q # r
    <3>1. ASSUME NEW a \in AttemptId, attempts[a] # None, m.job \in attempts[a].job_ids
          PROVE  attempts'[a] = attempts[a]
      <4>1. attempts[a].job_ids = JobIds(a[1]) /\ m.job \in JobIds(q)
        BY <3>1 DEF RInv, BatchInv, AttemptsInv, AttemptInv, JobIds
      <4>2. a[1] # r
        BY <2>3, <3>1, <4>1, JobsApart
      <4> QED BY <1>i, <1>5, <4>2
    <3> QED BY <1>4, <2>1, <2>3, <3>1 DEF Owned
  <2> QED BY <2>2, <2>3
<1> QED BY <1>1, <1>7, <1>8, <1>10, <1>11, <1>12, <1>13 DEF RInv, BatchInv

\* A host's call that could not write takes back what nobody was told of.
LEMMA InvWriteFails == ASSUME RInv, NEW r \in Request, host_write_fails(r) PROVE RInv'
<1>i. PICK id \in AttemptId : id = IdOf(r) /\ id[1] = r
  BY CallFields DEF RInv
<1>0. /\ calls[r].pc \in {"plan", "attempt", "key"} /\ faults < MaxFaults /\ faults' = faults + 1
      /\ attempts' = [attempts EXCEPT ![id] = None]
      /\ plans' \subseteq plans
      /\ Call(r, [NoCall EXCEPT !.try = calls[r].try])
      /\ UNCHANGED <<vars, started, answered, verified, early>>
  BY <1>i DEF host_write_fails
<1>1. BoardInv' /\ Stay(Job) /\ \A j : Exists(j)' <=> Exists(j)
  BY <1>0, NothingMoves DEF RInv
<1>2. /\ calls' \in [Request -> CallType]
      /\ calls'[r].pc = "idle" /\ calls'[r].job_ids = {} /\ calls'[r].created = {}
      /\ \A q \in Request : q # r => calls'[q] = calls[q]
  BY <1>0, CallOver DEF RInv
<1>3. /\ attempts' \in [AttemptId -> AttemptType \cup {None}] /\ attempts'[id] = None
      /\ \A a \in AttemptId : a # id => attempts'[a] = attempts[a]
  BY <1>i, <1>0, AttemptWritten
<1>4. faults' \in 0..MaxFaults /\ faults' # 0
  BY <1>0, TriesAssumption DEF RInv, RevalidationTypeOK
<1>5. RevalidationTypeOK'
  BY <1>0, <1>1, <1>2, <1>3, <1>4 DEF RInv, BoardInv, RevalidationTypeOK
<1>6. AttemptsInv'
  BY <1>1, <1>3 DEF RInv, BatchInv, AttemptsInv, AttemptInv
<1>7. CallsInv'
  <2>1. \A q \in Request : Stay(JobIds(q))
    BY <1>1 DEF Stay
  <2>2. ASSUME NEW q \in Request, q # r PROVE CallInv(q)'
    <3>1. \A a \in AttemptId : a[1] = q => attempts'[a] = attempts[a]
      BY <1>i, <1>3, <2>2
    <3> QED BY <1>0, <1>2, <1>6, <2>1, <2>2, <3>1, CallKept DEF RInv, BatchInv
  <2>3. CallInv(r)'
    BY <1>2 DEF CallInv
  <2> QED BY <2>2, <2>3 DEF CallsInv
<1>8. AnswersInv'
  <2>1. \A q \in Request : started[q] # None => started[q] \in AttemptId
    BY DEF RInv, RevalidationTypeOK
  <2>2. started[r] = None
    BY <1>0 DEF RInv, BatchInv, CallsInv, CallInv
  <2> QED BY <1>i, <1>0, <1>3, <2>1, <2>2 DEF RInv, BatchInv, AnswersInv
<1>9. OutcomeInv'
  <2>1. Ended' = Ended /\ jobs' = jobs
    BY <1>0 DEF Ended, Terminal, vars
  <2> QED BY <1>0, <1>3, <2>1 DEF RInv, BatchInv, OutcomeInv, OutcomeTrue, Excused
<1> QED BY <1>1, <1>4, <1>5, <1>6, <1>7, <1>8, <1>9 DEF RInv, BatchInv, StrayInv

\* The jobs the rollback takes away are there, and no other job has their keys.
LEMMA RolledBackJobs ==
  ASSUME RInv, NEW r \in Request, NEW m \in RolledBack(r)
  PROVE  /\ m \in Payload[r].manifests /\ m \in Manifest /\ m.job \in JobIds(r)
         /\ m.job \in Job /\ m.key \in Key /\ Exists(m.job)
         /\ jobs[m.job].manifest = m /\ idempotency[m.key] = m
<1>1. m \in Payload[r].manifests /\ m.job \in calls[r].job_ids /\ Exists(m.job)
  BY DEF RolledBack, RInv, BatchInv, CallsInv, CallInv
<1>2. m \in Manifest /\ m.job \in Job /\ m.key \in Key /\ m.job \in JobIds(r)
  BY <1>1, PayloadFacts, ManifestAssumption DEF ManifestType, JobIds
<1>3. jobs[m.job].manifest = m
  BY <1>1, <1>2, ManifestAssumption DEF RInv, BoardInv, JobsRegistered
<1> QED BY <1>1, <1>2, <1>3 DEF RInv, BoardInv, JobsRegistered

\* The rollback leaves the coordinator consistent.
LEMMA BoardRolledBack == ASSUME RInv, NEW r \in Request, submit_refused(r) PROVE BoardInv'
<1>g. PICK gone : gone = {m.job : m \in RolledBack(r)}
  OBVIOUS
<1>0. /\ jobs' = [j \in Job |-> IF j \in gone THEN NoJob ELSE jobs[j]]
      /\ submitted' = Without(submitted, gone)
      /\ idempotency' = [k \in Key |->
           IF \E m \in RolledBack(r) : m.key = k THEN None ELSE idempotency[k]]
      /\ UNCHANGED <<authority, leases, events, quarantine, nodes>>
  BY <1>g DEF submit_refused
<1>1. \A j \in Job : jobs'[j] = NoJob \/ (jobs'[j] = jobs[j] /\ j \notin gone)
  BY <1>0
<1>2. TypeOK'
  <2>1. jobs' \in [Job -> JobType]
    BY <1>0, NoJobType DEF RInv, BoardInv, TypeOK
  <2>2. submitted' \in Seq(Job)
    BY <1>0, WithoutType DEF RInv, BoardInv, TypeOK
  <2>3. idempotency' \in [Key -> Manifest \cup {None}]
    BY <1>0 DEF RInv, BoardInv, TypeOK
  <2> QED BY <1>0, <2>1, <2>2, <2>3 DEF RInv, BoardInv, TypeOK
<1>3. AbsentFree' /\ OpenInv'
  BY <1>1 DEF RInv, BoardInv, AbsentFree, OpenInv, NoJob, Exists
<1>4. JobsRegistered'
  <2> SUFFICES ASSUME NEW j \in Job, Exists(j)'
               PROVE  /\ jobs'[j].manifest \in Manifest /\ jobs'[j].manifest.job = j
                      /\ idempotency'[jobs'[j].manifest.key] = jobs'[j].manifest
    BY DEF JobsRegistered
  <2>1. jobs'[j] = jobs[j] /\ j \notin gone /\ Exists(j)
    BY <1>1 DEF Exists, NoJob
  <2>2. /\ jobs[j].manifest \in Manifest /\ jobs[j].manifest.job = j
        /\ idempotency[jobs[j].manifest.key] = jobs[j].manifest
        /\ jobs[j].manifest.key \in Key
    BY <2>1, ManifestAssumption DEF RInv, BoardInv, JobsRegistered, ManifestType
  <2>3. ASSUME NEW m \in RolledBack(r), m.key = jobs[j].manifest.key PROVE FALSE
    <3>1. jobs[j].manifest = m
      BY <2>2, <2>3, RolledBackJobs
    <3> QED BY <1>g, <2>1, <2>2, <3>1
  <2> QED BY <1>0, <2>1, <2>2, <2>3
<1> QED BY <1>2, <1>3, <1>4 DEF BoardInv

\* The rollback takes away only what belongs to no attempt.
LEMMA InvSubmitRefused == ASSUME RInv, NEW r \in Request, submit_refused(r) PROVE RInv'
<1>g. PICK gone : gone = {m.job : m \in RolledBack(r)}
  OBVIOUS
<1>0. /\ calls[r].pc = "submit"
      /\ jobs' = [j \in Job |-> IF j \in gone THEN NoJob ELSE jobs[j]]
      /\ verified' = verified \ gone /\ early' = early \ gone
      /\ Call(r, [NoCall EXCEPT !.try = calls[r].try])
      /\ UNCHANGED <<attempts, plans, started, answered, faults>>
  BY <1>g DEF submit_refused
<1>1. BoardInv'
  BY BoardRolledBack
<1>2. /\ calls' \in [Request -> CallType]
      /\ calls'[r].pc = "idle" /\ calls'[r].job_ids = {} /\ calls'[r].created = {}
      /\ \A q \in Request : q # r => calls'[q] = calls[q]
  BY <1>0, CallOver DEF RInv
<1>3. gone \subseteq JobIds(r)
  BY <1>g, RolledBackJobs
<1>4. \A a \in AttemptId : attempts[a] # None => attempts[a].job_ids \cap gone = {}
  BY <1>g, <1>0 DEF RolledBack, RInv, BatchInv, CallsInv, CallInv
<1>5. \A j \in Job : j \notin gone => jobs'[j] = jobs[j]
  BY <1>0
<1>6. \A j \in Job : j \in gone => ~Exists(j)' /\ ~Terminal(j)'
  BY <1>0 DEF NoJob, Exists, Terminal
<1>7. Ended' = Ended \ gone
  BY <1>5, <1>6 DEF Ended, Terminal
<1>8. RevalidationTypeOK'
  BY <1>0, <1>1, <1>2 DEF RInv, BoardInv, RevalidationTypeOK
<1>9. AttemptsInv'
  <2>1. \A a \in AttemptId : attempts[a] # None => Stay(attempts[a].job_ids)
    BY <1>4, <1>5, AttemptFields DEF RInv, Stay, Exists
  <2> QED BY <1>0, <2>1, PlansKept DEF RInv, BatchInv, SamePlans
<1>10. CallsInv'
  <2>1. CallInv(r)'
    BY <1>2 DEF CallInv
  <2>2. ASSUME NEW q \in Request, q # r PROVE CallInv(q)'
    <3>1. Stay(JobIds(q))
      BY <1>3, <1>5, <2>2, PayloadFacts, JobsApart DEF Stay, Exists
    <3> QED BY <1>0, <1>2, <1>9, <2>2, <3>1, CallKept DEF RInv, BatchInv
  <2> QED BY <2>1, <2>2 DEF CallsInv
<1>11. AnswersInv'
  BY <1>0 DEF RInv, BatchInv, AnswersInv
<1>12. OutcomeInv'
  <2>1. ASSUME NEW a \in AttemptId, attempts[a] # None
        PROVE  /\ attempts[a].job_ids \subseteq Ended' <=> attempts[a].job_ids \subseteq Ended
               /\ attempts[a].job_ids \subseteq verified' <=> attempts[a].job_ids \subseteq verified
               /\ Excused(a) => Excused(a)'
    <3>1. attempts[a].job_ids \cap gone = {} /\ attempts[a].job_ids \subseteq Job
      BY <1>4, <2>1, AttemptFields DEF RInv
    <3> QED BY <1>0, <1>5, <1>7, <3>1 DEF Excused
  <2>2. OutcomeTrue'
    BY <1>0, <2>1 DEF RInv, BatchInv, OutcomeInv, OutcomeTrue
  <2> QED BY <1>0, <1>7, <2>1, <2>2 DEF RInv, BatchInv, OutcomeInv
<1>13. StrayInv'
  <2> SUFFICES ASSUME faults' = 0, NEW q \in Request, NEW m \in Payload[q].manifests, Exists(m.job)'
               PROVE  Owned(q, m)'
    BY DEF StrayInv
  <2>1. m.job \in Job
    BY PayloadFacts DEF JobIds
  <2>2. m.job \notin gone /\ Exists(m.job)
    BY <1>5, <1>6, <2>1 DEF Exists
  <2>3. Owned(q, m)
    BY <1>0, <2>2 DEF RInv, BatchInv, StrayInv
  <2>4. q = r => m \notin calls[q].created
    BY <1>g, <2>2 DEF RolledBack
  <2> QED BY <1>0, <1>2, <2>3, <2>4 DEF Owned
<1> QED BY <1>1, <1>8, <1>9, <1>10, <1>11, <1>12, <1>13 DEF RInv, BatchInv

\* The invariant holds initially and survives every step and stutter.
LEMMA InitRInv == RInit => RInv
<1> SUFFICES ASSUME RInit PROVE RInv
  OBVIOUS
<1>1. \A j \in Job : jobs[j] = NoJob
  BY DEF RInit, Init
<1>2. BoardInv
  BY <1>1, InitTypeOK DEF RInit, BoardInv, JobsRegistered, AbsentFree, OpenInv, Exists, NoJob
<1>3. \A r \in Request : calls[r] = NoCall
  BY DEF RInit
<1>4. NoCall \in CallType /\ faults \in 0..MaxFaults
  BY TriesAssumption DEF NoCall, CallType, RInit
<1>5. RevalidationTypeOK
  BY <1>2, <1>4 DEF RInit, BoardInv, RevalidationTypeOK
<1>6. CallsInv
  BY <1>3 DEF CallsInv, CallInv, NoCall
<1>7. AttemptsInv /\ AnswersInv /\ OutcomeInv
  BY DEF RInit, AttemptsInv, AnswersInv, OutcomeInv, OutcomeTrue
<1>8. StrayInv
  <2>1. \A r \in Request : \A m \in Payload[r].manifests : ~Exists(m.job)
    BY <1>1, PayloadFacts DEF JobIds, Exists, NoJob
  <2> QED BY <2>1 DEF StrayInv
<1> QED BY <1>2, <1>5, <1>6, <1>7, <1>8 DEF RInv, BatchInv

LEMMA StepRInv == ASSUME RInv, [RNext]_rvars PROVE RInv'
<1>1. CASE UNCHANGED rvars
  <2>1. UNCHANGED <<vars, attempts, plans, started, calls, answered, verified, early, faults>>
    BY <1>1 DEF rvars, revalidation
  <2>2. BoardInv' /\ Quiet /\ \A j : Exists(j)' <=> Exists(j)
    BY <2>1, NothingMoves DEF RInv
  <2>3. RevalidationTypeOK'
    BY <2>1, <2>2 DEF RInv, BoardInv, RevalidationTypeOK
  <2>4. CallsInv' /\ AttemptsInv' /\ AnswersInv'
    BY <2>1, <2>2 DEF RInv, BatchInv, CallsInv, CallInv, AttemptsInv, AttemptInv, AnswersInv,
                      Remaining, IdOf
  <2>5. OutcomeInv'
    BY <2>1, <2>2, OutcomeQuiet DEF RInv, BatchInv
  <2> QED BY <2>1, <2>2, <2>3, <2>4, <2>5 DEF RInv, BatchInv, StrayInv, Owned
<1> QED BY <1>1, InvCoordinator, InvTerminalEvent, InvComplete, InvStart, InvStartAgain,
           InvSubmitNext, InvSubmitRefused, InvPutPlan, InvPutAttempt, InvPutKey, InvWriteFails,
           InvCallDies
      DEF RNext, StartStep

LEMMA RevalidationInvariant == RSpec => []RInv
BY InitRInv, StepRInv, PTL DEF RSpec

\* Every plan a start request stored invalidates exactly what its changes
\* reach: compute_invalidation's loop finds the least closed set for any number
\* of criteria and any dependencies, cycles included, and no call, failed write
\* or rollback leaves an attempt with another plan.
THEOREM InvalidationCorrect == RSpec => []InvalidationExact
<1>1. ASSUME RInv PROVE InvalidationExact
  <2> SUFFICES ASSUME NEW r \in Request, NEW a \in AttemptId, a[1] = r, attempts[a] # None
               PROVE  LET plan == attempts[a].plan
                          Closed(S) == /\ DirectlyAffected(Payload[r].graph, Payload[r].changed) \subseteq S
                                       /\ \A c \in Criterion : Payload[r].graph[c].depends_on \cap S # {} => c \in S
                      IN /\ plan.affected = {c \in Criterion : \A S \in SUBSET Criterion : Closed(S) => c \in S}
                         /\ plan.superseded \cap plan.preserved = {}
                         /\ Payload[r].criteria \subseteq plan.affected
    BY <1>1 DEF InvalidationExact, InvalidationMeant, RInv
  <2> DEFINE A == AffectedBy(Payload[r].graph, Payload[r].changed)
  <2>1. attempts[a].plan = compute_invalidation(r) /\ Payload[r].criteria \subseteq A
    BY <1>1 DEF RInv, BatchInv, AttemptsInv, AttemptInv, Plannable
  <2>2. /\ compute_invalidation(r).affected = A
        /\ compute_invalidation(r).superseded = EvidenceOf(Payload[r].graph, Payload[r].criteria)
        /\ compute_invalidation(r).preserved =
             EvidenceOf(Payload[r].graph, Criterion) \ EvidenceOf(Payload[r].graph, A)
    BY DEF compute_invalidation
  <2>3. /\ A \subseteq Criterion /\ ClosedUnder(Payload[r].graph, Payload[r].changed, A)
        /\ \A S \in SUBSET Criterion : ClosedUnder(Payload[r].graph, Payload[r].changed, S) => A \subseteq S
    BY AffectedByLeast
  <2> HIDE DEF A
  <2>4. A = {c \in Criterion : \A S \in SUBSET Criterion :
                ClosedUnder(Payload[r].graph, Payload[r].changed, S) => c \in S}
    BY <2>3
  <2>5. EvidenceOf(Payload[r].graph, Payload[r].criteria) \subseteq EvidenceOf(Payload[r].graph, A)
    BY <2>1 DEF EvidenceOf
  <2> QED BY <2>1, <2>2, <2>4, <2>5 DEF ClosedUnder
<1> QED BY <1>1, RevalidationInvariant, PTL

\* An attempt reports the outcome of its jobs truly, and reports it at all,
\* however the commits of its jobs interleave with the call that names them.
THEOREM OutcomesCorrect == RSpec => []OutcomeReported
<1>1. ASSUME RInv PROVE OutcomeReported
  <2>1. OutcomeTrue
    BY <1>1 DEF RInv, BatchInv, OutcomeInv
  <2>2. ASSUME NEW r \in Request, answered[r] # None
        PROVE  answered[r] \in AttemptId /\ answered[r][1] = r /\ attempts[answered[r]] # None
    BY <1>1, <2>2 DEF RInv, RevalidationTypeOK, BatchInv, AnswersInv
  <2>3. OutcomeReaches
    BY <1>1, <2>2 DEF RInv, BatchInv, OutcomeInv, OutcomeReaches, Excused
  <2> QED BY <2>1, <2>3 DEF OutcomeReported
<1> QED BY <1>1, RevalidationInvariant, PTL

\* Without a crash a batch is all or nothing, for any number of requests,
\* manifests and refused tries.
THEOREM BatchesCorrect == RSpec => []NoStrayJobs
<1>1. ASSUME RInv PROVE NoStrayJobs
  BY <1>1 DEF RInv, BatchInv, StrayInv, Owned, NoStrayJobs
<1> QED BY <1>1, RevalidationInvariant, PTL

\* What a caller was told stays true in every step, whatever other calls fail
\* and whichever jobs end.
THEOREM AnswersCorrect == RSpec => AnswersKept
<1> DEFINE Kept1(r) ==
      answered[r] # None =>
        /\ answered'[r] = answered[r]
        /\ attempts'[answered[r]] # None
        /\ attempts[answered[r]].state = "completed"
             => attempts'[answered[r]] = attempts[answered[r]]
<1>1. ASSUME RInv, RNext, NEW r \in Request, answered[r] # None PROVE Kept1(r)
  <2> DEFINE a == answered[r]
  <2>1. /\ a \in AttemptId /\ a[1] = r /\ attempts[a] # None /\ started[r] = a
        /\ calls[r].pc = "idle"
    BY <1>1 DEF RInv, RevalidationTypeOK, BatchInv, AnswersInv, CallsInv, CallInv
  <2>2. CASE attempts' = attempts /\ answered' = answered
    BY <2>1, <2>2
  <2>3. ASSUME NEW q \in Request, q # r,
               NEW rec \in AttemptType \cup {None},
               attempts' = [attempts EXCEPT ![IdOf(q)] = rec], answered' = answered
        PROVE  Kept1(r)
    <3>1. IdOf(q) # a
      BY <1>1, <2>1, <2>3, CallFields DEF RInv
    <3> QED BY <1>1, <2>1, <2>3, <3>1, AttemptWritten
  <2>4. ASSUME NEW q \in Request, StartStep(q) PROVE Kept1(r)
    <3>1. CASE put_attempt(q)
      <4>1. q # r
        BY <2>1, <3>1 DEF put_attempt
      <4> QED BY <1>1, <2>3, <3>1, <4>1, CallFields DEF put_attempt, RInv
    <3>2. CASE host_write_fails(q)
      <4>1. q # r
        BY <2>1, <3>2 DEF host_write_fails
      <4> QED BY <2>3, <3>2, <4>1 DEF host_write_fails
    <3>3. CASE put_key(q)
      <4>1. q # r /\ attempts' = attempts /\ answered' = [answered EXCEPT ![q] = IdOf(q)]
        BY <2>1, <3>3 DEF put_key
      <4> QED BY <1>1, <2>1, <4>1 DEF RInv, RevalidationTypeOK
    <3>4. CASE start_again(q)
      <4>1. attempts' = attempts /\ answered' = [answered EXCEPT ![q] = started[q]]
        BY <3>4 DEF start_again
      <4> QED BY <1>1, <2>1, <4>1 DEF RInv, RevalidationTypeOK
    <3>5. CASE start(q) \/ submit_next(q) \/ submit_refused(q) \/ put_plan(q) \/ call_dies(q)
      BY <2>2, <3>5 DEF start, submit_next, submit_refused, put_plan, call_dies
    <3> QED BY <2>4, <3>1, <3>2, <3>3, <3>4, <3>5 DEF StartStep
  <2>5. ASSUME NEW q \in Request, NEW d \in Digest, complete(q, d) PROVE Kept1(r)
    <3> DEFINE b == answered[q]
               new == [attempts[b] EXCEPT !.state = "completed", !.receipt = d]
    <3>1. /\ b # None /\ attempts[b] # None /\ answered' = answered
          /\ attempts' = [attempts EXCEPT ![b] = new]
          /\ attempts[b].state = "awaiting_host_evidence"
      BY <2>5 DEF complete, Awaits
    <3>2. b \in AttemptId /\ attempts \in [AttemptId -> AttemptType \cup {None}]
      BY <1>1, <3>1 DEF RInv, RevalidationTypeOK
    <3>3. new # None
      <4>1. attempts[b] \in AttemptType
        BY <3>1, <3>2
      <4>2. new \in AttemptType
        BY <4>1 DEF AttemptType
      <4> QED BY <4>2, NoneAssumption
    <3> HIDE DEF new, b
    <3>4. CASE a = b
      BY <2>1, <3>1, <3>2, <3>3, <3>4
    <3>5. CASE a # b
      BY <2>1, <3>1, <3>2, <3>5
    <3> QED BY <3>4, <3>5
  <2>6. ASSUME NEW ev \in Events, terminal_event(ev) PROVE Kept1(r)
    <3>1. /\ ev.state \in TerminalState /\ record_event(ev) /\ answered' = answered
          /\ update_attempts(JobOf(ev))
      BY <2>6 DEF terminal_event
    <3>2. JobOf(ev) \notin Ended
      BY <1>1, <3>1, EndRecorded DEF RInv
    <3>3. attempts[a].state = "completed" => JobOf(ev) \notin attempts[a].job_ids
      BY <1>1, <2>1, <3>2 DEF RInv, BatchInv, OutcomeInv, OutcomeTrue
    <3> QED BY <1>1, <2>1, <3>1, <3>3, AttemptUpdated DEF RInv
  <2>7. CASE CoordinatorStep
    BY <2>2, <2>7 DEF CoordinatorStep, revalidation
  <2> QED BY <1>1, <2>4, <2>5, <2>6, <2>7 DEF RNext
<1>2. ASSUME RInv, [RNext]_rvars PROVE [\A r \in Request : Kept1(r)]_rvars
  BY <1>1, <1>2
<1> QED BY <1>2, RevalidationInvariant, PTL DEF RSpec, AnswersKept
=============================================================================
