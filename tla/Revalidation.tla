---------------------------- MODULE Revalidation ----------------------------
(***************************************************************************)
(* Selective revalidation of a Goal (revalidation.py, goal_graph.py) on    *)
(* top of the job side of the coordinator.  "start" is one CLI process     *)
(* that plans, submits one job per criterion (or none when the host will   *)
(* validate), and writes the plan, the attempt and the idempotency record, *)
(* one store access after the other, while the worker listener, another    *)
(* process, already leases and finishes those jobs.  "complete" takes the  *)
(* host's evidence.  The terminal commit of a job updates the attempts     *)
(* that name it.                                                           *)
(*                                                                         *)
(* Abstractions.  A host gives every request its own idempotency key, so    *)
(* started is indexed by the request, and every manifest belongs to one    *)
(* request or is submitted directly, never both.  The                      *)
(* checks of a payload's shape and of plan_hash are not actions: requests  *)
(* are well-formed.  A worker attempt's uuid is the number of the try that *)
(* made it; a host attempt's id is a hash of the request, try 0.  Locks    *)
(* only exclude two calls with one key, or two completions of one attempt. *)
(* A failing write inside the worker batch is not modelled (README, 6).    *)
(***************************************************************************)
EXTENDS Coordinator, FiniteSets

CONSTANTS
  Criterion,    \* 1..n: the criteria of the Goal, in the order of their ids
  Fingerprint,  \* fingerprints of inputs
  Evidence,     \* evidence ids
  Request,      \* the start requests hosts make
  Payload,      \* what each of them says
  CriterionOf,  \* criterion_ids of a revalidation manifest, which has one
  Digest,       \* receipt hashes of the host evidence supplied
  MaxTries,     \* bound: worker tries of one request
  MaxFaults     \* bound: calls that die and host writes that fail

GraphType ==
  [Criterion -> [inputs : SUBSET Fingerprint, depends_on : SUBSET Criterion,
                 evidence_ids : SUBSET Evidence]]

\* A request has a manifest for each of the criteria selected exactly if the
\* workers are to re-execute; they share its Goal and revision.
PayloadType ==
  [goal : Goal, rev : Nat \ {0}, mode : {"host_validation", "worker_reexecution"},
   graph : GraphType, changed : SUBSET Fingerprint,
   criteria : (SUBSET Criterion) \ {{}}, manifests : SUBSET Manifest]

ASSUME RequestAssumption ==
  /\ IsFiniteSet(Criterion) /\ Criterion = 1..Cardinality(Criterion)
  /\ Payload \in [Request -> PayloadType]
  /\ \A r1, r2 \in Request : r1 # r2 => Payload[r1].manifests \cap Payload[r2].manifests = {}
  /\ \A r \in Request :
       /\ Payload[r].mode = "host_validation" => Payload[r].manifests = {}
       /\ Payload[r].mode = "worker_reexecution" =>
            /\ \A m \in Payload[r].manifests : m.goal = Payload[r].goal /\ m.rev = Payload[r].rev
            /\ {CriterionOf[m] : m \in Payload[r].manifests} = Payload[r].criteria
            /\ Cardinality(Payload[r].manifests) = Cardinality(Payload[r].criteria)
ASSUME TriesAssumption == MaxTries \in Nat /\ MaxFaults \in Nat

AttemptId == Request \X (0..MaxTries)

PlanType ==
  [affected : SUBSET Criterion, superseded : SUBSET Evidence, preserved : SUBSET Evidence]

AttemptType ==
  [plan : PlanType, job_ids : SUBSET Job, receipt : Digest \cup {None},
   state : {"queued", "running", "completed", "needs_review", "awaiting_host_evidence"}]

ASSUME NoneAssumption == None \notin AttemptId /\ None \notin AttemptType

CallType ==
  [pc : {"idle", "submit", "plan", "attempt", "rewrite", "key"}, try : 0..MaxTries,
   job_ids : SUBSET Job, created : SUBSET Manifest, new_plan : BOOLEAN]

NoCall == [pc |-> "idle", try |-> 0, job_ids |-> {}, created |-> {}, new_plan |-> FALSE]

VARIABLES
  attempts,  \* collection "revalidation_attempts"
  plans,     \* collection "invalidation_plans": <<try that named it or 0, plan>>
  started,   \* the idempotency records: request -> attempt id
  calls,     \* the start call in flight for each request, and its locals
  answered,  \* the attempt the last answer to each request named
  verified,  \* the jobs whose goal_evidence_binding is "verified"
  early,     \* the jobs that had ended when an attempt naming them was written
  faults     \* calls that died and writes that failed so far

revalidation == <<attempts, plans, started, calls, answered, verified, early, faults>>
rvars == <<vars, revalidation>>

RevalidationTypeOK ==
  /\ TypeOK
  /\ attempts \in [AttemptId -> AttemptType \cup {None}]
  /\ plans \subseteq (0..MaxTries) \X PlanType
  /\ started \in [Request -> AttemptId \cup {None}]
  /\ calls \in [Request -> CallType]
  /\ answered \in [Request -> AttemptId \cup {None}]
  /\ verified \subseteq Job /\ early \subseteq Job
  /\ faults \in 0..MaxFaults

RInit ==
  /\ Init
  /\ attempts = [a \in AttemptId |-> None]
  /\ plans = {}
  /\ started = [r \in Request |-> None]
  /\ calls = [r \in Request |-> NoCall]
  /\ answered = [r \in Request |-> None]
  /\ verified = {} /\ early = {}
  /\ faults = 0

-----------------------------------------------------------------------------
(* The plan: what a change invalidates.                                    *)

DirectlyAffected(graph, changed) == {c \in Criterion : graph[c].inputs \cap changed # {}}

\* Fault: one pass over the criteria is taken for the closure.
AffectedBy_onePass(graph, changed) ==
  LET direct == DirectlyAffected(graph, changed)
  IN direct \cup {c \in Criterion : graph[c].depends_on \cap direct # {}}

\* The while loop of compute_invalidation, as the criteria affected after n
\* passes; no pass beyond the number of criteria adds one.
AffectedBy(graph, changed) ==
  LET after[n \in 0..Cardinality(Criterion)] ==
        IF n = 0 THEN DirectlyAffected(graph, changed)
        ELSE after[n - 1] \cup {c \in Criterion : graph[c].depends_on \cap after[n - 1] # {}}
  IN after[Cardinality(Criterion)]

EvidenceOf(graph, criteria) == UNION {graph[c].evidence_ids : c \in criteria}

compute_invalidation(r) ==
  LET affected == AffectedBy(Payload[r].graph, Payload[r].changed)
  IN [affected |-> affected,
      superseded |-> EvidenceOf(Payload[r].graph, Payload[r].criteria),
      preserved |-> EvidenceOf(Payload[r].graph, Criterion) \ EvidenceOf(Payload[r].graph, affected)]

\* _plan_fields refuses criteria the change does not affect.
Plannable(r) == Payload[r].criteria \subseteq AffectedBy(Payload[r].graph, Payload[r].changed)

-----------------------------------------------------------------------------
(* start_revalidation_attempt.                                             *)

Ended == {j \in Job : Terminal(j)}

Worker(r) == Payload[r].mode = "worker_reexecution"
IdOf(r) == <<r, calls[r].try>>
PlanIdOf(r) == <<calls[r].try, compute_invalidation(r)>>

Call(r, update) == calls' = [calls EXCEPT ![r] = update]

\* The manifest was submitted before: its key names it, and its job is there.
Known(m) == idempotency[m.key] = m /\ Exists(m.job)

\* The checks every call makes before it writes anything.  A key that is known
\* without its job, or for another manifest, is a conflict.
Preflight(r) ==
  /\ Plannable(r)
  /\ Payload[r].rev >= authority[Payload[r].goal]
  /\ \A m \in Payload[r].manifests : idempotency[m.key] # None => Known(m)

\* The try of a worker call makes a fresh attempt id.
NextTry(r) == IF Worker(r) THEN calls[r].try + 1 ELSE 0

\* Fault: a key that is already recorded starts another attempt.
NotStarted_always(r) == TRUE

\* existing_idempotency
NotStarted(r) == started[r] = None

start(r) ==
  /\ calls[r].pc = "idle" /\ NotStarted(r)
  /\ Preflight(r)
  /\ NextTry(r) <= MaxTries
  /\ Call(r, [NoCall EXCEPT !.pc = IF Worker(r) THEN "submit" ELSE "plan", !.try = NextTry(r)])
  /\ UNCHANGED <<vars, attempts, plans, started, answered, verified, early, faults>>

\* A repeated request is answered with the attempt its key names.
start_again(r) ==
  /\ calls[r].pc = "idle" /\ started[r] # None
  /\ attempts[started[r]] # None
  /\ answered' = [answered EXCEPT ![r] = started[r]]
  /\ UNCHANGED <<vars, attempts, plans, started, calls, verified, early, faults>>

\* The manifest whose criterion comes next in the batch.
Remaining(r) == {m \in Payload[r].manifests : m.job \notin calls[r].job_ids}
NextManifest(r) ==
  CHOOSE m \in Remaining(r) : \A k \in Remaining(r) : CriterionOf[m] <= CriterionOf[k]

Submitted(r, m, created) ==
  Call(r, [calls[r] EXCEPT !.job_ids = @ \cup {m.job}, !.created = created,
                           !.pc = IF Remaining(r) = {m} THEN "plan" ELSE "submit"])

\* submit_job: a known manifest is the existing job, otherwise the job is created.
submit_next(r) ==
  /\ calls[r].pc = "submit"
  /\ LET m == NextManifest(r)
     IN \/ Known(m) /\ Submitted(r, m, calls[r].created) /\ UNCHANGED vars
        \/ submit_job(m) /\ Submitted(r, m, calls[r].created \cup {m})
  /\ UNCHANGED <<attempts, plans, started, answered, verified, early, faults>>

\* Fault: the jobs already submitted are left behind.
RolledBack_jobsKept(r) == {}

\* The jobs the rollback deletes, finished or not: those this call created.
RolledBack(r) == calls[r].created

\* The sequence s without the jobs that are gone, in the same order.
Without(s, gone) ==
  LET kept[i \in 0..Len(s)] ==
        IF i = 0 THEN << >> ELSE IF s[i] \in gone THEN kept[i - 1] ELSE Append(kept[i - 1], s[i])
  IN kept[Len(s)]

\* The Goal moved on, or the key was taken for another manifest, while the batch
\* was being submitted: submit_job raises and the batch is undone.
submit_refused(r) ==
  /\ calls[r].pc = "submit"
  /\ ~Known(NextManifest(r)) /\ ~Admissible(NextManifest(r))
  /\ LET gone == {m.job : m \in RolledBack(r)}
     IN /\ jobs' = [j \in Job |-> IF j \in gone THEN NoJob ELSE jobs[j]]
        /\ submitted' = Without(submitted, gone)
        /\ idempotency' = [k \in Key |->
             IF \E m \in RolledBack(r) : m.key = k THEN None ELSE idempotency[k]]
        /\ verified' = verified \ gone
        /\ early' = early \ gone
  /\ Call(r, [NoCall EXCEPT !.try = calls[r].try])
  /\ UNCHANGED <<authority, leases, events, quarantine, nodes>>
  /\ UNCHANGED <<attempts, plans, started, answered, faults>>

put_plan(r) ==
  /\ calls[r].pc = "plan"
  /\ plans' = plans \cup {PlanIdOf(r)}
  /\ Call(r, [calls[r] EXCEPT !.pc = "attempt", !.new_plan = PlanIdOf(r) \notin plans])
  /\ UNCHANGED <<vars, attempts, started, answered, verified, early, faults>>

NewAttempt(r) ==
  [plan |-> compute_invalidation(r), job_ids |-> calls[r].job_ids, receipt |-> None,
   state |-> IF Worker(r) THEN "queued" ELSE "awaiting_host_evidence"]

\* create_revalidation_attempt stores the worker's attempt, and its caller
\* stores it once more, from memory, with the fields of schema 1.1.
put_attempt(r) ==
  /\ calls[r].pc \in {"attempt", "rewrite"}
  /\ attempts' = [attempts EXCEPT ![IdOf(r)] = NewAttempt(r)]
  /\ Call(r, [calls[r] EXCEPT !.pc =
                IF Worker(r) /\ calls[r].pc = "attempt" THEN "rewrite" ELSE "key"])
  /\ early' = early \cup (calls[r].job_ids \cap Ended)
  /\ UNCHANGED <<vars, plans, started, answered, verified, faults>>

put_key(r) ==
  /\ calls[r].pc = "key"
  /\ started' = [started EXCEPT ![r] = IdOf(r)]
  /\ answered' = [answered EXCEPT ![r] = IdOf(r)]
  /\ Call(r, [NoCall EXCEPT !.try = calls[r].try])
  /\ UNCHANGED <<vars, attempts, plans, verified, early, faults>>

\* A host call whose write raises takes its attempt back, and its plan too
\* unless only the idempotency record is missing.
host_write_fails(r) ==
  /\ ~Worker(r) /\ calls[r].pc \in {"plan", "attempt", "key"}
  /\ faults < MaxFaults
  /\ faults' = faults + 1
  /\ attempts' = [attempts EXCEPT ![IdOf(r)] = None]
  /\ plans' = IF calls[r].pc = "attempt" /\ calls[r].new_plan
              THEN plans \ {PlanIdOf(r)} ELSE plans
  /\ Call(r, [NoCall EXCEPT !.try = calls[r].try])
  /\ UNCHANGED <<vars, started, answered, verified, early>>

\* The process dies; what it wrote stays.  A write after the worker's batch
\* that raises has the same effect.
call_dies(r) ==
  /\ calls[r].pc # "idle"
  /\ faults < MaxFaults
  /\ faults' = faults + 1
  /\ Call(r, [NoCall EXCEPT !.try = calls[r].try])
  /\ UNCHANGED <<vars, attempts, plans, started, answered, verified, early>>

-----------------------------------------------------------------------------
(* complete_host_revalidation_attempt and the terminal commit's update.    *)

\* A completed attempt accepts its own receipt again and refuses another.
Awaits(a) == attempts[a].state = "awaiting_host_evidence"

\* The caller names the attempt that start answered with.  A receipt that is
\* not bound to it, or not "verified", is refused.  The Goal's authority is
\* not asked.
complete(r, digest) ==
  LET a == answered[r]
  IN /\ a # None /\ ~Worker(r) /\ attempts[a] # None
     /\ Awaits(a)
     /\ attempts' = [attempts EXCEPT ![a] = [@ EXCEPT !.state = "completed", !.receipt = digest]]
     /\ UNCHANGED <<vars, plans, started, calls, answered, verified, early, faults>>

\* Fault: one verified job is enough.
Judgement_any(ended, good, ids) ==
  IF ~(ids \subseteq ended) THEN "running"
  ELSE IF ids \cap good # {} THEN "completed" ELSE "needs_review"

Judgement(ended, good, ids) ==
  IF ~(ids \subseteq ended) THEN "running"
  ELSE IF ids \subseteq good THEN "completed" ELSE "needs_review"

\* _update_revalidation_attempt_for_job, after the commit of job j.
update_attempts(j) ==
  attempts' = [a \in AttemptId |->
    IF attempts[a] = None THEN None
    ELSE IF j \notin attempts[a].job_ids THEN attempts[a]
    ELSE [attempts[a] EXCEPT !.state = Judgement(Ended', verified', attempts[a].job_ids)]]

\* The evidence of a completed job with a Goal binding is verified if its
\* validators said so, which is the host's doing.
terminal_event(ev) ==
  LET j == JobOf(ev)
  IN /\ ev.state \in TerminalState
     /\ record_event(ev)
     /\ \/ UNCHANGED verified
        \/ /\ ev.state = "completed" /\ jobs[j].manifest.goal # None
           /\ verified' = verified \cup {j}
     /\ update_attempts(j)
     /\ UNCHANGED <<plans, started, calls, answered, early, faults>>

-----------------------------------------------------------------------------
\* What the coordinator does besides.  A message about a job that was rolled back
\* finds its lease: one of a superseded revision is quarantined, an acknowledgement
\* is recorded; all else raises when the job is looked up.
OrphanMessage(l) ==
  /\ ~Exists(leases[l].job)
  /\ \E m \in Manifest :
       /\ m.job = leases[l].job
       /\ \/ StaleRevision(m) /\ Quarantine(l, "lease") /\ UNCHANGED leases
          \/ /\ ~StaleRevision(m) /\ ~leases[l].expired /\ leases[l].node \in m.hashed_by
             /\ leases' = [leases EXCEPT ![l].acknowledged = TRUE] /\ UNCHANGED quarantine
  /\ UNCHANGED <<jobs, submitted, idempotency, authority, events, nodes>>

LeaseMessage(l) ==
  \/ Exists(leases[l].job) /\ (acknowledge_lease(l) \/ heartbeat_lease(l))
  \/ OrphanMessage(l)
  \/ LeaseExpires(l)

EventMessage(ev) ==
  /\ Exists(JobOf(ev))
  /\ \/ ev.state \notin TerminalState /\ record_event(ev)
     \/ record_event_quarantined(ev) \/ record_event_unacknowledged(ev)
     \/ record_event_expired(ev)

\* The manifests of a request are submitted by its call only.
Batched == UNION {Payload[r].manifests : r \in Request}

CoordinatorStep ==
  /\ \/ HostStep /\ \A m \in Batched : Exists(m.job)' => Exists(m.job)
     \/ \E n \in Node, s \in {"schedulable", "away"} : node_changes(n, s)
     \/ \E n \in Node : lease_next(n)
     \/ \E l \in DOMAIN leases : LeaseMessage(l)
     \/ \E ev \in Events : EventMessage(ev)
  /\ UNCHANGED revalidation

StartStep(r) ==
  \/ start(r) \/ start_again(r) \/ submit_next(r) \/ submit_refused(r)
  \/ put_plan(r) \/ put_attempt(r) \/ put_key(r)
  \/ host_write_fails(r) \/ call_dies(r)

RNext ==
  \/ CoordinatorStep
  \/ \E ev \in Events : Exists(JobOf(ev)) /\ terminal_event(ev)
  \/ \E r \in Request : StartStep(r) \/ \E d \in Digest : complete(r, d)

RSpec == RInit /\ [][RNext]_rvars

-----------------------------------------------------------------------------
(* Properties.                                                             *)

\* compute_invalidation against its meaning: a stored plan names the least set
\* of criteria that holds every criterion with a changed input and every one
\* that depends on a member, whatever cycles the dependencies have, and no
\* evidence is both replaced and kept.
InvalidationMeant ==
  \A r \in Request : \A a \in AttemptId :
    a[1] = r /\ attempts[a] # None =>
      LET plan == attempts[a].plan
          Closed(S) == /\ DirectlyAffected(Payload[r].graph, Payload[r].changed) \subseteq S
                       /\ \A c \in Criterion : Payload[r].graph[c].depends_on \cap S # {} => c \in S
      IN /\ plan.affected = {c \in Criterion : \A S \in SUBSET Criterion : Closed(S) => c \in S}
         /\ plan.superseded \cap plan.preserved = {}
         /\ Payload[r].criteria \subseteq plan.affected

\* Every stored plan invalidates exactly what the changes reach, and every
\* record it is made from, the coordinator's included, is of its type.
InvalidationExact == RevalidationTypeOK /\ InvalidationMeant

\* An attempt that reports its replacement evidence as complete, or as in need
\* of review, is right about every one of its jobs, whatever order they ended
\* in and however the call that named them overlapped with them.
OutcomeTrue ==
  \A a \in AttemptId :
    attempts[a] # None /\ attempts[a].job_ids # {} =>
      /\ attempts[a].state = "completed" => attempts[a].job_ids \subseteq verified
      /\ attempts[a].state = "needs_review" =>
           attempts[a].job_ids \subseteq Ended /\ ~(attempts[a].job_ids \subseteq verified)

\* An attempt the caller was told of and whose jobs have all ended reports
\* their outcome.  Two things excuse it: cancel_job, which ends a queued job
\* without looking for its attempt, and a job that ended before start last
\* wrote the attempt, whose update found nothing or was overwritten.
OutcomeReaches ==
  \A r \in Request :
    LET a == answered[r]
    IN a # None /\ Worker(r) /\ attempts[a].job_ids \subseteq Ended
         => \/ attempts[a].state \in {"completed", "needs_review"}
            \/ \E j \in attempts[a].job_ids : jobs[j].terminal = HostCancel \/ j \in early

\* An attempt reports the outcome of its jobs truly, and reports it at all.
OutcomeReported == OutcomeTrue /\ OutcomeReaches

\* Without a crash a batch is all or nothing: once no call is in flight, every
\* job created for a revalidation belongs to an attempt that is stored.
NoStrayJobs ==
  faults = 0 /\ (\A r \in Request : calls[r].pc = "idle") =>
    \A r \in Request : \A m \in Payload[r].manifests :
      Exists(m.job) => \E a \in AttemptId : attempts[a] # None /\ m.job \in attempts[a].job_ids

\* What a caller was told stays true: repeating the request names the same
\* attempt, that attempt is never lost, and evidence that completed it is
\* neither withdrawn nor replaced.
AnswersKept ==
  [][\A r \in Request :
       answered[r] # None =>
         /\ answered'[r] = answered[r]
         /\ attempts'[answered[r]] # None
         /\ attempts[answered[r]].state = "completed"
              => attempts'[answered[r]] = attempts[answered[r]]]_rvars
=============================================================================
