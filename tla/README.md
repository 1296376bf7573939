# Verification of across-orchestrator

TLA+ models, TLC runs and TLAPS proofs kept beside across-orchestrator
(`src/across_orchestrator/`). Paths below are relative to that package. Every
definition is translated from the source; `PROJECT.json` maps it to its lines.

## 1. The system and its parts

Across Orchestrator is a local-first task runtime. Its state is JSON records and
JSONL logs in directories, shared by several OS processes: the worker listener,
the HTTP/control server, relay sessions and every CLI command construct their
own runtime objects on the same files.

| Part | State | Operations | Interacts with |
|---|---|---|---|
| Worker coordinator (`coordinator.py`) | jobs, leases, event logs, idempotency keys, Goal revisions, quarantine | submit, authorize revision, lease, acknowledge, heartbeat, record event, cancel, recover, revoke | called by session listener, relay, control command, revalidation |
| Terminal commit (`coordinator.py` 811-1042) | terminal transactions, two flocks | prepare, apply, commit, recover at startup and at submission | shares the job record with every unlocked handler |
| Model grants (`coordinator.py` 1142-1284) | limits, usage, reservations, revocation | issue, begin, finish, consume, revoke | revoked by terminal events and node revocation; used by the model proxy |
| Node registry and enrollment (`coordinator.py` 40-523) | enrollments, nodes, sessions | pair, approve, connect, heartbeat, drain, update, transport, revoke, delete | feeds the scheduler |
| Artifacts (`coordinator.py`, `worker_transport.py`, `worker_runtime.py`) | uploads, chunk files, verified artifacts | begin, chunk, finalize, collect | a terminal event needs verified artifacts |
| Worker session (`worker_transport.py`, `worker_runtime.py`) | one connection, one executor thread | request, acknowledge, heartbeat, events, uploads, cancel, directives | drives the coordinator's worker actions |
| Worker command (`worker_cli.py`) | the files below the worker home: runtimes, link, records, identity, session | install, update, roll back, drain, join, activate, renew, switch transport, leave | the service and the operator write the same files |
| Relay (`relay.py`) | sessions with their sequences, one connection per node | register, route, revoke, prune | carries sessions |
| Revalidation (`revalidation.py`, `goal_graph.py`) | plans, attempts, keys | plan, start, complete, roll back | submits jobs; the terminal commit updates attempts |
| Task runtime (`runtime.py`, `store.py`) | tasks, loops, events | submit, run, dispatch, gate, sync, cancel | agent loop, adapters, sandbox |
| Agent loop (`agent_loop.py`) | loop records with their steps, event logs, cancel requests, a flock per loop | start, run, approve, reject, retry, cancel, recover | memory, dispatch, quality and output adapters |
| Sandbox (`sandbox.py`) | a child process | run, time out, cancel, bound output | task runtime |
| Findings (`findings.py`), run contracts, evidence | records and verdicts | record, merge, judge | task runtime |
| Remote MCP (`remote_mcp.py`, `_remote_mcp_oauth_runtime.py`) | key cache, sessions | verify, refresh | server |
| Surfaces (`mcp.py`, `cli.py`, `server.py`, ...) | none of their own | parse, route, project | all of the above |

What is hard: the processes share records and only some handlers lock; a handler
reads a record and puts the whole of it back later; crashes fall between two
files; workers resend, arrive late and outlive their leases; Goal revisions move
under running work; nothing but a host command runs recovery. `PROJECT.json`
lists these as hazards, each at its line.

What makes the parts correct:

- coordinator: one worker at a time executes a job; late messages of an old
  lease change nothing; a finished job stays finished; superseded work is
  fenced on every path; the event log is ordered;
- terminal commit: one outcome per job in spite of crashes and concurrent
  submissions; what was prepared is eventually committed; recovery never blocks;
- grants: usage and reservations stay within limits; revocation is final;
- node registry: pairing codes are guessed a bounded number of times and used
  once; a revoked identity stays out; only approved, undrained nodes get jobs;
- agent loop: no loop completes over a failed quality gate; failures are recovered
  within the policy's budget, crashes included; a cancel request is heeded before
  a second action and frees the loop; a decided loop stays decided;
- task runtime: task and loop agree once all calls returned; a completed task has
  delivered; every run returns;
- worker session: the coordinator holds the output of the attempt that completed;
  only that attempt speaks for the job; every job is decided;
- worker command: what is linked and recorded is installed; a session that counts
  as ready can be opened; an enrolled worker keeps an identity that is accepted;
- relay: an answer is the answer to its request; the newest connection is served,
  unless a broken older one still overtakes it;
  one session is one conversation;
- sandbox: grants stay inside what the policy names; a command is idle only when
  it is silent; its output is kept; supervision ends;
- revalidation: a plan is the exact closure of the change; an attempt reports what
  its jobs did; a batch is all or nothing; what a caller was told stays true.

## 2. Modules

| Module | Models | Granularity |
|---|---|---|
| `Coordinator` | jobs, leases, events, Goal authority, scheduling | one action per handler |
| `TerminalOutcome` | what the coordinator promises about the end of a job | abstract |
| `TerminalCommit` | record_event's transaction, recovery, unlocked writers | one step per access to the store |
| `ModelGrants` | one grant: begin, finish, consume, both revocations, expiry | one step per access to the store |
| `NodeRegistry` | pairing and one node: approval, sessions, drains, directives, revocation, deletion | one step per access to the store |
| `AgentLoop` | one loop: planner, budgets, approvals, recovery policy, retry, cancel, lease expiry | one step per save, counted event or adapter call |
| `Revalidation` | revalidation on top of `Coordinator` | one step per access to the store of a start call, one per other handler |
| `TaskRuntime` | one task and its loop, seen from outside | one step per load, save, lock operation or adapter call |
| `WorkerSession` | one job between the coordinator and its workers, with uploads and updates | one step per message, handler or file access |
| `WorkerRoot` | the files of one worker home, written by operator and service | one step per file |
| `Relay` | router, server, endpoints and the session over them | one step per frame or handler |
| `Sandbox` | admission of a policy and supervision of a command | one step per check of the supervision loop |
| `CoordinatorProofs` (with `Revalidation`), `TerminalCommitProofs`, `RelayGrantProofs` (`Relay` and `ModelGrants`), `NodeRegistryProofs`, `AgentLoopProofs`, `TaskRuntimeProofs`, `WorkerSessionProofs`, `WorkerProofs` (`WorkerRoot` and `Sandbox`) | theorems and proofs | |
| `MCCoordinator`, `MCRevalidation`, `MCTerminalCommit`, `MCModelGrants`, `MCNodeRegistry`, `MCAgentLoop`, `MCTaskRuntime`, `MCSandbox`, `MCWorkerSession`, `MCWorkerRoot`, `MCRelay` | small instances for TLC | |

**Coordinator.** `jobs`, `leases`, `events`, `idempotency`, `authority`
(`goal_revisions`), `quarantine` and `nodes` are the store's collections;
`submitted` is the order of `created_at`, which the scheduler sorts by. Each
action is a whole handler, because the asyncio listener does not suspend inside
one. Time is the action `LeaseExpires`: handlers only ever compare the clock with
`expires_at`, and only an unexpired lease is renewed. The worker echoes the
manifest hash and Goal binding its client computes, the same way every time
(`hashed_by`); it acknowledges each lease with them. Refusals that leave only an
audit line change no state and are not actions.

**TerminalCommit.** A process takes the job's lock, lists and applies pending
transactions, loads the job, prepares its own transaction, checks, puts the job,
appends the event, marks the commit, revokes grants and answers: one action each,
interleaved with other processes doing the same, with constructors recovering at
startup, and with the handlers that read a job and write it back without the
lock. A crash loses the process's locals and its lock; a failed write raises.
`history` is for the properties alone: the acknowledged events, and whether a
handler without the lock has put the job back (`disturbed`).

**ModelGrants.** `grant` is the record in the collection `grants`. Begin, finish
and consume hold the lock of the grant; `revoke_model_grant` and the loop of
`revoke_node` do not. A process decides at its read (`Decide`) what it will put
(`next`), and `Put` writes it. `keyed` and `marked` are the fields that begin and
`revoke_node` add to the record and that the readers trip over. Cost is left out:
it is bounded the way tokens are.

**NodeRegistry.** `enrollments` and `node` are records of the store. `at` and
`nextNode`, `nextEnrollment` are what a process that has read them is about to
write. `Handlers` selects which handlers the instance calls; `approve`,
`connect_node`, `disconnect_node` and `WorkerCoordinator.revoke_node` hold the
flock of the node, the others do not. `knows` says which processes hash a pairing
code alike, since the secret is drawn per process. The worker's side of an update
or a transport switch (`worker`) follows `_apply_update` and `_apply_transport`.
`wrong`, `accepted` and `barred` are histories for the properties.

**AgentLoop.** `loop` is the record of one loop, `request` its cancel request,
`recovered` the `loop.step.recovered` events that `_recovery_attempt_count`
counts. `runner` is whoever holds the flock of the loop: `run_loop`,
`approve_action` while it executes, `cancel_loop` while it clears. A step is its
action type, turn, status and whether its report passed; `_peek_next_action`
needs no more. `config` is what the host started the loop with, chosen once.
`cancel_loop` reads, requests and tries the lock in steps of its own. A crash
frees the lock and leaves the record as last saved; whether the lease of a
running step still stands is a choice (`RunHeld`, `RunExpired`). `applied` and
`since` are histories.

**Revalidation.** Extends `Coordinator`, whose actions it uses unchanged but for
what a deleted job makes impossible. `attempts`, `plans` and `started` are the
store's collections, `calls` the start call in flight for each request with its
locals, `answered` what its caller was told. `start` plans and checks;
`submit_next` submits one job at a time through `submit_job`, and the rollback of
`submit_refused` deletes the jobs this call created; `put_plan`, `put_attempt`
(twice for a worker attempt, as the code does) and `put_key` are the writes that
follow. `terminal_event` is `record_event` with the update of the attempts that
name the job. A call may die between any two writes; a write of a host call may
fail. `verified` stands for the trust state of the job's evidence.

**TaskRuntime.** `task` and `loop` are the two records. Each `run_task` call
(`runner`), its dispatch thread (`thread`) and each `cancel_task` call
(`canceller`) carries the copy of the task it loaded; saves put back the whole
copy, as `LocalStore.save_task` does. The loop is what `AgentLoop` models in full:
here only its status, the action that is due, whether a step is open and the
remediation turns. `file` is the artifact of each subtask, with what was there
before. `order` is the dispatch order, fixed by wave, priority and dependencies.

**WorkerSession.** `job`, `leases`, `uploads`, `received` and `node` are the
coordinator's; `client`, `executor`, `version` and `marker` the worker's; `conn`
is a connection, on which at most one message is under way, and `old` the handler
of a broken one that still holds a request. Model calls, Goals and the
write-ahead commit are the subjects of other modules.

**WorkerRoot.** Each file of the worker home is a variable, each write a step of
the process (`proc`) that makes it: the operator's command and the service, which
may overlap. `host` is what the coordinator knows of the worker. `scenario`
chooses the commands given, who may die and whether processes overlap.

**Relay.** `router` and `registry` are the relay's memory, `handler` its tasks,
`wire` and `inbox` the two directions of each side's connections (the present one
and the one before), `end` the endpoints with their sequence numbers, `w` and `h`
the two sessions. A frame is its kind, number and connection; `re` says which
request an answer answers, which the code cannot see. A connection may break at any
time, also while its endpoint greets; what was sent on it is read later or never. A
frame may expire, at the relay or at its receiver, once nobody waits for the request
it is about (`Overdue`: it is good for 60 seconds, a request for 30). A worker whose
heartbeat failed is silent until its job ends, and the host may give it up in the
meantime; a job that is over before its process starts skips its running event
(`NeverStarts`). `overtaken` is a history for `NewestDelivers`: the sides whose
registration the late hello of an older connection has overwritten.

**Sandbox.** The policy is decided by `Admitted`; then the supervisor's loop runs
beside the command, a leader and a helper it may fork. Clocks count from the
start, the last read and the last write.

## 3. Runs

| Run | Instance | Shows |
|---|---|---|
| `jobs` | scenarios: 1 job, 2 nodes, 3 leases, 2 sequence numbers; 2 jobs of 2 revisions, 2 leases; a worker request of 2 jobs and a job that may take the key of one, 2 leases, 2 tries, 1 fault; host requests over a chain and a cycle of 3 criteria | ownership, exclusive execution, ordered log, one lasting outcome; fencing, final refusals; exact invalidation, true and complete reports, no stray jobs, answers that are kept |
| `commits` | scenarios: 2 processes, 2 events of one attempt, 2 faults, no unlocked writer; events of 2 attempts, all unlocked writers, 1 fault | write-ahead order; implements `TerminalOutcome`; until an unlocked writer has put the job back: committed record, unobstructed startup; alone: every prepared transaction commits |
| `grant_limits` | 2 processes, 3 calls, limits 2 calls, 2 open, 3 tokens, all revocations | limits hold in every record, stale ones included; until a revocation every call let through is charged, open, or was refused at its end |
| `nodes` | scenarios: 1 process, every handler, generations to 2, 2 directives; 2 processes, pairing and the handlers under the flock, generations to 3 | bounded guessing, single use, final revocation; only the host ends the drain of an update |
| `loop_runs` | 3 configurations, 5 turns, 1 remediation, 1 crash, retry and cancel | steps, gates, recovery budget, cancellation, decided loops, termination |
| `tasks` | 6 submissions of up to 2 subtasks, 2 runners, 1 cancel, 1 remediation, 1 crash | agreement of task and loop, delivery, every run returns |
| `sandbox` | every pair of state roots over 7 paths with a file, all modes and both backends; timeout 2, wall 4 | contained grants, justified idleness, kept output, supervision ends |
| `session` | 2 workers, 1 job, up to 2 chunks and 2 attempts, an update, 1 fault | held outputs, owned outcome, confirmed reports, the job is decided |
| `root` | 2 versions, 2 contents, 3 commands, 3 generations, 1 death or lost answer, overlapping and not | installed runtime, true status, usable session, kept identity |
| `relay` | 1 heartbeat and 1 model call without faults, or 1 fault without | matching answers, newest connection unless overtaken, one conversation, no request for ever |
| `retry` (violation) | 1 job with side effects | it is executed twice |
| `loop_gate` (violation) | 1 configuration, no crash, retry or cancel | a loop completes over a failed gate |

Parts. A property that says several things about one piece of state is the
conjunction of named parts, each with its own comment: `LogAgrees` is `LogOrdered`
and `TerminalAgreement`; `DecisionsFinal` is `TerminalStable` and
`QuarantineFinal`; `OutcomeReported`, `IsolatedRecovery`, `PairingSafe`,
`LoopEnds`, `OutputHeeded`, `OutcomeSound` and `RuntimeSound` are built alike. The
type invariants of `Coordinator`, `TerminalCommit`, `ModelGrants`, `NodeRegistry`
and `AgentLoop` are theorems of their own (`TypeCorrect`); in the other modules
the type invariant is part of `InvalidationExact`, `QuietAgreement`, `OutputHeeded`,
`OutcomeSound`, `RuntimeSound` and `NewestDelivers`.

Scenarios. Several MC modules choose a `scenario` in the initial state that says
which jobs, processes, handlers or commands the behaviour has and how far its
counters go; every behaviour of a scenario is a behaviour of the module's
specification. In the scenarios of `MCRevalidation` with a request, nodes stay,
leases last and jobs only report how they end (`Calm`); what else can happen to a
job is explored in the other two.

Bounds. Three leases are enough for an old, an older and a current attempt; two
events suffice for a conflict; the second revision supersedes the first job. Each
property has a mutant of the code that TLC shows to break it at these bounds.
Three calls exceed a limit of two; amounts up to 2 of 3 tokens make the second
reservation too large; two generations tell an identity from the one a
revocation ends, a third follows a second revocation; the second directive
replaces one the worker is still carrying out. One enrollment is enough for two
processes: enrollments share nothing but the node they lead to. Five turns let each
loop run its plan to the end after one adapter error or failed gate that is retried,
remediated or approved by a human, and stop short of it after more; the configurations use every recovery action for some failure and budgets
of one, so that the second failure of a kind is declined. Three criteria make a
chain that one pass does not follow and a cycle; two jobs in a batch let the Goal
move on between them. Two runners share one loop and overwrite each other's
copies; a third would only do the same. Two chunks tell a complete upload from
its beginning; two workers compete for a lease; one fault is a broken connection,
a death or an early expiry at any step, followed by the restart. Two connections
of a side are the present one and one that is still ending. Run `jobs` merges
states that differ only in the quarantine, which no guard reads, except in the
scenario of two revisions (`WithoutQuarantine`), where events are refused for
their revision and for their lease; that scenario is what checks `QuarantineFinal`.
In `nodes`, one process calls every handler: with two, sessions whose reports
overlap can put back a record each that undoes the drain, and nothing in the
repository rules that out. Deadlock is not checked in `tasks`, `sandbox`,
`session`, `root` and `relay`, where all work may be done; it is in the others.

Fairness. `IsolatedCommit` assumes that a process that has begun goes on
(`WF` of its steps), that commands end, and that hosts start coordinators again:
every CLI command and server start constructs one. No request is assumed.
`LoopEnds` assumes that the runner goes on (it is one thread)
and that memory, quality and output adapters return. Nothing is assumed of a
dispatch adapter: `run_loop` polls beside it, and waits for it only when it
`requires_cancel_ack`, where nothing is assumed of the poll either. The host need
never call again. `RunReturns` assumes that calls go on and that the adapters of
a task end: each of them runs under a timeout. `SupervisionEnds` assumes only the
supervisor and the clock. `JobSettles` assumes that workers and the listener run
on, that an idle session is left after its bounded number of polls (`SF`, since
it is interrupted by work), that unkept leases expire and the host recovers them,
and that the executor enforces its time budget. `IdentityKept` assumes that the
service manager restarts the service and that its loop asks and renews in every
round. `RequestSettles` assumes that both sides and the relay's handlers go on;
the 30 seconds of `receive` are part of the worker's step.

Findings. (1) `_requeue_expired` ignores the retry policy, so a late worker
message retries a job with side effects. (2) When adapter errors go to
a human and failed gates are retried, a gate that raised, was approved and then
failed is rolled back to the one that raised; the planner has nothing left and
the loop is marked completed. `PROJECT.json` quotes the tests and documents they
disagree with.

The models show more of the same kind, listed as hazards or excused by name in a
property:

- A prepared transaction followed by expiry, requeue and cancellation makes every
  later `WorkerCoordinator()` raise (`StartupUnobstructed` fails once
  another handler has put the job back), although tests/test_worker_control.py:634-638 expects a
  restart to recover; `cancel_job` and the other unlocked writers can overwrite a
  committed terminal record (`CommittedRecord` likewise).
- A worker that ends an update after its node was revoked makes the node
  `offline`, and its heartbeat makes it schedulable; a heartbeat does the same for
  a node that still waits for approval.
- `revoke_model_grant` takes no lock, so a call that has read the grant puts it
  back unrevoked; grants survive a crash between commit and revocation; a caller
  that dies leaves its reservation open. `EnrollmentAuthority.revoke` takes no
  flock, so two processes may undo it the same way (`RevocationStopsSessions`
  fails for two processes as soon as `revoke` is among the handlers).
- A job that fails or is cancelled without its declared outputs cannot report so:
  `_authoritative_terminal_artifacts` (coordinator.py:1370) asks for them in every
  terminal state, and such a job is decided by the expiry of its lease.
- A worker that dies during an update leaves its drain marker and takes no job
  until an operator removes it (`JobSettles` excuses it). An update's `finally`
  also removes a drain the operator had set.
- An operator's command that dies in the middle of `leave` leaves a session that
  counts as ready and has no key, until `leave` is run again (worker_cli.py:861;
  `SessionUsable` fails in such a scenario).
- A worker that dies between the first `session.json` and `node.json` states
  generation 1 for ever (`HalfActivated`).
- Every hello overwrites the relay's registration (relay.py:284). When a connection
  breaks while it greets and its side connects again, the relay may read the old
  hello after the new one and drop the registration at the old connection's end: the
  live side is unreachable until its request times out. `NewestDelivers` excuses such
  a side (`overtaken`); `RequestSettles` holds nevertheless.
- A relay session that reconnects under its id is refused as a replay: both
  endpoints count from one again while the router keeps their last numbers
  (relay.py:186-188). An expired or restarted relay forgets them (`reset`).
- Jobs of a revalidation that end before their attempt was last stored, and queued
  jobs that `cancel_job` ends, leave the attempt `queued` (`OutcomeReaches`, a part of `OutcomeReported`). The
  completion of a host attempt does not ask the Goal authority again.
- The last drain of a sandboxed command has no deadline: a helper that ignores
  SIGTERM and goes on writing keeps it (`SupervisionEnds`).
- In the agent loop: an approved host check that reported failure counts as
  completed (agent_loop.py:1158), and a crash after a failed check was saved lets
  the next run go past it (3670); a request that `cancel_loop` left behind cancels
  the loop when a retry revives it (1105); heartbeats of a detached dispatch thread
  may save the loop after the lock was released (3483); `start_loop` counts active
  loops without a lock (1285).

## 4. Proofs

All theorems hold for every value of the constants that satisfies the named
assumptions, the bounds included.

- `CoordinatorProofs`. `TypeCorrect` is inductive by itself. `OwnershipCorrect`
  rests on the fact that every action but `lease_next` lets a job keep or drop
  its lease. `ExecutionExclusive` needs a strengthening, `ExecInv`: a job is
  queued only when each of its leases is finished (expired, or held by a node
  whose acknowledgement cannot match), older leases are finished, acknowledged
  leases match, and a job id is created once because its idempotency key already
  resolves to it. The next three build on `CoreInv`, which adds that a job that
  waits is not finished (`OpenInv`) and that the authority of a Goal is at or
  above the revision of each of its jobs (`WatermarkInv`), and on one summary of
  the fifteen handlers (`JobStep`): a finished job is left alone, an open one
  moves on in few ways. `SupersededCorrect` needs the watermark, since a job may
  differ from the authority on either side and only those behind it are fenced.
  `DecisionsCorrect` needs that a lease whose event was refused is refused for
  ever (`QuarantineInv`): the job has moved past it or its revision is behind a
  watermark that only rises. `LogCorrect` needs that no lease has a higher attempt
  than its job (`AttemptsBelow`) and that logged events name leases of their job.
- `TerminalCommitProofs`. `IInv` joins the types, `WriteAhead`, facts about the
  store (at most one logged terminal event; a saved record carries its own event;
  acknowledged events are logged) and what each process relies on at each program
  counter, which the lock keeps true. From it follow `WriteAheadCorrect` and
  `Refinement`: the protocol implements `TerminalOutcome`, whatever the unlocked
  writers do. `RecoveryCorrect` is about every behaviour until one of them has put
  the job back. It needs `QuietInv`: by then there is one transaction at most, and
  whatever is pending is on the list of the holder of the lock until it looks at
  the job itself (`HolderInv`), so nobody prepares a second one beside it.
- `CoordinatorProofs` on `Revalidation`. `BoardInv` is what the proofs above know
  of jobs, leases and keys; `BoardStep` allows a submission, a rollback and any
  handler of the coordinator, and is shown to keep it once. `RInv` adds what each
  start call relies on between two writes (`CallInv`): it has no answer yet, the
  jobs it names exist, and those it may still take back belong to no stored
  attempt. `InvalidationCorrect` is about a loop over the
  graph: induction over data is done by hand, by taking the least number of
  passes at which a claim fails (`LeastNatural`), for the passes of the loop, for
  the bound on them (each pass but the last adds a criterion, of which there are
  finitely many) and for the job order a rollback leaves. `OutcomesCorrect` needs
  that a job's end is recorded in every attempt that names it, unless it came before
  the attempt was last stored (`early`) or the host cancelled. `BatchesCorrect` needs
  that a job of a batch belongs to a stored attempt or to the call in flight.
  `AnswersCorrect` needs that a call that may still undo its attempt has not
  answered, and that an answer names the attempt recorded under its key.
- `RelayGrantProofs` on `ModelGrants`. `LimitsKept` needs a bound that revocations, which write
  an old copy back, cannot undo: `IInv` says of the record and of every copy
  (`Sound`) that settled and open calls together respect the call limit, that open
  calls respect the concurrency limit and tokens the budget, and that a record
  without reservations has no open call. A stale copy is sound because it was
  once the record. `AccountKept` is about the time before a revocation, when no
  copy is stale: the holder of the lock is about to write the grant with just its
  own call changed (`Fresh`), so settled, open and refused calls add up to those
  that were let through (`Ledger`).
- `RelayGrantProofs` on `Relay`. `NewestCorrect` rests on what the server knows of
  each connection at each point of its life (`SideInv`, in `BaseInv`): it does not
  know one whose hello is still to be read, a registration has its handler, and once
  an endpoint was greeted its connection is the registered one, or its handler is
  gone, or the hello of an older connection came after it (`overtaken`). The other two hold as long as the relay keeps the sequences of the
  session, and rest on `FlowInv`: the frames of a side in each place they can be
  (wire, inbox of the peer) are numbered upwards and newer than what the router has
  passed on (`LaneInv`, `RiseInv`); of the connections of the worker at most one
  can still have frames of this session delivered (`TalkInv`, `FreshInv`), because
  a second one would count from one again and is refused as a replay; so what the
  host hears next is always the next number. `ConversationCorrect` follows.
  `AnswersMatchCorrect` is about the pipeline (`PipeInv`): requests and answers under
  way are in order, and each belongs to the request the worker waits for or to one
  it stopped waiting for, which can only be a model call or, in an upload, one of
  its first steps (`Late`). The client tells both from every answer whose type it
  looks at. After other timeouts the session ends, and a new one counts anew.
- `NodeRegistryProofs`. `PairingCorrect` rests on `PairingInv`: what a process
  relies on while it holds the flock of an enrollment (`Answer`), which no other
  process can change, and that the recorded failures are the answers given
  (`Answered`). `LockedRevocation` assumes that only handlers are called that hold
  the flock of the node from read to write or write without reading
  (`LockedHandlers`), `EnrollmentAuthority.revoke` not among them; `RevocationInv` says
  that no record in the store or on its way to it admits a revoked generation.
  `TypeCorrect` is `PairingInv` with the types of the other variables.
- `AgentLoopProofs`. `LoopInv` joins the types with what the runner knows at each
  place: no step is undecided between actions, the loop is not decided while a
  runner works on it, an adapter is called for the last step, the failed step is
  still there. `StepDiscipline` and `DecidedLoop` follow. `CancelIsPrompt` adds
  that past the check of the request none of the counted actions has begun;
  `RecoveryIsBounded` adds that an unrecorded recovery still had budget, so that
  only a crash loses one. `GateCorrect` needs what the planner has found at each
  place (`GateInv`): it completes a loop only when no failed gate is the latest and
  none is due. Rolling back to the failed gate keeps that as long as no failed gate
  is followed by another without a dispatch between them (`Separated`). A human's
  approval adds such a second gate, so the theorem is about loops that do not hand
  adapter errors or expired leases to a human while they retry failed gates
  (`GatesRetriedAlone`); finding 2 is what happens to the others.
- `TaskRuntimeProofs`. `DeliveryCorrect`: that the artifacts are there is stable
  once it holds, so it suffices that every record anywhere, the stale copies of
  runners, threads and cancellers included, is `Honest`, and every verdict on its
  way to one is backed by the project (`DeliveryInv`); whoever overwrites whom
  then does not matter. `AgreementCorrect` covers what `QuietAgreement` covers,
  behaviours without a crash of a task with a loop. It needs that only the holder
  of the loop's lock moves it (`HoldInv`), that a passed gate is not behind a
  failed task (`PassedInv`), and that while a decided loop and its task disagree
  some call is still to save the task (`PendingSave`); once all have returned none
  is left.
- `WorkerSessionProofs`. One inductive invariant, `WorkerInv`, gives both
  theorems. What a session has was issued to its worker, its execution is the only
  one of the lease, and what it reports came of it (`SessionInv`); an answer on
  the connection still says what is so (`AnswerInv`); the request that the handler
  of a broken connection holds was its worker's, and the session it came from is
  gone or cut off where it asked (`LateInv`). That an outcome is never written
  twice follows, and with it `OutcomeCorrect`. For `OutputsCorrect`, a verified
  output is complete and no chunk of it is still to come, on a connection or with
  a late handler (`VerifiedInv`): `write_chunk` asks nobody and would overwrite it.
- `WorkerProofs` on `WorkerRoot`. `BaseInv` says of each process what it has found
  and made at its place in an operation (`RuntimeLocal`, `IdentityLocal`) and of
  the files what they lead to (`FilesInv`): a version is in place before the link
  names it and is removed only by a purge, which removes link and record with it,
  so no death and no second updater can leave them leading nowhere. For the status,
  `StatusInv` says that without overlap the record follows the link except between
  the two writes, when only one process is at work (`Alone`). `RuntimeCorrect` is
  about every scenario, overlaps and deaths included. `SessionCorrect` adds
  `UsableInv`: outside a `leave` the certificate is for the key that is there and a
  ready session has one, and an activation that passed its check still has the key
  the host approved. It assumes that a `leave` runs to its end
  (`LeaveRunsToItsEnd`); without that it is false.
- `WorkerProofs` on `Sandbox`. `GrantsCorrect` is about every policy that passes evaluation.
  `OutputCorrect` compares two clocks through the pipe (`ClockInv`): while nothing
  waits unread, the command has been silent at least as long as the supervisor
  takes it to have been idle.

Assumptions: every manifest has its own job id; workers report none of the host's
own states; `None` and `HostCancel` are no other value
(`AbsentAssumption` in `WorkerRoot`); `max_failures` is between
1 and 20, as `create_pairing_code` makes it; `max_turns` is positive, as
`start_loop` makes it; sandbox policies, submissions and scenarios have the
fields the code gives them; a Goal has finitely many criteria, and two
revalidation requests bring manifests of their own (the caller names the jobs; a
request that names a job another call created loses it when that call is rolled
back).

The proofs corrected the models. A revalidation's submission looked only at the
key and took a job for its own that its key names for another manifest (`Known`
now compares the manifest, as `submit_job` compares the hash). The host sent
`relay.register` on a connection whose handler had ended (`HostReady`). What is
left of a rollback was a fold nothing could be proved of (`Without`).
`AnswersMatch` had excused the last two requests of a session and no longer does.
The host of `WorkerRoot` answered no renewal at all for a generation it could not
place, where it refuses (`Renew`).

Only model-checked: liveness (`IsolatedCommit`, `LoopEnds`, `RunReturns`,
`SupervisionEnds`, `JobSettles`, `IdentityKept`, `RequestSettles`), which TLAPS does
not support. So is `UpdateDrains`, which holds when one process calls the handlers and
fails with two. Every other invariant and action property of the passing runs is
stated by a theorem, three of them under a condition given above:
`RevocationStopsSessions`, `GatePassed` and `SessionUsable`.

## 5. Plan

Done: jobs and leases, the terminal commit, model grants, the node registry, one
agent loop, the task runtime, the worker session with its artifacts, the worker
command, the relay, the sandbox, revalidation; and the theorems of section 4.
To come: findings and run contracts as operators, if they come to decide more than
the text of a report.

## 6. Not modelled

Parsing, formatting, packaging, telemetry, manifests and the
protocol surfaces (`mcp.py`, `server.py`, `cli.py`, gateways and projections):
they keep no state beyond what the modelled parts hold. Wall
clock values, file formats and message contents are abstracted to what the
handlers compare. Remote MCP sessions check tokens against an identity provider.
Findings, run contracts, goal contracts and the evidence graph validate and
assemble single documents.

Left out of modelled parts:

- two hosts submitting one job id under two keys (excluded by
  `ManifestAssumption`) and a crash inside `submit_job`;
- of the agent loop: the dispatch thread's heartbeats, the limit on concurrent
  loops, routing, findings, validation contracts and the read-only projections;
- of the task runtime: the event log, evidence and memory, and what the app-grade
  engine does within its one call;
- of revalidation: a failing write inside the worker batch, whose rollback
  deletes jobs that a worker's handler may put back from its own copy;
- of the worker session: model calls of the direct transport (the relay's are in
  `Relay`), the enrollment endpoint, TLS, container command lines, resource limits
  and the removal of sandboxes;
- of the sandbox: receipts, redaction and the environment;
- of the relay: keys and TLS.
