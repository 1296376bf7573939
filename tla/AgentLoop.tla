------------------------------ MODULE AgentLoop ------------------------------
(***************************************************************************)
(* One durable Agent Loop: the runner that holds the loop's file lock      *)
(* (run_loop, or approve_action while it executes the approved action),    *)
(* the host's other calls on the loop, and cancel_loop, which writes its   *)
(* request without the lock.                                               *)
(*                                                                         *)
(* A step of the runner ends where the code saves the loop, appends the    *)
(* event that a later decision counts, or calls an adapter, so a crash     *)
(* leaves on disk what the code would leave.  Only a holder of the lock    *)
(* saves the loop (a dispatch thread's heartbeat, which changes no field   *)
(* kept here, aside), so between its steps the runner's LoopRun is the one *)
(* on disk.  Payloads, checkpoints, findings and routing are left out: an  *)
(* observation is whether its quality report passed.                       *)
(***************************************************************************)
EXTENDS Naturals, Sequences, SequencesExt

CONSTANTS
  Configs,        \* what a host may start a loop with: see ConfigType
  Checks,         \* host-declared check actions
  None,           \* absent value
  Cancellers,     \* calls of cancel_loop that run beside the runner
  MaxTurns,       \* max_turns of the loop
  MaxRemediation, \* maxRemediationTurns of its metadata
  MaxCrashes,     \* bound: crashes of the runner
  MaxRetries,     \* bound: calls of retry_step
  MaxCancels      \* bound: calls of cancel_loop

Dispatches == {"task_dispatch", "remediation_dispatch"}
ActionTypes ==
  {"memory_search", "quality_gate", "memory_write_candidate", "final_output"}
    \cup Dispatches \cup Checks
Failures == {"adapter_error", "quality_failed", "lease_expired"}
Terminal == {"completed", "failed", "stopped", "cancelled"}

\* memory_policy, requireApprovalFor, actionPlan (empty when the host gives
\* none), whether maxRuntimeSeconds is set, the dispatcher's
\* requires_cancel_ack, and recoveryPolicy with its maxRetries; an absent rule
\* is "stop".
ConfigType ==
  [read : BOOLEAN, write : BOOLEAN, approvals : SUBSET ActionTypes,
   plan : Seq(ActionTypes), timed : BOOLEAN, ack : BOOLEAN,
   policy : [Failures -> {"stop", "retry", "remediation", "require_human"}],
   budget : [Failures -> Nat]]

ASSUME ConfigAssumption == \A c \in Configs : c \in ConfigType
ASSUME LoopBoundAssumption ==
  /\ MaxTurns \in Nat \ {0} /\ MaxRemediation \in Nat
  /\ MaxCrashes \in Nat /\ MaxRetries \in Nat /\ MaxCancels \in Nat
ASSUME NoneAssumption == None \notin ActionTypes \cup Failures

StepStatus == {"running", "waiting_approval", "completed", "failed", "rejected", "cancelled"}

StepType ==
  [type : ActionTypes, turn : Nat, passed : BOOLEAN, status : StepStatus]

LoopType ==
  [status : {"pending", "running", "awaiting_approval"} \cup Terminal,
   turn : Nat, steps : Seq(StepType), next : ActionTypes \cup {None}]

\* Where the runner is: "head" before the checks of an iteration, "select"
\* after them, "picked" with the action to build, "execute" inside the adapter,
\* "recover" with a failed step saved, "record" with a recovery saved but not
\* yet in the event log, "ack" with the loop cancelled and the request still
\* there.  by is the path that got it there.
RunnerType ==
  [pc : {"free", "head", "select", "picked", "execute", "recover", "record", "ack"},
   by : {"none", "run", "approve", "select"},
   action : ActionTypes \cup {None}, failure : Failures \cup {None}]

Free == [pc |-> "free", by |-> "none", action |-> None, failure |-> None]

VARIABLES
  config,     \* what the loop was started with
  loop,       \* the loop's record in the store
  request,    \* whether its cancel request is in the store
  recovered,  \* loop.step.recovered events per failure type
  runner,     \* the holder of the loop lock
  canceller,  \* where each cancel_loop call is
  overtime,   \* whether maxRuntimeSeconds has passed
  applied,    \* recoveries saved per failure type, counted or not (history)
  since,      \* actions run_loop began since the request (history)
  spent       \* crashes, retries and cancels so far (bounds)

env == <<overtime, applied, since, spent>>
vars == <<config, loop, request, recovered, runner, canceller, env>>

TypeOK ==
  /\ config \in Configs
  /\ loop \in LoopType
  /\ request \in BOOLEAN
  /\ recovered \in [Failures -> Nat]
  /\ runner \in RunnerType
  /\ canceller \in [Cancellers -> {"idle", "request", "clear", "lock"}]
  /\ overtime \in BOOLEAN
  /\ applied \in [Failures -> Nat]
  /\ since \in Nat
  /\ spent \in [crashes : 0..MaxCrashes, retries : 0..MaxRetries, cancels : 0..MaxCancels]

Init ==
  /\ config \in Configs
  /\ loop = [status |-> "pending", turn |-> 0, steps |-> <<>>, next |-> None]
  /\ request = FALSE
  /\ recovered = [f \in Failures |-> 0]
  /\ runner = Free
  /\ canceller = [c \in Cancellers |-> "idle"]
  /\ overtime = FALSE
  /\ applied = [f \in Failures |-> 0]
  /\ since = 0
  /\ spent = [crashes |-> 0, retries |-> 0, cancels |-> 0]
-----------------------------------------------------------------------------
(* The planner. *)

\* _latest_action_index, with 0 for the code's -1.
LatestIndex(steps, types) ==
  LET found == {i \in DOMAIN steps : steps[i].type \in types}
  IN IF found = {} THEN 0 ELSE CHOOSE i \in found : \A j \in found : j <= i

ActionCount(steps, type) == Len(SelectSeq(steps, LAMBDA s : s.type = type))

\* How much of the host's plan the steps, whatever became of them, have walked.
PlanProgress(steps) ==
  FoldLeft(LAMBDA n, s :
             IF n < Len(config.plan) /\ s.type = config.plan[n + 1] THEN n + 1 ELSE n,
           0, steps)

\* Whether the built-in plan still owes an action of this type.
Owed(type, steps, quality) ==
  CASE type = "memory_search" -> config.read /\ ActionCount(steps, type) = 0
    [] type = "memory_write_candidate" ->
         config.write /\ LatestIndex(steps, {type}) <= quality
    [] OTHER -> ActionCount(steps, type) = 0

BuiltInPlan == <<"memory_search", "task_dispatch", "memory_write_candidate", "final_output">>

FirstOwed(steps, quality) == SelectInSeq(BuiltInPlan, LAMBDA t : Owed(t, steps, quality))

\* The next action of the plan, the host's or the built-in one.
PlannedAction(steps, quality) ==
  LET place == PlanProgress(steps) + 1
      owed == FirstOwed(steps, quality)
  IN IF config.plan # <<>>
       THEN IF place \in DOMAIN config.plan THEN config.plan[place] ELSE None
       ELSE IF owed \in DOMAIN BuiltInPlan THEN BuiltInPlan[owed] ELSE None

QualityFailed_completed(l) ==
  LET q == LatestIndex(l.steps, {"quality_gate"})
  IN q \in DOMAIN l.steps /\ l.steps[q].status = "completed" /\ ~l.steps[q].passed

\* The latest quality gate, whatever its status, has no passing report.
QualityFailed(l) ==
  LET q == LatestIndex(l.steps, {"quality_gate"}) IN q \in DOMAIN l.steps /\ ~l.steps[q].passed

PeekNextAction(l) ==
  LET quality == LatestIndex(l.steps, {"quality_gate"})
      remediable == ActionCount(l.steps, "remediation_dispatch") < MaxRemediation
  IN IF l.next # None THEN l.next
     ELSE IF quality < LatestIndex(l.steps, Dispatches) THEN "quality_gate"
     ELSE IF QualityFailed(l) THEN IF remediable THEN "remediation_dispatch" ELSE None
     ELSE PlannedAction(l.steps, quality)

BudgetExceeded(l) ==
  \/ overtime
  \/ l.turn >= MaxTurns /\ PeekNextAction(l) # None
-----------------------------------------------------------------------------
(* Changes to the loop record. *)

\* The step the runner works on: the last one.
WithLast(l, status, passed) ==
  LET n == Len(l.steps)
  IN [l EXCEPT !.steps[n] = [@ EXCEPT !.status = status, !.passed = passed]]

Appended(l, type, status) ==
  [l EXCEPT !.turn = @ + 1,
            !.steps = Append(@, [type |-> type, turn |-> l.turn + 1,
                                 passed |-> FALSE, status |-> status])]

Rollback(l, i) ==
  [l EXCEPT !.steps = SubSeq(@, 1, i - 1), !.status = "running",
            !.turn = IF i = 1 THEN 0 ELSE l.steps[i - 1].turn]

CancelledLoop(l) ==
  [l EXCEPT !.status = "cancelled",
            !.steps = [i \in DOMAIN l.steps |->
              IF l.steps[i].status \in {"running", "waiting_approval"}
                THEN [l.steps[i] EXCEPT !.status = "cancelled"] ELSE l.steps[i]]]

HasStep(l, status) == \E i \in DOMAIN l.steps : l.steps[i].status = status

SetStatus(status) == loop' = [loop EXCEPT !.status = status]

Move(pc, by, action, failure) ==
  runner' = [pc |-> pc, by |-> by, action |-> action, failure |-> failure]
Return == runner' = Free

-----------------------------------------------------------------------------
(* run_loop up to its first iteration. *)

EnterRun(guard) == runner.pc = "free" /\ loop.status \notin Terminal /\ guard

RunTerminal ==
  /\ runner.pc = "free" /\ loop.status \in Terminal
  /\ request' = FALSE
  /\ UNCHANGED <<config, loop, recovered, runner, canceller, env>>

RunOverBudget ==
  /\ EnterRun(BudgetExceeded(loop))
  /\ SetStatus("stopped")
  /\ UNCHANGED <<config, request, recovered, runner, canceller, env>>

RunCancelled ==
  /\ EnterRun(~BudgetExceeded(loop) /\ request)
  /\ loop' = CancelledLoop(loop)
  /\ Move("ack", "run", None, None)
  /\ UNCHANGED <<config, request, recovered, canceller, env>>

Resumable_requested == ~BudgetExceeded(loop)
Resumable == ~BudgetExceeded(loop) /\ ~request

\* A crashed runner left a running step whose lease still stands.
RunHeld ==
  /\ EnterRun(Resumable /\ HasStep(loop, "running"))
  /\ SetStatus("running")
  /\ UNCHANGED <<config, request, recovered, runner, canceller, env>>

\* Its lease has expired.
RunExpired ==
  /\ EnterRun(Resumable /\ HasStep(loop, "running"))
  /\ loop' = WithLast(loop, "failed", FALSE)
  /\ Move("recover", "run", None, "lease_expired")
  /\ UNCHANGED <<config, request, recovered, canceller, env>>

RunPending ==
  /\ EnterRun(Resumable /\ ~HasStep(loop, "running") /\ HasStep(loop, "waiting_approval"))
  /\ SetStatus("awaiting_approval")
  /\ UNCHANGED <<config, request, recovered, runner, canceller, env>>

RunStarts_unapproved ==
  /\ EnterRun(Resumable /\ ~HasStep(loop, "running"))
  /\ SetStatus("running")
  /\ Move("head", "run", None, None)
  /\ UNCHANGED <<config, request, recovered, canceller, env>>

RunStarts ==
  /\ EnterRun(Resumable /\ ~HasStep(loop, "running") /\ ~HasStep(loop, "waiting_approval"))
  /\ SetStatus("running")
  /\ Move("head", "run", None, None)
  /\ UNCHANGED <<config, request, recovered, canceller, env>>
-----------------------------------------------------------------------------
(* An iteration of run_loop. *)

HeadOverBudget ==
  /\ runner.pc = "head" /\ BudgetExceeded(loop)
  /\ SetStatus("stopped") /\ Return
  /\ UNCHANGED <<config, request, recovered, canceller, env>>

HeadCancelled ==
  /\ runner.pc = "head" /\ ~BudgetExceeded(loop) /\ request
  /\ loop' = CancelledLoop(loop)
  /\ Move("ack", "run", None, None)
  /\ UNCHANGED <<config, request, recovered, canceller, env>>

HeadPasses ==
  /\ runner.pc = "head" /\ Resumable
  /\ Move("select", "run", None, None)
  /\ UNCHANGED <<config, loop, request, recovered, canceller, env>>

\* _select_next_action pops a scheduled recovery and saves the loop.
SelectScheduled ==
  /\ runner.pc = "select" /\ loop.next # None
  /\ loop' = [loop EXCEPT !.next = None]
  /\ Move("picked", "run", loop.next, None)
  /\ UNCHANGED <<config, request, recovered, canceller, env>>

SelectPlanned ==
  /\ runner.pc = "select" /\ loop.next = None
  /\ PeekNextAction(loop) # None \/ ~QualityFailed(loop)
  /\ Move("picked", "run", PeekNextAction(loop), None)
  /\ UNCHANGED <<config, loop, request, recovered, canceller, env>>

\* The quality gate failed and no remediation turn is left.
SelectExhausted ==
  /\ runner.pc = "select" /\ loop.next = None
  /\ PeekNextAction(loop) = None /\ QualityFailed(loop)
  /\ Move("recover", "select", None, "quality_failed")
  /\ UNCHANGED <<config, loop, request, recovered, canceller, env>>

Complete ==
  /\ runner.pc = "picked" /\ runner.action = None
  /\ SetStatus("completed") /\ Return
  /\ UNCHANGED <<config, request, recovered, canceller, env>>

OutOfTurns ==
  /\ runner.pc = "picked" /\ runner.action # None /\ loop.turn >= MaxTurns
  /\ SetStatus("stopped") /\ Return
  /\ UNCHANGED <<config, request, recovered, canceller, env>>

AskApproval ==
  /\ runner.pc = "picked" /\ runner.action \in config.approvals /\ loop.turn < MaxTurns
  /\ loop' = [Appended(loop, runner.action, "waiting_approval") EXCEPT !.status = "awaiting_approval"]
  /\ Return
  /\ UNCHANGED <<config, request, recovered, canceller, env>>

\* _build_step saves the running step before it calls the adapter.
StartStep ==
  /\ runner.pc = "picked" /\ runner.action \in ActionTypes \ config.approvals
  /\ loop.turn < MaxTurns
  /\ loop' = [Appended(loop, runner.action, "running") EXCEPT !.status = "running"]
  /\ Move("execute", "run", runner.action, None)
  /\ since' = IF request THEN since + 1 ELSE since
  /\ UNCHANGED <<config, request, recovered, canceller, overtime, applied, spent>>
-----------------------------------------------------------------------------
(* The outcomes of the adapter call, in run_loop and in approve_action. *)

Executing(types) == runner.pc = "execute" /\ runner.action \in types
Quality == {"quality_gate"} \cup Checks

\* A dispatch that returned is still discarded when a request is waiting.
ExecuteReturns(passed) ==
  /\ Executing(ActionTypes) /\ (runner.action \in Dispatches => ~request)
  /\ passed => runner.action \in Quality
  /\ ~(runner.by = "run" /\ runner.action \in Checks /\ ~passed)
  /\ loop' = [WithLast(loop, "completed", passed) EXCEPT !.status = "running"]
  /\ IF runner.by = "run" THEN Move("head", "run", None, None) ELSE Return
  /\ UNCHANGED <<config, request, recovered, canceller, env>>

\* Only run_loop fails the step of a check whose report did not pass.
CheckFails ==
  /\ Executing(Checks) /\ runner.by = "run"
  /\ loop' = WithLast(loop, "failed", FALSE)
  /\ Move("recover", "run", None, "quality_failed")
  /\ UNCHANGED <<config, request, recovered, canceller, env>>

ExecuteRaises ==
  /\ Executing(ActionTypes)
  /\ loop' = WithLast(loop, "failed", FALSE)
  /\ Move("recover", runner.by, None, "adapter_error")
  /\ UNCHANGED <<config, request, recovered, canceller, env>>

\* What the guard around a dispatch polls (that its token also remembers a
\* request that was cleared is left out).
Interrupted_budget == BudgetExceeded(loop)
Interrupted == request \/ BudgetExceeded(loop)

DispatchCancelled ==
  /\ Executing(Dispatches) /\ Interrupted
  /\ loop' = CancelledLoop(loop)
  /\ Move("ack", runner.by, None, None)
  /\ UNCHANGED <<config, request, recovered, canceller, env>>

\* The end of _cancel_loop_state.
ClearRequest ==
  /\ runner.pc = "ack"
  /\ request' = FALSE /\ Return
  /\ UNCHANGED <<config, loop, recovered, canceller, env>>
-----------------------------------------------------------------------------
(* _apply_recovery_policy, and what its callers do when it declines. *)

FailedStep ==
  IF runner.by = "select" THEN LatestIndex(loop.steps, {"quality_gate"}) ELSE Len(loop.steps)

BudgetLeft_inclusive == recovered[runner.failure] <= config.budget[runner.failure]
BudgetLeft == recovered[runner.failure] < config.budget[runner.failure]

Recovers(action) ==
  /\ runner.pc = "recover"
  /\ config.policy[runner.failure] = action /\ BudgetLeft
  /\ applied' = [applied EXCEPT ![runner.failure] = @ + 1]
  /\ Move("record", runner.by, None, runner.failure)
  /\ UNCHANGED <<config, request, recovered, canceller, overtime, since, spent>>

RecoverRetry ==
  /\ Recovers("retry")
  /\ loop' = Rollback(loop, FailedStep)

RecoverRemediation ==
  /\ Recovers("remediation")
  /\ loop' = [loop EXCEPT !.status = "running", !.next = "remediation_dispatch"]

RecoverRequireHuman ==
  /\ Recovers("require_human")
  /\ loop' = [Appended(loop, loop.steps[FailedStep].type, "waiting_approval")
                EXCEPT !.status = "awaiting_approval"]

RecoverDeclined ==
  /\ runner.pc = "recover"
  /\ config.policy[runner.failure] = "stop" \/ ~BudgetLeft
  /\ SetStatus("failed") /\ Return
  /\ UNCHANGED <<config, request, recovered, canceller, env>>

\* The loop.step.recovered event is what the next decision counts.
RecordRecovery ==
  /\ runner.pc = "record"
  /\ recovered' = [recovered EXCEPT ![runner.failure] = @ + 1]
  /\ IF loop.status = "awaiting_approval" \/ runner.by = "approve" THEN Return
     ELSE IF runner.by = "run" THEN Move("head", "run", None, None)
     ELSE IF loop.next # None THEN Move("select", "run", None, None)
     ELSE Move("picked", "run", PeekNextAction(loop), None)
  /\ UNCHANGED <<config, loop, request, canceller, env>>
-----------------------------------------------------------------------------
(* The host's other calls under the loop lock. *)

Answerable_decided(i) == runner.pc = "free" /\ loop.steps[i].status = "waiting_approval"
Answerable(i) ==
  /\ runner.pc = "free" /\ loop.status \notin Terminal
  /\ loop.steps[i].status = "waiting_approval"

ApproveAction(i) ==
  /\ Answerable(i)
  /\ loop' = [loop EXCEPT !.status = "running", !.steps[i].status = "running"]
  /\ Move("execute", "approve", loop.steps[i].type, None)
  /\ UNCHANGED <<config, request, recovered, canceller, env>>

RejectAction(i) ==
  /\ Answerable(i)
  /\ loop' = [loop EXCEPT !.status = "stopped", !.steps[i].status = "rejected"]
  /\ UNCHANGED <<config, request, recovered, runner, canceller, env>>

RetryStep(i) ==
  /\ runner.pc = "free" /\ spent.retries < MaxRetries
  /\ loop' = Rollback(loop, i)
  /\ spent' = [spent EXCEPT !.retries = @ + 1]
  /\ UNCHANGED <<config, request, recovered, runner, canceller, overtime, applied, since>>
-----------------------------------------------------------------------------
(* cancel_loop: only its last step takes the lock, and only if it is free. *)

At(c, from, to) ==
  /\ canceller[c] = from /\ canceller' = [canceller EXCEPT ![c] = to]

CancelBegins(c) ==
  /\ spent.cancels < MaxCancels
  /\ At(c, "idle", IF loop.status \in Terminal THEN "clear" ELSE "request")
  /\ spent' = [spent EXCEPT !.cancels = @ + 1]
  /\ UNCHANGED <<config, loop, request, recovered, runner, overtime, applied, since>>

CancelClears(c) ==
  /\ At(c, "clear", "idle")
  /\ request' = FALSE
  /\ UNCHANGED <<config, loop, recovered, runner, env>>

CancelRequests(c) ==
  /\ At(c, "request", "lock")
  /\ request' = TRUE
  /\ since' = IF request THEN since ELSE 0
  /\ UNCHANGED <<config, loop, recovered, runner, overtime, applied, spent>>

CancelLocks(c) ==
  /\ runner.pc = "free" /\ At(c, "lock", "idle")
  /\ loop' = IF loop.status \in Terminal THEN loop ELSE CancelledLoop(loop)
  /\ Move("ack", "none", None, None)
  /\ UNCHANGED <<config, request, recovered, env>>

\* BlockingIOError: the caller is told "cancelled" and the request stays.
CancelLeaves(c) ==
  /\ runner.pc # "free" /\ At(c, "lock", "idle")
  /\ UNCHANGED <<config, loop, request, recovered, runner, env>>
-----------------------------------------------------------------------------
(* The environment. *)

Crash ==
  /\ runner.pc # "free" /\ spent.crashes < MaxCrashes
  /\ Return
  /\ spent' = [spent EXCEPT !.crashes = @ + 1]
  /\ UNCHANGED <<config, loop, request, recovered, canceller, overtime, applied, since>>

RuntimeElapses ==
  /\ config.timed /\ ~overtime
  /\ overtime' = TRUE
  /\ UNCHANGED <<config, loop, request, recovered, runner, canceller, applied, since, spent>>

RunLoop ==
  \/ RunTerminal \/ RunOverBudget \/ RunCancelled \/ RunHeld \/ RunExpired
  \/ RunPending \/ RunStarts

Iterate ==
  \/ HeadOverBudget \/ HeadCancelled \/ HeadPasses
  \/ SelectScheduled \/ SelectPlanned \/ SelectExhausted
  \/ Complete \/ OutOfTurns \/ AskApproval \/ StartStep

Execute == CheckFails \/ ExecuteRaises \/ \E passed \in BOOLEAN : ExecuteReturns(passed)

Recover ==
  RecoverRetry \/ RecoverRemediation \/ RecoverRequireHuman \/ RecoverDeclined \/ RecordRecovery

HostCalls == \E i \in DOMAIN loop.steps : ApproveAction(i) \/ RejectAction(i) \/ RetryStep(i)

CancelLoop ==
  \E c \in Cancellers :
    CancelBegins(c) \/ CancelClears(c) \/ CancelRequests(c) \/ CancelLocks(c) \/ CancelLeaves(c)

Next ==
  \/ RunLoop \/ Iterate \/ Execute \/ DispatchCancelled \/ ClearRequest \/ Recover
  \/ HostCalls \/ CancelLoop \/ Crash \/ RuntimeElapses

\* The runner's own steps go on; memory, quality and finalizer adapters return.
\* Nothing is assumed of a dispatch adapter, so nothing of the guard that waits
\* for it when it requires_cancel_ack, and the host need not call again.
Fairness ==
  /\ WF_vars(Iterate) /\ WF_vars(Recover) /\ WF_vars(ClearRequest)
  /\ WF_vars(DispatchCancelled /\ ~config.ack)
  /\ WF_vars(Execute /\ runner.action \notin Dispatches)

Spec == Init /\ [][Next]_vars /\ Fairness
-----------------------------------------------------------------------------
(* Properties. *)

\* The step that is running or waits for approval is the last one: what
\* _latest_running_step, _pending_approval_step and the lease checks rely on.
OpenStepLast ==
  \A i \in DOMAIN loop.steps :
    loop.steps[i].status \in {"running", "waiting_approval"} => i = Len(loop.steps)

\* A loop is "completed" only when its latest quality gate passed and no
\* dispatch came after that gate, whatever crashed, failed, was retried,
\* remediated or approved on the way (_select_next_action, run_loop).
GatePassed ==
  loop.status = "completed" =>
    LET gate == LatestIndex(loop.steps, {"quality_gate"})
    IN /\ LatestIndex(loop.steps, Dispatches) <= gate
       /\ gate \in DOMAIN loop.steps => loop.steps[gate].passed

\* The recoveries of a failure type stay within its maxRetries, except for one
\* per crash between saving a recovery and appending its event.
RecoveryBounded ==
  \A f \in Failures : applied[f] <= config.budget[f] + spent.crashes

\* After a cancel request is written run_loop begins at most one more action on
\* its own, although it reads the request only between actions.
CancelPrompt == since <= 1

\* Only retry_step takes a loop out of a terminal status: no runner that was
\* mid-way, approval or late cancel rewrites a decided loop.
TerminalSticky ==
  [][loop.status \in Terminal /\ loop'.status # loop.status
       => spent'.retries = spent.retries + 1]_vars

\* A runner does not go on for ever: retries roll the turn counter back, yet it
\* releases the lock again unless one dispatch never returns.
RunEnds == []<>(runner.pc = "free") \/ <>[](Executing(Dispatches))

\* A cancel request releases a runner even from a dispatch that never returns,
\* unless the dispatcher asked to be waited for (requires_cancel_ack).
CancelReleases ==
  (request /\ runner.pc # "free" /\ ~config.ack) ~> (runner.pc = "free" \/ ~request)

\* No run_loop call keeps the loop's lock for ever.
LoopEnds == RunEnds /\ CancelReleases
=============================================================================
