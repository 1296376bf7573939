---------------------------- MODULE TaskRuntime ----------------------------
(***************************************************************************)
(* One task of OrchestratorRuntime and the durable loop that drives it:    *)
(* submission, concurrent run_task calls, the thread in which the loop     *)
(* dispatches the subtasks, the quality gate, the copy of the loop's       *)
(* outcome onto the task, and cancel_task.                                 *)
(*                                                                         *)
(* Every one of them loads the whole task, changes its copy and saves the  *)
(* whole copy, and none of them locks the task; the loop alone has a lock. *)
(* A step is one load, one save, one lock operation or one adapter call.   *)
(* The loop is AgentLoop seen from outside: its status, the action that is *)
(* due, whether a step is open, and the remediation turns it has used.     *)
(***************************************************************************)
EXTENDS Integers, Sequences, FiniteSets

CONSTANTS
  Configs,        \* what a host may submit: see ConfigType
  Runners,        \* threads that call run_task (or run_loop)
  Cancellers,     \* bound: calls of cancel_task
  None,           \* no holder of the lock
  MaxRemediation, \* maxRemediationTurns of the loop
  Mortal          \* bound: the runners whose process may crash

Terminal == {"completed", "failed", "cancelled"}
LoopTerminal == Terminal \cup {"stopped"}

\* A subtask is its place in the plan.  listed: its path is among the
\* deliverables; old: a file was there before the task.
SpecType ==
  [wave : Nat, priority : Nat \ {0}, deps : SUBSET (Nat \ {0}), listed : BOOLEAN, old : BOOLEAN]

\* kind: submit_task, submit_release_e2e_task, a Worker-routed submit_task, or
\* a loop that declares a task; timed: the loop has maxRuntimeSeconds; crashes
\* bounds the crashes of runners.
ConfigType ==
  [kind : {"delivery", "app", "remote", "loop"}, plan : Seq(SpecType), strict : BOOLEAN,
   fresh : BOOLEAN, managed : BOOLEAN, timed : BOOLEAN, crashes : Nat]

ASSUME ConfigAssumption ==
  \A c \in Configs :
    /\ c \in ConfigType /\ Len(c.plan) > 0
    /\ c.timed => c.kind = "loop"
    /\ c.fresh \/ c.managed => c.kind = "delivery"
ASSUME RuntimeBoundAssumption ==
  MaxRemediation \in Nat /\ None \notin Runners /\ Mortal \subseteq Runners

\* ensure_strict_dependency_chain.
StrictChain(plan) ==
  LET chain[i \in DOMAIN plan] ==
        IF i = 1 THEN [plan[i] EXCEPT !.deps = {}]
        ELSE IF plan[i].deps # {} THEN plan[i]
        ELSE [plan[i] EXCEPT !.deps = {i - 1},
                             !.wave = IF @ <= chain[i - 1].wave THEN chain[i - 1].wave + 1 ELSE @]
  IN chain

Planned(c) == IF c.strict /\ Len(c.plan) > 1 THEN StrictChain(c.plan) ELSE c.plan

\* The order of dispatch: by wave, priority and the subtask's random id.
Before(a, b) == a.wave < b.wave \/ (a.wave = b.wave /\ a.priority < b.priority)
Orders(c) ==
  {o \in [DOMAIN c.plan -> DOMAIN c.plan] :
     /\ \A i, j \in DOMAIN c.plan : o[i] = o[j] => i = j
     /\ \A i, j \in DOMAIN c.plan : i < j => ~Before(Planned(c)[o[j]], Planned(c)[o[i]])}

VARIABLES
  config,     \* what the host submitted
  order,      \* the order in which its subtasks are dispatched
  submission, \* "new", "bound" (the loop exists, the task does not), "done"
  task,       \* the task's record in the store
  loop,       \* its loop's record in the store
  request,    \* whether the loop's cancel request is in the store
  lock,       \* the runner that holds the loop's lock
  runner,     \* each run_task call
  thread,     \* the dispatch thread each run_task call has started
  canceller,  \* each cancel_task call
  file,       \* the artifact of each subtask in the project
  overtime,   \* whether the loop's maxRuntimeSeconds has passed
  produced,   \* subtasks whose adapter has returned (history)
  crashes     \* crashes so far (bound)

disk == <<task, loop, request>>
calls == <<lock, runner, thread, canceller>>
env == <<config, order, submission, overtime, produced, crashes>>
vars == <<disk, calls, file, env>>

Subtasks == DOMAIN config.plan

TaskType ==
  [status : {"absent", "pending", "running"} \cup Terminal,
   subs : [Subtasks -> {"pending"} \cup Terminal],
   kept : SUBSET Subtasks, report : {"none", "passed", "failed"}]
LoopType ==
  [status : {"absent", "pending", "running"} \cup LoopTerminal,
   due : {"dispatch", "gate", "remediate", "finish"}, open : BOOLEAN, turns : 0..MaxRemediation]

\* task is the copy, saw the status of the loop that run_loop returned, direct
\* that the caller is a host's run_loop.
RunnerType ==
  [pc : {"idle", "loaded", "lock", "head", "dispatch", "evaluate", "gated", "record", "returned",
         "sync"},
   task : TaskType, saw : {"none", "pending", "running"} \cup LoopTerminal,
   passed : BOOLEAN, direct : BOOLEAN]
ThreadType ==
  [pc : {"none", "start", "marked", "pick", "adapter", "save", "returned", "raised", "cancelled"},
   task : TaskType, next : Nat, remediation : BOOLEAN]
CancellerType ==
  [pc : {"idle", "loaded", "request", "lock", "save", "done"}, task : TaskType]

NewTask(status) ==
  [status |-> status, subs |-> [s \in Subtasks |-> "pending"], kept |-> {}, report |-> "none"]
NoTask == NewTask("absent")
IdleRunner ==
  [pc |-> "idle", task |-> NoTask, saw |-> "none", passed |-> FALSE, direct |-> FALSE]
NoThread == [pc |-> "none", task |-> NoTask, next |-> 1, remediation |-> FALSE]
IdleCanceller == [pc |-> "idle", task |-> NoTask]

TypeOK ==
  /\ config \in Configs /\ order \in Orders(config)
  /\ submission \in {"new", "bound", "done"}
  /\ task \in TaskType /\ loop \in LoopType /\ request \in BOOLEAN
  /\ lock \in Runners \cup {None}
  /\ runner \in [Runners -> RunnerType]
  /\ thread \in [Runners -> ThreadType]
  /\ canceller \in [Cancellers -> CancellerType]
  /\ file \in [Subtasks -> {"absent", "old", "new"}]
  /\ overtime \in BOOLEAN /\ produced \in SUBSET Subtasks /\ crashes \in 0..config.crashes

Init ==
  /\ config \in Configs
  /\ order \in Orders(config)
  /\ submission = "new"
  /\ task = NoTask
  /\ loop = [status |-> "absent", due |-> "dispatch", open |-> FALSE, turns |-> 0]
  /\ request = FALSE
  /\ lock = None
  /\ runner = [r \in Runners |-> IdleRunner]
  /\ thread = [r \in Runners |-> NoThread]
  /\ canceller = [c \in Cancellers |-> IdleCanceller]
  /\ file = [s \in Subtasks |-> IF config.plan[s].old THEN "old" ELSE "absent"]
  /\ overtime = FALSE /\ produced = {} /\ crashes = 0
-----------------------------------------------------------------------------
(* Submission: the loop is created first, then the task that names it. *)

SubmitLoop ==
  /\ submission = "new" /\ config.kind # "remote"
  /\ loop' = [loop EXCEPT !.status = "pending"]
  /\ submission' = IF config.kind = "loop" THEN "done" ELSE "bound"
  /\ UNCHANGED <<task, request, calls, file, config, order, overtime, produced, crashes>>

SavesTask(kind) ==
  /\ submission = "bound" /\ config.kind = kind
  /\ task' = NewTask("pending")
  /\ submission' = "done"
  /\ UNCHANGED <<loop, request, calls, file, config, order, overtime, produced, crashes>>

SubmitTask == SavesTask("delivery")
SubmitReleaseE2eTask == SavesTask("app")

\* A Worker-routed task has no loop: its Worker job drives it.
SubmitRemote ==
  /\ submission = "new" /\ config.kind = "remote"
  /\ task' = NewTask("pending")
  /\ submission' = "done"
  /\ UNCHANGED <<loop, request, calls, file, config, order, overtime, produced, crashes>>
-----------------------------------------------------------------------------
(* run_task up to the loop, and run_loop up to its first iteration. *)

RunnerAt(r, pc) == runner[r].pc = pc
Goto(r, pc) == runner' = [runner EXCEPT ![r].pc = pc]

\* run_task returns at once for a terminal or a Worker-routed task.
RunLoads(r) ==
  /\ RunnerAt(r, "idle") /\ thread[r].pc = "none"
  /\ task.status \in {"pending", "running"} /\ config.kind # "remote"
  /\ runner' = [runner EXCEPT ![r].pc = "loaded", ![r].task = task]
  /\ UNCHANGED <<disk, lock, thread, canceller, file, env>>

MarkTaskStarted(r) ==
  /\ RunnerAt(r, "loaded")
  /\ task' = IF runner[r].task.status = "pending"
               THEN [runner[r].task EXCEPT !.status = "running"] ELSE task
  /\ runner' = [runner EXCEPT ![r] = [IdleRunner EXCEPT !.pc = "lock"]]
  /\ UNCHANGED <<loop, request, lock, thread, canceller, file, env>>

\* A host runs a loop of its own through run_loop; there is no task yet.
RunLoopDirect(r) ==
  /\ RunnerAt(r, "idle") /\ thread[r].pc = "none"
  /\ config.kind = "loop" /\ submission = "done" /\ task.status = "absent"
  /\ loop.status \notin LoopTerminal
  /\ runner' = [runner EXCEPT ![r].pc = "lock", ![r].direct = TRUE]
  /\ UNCHANGED <<disk, lock, thread, canceller, file, env>>

\* run_loop returns the loop: run_task goes on to copy its outcome, a direct
\* caller is done.
Returned(r, saw) ==
  /\ runner' = [runner EXCEPT ![r] =
       IF runner[r].direct THEN IdleRunner
       ELSE [IdleRunner EXCEPT !.pc = "returned", !.saw = saw]]
  /\ lock' = None

Ends(r, status) ==
  /\ loop' = [loop EXCEPT !.status = status, !.open = FALSE]
  /\ Returned(r, status)

EnterFree(r) == RunnerAt(r, "lock") /\ lock = None

EnterTerminal(r) ==
  /\ EnterFree(r) /\ loop.status \in LoopTerminal
  /\ request' = FALSE
  /\ Returned(r, loop.status)
  /\ UNCHANGED <<task, loop, thread, canceller, file, env>>

\* A crashed runner left a step whose lease still stands, or has expired.
EnterOpen(r) ==
  /\ EnterFree(r) /\ loop.open /\ ~request /\ ~overtime
  /\ \/ Returned(r, loop.status) /\ UNCHANGED loop
     \/ Ends(r, "failed")
  /\ UNCHANGED <<task, request, thread, canceller, file, env>>

EnterRunning(r) ==
  /\ EnterFree(r) /\ loop.status \in {"pending", "running"}
  /\ loop.open => request \/ overtime
  /\ loop' = [loop EXCEPT !.status = "running"]
  /\ Goto(r, "head") /\ lock' = r
  /\ UNCHANGED <<task, request, thread, canceller, file, env>>
-----------------------------------------------------------------------------
(* An iteration of the loop. *)

HeadStops(r) ==
  /\ RunnerAt(r, "head") /\ overtime
  /\ Ends(r, "stopped")
  /\ UNCHANGED <<task, request, thread, canceller, file, env>>

HeadCancels(r) ==
  /\ RunnerAt(r, "head") /\ ~overtime /\ request
  /\ Ends(r, "cancelled") /\ request' = FALSE
  /\ UNCHANGED <<task, thread, canceller, file, env>>

Selects(r, due) == RunnerAt(r, "head") /\ ~overtime /\ ~request /\ loop.due = due

HeadDispatches(r) ==
  /\ \/ Selects(r, "dispatch") /\ loop' = [loop EXCEPT !.open = TRUE]
     \/ /\ Selects(r, "remediate") /\ loop.turns < MaxRemediation
        /\ loop' = [loop EXCEPT !.open = TRUE, !.turns = @ + 1]
  /\ thread' = [thread EXCEPT ![r] =
       [NoThread EXCEPT !.pc = "start", !.remediation = (loop.due = "remediate")]]
  /\ Goto(r, "dispatch")
  /\ UNCHANGED <<task, request, lock, canceller, file, env>>

HeadExhausted(r) ==
  /\ Selects(r, "remediate") /\ loop.turns = MaxRemediation
  /\ Ends(r, "failed")
  /\ UNCHANGED <<task, request, thread, canceller, file, env>>

HeadEvaluates(r) ==
  /\ Selects(r, "gate")
  /\ loop' = [loop EXCEPT !.open = TRUE]
  /\ Goto(r, "evaluate")
  /\ UNCHANGED <<task, request, lock, thread, canceller, file, env>>

\* The finalizer only reads the task.
HeadCompletes(r) ==
  /\ Selects(r, "finish")
  /\ Ends(r, "completed")
  /\ UNCHANGED <<task, request, thread, canceller, file, env>>
-----------------------------------------------------------------------------
(* The dispatch thread. *)

ThreadAt(r, pc) == thread[r].pc = pc
Sub(r) == order[thread[r].next]

\* A loop that declares a task gets it at its first dispatch.
ThreadCreates(r) ==
  /\ ThreadAt(r, "start") /\ task.status = "absent"
  /\ task' = NewTask("pending")
  /\ UNCHANGED <<loop, request, calls, file, env>>

ThreadLoads(r) ==
  /\ ThreadAt(r, "start") /\ task.status # "absent"
  /\ thread' = [thread EXCEPT ![r].pc = IF task.status = "pending" THEN "marked" ELSE "pick",
                              ![r].task = IF task.status = "pending" \/ config.kind = "app"
                                            THEN task ELSE NoTask]
  /\ UNCHANGED <<disk, lock, runner, canceller, file, env>>

ThreadMarks(r) ==
  /\ ThreadAt(r, "marked")
  /\ task' = [thread[r].task EXCEPT !.status = "running"]
  /\ thread' = [thread EXCEPT ![r].pc = "pick",
                              ![r].task = IF config.kind = "app" THEN task' ELSE NoTask]
  /\ UNCHANGED <<loop, request, lock, runner, canceller, file, env>>

\* The task is loaded anew for every subtask.
ThreadSkips(r) ==
  /\ ThreadAt(r, "pick") /\ config.kind # "app" /\ thread[r].next \in DOMAIN order
  /\ \/ task.subs[Sub(r)] = "completed"
     \/ thread[r].remediation /\ task.subs[Sub(r)] = "cancelled"
  /\ thread' = [thread EXCEPT ![r].next = @ + 1]
  /\ UNCHANGED <<disk, lock, runner, canceller, file, env>>

ThreadPicks(r) ==
  /\ ThreadAt(r, "pick") /\ config.kind # "app" /\ thread[r].next \in DOMAIN order
  /\ task.subs[Sub(r)] # "completed"
  /\ ~(thread[r].remediation /\ task.subs[Sub(r)] = "cancelled")
  /\ thread' = [thread EXCEPT ![r].pc = "adapter", ![r].task = task]
  /\ UNCHANGED <<disk, lock, runner, canceller, file, env>>

ThreadReturns(r) ==
  /\ ThreadAt(r, "pick") /\ config.kind # "app" /\ thread[r].next \notin DOMAIN order
  /\ thread' = [thread EXCEPT ![r] = [NoThread EXCEPT !.pc = "returned"]]
  /\ UNCHANGED <<disk, lock, runner, canceller, file, env>>

\* The subtask's status and, in a managed task, its report.
Reported(t, s) ==
  [t EXCEPT !.subs[s] = "completed", !.kept = IF config.managed THEN @ \cup {s} ELSE @]

\* No request when the adapter has returned, with or without its artifact written.
AdapterReturns(r) ==
  /\ ThreadAt(r, "adapter") /\ ~request
  /\ file' \in {file, [file EXCEPT ![Sub(r)] = "new"]}
  /\ thread' = [thread EXCEPT ![r].pc = "save", ![r].task = Reported(@, Sub(r))]
  /\ produced' = produced \cup {Sub(r)}
  /\ UNCHANGED <<disk, lock, runner, canceller, config, order, submission, overtime, crashes>>

ThreadSaves(r) ==
  /\ ThreadAt(r, "save")
  /\ task' = thread[r].task
  /\ thread' = [thread EXCEPT ![r].pc = "pick", ![r].next = @ + 1, ![r].task = NoTask]
  /\ UNCHANGED <<loop, request, lock, runner, canceller, file, env>>

\* The copy is saved with the subtask's and the task's status.  What the agent
\* left in the project no gate will look at: the loop ends.
ThreadFails(r, pc, status) ==
  /\ ThreadAt(r, "adapter")
  /\ task' = [thread[r].task EXCEPT !.status = status, !.subs[Sub(r)] = status]
  /\ thread' = [thread EXCEPT ![r] = [NoThread EXCEPT !.pc = pc]]
  /\ UNCHANGED <<loop, request, lock, runner, canceller, file, env>>

AdapterRaises(r) == ThreadFails(r, "raised", "failed")
AdapterCancelled(r) == request /\ ThreadFails(r, "cancelled", "cancelled")

\* The conformance scenario runs in one piece and reports its own quality.
DispatchAppGrade(r) ==
  /\ ThreadAt(r, "pick") /\ config.kind = "app"
  /\ \E report \in {"passed", "failed"} :
       task' = [thread[r].task EXCEPT !.subs = [s \in Subtasks |-> "completed"], !.report = report]
  /\ file' = [s \in Subtasks |-> "new"]
  /\ produced' = Subtasks
  /\ thread' = [thread EXCEPT ![r] = [NoThread EXCEPT !.pc = "returned"]]
  /\ UNCHANGED <<loop, request, lock, runner, canceller, config, order, submission, overtime, crashes>>

ThreadOver(r) == thread[r].pc \in {"returned", "raised", "cancelled"}

\* Nobody waits for a detached dispatch.
ThreadExits(r) ==
  /\ ThreadOver(r) /\ ~RunnerAt(r, "dispatch")
  /\ thread' = [thread EXCEPT ![r] = NoThread]
  /\ UNCHANGED <<disk, lock, runner, canceller, file, env>>
-----------------------------------------------------------------------------
(* The guard around the dispatch, the quality gate. *)

DispatchOver(r) ==
  /\ RunnerAt(r, "dispatch") /\ ThreadOver(r)
  /\ thread' = [thread EXCEPT ![r] = NoThread]
  /\ UNCHANGED <<task, canceller, file, env>>

DispatchReturns(r) ==
  /\ DispatchOver(r) /\ ThreadAt(r, "returned") /\ ~request
  /\ loop' = [loop EXCEPT !.open = FALSE, !.due = "gate"]
  /\ Goto(r, "head")
  /\ UNCHANGED <<request, lock>>

\* The guard waits for the thread's answer to a request; what it did is dropped.
DispatchCancelled_ackOnly(r) ==
  /\ DispatchOver(r) /\ ThreadAt(r, "cancelled")
  /\ Ends(r, "cancelled") /\ request' = FALSE
DispatchCancelled(r) ==
  /\ DispatchOver(r)
  /\ ThreadAt(r, "cancelled") \/ (ThreadAt(r, "returned") /\ request)
  /\ Ends(r, "cancelled") /\ request' = FALSE

DispatchRaised(r) ==
  /\ DispatchOver(r) /\ ThreadAt(r, "raised")
  /\ Ends(r, "failed")
  /\ UNCHANGED request

\* The budget ends: the guard does not wait.
DispatchDetached(r) ==
  /\ RunnerAt(r, "dispatch") /\ ~ThreadOver(r) /\ overtime
  /\ Ends(r, "cancelled") /\ request' = FALSE
  /\ UNCHANGED <<task, thread, canceller, file, env>>

\* build_quality; only the deliverables have a baseline.
Baselined(s) == config.fresh /\ config.plan[s].listed

QualityPassed_stale(t) ==
  IF config.kind = "app" THEN t.report = "passed"
  ELSE IF config.managed THEN t.kept = Subtasks
  ELSE \A s \in Subtasks : file[s] # "absent"
QualityPassed(t) ==
  IF config.kind = "app" THEN t.report = "passed"
  ELSE IF config.managed THEN t.kept = Subtasks
  ELSE \A s \in Subtasks : file[s] = "new" \/ (file[s] = "old" /\ ~Baselined(s))

GateLoads(r) ==
  /\ RunnerAt(r, "evaluate")
  /\ runner' = [runner EXCEPT ![r].pc = "gated", ![r].task = task, ![r].passed = QualityPassed(task)]
  /\ UNCHANGED <<disk, lock, thread, canceller, file, env>>

GateSaves(r) ==
  /\ RunnerAt(r, "gated")
  /\ task' = [runner[r].task EXCEPT !.status = IF runner[r].passed THEN "completed" ELSE "failed"]
  /\ runner' = [runner EXCEPT ![r].pc = "record", ![r].task = NoTask]
  /\ UNCHANGED <<loop, request, lock, thread, canceller, file, env>>

GateRecords(r) ==
  /\ RunnerAt(r, "record")
  /\ loop' = [loop EXCEPT !.open = FALSE, !.due = IF runner[r].passed THEN "finish" ELSE "remediate"]
  /\ runner' = [runner EXCEPT ![r] =
       [IdleRunner EXCEPT !.pc = "head", !.direct = runner[r].direct]]
  /\ UNCHANGED <<task, request, lock, thread, canceller, file, env>>
-----------------------------------------------------------------------------
(* _run_task_loop after the loop. *)

SyncLoads(r) ==
  /\ RunnerAt(r, "returned")
  /\ runner' = [runner EXCEPT ![r].pc = "sync", ![r].task = task]
  /\ UNCHANGED <<disk, lock, thread, canceller, file, env>>

SyncedStatus_completedOnly(status, saw) ==
  IF saw = "completed" /\ status \notin Terminal THEN "completed" ELSE status
SyncedStatus(status, saw) ==
  CASE saw = "cancelled" -> "cancelled"
    [] saw \in {"failed", "stopped"} -> "failed"
    [] saw = "completed" /\ status \notin Terminal -> "completed"
    [] OTHER -> status

\* The copy is saved whether or not its status changed.
SyncSaves(r) ==
  /\ RunnerAt(r, "sync")
  /\ task' = [runner[r].task EXCEPT !.status = SyncedStatus(@, runner[r].saw)]
  /\ runner' = [runner EXCEPT ![r] = IdleRunner]
  /\ UNCHANGED <<loop, request, lock, thread, canceller, file, env>>
-----------------------------------------------------------------------------
(* cancel_task, with cancel_loop. *)

CancellerAt(c, pc) == canceller[c].pc = pc
CancelGoto(c, pc) == canceller' = [canceller EXCEPT ![c].pc = pc]

CancelLoads(c) ==
  /\ CancellerAt(c, "idle") /\ task.status \in {"pending", "running"}
  /\ canceller' = [canceller EXCEPT ![c].task = task,
                    ![c].pc = IF config.kind = "remote" THEN "save" ELSE "loaded"]
  /\ UNCHANGED <<disk, lock, runner, thread, file, env>>

CancelReadsLoop(c) ==
  /\ CancellerAt(c, "loaded")
  /\ IF loop.status \in LoopTerminal
       THEN request' = FALSE /\ CancelGoto(c, "save")
       ELSE UNCHANGED request /\ CancelGoto(c, "request")
  /\ UNCHANGED <<task, loop, lock, runner, thread, file, env>>

CancelRequests(c) ==
  /\ CancellerAt(c, "request")
  /\ request' = TRUE /\ CancelGoto(c, "lock")
  /\ UNCHANGED <<task, loop, lock, runner, thread, file, env>>

\* The lock is free: the loop is cancelled here unless it is decided.
CancelLocks(c) ==
  /\ CancellerAt(c, "lock") /\ lock = None
  /\ loop' = IF loop.status \in LoopTerminal THEN loop
              ELSE [loop EXCEPT !.status = "cancelled", !.open = FALSE]
  /\ request' = FALSE /\ CancelGoto(c, "save")
  /\ UNCHANGED <<task, lock, runner, thread, file, env>>

\* The lock is taken: the request is left for its holder.
CancelLeaves(c) ==
  /\ CancellerAt(c, "lock") /\ lock # None
  /\ CancelGoto(c, "save")
  /\ UNCHANGED <<disk, lock, runner, thread, file, env>>

CancelSaves(c) ==
  /\ CancellerAt(c, "save")
  /\ task' = [canceller[c].task EXCEPT !.status = "cancelled"]
  /\ canceller' = [canceller EXCEPT ![c] = [IdleCanceller EXCEPT !.pc = "done"]]
  /\ UNCHANGED <<loop, request, lock, runner, thread, file, env>>
-----------------------------------------------------------------------------
(* The environment. *)

\* The process of a runner dies, with its dispatch thread; the kernel frees
\* the lock and the open step keeps its lease.
Crash(r) ==
  /\ r \in Mortal /\ crashes < config.crashes /\ ~(RunnerAt(r, "idle") /\ ThreadAt(r, "none"))
  /\ crashes' = crashes + 1
  /\ runner' = [runner EXCEPT ![r] = IdleRunner]
  /\ thread' = [thread EXCEPT ![r] = NoThread]
  /\ lock' = IF lock = r THEN None ELSE lock
  /\ UNCHANGED <<disk, canceller, file, config, order, submission, overtime, produced>>

TimePasses ==
  /\ config.timed /\ ~overtime /\ loop.status # "absent"
  /\ overtime' = TRUE
  /\ UNCHANGED <<disk, calls, file, config, order, submission, produced, crashes>>

RunStep(r) ==
  \/ MarkTaskStarted(r) \/ EnterTerminal(r) \/ EnterOpen(r) \/ EnterRunning(r)
  \/ HeadStops(r) \/ HeadCancels(r) \/ HeadDispatches(r) \/ HeadExhausted(r)
  \/ HeadEvaluates(r) \/ HeadCompletes(r)
  \/ DispatchReturns(r) \/ DispatchCancelled(r) \/ DispatchRaised(r) \/ DispatchDetached(r)
  \/ GateLoads(r) \/ GateSaves(r) \/ GateRecords(r) \/ SyncLoads(r) \/ SyncSaves(r)

ThreadStep(r) ==
  \/ ThreadCreates(r) \/ ThreadLoads(r) \/ ThreadMarks(r) \/ ThreadSkips(r) \/ ThreadPicks(r)
  \/ ThreadReturns(r) \/ AdapterReturns(r) \/ ThreadSaves(r) \/ AdapterRaises(r)
  \/ AdapterCancelled(r) \/ DispatchAppGrade(r) \/ ThreadExits(r)

CancelStep(c) ==
  \/ CancelReadsLoop(c) \/ CancelRequests(c) \/ CancelLocks(c) \/ CancelLeaves(c) \/ CancelSaves(c)

Next ==
  \/ SubmitLoop \/ SubmitTask \/ SubmitReleaseE2eTask \/ SubmitRemote \/ TimePasses
  \/ \E r \in Runners : RunLoads(r) \/ RunLoopDirect(r) \/ RunStep(r) \/ ThreadStep(r) \/ Crash(r)
  \/ \E c \in Cancellers : CancelLoads(c) \/ CancelStep(c)

\* What the program does by itself: a call that has begun goes on, an adapter
\* ends (every one of them has a timeout).  Hosts need not call.
Fairness ==
  /\ \A r \in Runners : WF_vars(RunStep(r)) /\ WF_vars(ThreadStep(r))
  /\ \A c \in Cancellers : WF_vars(CancelStep(c))

Spec == Init /\ [][Next]_vars /\ Fairness
-----------------------------------------------------------------------------
(* Properties. *)

Quiet ==
  /\ \A r \in Runners : RunnerAt(r, "idle") /\ ThreadAt(r, "none")
  /\ \A c \in Cancellers : canceller[c].pc \in {"idle", "done"}

Agreeing(status) ==
  CASE status = "completed" -> {"completed", "cancelled"}
    [] status = "cancelled" -> {"cancelled"}
    [] OTHER -> {"failed", "cancelled"}

\* Once every run_task and cancel_task call has returned and none of them
\* crashed, a decided loop has a decided task and the two agree, however the
\* unlocked whole-record saves of the calls were interleaved; a cancel that
\* comes late may only turn the task to cancelled.  Every copy of a record that
\* a call holds stays a record of its type.
QuietAgreement ==
  /\ TypeOK
  /\ Quiet /\ crashes = 0 /\ config.kind \in {"delivery", "app"} /\ loop.status \in LoopTerminal
       => task.status \in Agreeing(loop.status)

\* A completed task has delivered: every required artifact is in the project
\* (those with a baseline rewritten), every managed report was produced, also
\* when stale copies of the record were saved in between.
CompletedDelivered ==
  task.status = "completed" /\ config.kind # "app" =>
    \A s \in Subtasks :
      /\ config.managed => s \in produced
      /\ ~config.managed => file[s] # "absent" /\ (Baselined(s) => file[s] = "new")

\* Every run_task call returns: it is not kept waiting for the loop's lock, for
\* a dispatch thread or for the answer to a cancel request.
RunReturns == \A r \in Runners : ~RunnerAt(r, "idle") ~> RunnerAt(r, "idle")
=============================================================================
