-------------------------- MODULE TaskRuntimeProofs --------------------------
(***************************************************************************)
(* Proofs about TaskRuntime: for any plan, any number of run_task and      *)
(* cancel_task calls and any number of crashes.                            *)
(***************************************************************************)
EXTENDS TaskRuntime, TLAPS
-----------------------------------------------------------------------------
(* The invariants.                                                         *)

\* Without a loop there is no step of it and nobody who runs it, and only a
\* Worker-routed task is there.
NoLoopInv ==
  /\ submission # "new" /\ config.kind # "remote" => loop.status # "absent"
  /\ loop.status = "absent" =>
       /\ loop.open = FALSE
       /\ \A r \in Runners : runner[r].pc = "idle" /\ thread[r].pc = "none"
       /\ config.kind # "remote" =>
            task.status = "absent" /\ \A c \in Cancellers : canceller[c].pc = "idle"

\* What CompletedDelivered asks of a completed task, as a fact about the
\* project: once it holds it stays.
Delivered ==
  \A s \in Subtasks :
    /\ config.managed => s \in produced
    /\ ~config.managed => file[s] # "absent" /\ (Baselined(s) => file[s] = "new")

\* A record, in the store or in the copy of a call, however old.
Honest(t) == t.kept \subseteq produced /\ (t.status = "completed" => Delivered)

\* Every record anywhere is honest, and every verdict on its way to a record is
\* backed by the project.
DeliveryInv ==
  config.kind # "app" =>
    /\ Honest(task)
    /\ \A r \in Runners : Honest(runner[r].task) /\ Honest(thread[r].task)
    /\ \A c \in Cancellers : Honest(canceller[c].task)
    /\ \A r \in Runners : runner[r].passed \/ runner[r].saw = "completed" => Delivered
    /\ loop.due = "finish" \/ loop.status = "completed" => Delivered

Regular == crashes = 0 /\ config.kind \in {"delivery", "app"}
LockHeld == {"head", "dispatch", "evaluate", "gated", "record"}

\* Before the task's first save nobody works on it.
SubmissionInv ==
  submission # "done" =>
    /\ task.status = "absent" /\ loop.status \in {"absent", "pending"}
    /\ \A r \in Runners : runner[r].pc = "idle" /\ thread[r].pc = "none"
    /\ \A c \in Cancellers : canceller[c].pc = "idle"

\* The lock: one runner is between two iterations' ends, its loop is running,
\* and only its thread dispatches.
HoldInv ==
  /\ overtime = FALSE
  /\ \A r \in Runners :
       /\ runner[r].pc \in LockHeld <=> lock = r
       /\ runner[r].direct = FALSE
       /\ thread[r].pc # "none" => runner[r].pc = "dispatch"
       /\ runner[r].pc = "dispatch" => loop.due \in {"dispatch", "remediate"}
       /\ runner[r].pc \in {"evaluate", "gated", "record"} => loop.due = "gate"
       /\ runner[r].pc \in {"returned", "sync"} => runner[r].saw = loop.status
                                                   /\ loop.status \in LoopTerminal
  /\ lock # None => loop.status = "running"
  /\ loop.open => lock # None

\* A gate that passed, and what came of it, is not behind a failed task.
PassedInv ==
  /\ \A r \in Runners : runner[r].pc = "record" /\ runner[r].passed => task.status # "failed"
  /\ loop.due = "finish" /\ loop.status \notin LoopTerminal => task.status # "failed"
  /\ loop.status = "completed" => task.status # "failed"
  /\ \A r \in Runners : runner[r].pc = "sync" /\ loop.status = "completed"
                          => runner[r].task.status # "failed"

\* A decided loop whose task does not agree: some call will still save it.
PendingSave ==
  loop.status \in LoopTerminal /\ task.status \notin Agreeing(loop.status) =>
    \/ \E r \in Runners : runner[r].pc \in {"lock", "returned", "sync"}
    \/ \E c \in Cancellers : canceller[c].pc = "save"

AgreementInv == Regular => SubmissionInv /\ HoldInv /\ PassedInv /\ PendingSave
-----------------------------------------------------------------------------
(* Types.                                                                  *)

\* The values the calls start from.
LEMMA InitialTypes ==
  /\ \A s \in {"absent", "pending"} : NewTask(s) \in TaskType
  /\ NoTask \in TaskType
  /\ IdleRunner \in RunnerType /\ NoThread \in ThreadType /\ IdleCanceller \in CancellerType
<1>1. \A s \in {"absent", "pending"} : NewTask(s) \in TaskType
  BY DEF NewTask, TaskType, Terminal
<1>2. NoTask \in TaskType
  BY <1>1 DEF NoTask
<1>3. IdleRunner \in RunnerType
  BY <1>2 DEF IdleRunner, RunnerType, LoopTerminal, Terminal
<1>4. NoThread \in ThreadType
  BY <1>2 DEF NoThread, ThreadType
<1>5. IdleCanceller \in CancellerType
  BY <1>2 DEF IdleCanceller, CancellerType
<1> QED BY <1>1, <1>2, <1>3, <1>4, <1>5

\* The records of the store and of the calls, apart from what is submitted.
Shaped(t, l, ru, th, ca) ==
  /\ t \in TaskType /\ l \in LoopType
  /\ ru \in [Runners -> RunnerType] /\ th \in [Runners -> ThreadType]
  /\ ca \in [Cancellers -> CancellerType]

\* A record keeps its type when its status changes.
LEMMA StatusType ==
  ASSUME NEW t \in TaskType, NEW s \in {"absent", "pending", "running"} \cup Terminal
  PROVE  [t EXCEPT !.status = s] \in TaskType
BY DEF TaskType

\* A runner that returns from run_loop, with or without the loop's outcome.
LEMMA ReturnedType ==
  ASSUME TypeOK, NEW r \in Runners, NEW saw \in {"none", "pending", "running"} \cup LoopTerminal,
         Returned(r, saw)
  PROVE  runner' \in [Runners -> RunnerType] /\ lock' = None
<1>1. IdleRunner \in RunnerType
  BY InitialTypes
<1>2. [IdleRunner EXCEPT !.pc = "returned", !.saw = saw] \in RunnerType
  BY <1>1 DEF RunnerType
<1> QED BY <1>1, <1>2 DEF TypeOK, Returned

\* The loop's record when run_loop ends it.
LEMMA EndsType ==
  ASSUME TypeOK, NEW r \in Runners, NEW s \in LoopTerminal, Ends(r, s)
  PROVE  loop' \in LoopType /\ runner' \in [Runners -> RunnerType] /\ lock' = None
<1>1. loop' \in LoopType
  BY DEF TypeOK, Ends, LoopType
<1> QED BY <1>1, ReturnedType DEF Ends

\* The steps of a run_task call.
LEMMA RunTypes ==
  ASSUME TypeOK, NoLoopInv, NEW r \in Runners,
         RunLoads(r) \/ RunLoopDirect(r) \/ RunStep(r) \/ Crash(r)
  PROVE  /\ Shaped(task', loop', runner', thread', canceller')
         /\ request' \in BOOLEAN /\ lock' \in Runners \cup {None}
<1> USE DEF Shaped
<1>0. /\ task \in TaskType /\ loop \in LoopType /\ runner[r] \in RunnerType
      /\ runner[r].task \in TaskType /\ thread[r] \in ThreadType /\ thread[r].task \in TaskType
  BY DEF TypeOK, RunnerType, ThreadType
<1>1. CASE RunLoads(r)
  BY <1>1, <1>0 DEF TypeOK, RunLoads, disk, env, RunnerType
<1>2. CASE RunLoopDirect(r)
  BY <1>2, <1>0 DEF TypeOK, RunLoopDirect, disk, env, RunnerType
<1>3. CASE MarkTaskStarted(r)
  <2>1. task' \in TaskType
    BY <1>3, <1>0, StatusType DEF MarkTaskStarted
  <2>2. runner' \in [Runners -> RunnerType]
    <3>1. [IdleRunner EXCEPT !.pc = "lock"] \in RunnerType
      BY InitialTypes DEF RunnerType
    <3> QED BY <3>1, <1>3 DEF TypeOK, MarkTaskStarted
  <2> QED BY <2>1, <2>2, <1>3 DEF TypeOK, MarkTaskStarted, env
<1>4. CASE EnterTerminal(r)
  <2>1. runner' \in [Runners -> RunnerType] /\ lock' = None
    <3>1. loop.status \in {"none", "pending", "running"} \cup LoopTerminal
      BY <1>4 DEF EnterTerminal
    <3>2. Returned(r, loop.status)
      BY <1>4 DEF EnterTerminal
    <3> QED BY <3>1, <3>2, ReturnedType
  <2> QED BY <2>1, <1>4 DEF TypeOK, EnterTerminal, env
<1>5. CASE EnterOpen(r)
  <2>1. CASE Returned(r, loop.status) /\ UNCHANGED loop
    <3>1. loop.status \in {"none", "pending", "running"} \cup LoopTerminal
      BY <1>5, <1>0 DEF NoLoopInv, EnterOpen, LoopType
    <3> QED BY <3>1, <2>1, <1>5, ReturnedType DEF TypeOK, EnterOpen, env
  <2>2. CASE Ends(r, "failed")
    BY <2>2, <1>5, EndsType DEF TypeOK, EnterOpen, env, LoopTerminal, Terminal
  <2> QED BY <2>1, <2>2, <1>5 DEF EnterOpen
<1>6. CASE EnterRunning(r)
  BY <1>6, <1>0 DEF TypeOK, EnterRunning, Goto, env, RunnerType, LoopType
<1>7. CASE HeadStops(r)
  BY <1>7, EndsType DEF TypeOK, HeadStops, env, LoopTerminal, Terminal
<1>8. CASE HeadCancels(r)
  BY <1>8, EndsType DEF TypeOK, HeadCancels, env, LoopTerminal, Terminal
<1>9. CASE HeadDispatches(r)
  <2>1. loop' \in LoopType
    <3>1. loop.turns \in Nat /\ loop.turns <= MaxRemediation
      BY <1>0, RuntimeBoundAssumption DEF LoopType
    <3>2. CASE loop' = [loop EXCEPT !.open = TRUE]
      BY <3>2, <1>0 DEF LoopType
    <3>3. CASE loop.turns < MaxRemediation /\ loop' = [loop EXCEPT !.open = TRUE, !.turns = @ + 1]
      <4>1. loop.turns + 1 \in 0..MaxRemediation
        BY <3>1, <3>3, RuntimeBoundAssumption
      <4> QED BY <4>1, <3>3, <1>0 DEF LoopType
    <3> QED BY <3>2, <3>3, <1>9 DEF HeadDispatches
  <2>2. [NoThread EXCEPT !.pc = "start", !.remediation = (loop.due = "remediate")] \in ThreadType
    BY InitialTypes DEF ThreadType
  <2>3. thread' \in [Runners -> ThreadType]
    BY <2>2, <1>9 DEF TypeOK, HeadDispatches
  <2>4. runner' \in [Runners -> RunnerType]
    BY <1>9, <1>0 DEF TypeOK, HeadDispatches, Goto, RunnerType
  <2> QED BY <2>1, <2>3, <2>4, <1>9 DEF TypeOK, HeadDispatches, env
<1>10. CASE HeadExhausted(r)
  BY <1>10, EndsType DEF TypeOK, HeadExhausted, env, LoopTerminal, Terminal
<1>11. CASE HeadEvaluates(r)
  BY <1>11, <1>0 DEF TypeOK, HeadEvaluates, Goto, env, RunnerType, LoopType
<1>12. CASE HeadCompletes(r)
  BY <1>12, EndsType DEF TypeOK, HeadCompletes, env, LoopTerminal, Terminal
<1>13. ASSUME thread' = [thread EXCEPT ![r] = NoThread]
       PROVE  thread' \in [Runners -> ThreadType]
  BY <1>13, InitialTypes DEF TypeOK
<1>14. CASE DispatchReturns(r)
  BY <1>14, <1>13, <1>0 DEF TypeOK, DispatchReturns, DispatchOver, Goto, env, RunnerType, LoopType
<1>15. CASE DispatchCancelled(r)
  BY <1>15, <1>13, EndsType
     DEF TypeOK, DispatchCancelled, DispatchOver, env, LoopTerminal, Terminal
<1>16. CASE DispatchRaised(r)
  BY <1>16, <1>13, EndsType DEF TypeOK, DispatchRaised, DispatchOver, env, LoopTerminal, Terminal
<1>17. CASE DispatchDetached(r)
  BY <1>17, EndsType DEF TypeOK, DispatchDetached, env, LoopTerminal, Terminal
<1>18. CASE GateLoads(r)
  <2>1. QualityPassed(task) \in BOOLEAN
    BY DEF QualityPassed
  <2> QED BY <2>1, <1>18, <1>0 DEF TypeOK, GateLoads, disk, env, RunnerType
<1>19. CASE GateSaves(r)
  <2>1. task' \in TaskType
    BY <1>19, <1>0, StatusType DEF GateSaves, Terminal
  <2>2. runner' \in [Runners -> RunnerType]
    BY <1>19, <1>0, InitialTypes DEF TypeOK, GateSaves, RunnerType
  <2> QED BY <2>1, <2>2, <1>19 DEF TypeOK, GateSaves, env
<1>20. CASE GateRecords(r)
  <2>1. [IdleRunner EXCEPT !.pc = "head", !.direct = runner[r].direct] \in RunnerType
    BY <1>0, InitialTypes DEF RunnerType
  <2>2. loop' \in LoopType
    BY <1>20, <1>0 DEF GateRecords, LoopType
  <2> QED BY <2>1, <2>2, <1>20 DEF TypeOK, GateRecords, env
<1>21. CASE SyncLoads(r)
  BY <1>21, <1>0 DEF TypeOK, SyncLoads, disk, env, RunnerType
<1>22. CASE SyncSaves(r)
  <2>1. SyncedStatus(runner[r].task.status, runner[r].saw)
          \in {"absent", "pending", "running"} \cup Terminal
    BY <1>0 DEF SyncedStatus, TaskType, Terminal
  <2>2. task' \in TaskType
    BY <2>1, <1>22, <1>0, StatusType DEF SyncSaves
  <2> QED BY <2>2, <1>22, InitialTypes DEF TypeOK, SyncSaves, env
<1>23. CASE Crash(r)
  BY <1>23, <1>13, InitialTypes DEF TypeOK, Crash, disk
<1> QED BY <1>1, <1>2, <1>3, <1>4, <1>5, <1>6, <1>7, <1>8, <1>9, <1>10, <1>11, <1>12, <1>14, <1>15,
           <1>16, <1>17, <1>18, <1>19, <1>20, <1>21, <1>22, <1>23 DEF RunStep

\* Dispatching stays within the plan.
LEMMA SubInPlan ==
  ASSUME TypeOK, NEW r \in Runners, thread[r].next \in DOMAIN order
  PROVE  Sub(r) \in Subtasks
BY DEF TypeOK, Orders, Sub, Subtasks

\* A thread between its pick and its save is at a subtask of the plan.
ThreadInv ==
  \A r \in Runners : thread[r].pc \in {"adapter", "save"} => thread[r].next \in DOMAIN order

\* The steps of a dispatch thread.
LEMMA ThreadTypes ==
  ASSUME TypeOK, ThreadInv, NEW r \in Runners, ThreadStep(r)
  PROVE  /\ Shaped(task', loop', runner', thread', canceller')
         /\ request' \in BOOLEAN /\ lock' \in Runners \cup {None}
         /\ file' \in [Subtasks -> {"absent", "old", "new"}] /\ produced' \in SUBSET Subtasks
<1> USE DEF Shaped
<1>0. /\ task \in TaskType /\ thread[r] \in ThreadType /\ thread[r].task \in TaskType
      /\ NewTask("pending") \in TaskType /\ NoTask \in TaskType
  BY InitialTypes DEF TypeOK, ThreadType
<1>a. ASSUME NEW pc \in {"none", "returned", "raised", "cancelled"}
      PROVE  [NoThread EXCEPT !.pc = pc] \in ThreadType /\ NoThread \in ThreadType
  BY InitialTypes DEF ThreadType
<1>1. CASE ThreadCreates(r)
  BY <1>1, <1>0 DEF TypeOK, ThreadCreates, calls, env
<1>2. CASE ThreadLoads(r)
  BY <1>2, <1>0 DEF TypeOK, ThreadLoads, disk, env, ThreadType
<1>3. CASE ThreadMarks(r)
  <2>1. task' \in TaskType
    BY <1>3, <1>0, StatusType DEF ThreadMarks
  <2> QED BY <2>1, <1>3, <1>0 DEF TypeOK, ThreadMarks, env, ThreadType
<1>4. CASE ThreadSkips(r)
  BY <1>4, <1>0 DEF TypeOK, ThreadSkips, disk, env, ThreadType
<1>5. CASE ThreadPicks(r)
  BY <1>5, <1>0 DEF TypeOK, ThreadPicks, disk, env, ThreadType
<1>6. CASE ThreadReturns(r)
  BY <1>6, <1>a DEF TypeOK, ThreadReturns, disk, env
<1>7. CASE AdapterReturns(r)
  <2>1. Sub(r) \in Subtasks
    BY <1>7, SubInPlan DEF AdapterReturns, ThreadAt, ThreadInv
  <2>2. Reported(thread[r].task, Sub(r)) \in TaskType
    BY <2>1, <1>0 DEF Reported, TaskType, Terminal
  <2>4. thread' \in [Runners -> ThreadType]
    BY <2>2, <1>7, <1>0 DEF TypeOK, AdapterReturns, ThreadType
  <2>5. file' \in [Subtasks -> {"absent", "old", "new"}] /\ produced' \in SUBSET Subtasks
    BY <2>1, <1>7 DEF TypeOK, AdapterReturns
  <2> QED BY <2>4, <2>5, <1>7 DEF TypeOK, AdapterReturns, disk
<1>8. CASE ThreadSaves(r)
  BY <1>8, <1>0 DEF TypeOK, ThreadSaves, env, ThreadType
<1>9. ASSUME NEW pc \in {"raised", "cancelled"}, NEW s \in {"failed", "cancelled"},
             ThreadFails(r, pc, s)
      PROVE  /\ Shaped(task', loop', runner', thread', canceller')
             /\ request' \in BOOLEAN /\ lock' \in Runners \cup {None}
             /\ file' \in [Subtasks -> {"absent", "old", "new"}] /\ produced' \in SUBSET Subtasks
  <2>1. Sub(r) \in Subtasks
    BY <1>9, SubInPlan DEF ThreadFails, ThreadAt, ThreadInv
  <2>2. task' \in TaskType
    BY <2>1, <1>9, <1>0 DEF ThreadFails, TaskType, Terminal
  <2>3. thread' \in [Runners -> ThreadType]
    BY <1>9, <1>a DEF TypeOK, ThreadFails
  <2> QED BY <2>2, <2>3, <1>9 DEF TypeOK, ThreadFails, env
<1>10. CASE AdapterRaises(r)
  BY <1>10, <1>9 DEF AdapterRaises
<1>11. CASE AdapterCancelled(r)
  BY <1>11, <1>9 DEF AdapterCancelled
<1>12. CASE DispatchAppGrade(r)
  <2>1. task' \in TaskType
    <3>1. PICK report \in {"passed", "failed"} :
            task' = [thread[r].task EXCEPT !.subs = [s \in Subtasks |-> "completed"],
                                           !.report = report]
      BY <1>12 DEF DispatchAppGrade
    <3>2. [s \in Subtasks |-> "completed"] \in [Subtasks -> {"pending"} \cup Terminal]
      BY DEF Terminal
    <3> QED BY <3>1, <3>2, <1>0 DEF TaskType
  <2>2. file' \in [Subtasks -> {"absent", "old", "new"}] /\ produced' \in SUBSET Subtasks
    BY <1>12 DEF DispatchAppGrade
  <2>3. thread' \in [Runners -> ThreadType]
    BY <1>12, <1>a DEF TypeOK, DispatchAppGrade
  <2> QED BY <2>1, <2>2, <2>3, <1>12 DEF TypeOK, DispatchAppGrade
<1>13. CASE ThreadExits(r)
  BY <1>13, <1>a DEF TypeOK, ThreadExits, disk, env
<1> QED BY <1>1, <1>2, <1>3, <1>4, <1>5, <1>6, <1>7, <1>8, <1>10, <1>11, <1>12, <1>13
        DEF ThreadStep

\* The steps of a cancel_task call.
LEMMA CancelTypes ==
  ASSUME TypeOK, NEW c \in Cancellers, CancelLoads(c) \/ CancelStep(c)
  PROVE  /\ Shaped(task', loop', runner', thread', canceller')
         /\ request' \in BOOLEAN /\ lock' \in Runners \cup {None}
<1> USE DEF Shaped
<1>0. /\ task \in TaskType /\ loop \in LoopType /\ canceller[c] \in CancellerType
      /\ canceller[c].task \in TaskType
  BY DEF TypeOK, CancellerType
<1>1. CASE CancelLoads(c)
  BY <1>1, <1>0 DEF TypeOK, CancelLoads, disk, env, CancellerType
<1>2. CASE CancelReadsLoop(c)
  <2>1. \A pc \in {"save", "request"} :
          CancelGoto(c, pc) => canceller' \in [Cancellers -> CancellerType]
    BY <1>0 DEF TypeOK, CancelGoto, CancellerType
  <2>2. canceller' \in [Cancellers -> CancellerType]
    BY <2>1, <1>2 DEF CancelReadsLoop
  <2>3. request' \in BOOLEAN
    BY <1>2 DEF TypeOK, CancelReadsLoop
  <2> QED BY <2>2, <2>3, <1>2 DEF TypeOK, CancelReadsLoop, env
<1>3. CASE CancelRequests(c)
  BY <1>3, <1>0 DEF TypeOK, CancelRequests, CancelGoto, env, CancellerType
<1>4. CASE CancelLocks(c)
  <2>1. loop' \in LoopType
    BY <1>4, <1>0 DEF CancelLocks, LoopType, LoopTerminal, Terminal
  <2> QED BY <2>1, <1>4, <1>0 DEF TypeOK, CancelLocks, CancelGoto, env, CancellerType
<1>5. CASE CancelLeaves(c)
  BY <1>5, <1>0 DEF TypeOK, CancelLeaves, CancelGoto, disk, env, CancellerType
<1>6. CASE CancelSaves(c)
  <2>1. task' \in TaskType
    BY <1>6, <1>0, StatusType DEF CancelSaves, Terminal
  <2>2. [IdleCanceller EXCEPT !.pc = "done"] \in CancellerType
    BY InitialTypes DEF CancellerType
  <2> QED BY <2>1, <2>2, <1>6 DEF TypeOK, CancelSaves, env
<1> QED BY <1>1, <1>2, <1>3, <1>4, <1>5, <1>6 DEF CancelStep

\* ThreadInv is kept.
LEMMA ThreadKept ==
  ASSUME TypeOK, ThreadInv, Next \/ UNCHANGED vars
  PROVE  ThreadInv'
<1>1. CASE UNCHANGED vars
  BY <1>1 DEF vars, calls, env, ThreadInv
<1>2. ASSUME UNCHANGED order, UNCHANGED thread
      PROVE  ThreadInv'
  BY <1>2 DEF ThreadInv
<1>3. ASSUME NEW r \in Runners, NEW x \in ThreadType, UNCHANGED order,
             thread' = [thread EXCEPT ![r] = x],
             x.pc \in {"adapter", "save"} => x.next \in DOMAIN order
      PROVE  ThreadInv'
  BY <1>3 DEF ThreadInv, TypeOK
<1>4. CASE SubmitLoop \/ SubmitTask \/ SubmitReleaseE2eTask \/ SubmitRemote \/ TimePasses
  BY <1>4, <1>2 DEF SubmitLoop, SubmitTask, SubmitReleaseE2eTask, SavesTask, SubmitRemote, TimePasses,
                    calls
<1>5. ASSUME NEW r \in Runners, RunLoads(r) \/ RunLoopDirect(r) \/ RunStep(r) \/ Crash(r)
      PROVE  ThreadInv'
  <2>0. ASSUME NEW pc \in {"none", "start"}, NEW b \in BOOLEAN,
               thread' = [thread EXCEPT ![r] = [NoThread EXCEPT !.pc = pc, !.remediation = b]],
               UNCHANGED order
        PROVE  ThreadInv'
    BY <2>0 DEF ThreadInv, TypeOK, NoThread
  <2>1. CASE HeadDispatches(r)
    BY <2>1, <2>0 DEF HeadDispatches, env
  <2>2. ASSUME thread' = [thread EXCEPT ![r] = NoThread], UNCHANGED order
        PROVE  ThreadInv'
    BY <2>2 DEF ThreadInv, TypeOK, NoThread
  <2>3. CASE DispatchReturns(r) \/ DispatchCancelled(r) \/ DispatchRaised(r) \/ Crash(r)
    BY <2>3, <2>2 DEF DispatchReturns, DispatchCancelled, DispatchRaised, DispatchOver, Crash, env
  <2>4. CASE \/ RunLoads(r) \/ RunLoopDirect(r) \/ MarkTaskStarted(r) \/ EnterTerminal(r)
             \/ EnterOpen(r) \/ EnterRunning(r) \/ HeadStops(r) \/ HeadCancels(r) \/ HeadExhausted(r)
             \/ HeadEvaluates(r) \/ HeadCompletes(r) \/ DispatchDetached(r) \/ GateLoads(r)
             \/ GateSaves(r) \/ GateRecords(r) \/ SyncLoads(r) \/ SyncSaves(r)
    BY <2>4, <1>2 DEF RunLoads, RunLoopDirect, MarkTaskStarted, EnterTerminal, EnterOpen, EnterRunning,
         HeadStops, HeadCancels, HeadExhausted, HeadEvaluates, HeadCompletes, DispatchDetached,
         GateLoads, GateSaves, GateRecords, SyncLoads, SyncSaves, env
  <2> QED BY <2>1, <2>3, <2>4, <1>5 DEF RunStep
<1>6. ASSUME NEW r \in Runners, ThreadStep(r)
      PROVE  ThreadInv'
  <2>1. CASE ThreadCreates(r)
    BY <2>1, <1>2 DEF ThreadCreates, calls, env
  <2>2. CASE ThreadLoads(r) \/ ThreadMarks(r) \/ ThreadSkips(r) \/ ThreadSaves(r)
    BY <2>2 DEF ThreadLoads, ThreadMarks, ThreadSkips, ThreadSaves, ThreadAt, TypeOK, ThreadInv,
         ThreadType, env
  <2>3. CASE ThreadPicks(r)
    BY <2>3 DEF ThreadPicks, TypeOK, ThreadInv, ThreadType, env
  <2>4. CASE AdapterReturns(r)
    <3>1. /\ thread'[r].next = thread[r].next /\ thread[r].next \in DOMAIN order
          /\ \A q \in Runners \ {r} : thread'[q] = thread[q]
          /\ order' = order
      BY <2>4 DEF AdapterReturns, ThreadAt, TypeOK, ThreadInv, ThreadType
    <3> QED BY <3>1 DEF ThreadInv
  <2>5. ASSUME NEW pc \in {"none", "returned", "raised", "cancelled"}, UNCHANGED order,
               thread' = [thread EXCEPT ![r] = [NoThread EXCEPT !.pc = pc]]
        PROVE  ThreadInv'
    BY <2>5 DEF ThreadInv, TypeOK, NoThread
  <2>6. CASE ThreadReturns(r) \/ AdapterRaises(r) \/ AdapterCancelled(r) \/ DispatchAppGrade(r)
    BY <2>6, <2>5 DEF ThreadReturns, AdapterRaises, AdapterCancelled, ThreadFails, DispatchAppGrade,
         env
  <2>7. CASE ThreadExits(r)
    BY <2>7 DEF ThreadExits, ThreadInv, TypeOK, NoThread, env
  <2> QED BY <2>1, <2>2, <2>3, <2>4, <2>6, <2>7, <1>6 DEF ThreadStep
<1>7. ASSUME NEW c \in Cancellers, CancelLoads(c) \/ CancelStep(c)
      PROVE  ThreadInv'
  BY <1>7, <1>2 DEF CancelLoads, CancelStep, CancelReadsLoop, CancelRequests, CancelLocks,
       CancelLeaves, CancelSaves, env
<1> QED BY <1>1, <1>4, <1>5, <1>6, <1>7 DEF Next

\* NoLoopInv is kept: a loop once created does not vanish.
LEMMA NoLoopKept ==
  ASSUME TypeOK, NoLoopInv, Next \/ UNCHANGED vars
  PROVE  NoLoopInv'
<1>0. ASSUME loop'.status # "absent"
      PROVE  NoLoopInv'
  BY <1>0 DEF NoLoopInv
<1>1. CASE UNCHANGED vars
  BY <1>1 DEF vars, disk, calls, env, NoLoopInv
<1>2. CASE SubmitLoop
  <2>1. loop'.status = "pending"
    BY <1>2 DEF SubmitLoop, TypeOK, LoopType
  <2> QED BY <2>1, <1>0
<1>3. CASE SubmitTask \/ SubmitReleaseE2eTask
  <2>1. loop' = loop /\ submission = "bound" /\ config.kind \in {"delivery", "app"}
    BY <1>3 DEF SubmitTask, SubmitReleaseE2eTask, SavesTask
  <2> QED BY <2>1, <1>0 DEF NoLoopInv
<1>4. CASE SubmitRemote
  BY <1>4 DEF SubmitRemote, NoLoopInv, calls
<1>5. CASE TimePasses
  BY <1>5 DEF TimePasses, NoLoopInv, calls, disk
<1>6. ASSUME NEW r \in Runners, RunLoads(r) \/ RunLoopDirect(r) \/ RunStep(r) \/ ThreadStep(r) \/ Crash(r)
      PROVE  NoLoopInv'
  <2>1. loop.status # "absent"
    <3>1. CASE RunnerAt(r, "idle") /\ thread[r].pc = "none"
      <4>1. RunLoads(r) \/ RunLoopDirect(r)
        BY <3>1, <1>6 DEF RunStep, ThreadStep, RunnerAt, MarkTaskStarted, EnterTerminal, EnterOpen,
             EnterRunning, EnterFree, HeadStops, HeadCancels, HeadDispatches, HeadExhausted,
             HeadEvaluates, HeadCompletes, Selects, DispatchReturns, DispatchCancelled, DispatchRaised,
             DispatchOver, DispatchDetached, GateLoads, GateSaves, GateRecords, SyncLoads, SyncSaves,
             ThreadCreates, ThreadLoads, ThreadMarks, ThreadSkips, ThreadPicks, ThreadReturns,
             AdapterReturns, ThreadSaves, AdapterRaises, AdapterCancelled, ThreadFails,
             DispatchAppGrade, ThreadExits, ThreadOver, ThreadAt, Crash
      <4> QED BY <4>1 DEF RunLoads, RunLoopDirect, NoLoopInv
    <3>2. CASE ~(RunnerAt(r, "idle") /\ thread[r].pc = "none")
      BY <3>2 DEF NoLoopInv, RunnerAt
    <3> QED BY <3>1, <3>2
  <2>2. loop'.status # "absent"
    <3>1. CASE UNCHANGED loop
      BY <3>1, <2>1
    <3>2. ASSUME NEW s \in LoopTerminal, Ends(r, s)
          PROVE  loop'.status # "absent"
      BY <3>2 DEF Ends, TypeOK, LoopType, LoopTerminal, Terminal
    <3>3. CASE HeadStops(r) \/ HeadCancels(r) \/ HeadExhausted(r) \/ HeadCompletes(r)
               \/ DispatchCancelled(r) \/ DispatchRaised(r) \/ DispatchDetached(r)
      BY <3>3, <3>2 DEF HeadStops, HeadCancels, HeadExhausted, HeadCompletes, DispatchCancelled,
           DispatchRaised, DispatchDetached, LoopTerminal, Terminal
    <3>4. CASE EnterOpen(r)
      BY <3>4, <3>1, <3>2 DEF EnterOpen, LoopTerminal, Terminal
    <3>5. CASE EnterRunning(r)
      BY <3>5 DEF EnterRunning, TypeOK, LoopType
    <3>6. CASE HeadDispatches(r) \/ HeadEvaluates(r) \/ DispatchReturns(r) \/ GateRecords(r)
      <4>1. loop'.status = loop.status
        BY <3>6 DEF HeadDispatches, HeadEvaluates, DispatchReturns, GateRecords, TypeOK, LoopType
      <4> QED BY <4>1, <2>1
    <3>7. CASE \/ RunLoads(r) \/ RunLoopDirect(r) \/ MarkTaskStarted(r) \/ EnterTerminal(r)
               \/ GateLoads(r) \/ GateSaves(r) \/ SyncLoads(r) \/ SyncSaves(r) \/ ThreadStep(r)
               \/ Crash(r)
      BY <3>7, <3>1 DEF RunLoads, RunLoopDirect, MarkTaskStarted, EnterTerminal, GateLoads, GateSaves,
           SyncLoads, SyncSaves, ThreadStep, ThreadCreates, ThreadLoads, ThreadMarks, ThreadSkips,
           ThreadPicks, ThreadReturns, AdapterReturns, ThreadSaves, AdapterRaises, AdapterCancelled,
           ThreadFails, DispatchAppGrade, ThreadExits, Crash, disk
    <3> QED BY <3>3, <3>4, <3>5, <3>6, <3>7, <1>6 DEF RunStep
  <2> QED BY <2>2, <1>0
<1>7. ASSUME NEW c \in Cancellers, CancelLoads(c) \/ CancelStep(c)
      PROVE  NoLoopInv'
  <2>1. CASE loop.status # "absent"
    <3>1. loop'.status # "absent"
      BY <2>1, <1>7 DEF CancelLoads, CancelStep, CancelReadsLoop, CancelRequests, CancelLocks,
           CancelLeaves, CancelSaves, disk, TypeOK, LoopType
    <3> QED BY <3>1, <1>0
  <2>2. CASE loop.status = "absent" /\ config.kind = "remote"
    <3>1. CASE loop' = loop
      BY <3>1, <2>2, <1>7 DEF NoLoopInv, CancelLoads, CancelStep, CancelReadsLoop, CancelRequests,
           CancelLocks, CancelLeaves, CancelSaves, env
    <3>2. CASE loop' # loop
      <4>1. loop'.status = "cancelled"
        BY <3>2, <1>7 DEF CancelLoads, CancelStep, CancelReadsLoop, CancelRequests, CancelLocks,
             CancelLeaves, CancelSaves, disk, TypeOK, LoopType
      <4> QED BY <4>1, <1>0
    <3> QED BY <3>1, <3>2
  <2>3. CASE loop.status = "absent" /\ config.kind # "remote"
    <3>1. canceller[c].pc = "idle" /\ task.status = "absent"
      BY <2>3 DEF NoLoopInv
    <3> QED BY <3>1, <1>7 DEF CancelLoads, CancelStep, CancelReadsLoop, CancelRequests, CancelLocks,
              CancelLeaves, CancelSaves, CancellerAt
  <2> QED BY <2>1, <2>2, <2>3
<1> QED BY <1>1, <1>2, <1>3, <1>4, <1>5, <1>6, <1>7 DEF Next

\* What every step leaves of the environment: the submission is fixed, what an
\* adapter returned stays returned, and a file is only ever rewritten.
LEMMA EnvStep ==
  ASSUME TypeOK, ThreadInv, Next \/ UNCHANGED vars
  PROVE  /\ config' = config /\ order' = order
         /\ submission' \in {"new", "bound", "done"} /\ overtime' \in BOOLEAN
         /\ crashes' \in 0..config.crashes
         /\ produced \subseteq produced' /\ produced' \subseteq Subtasks
         /\ file' \in [Subtasks -> {"absent", "old", "new"}]
         /\ \A s \in Subtasks : file'[s] \in {file[s], "new"}
<1> DEFINE Files == /\ produced \subseteq produced' /\ produced' \subseteq Subtasks
                    /\ file' \in [Subtasks -> {"absent", "old", "new"}]
                    /\ \A s \in Subtasks : file'[s] \in {file[s], "new"}
           Rest == /\ config' = config /\ order' = order
                   /\ submission' \in {"new", "bound", "done"} /\ overtime' \in BOOLEAN
                   /\ crashes' \in 0..config.crashes
<1>1. ASSUME UNCHANGED <<file, produced>>
      PROVE  Files
  BY <1>1 DEF TypeOK
<1>2. ASSUME UNCHANGED <<config, order, submission, overtime, crashes>>
      PROVE  Rest
  BY <1>2 DEF TypeOK
<1>3. CASE UNCHANGED vars
  BY <1>3, <1>1, <1>2 DEF vars, env
<1>4. CASE SubmitLoop \/ SubmitTask \/ SubmitReleaseE2eTask \/ SubmitRemote \/ TimePasses
  <2>1. Files
    BY <1>4, <1>1 DEF SubmitLoop, SubmitTask, SubmitReleaseE2eTask, SavesTask, SubmitRemote,
         TimePasses
  <2>2. Rest
    BY <1>4 DEF SubmitLoop, SubmitTask, SubmitReleaseE2eTask, SavesTask, SubmitRemote, TimePasses,
         TypeOK
  <2> QED BY <2>1, <2>2
<1>5. ASSUME NEW r \in Runners, RunLoads(r) \/ RunLoopDirect(r) \/ RunStep(r)
      PROVE  Files /\ Rest
  <2>1. UNCHANGED file /\ UNCHANGED env
    BY <1>5 DEF RunLoads, RunLoopDirect, RunStep, MarkTaskStarted, EnterTerminal, EnterOpen,
         EnterRunning, HeadStops, HeadCancels, HeadDispatches, HeadExhausted, HeadEvaluates,
         HeadCompletes, DispatchReturns, DispatchCancelled, DispatchRaised, DispatchOver,
         DispatchDetached, GateLoads, GateSaves, GateRecords, SyncLoads, SyncSaves
  <2> QED BY <2>1, <1>1, <1>2 DEF env
<1>6. ASSUME NEW r \in Runners, Crash(r)
      PROVE  Files /\ Rest
  <2>1. Files
    BY <1>6, <1>1 DEF Crash
  <2>2. config \in ConfigType
    BY ConfigAssumption DEF TypeOK
  <2>3. crashes' \in 0..config.crashes
    BY <1>6, <2>2 DEF Crash, TypeOK, ConfigType
  <2> QED BY <2>1, <2>3, <1>6 DEF Crash, TypeOK
<1>7. ASSUME NEW r \in Runners, ThreadStep(r)
      PROVE  Files /\ Rest
  <2>1. CASE AdapterReturns(r)
    <3>1. Sub(r) \in Subtasks
      BY <2>1, SubInPlan DEF AdapterReturns, ThreadAt, ThreadInv
    <3>2. Files
      BY <3>1, <2>1 DEF AdapterReturns, TypeOK
    <3> QED BY <3>2, <2>1, <1>2 DEF AdapterReturns
  <2>2. CASE DispatchAppGrade(r)
    <3>1. Files
      BY <2>2 DEF DispatchAppGrade, TypeOK
    <3> QED BY <3>1, <2>2, <1>2 DEF DispatchAppGrade
  <2>3. CASE ~AdapterReturns(r) /\ ~DispatchAppGrade(r)
    <3>1. UNCHANGED file /\ UNCHANGED env
      BY <2>3, <1>7 DEF ThreadStep, ThreadCreates, ThreadLoads, ThreadMarks, ThreadSkips, ThreadPicks,
           ThreadReturns, ThreadSaves, AdapterRaises, AdapterCancelled, ThreadFails, ThreadExits
    <3> QED BY <3>1, <1>1, <1>2 DEF env
  <2> QED BY <2>1, <2>2, <2>3
<1>8. ASSUME NEW c \in Cancellers, CancelLoads(c) \/ CancelStep(c)
      PROVE  Files /\ Rest
  <2>1. UNCHANGED file /\ UNCHANGED env
    BY <1>8 DEF CancelLoads, CancelStep, CancelReadsLoop, CancelRequests, CancelLocks, CancelLeaves,
         CancelSaves
  <2> QED BY <2>1, <1>1, <1>2 DEF env
<1>9. Files /\ Rest
  BY <1>3, <1>4, <1>5, <1>6, <1>7, <1>8 DEF Next
<1> QED BY <1>9

\* Every record keeps its type.
LEMMA TypeKept ==
  ASSUME TypeOK, ThreadInv, NoLoopInv, Next \/ UNCHANGED vars
  PROVE  TypeOK'
<1> DEFINE Records == /\ Shaped(task', loop', runner', thread', canceller')
                      /\ request' \in BOOLEAN /\ lock' \in Runners \cup {None}
<1>1. Records
  <2>1. CASE UNCHANGED vars
    BY <2>1 DEF Shaped, TypeOK, vars, disk, calls
  <2>2. CASE SubmitLoop
    <3>1. loop' \in LoopType
      BY <2>2 DEF SubmitLoop, TypeOK, LoopType
    <3> QED BY <3>1, <2>2 DEF Shaped, TypeOK, SubmitLoop, calls
  <2>3. CASE SubmitTask \/ SubmitReleaseE2eTask \/ SubmitRemote
    <3>1. NewTask("pending") \in TaskType
      BY InitialTypes
    <3> QED BY <3>1, <2>3 DEF Shaped, TypeOK, SubmitTask, SubmitReleaseE2eTask, SavesTask,
              SubmitRemote, calls
  <2>4. CASE TimePasses
    BY <2>4 DEF Shaped, TypeOK, TimePasses, calls, disk
  <2>5. ASSUME NEW r \in Runners,
               RunLoads(r) \/ RunLoopDirect(r) \/ RunStep(r) \/ ThreadStep(r) \/ Crash(r)
        PROVE  Records
    BY <2>5, RunTypes, ThreadTypes
  <2>6. ASSUME NEW c \in Cancellers, CancelLoads(c) \/ CancelStep(c)
        PROVE  Records
    BY <2>6, CancelTypes
  <2> QED BY <2>1, <2>2, <2>3, <2>4, <2>5, <2>6 DEF Next
<1>2. /\ config' = config /\ order' = order
      /\ submission' \in {"new", "bound", "done"} /\ overtime' \in BOOLEAN
      /\ crashes' \in 0..config.crashes /\ produced' \in SUBSET Subtasks
      /\ file' \in [Subtasks -> {"absent", "old", "new"}]
  BY EnvStep
<1>3. Subtasks' = Subtasks
  BY <1>2 DEF Subtasks
<1>4. TaskType' = TaskType
  BY <1>3 DEF TaskType
<1>5. RunnerType' = RunnerType /\ ThreadType' = ThreadType /\ CancellerType' = CancellerType
  BY <1>4 DEF RunnerType, ThreadType, CancellerType
<1> QED BY <1>1, <1>2, <1>3, <1>4, <1>5 DEF TypeOK, Shaped

\* Types, and what they rest on.
BaseInv == TypeOK /\ ThreadInv /\ NoLoopInv

\* BaseInv holds of a new task.
LEMMA BaseInit == Init => BaseInv
<1> SUFFICES ASSUME Init PROVE BaseInv
  OBVIOUS
<1>1. config \in ConfigType
  BY ConfigAssumption DEF Init
<1>2. loop \in LoopType
  BY RuntimeBoundAssumption DEF Init, LoopType
<1>3. file \in [Subtasks -> {"absent", "old", "new"}]
  BY DEF Init
<1>4. crashes \in 0..config.crashes
  BY <1>1 DEF Init, ConfigType
<1>5. TypeOK
  BY <1>2, <1>3, <1>4, InitialTypes DEF Init, TypeOK
<1>6. ThreadInv
  BY DEF Init, ThreadInv, NoThread
<1>7. NoLoopInv
  BY DEF Init, NoLoopInv, NoThread, IdleRunner, IdleCanceller, NoTask, NewTask
<1> QED BY <1>5, <1>6, <1>7 DEF BaseInv

\* BaseInv always holds.
LEMMA BaseCorrect == Spec => []BaseInv
<1>1. BaseInv /\ [Next]_vars => BaseInv'
  BY TypeKept, ThreadKept, NoLoopKept DEF BaseInv
<1> QED BY <1>1, BaseInit, PTL DEF Spec
-----------------------------------------------------------------------------
(* A completed task has delivered.                                         *)

\* What a record, a call and the loop must be after a step.
Good(t) == t.kept \subseteq produced' /\ (t.status = "completed" => Delivered')
GoodRunner(x) == Good(x.task) /\ (x.passed \/ x.saw = "completed" => Delivered')
GoodLoop(l) == l.due = "finish" \/ l.status = "completed" => Delivered'

\* Delivery is for good: no step takes back a file, a rewrite or a report.
LEMMA DeliveredStays ==
  ASSUME BaseInv, Next \/ UNCHANGED vars, Delivered
  PROVE  Delivered'
<1>1. /\ config' = config /\ produced \subseteq produced'
      /\ \A s \in Subtasks : file'[s] \in {file[s], "new"}
  BY EnvStep DEF BaseInv
<1>2. Subtasks' = Subtasks /\ \A s : Baselined(s)' <=> Baselined(s)
  BY <1>1 DEF Subtasks, Baselined
<1> QED BY <1>1, <1>2 DEF Delivered

\* The gate's verdict is a fact about the project, whatever copy of the record it
\* was reached on.
LEMMA PassedDelivered ==
  ASSUME TypeOK, config.kind # "app", NEW t, t.kept \subseteq produced, QualityPassed(t)
  PROVE  Delivered
BY DEF QualityPassed, Delivered, TypeOK

\* What was good enough before a step is after it.
LEMMA GoodKept ==
  ASSUME BaseInv, DeliveryInv, Next \/ UNCHANGED vars, config.kind # "app"
  PROVE  /\ \A t : Honest(t) => Good(t)
         /\ Good(task) /\ GoodLoop(loop)
         /\ \A r \in Runners : GoodRunner(runner[r]) /\ Good(thread[r].task)
         /\ \A c \in Cancellers : Good(canceller[c].task)
         /\ Good(NoTask) /\ GoodRunner(IdleRunner) /\ Good(NewTask("pending"))
<1>1. produced \subseteq produced'
  BY EnvStep DEF BaseInv
<1>2. \A t : Honest(t) => Good(t)
  BY <1>1, DeliveredStays DEF Honest, Good
<1>3. Good(NoTask) /\ Good(NewTask("pending"))
  BY DEF Good, NoTask, NewTask
<1>4. GoodRunner(IdleRunner)
  BY <1>3 DEF GoodRunner, IdleRunner
<1>5. Good(task) /\ GoodLoop(loop)
  BY <1>2, DeliveredStays DEF DeliveryInv, GoodLoop
<1>6. \A r \in Runners : GoodRunner(runner[r]) /\ Good(thread[r].task)
  BY <1>2, DeliveredStays DEF DeliveryInv, GoodRunner
<1>7. \A c \in Cancellers : Good(canceller[c].task)
  BY <1>2 DEF DeliveryInv
<1> QED BY <1>2, <1>3, <1>4, <1>5, <1>6, <1>7

\* A record saved with a status of its own.
LEMMA GoodStatus ==
  ASSUME NEW t \in TaskType, Good(t), NEW s, s = "completed" => Delivered'
  PROVE  Good([t EXCEPT !.status = s])
BY DEF Good, TaskType

\* A run_task call's own record after it has returned from run_loop.
LEMMA ReturnedGood ==
  ASSUME BaseInv, GoodRunner(IdleRunner), NEW r \in Runners, NEW saw,
         saw = "completed" => Delivered', Returned(r, saw)
  PROVE  GoodRunner(runner'[r]) /\ \A q \in Runners \ {r} : runner'[q] = runner[q]
<1>1. GoodRunner([IdleRunner EXCEPT !.pc = "returned", !.saw = saw])
  BY DEF GoodRunner, IdleRunner
<1> QED BY <1>1 DEF Returned, BaseInv, TypeOK

\* The steps of a run_task call leave every record good.
LEMMA RunGood ==
  ASSUME BaseInv, DeliveryInv, config.kind # "app", NEW r \in Runners,
         RunLoads(r) \/ RunLoopDirect(r) \/ RunStep(r) \/ Crash(r)
  PROVE  /\ Good(task') /\ GoodLoop(loop') /\ GoodRunner(runner'[r])
         /\ \A q \in Runners \ {r} : runner'[q] = runner[q]
         /\ \A q \in Runners : thread'[q] = thread[q] \/ thread'[q].task = NoTask
         /\ canceller' = canceller
<1>0. Next
  BY DEF Next
<1>a. /\ Good(task) /\ GoodLoop(loop) /\ GoodRunner(runner[r]) /\ Good(runner[r].task)
      /\ Good(NoTask) /\ GoodRunner(IdleRunner)
  BY <1>0, GoodKept DEF GoodRunner
<1>b. /\ task \in TaskType /\ runner[r].task \in TaskType /\ runner[r] \in RunnerType
      /\ loop \in LoopType /\ runner \in [Runners -> RunnerType]
      /\ thread \in [Runners -> ThreadType]
  BY DEF BaseInv, TypeOK, RunnerType
<1> DEFINE Others == /\ \A q \in Runners \ {r} : runner'[q] = runner[q]
                     /\ \A q \in Runners : thread'[q] = thread[q] \/ thread'[q].task = NoTask
                     /\ canceller' = canceller
<1>c. ASSUME NEW s, s = "completed" => Delivered', Ends(r, s)
      PROVE  /\ GoodLoop(loop') /\ GoodRunner(runner'[r])
             /\ \A q \in Runners \ {r} : runner'[q] = runner[q]
  <2>1. loop'.due = loop.due /\ loop'.status = s
    BY <1>c, <1>b DEF Ends, LoopType
  <2>2. GoodLoop(loop')
    BY <2>1, <1>c, <1>a DEF GoodLoop
  <2> QED BY <2>2, <1>c, <1>a, ReturnedGood DEF Ends
<1>d. ASSUME NEW pc, Goto(r, pc)
      PROVE  GoodRunner(runner'[r]) /\ \A q \in Runners \ {r} : runner'[q] = runner[q]
  <2>1. runner'[r].task = runner[r].task /\ runner'[r].passed = runner[r].passed
        /\ runner'[r].saw = runner[r].saw
    BY <1>d, <1>b DEF Goto, RunnerType
  <2> QED BY <2>1, <1>d, <1>a, <1>b DEF GoodRunner, Goto
<1>e. ASSUME thread' = [thread EXCEPT ![r] = NoThread]
      PROVE  \A q \in Runners : thread'[q] = thread[q] \/ thread'[q].task = NoTask
  BY <1>e, <1>b DEF NoThread
<1>1. CASE RunLoads(r)
  <2>1. runner'[r] = [runner[r] EXCEPT !.pc = "loaded", !.task = task] /\ Others
    BY <1>1, <1>b DEF RunLoads
  <2>2. GoodRunner(runner'[r])
    BY <2>1, <1>a, <1>b DEF GoodRunner, RunnerType
  <2> QED BY <2>1, <2>2, <1>1, <1>a DEF RunLoads, disk
<1>2. CASE RunLoopDirect(r)
  <2>1. runner'[r] = [runner[r] EXCEPT !.pc = "lock", !.direct = TRUE] /\ Others
    BY <1>2, <1>b DEF RunLoopDirect
  <2>2. GoodRunner(runner'[r])
    BY <2>1, <1>a, <1>b DEF GoodRunner, RunnerType
  <2> QED BY <2>1, <2>2, <1>2, <1>a DEF RunLoopDirect, disk
<1>3. CASE MarkTaskStarted(r)
  <2>1. Good(task')
    BY <1>3, <1>a, <1>b, GoodStatus DEF MarkTaskStarted
  <2>2. GoodRunner(runner'[r]) /\ Others
    BY <1>3, <1>a, <1>b DEF MarkTaskStarted, GoodRunner, IdleRunner
  <2> QED BY <2>1, <2>2, <1>3, <1>a DEF MarkTaskStarted
<1>4. CASE EnterTerminal(r)
  <2>1. loop.status = "completed" => Delivered'
    BY <1>a DEF GoodLoop
  <2> QED BY <2>1, <1>4, <1>a, ReturnedGood DEF EnterTerminal
<1>5. CASE EnterOpen(r)
  <2>1. loop.status = "completed" => Delivered'
    BY <1>a DEF GoodLoop
  <2>2. CASE Returned(r, loop.status) /\ UNCHANGED loop
    BY <2>1, <2>2, <1>5, <1>a, ReturnedGood DEF EnterOpen
  <2>3. CASE Ends(r, "failed")
    BY <2>3, <1>5, <1>a, <1>c DEF EnterOpen
  <2> QED BY <2>2, <2>3, <1>5 DEF EnterOpen
<1>6. CASE EnterRunning(r)
  <2>1. loop'.due = loop.due /\ loop'.status = "running"
    BY <1>6, <1>b DEF EnterRunning, LoopType
  <2>2. GoodLoop(loop')
    BY <2>1, <1>a DEF GoodLoop
  <2> QED BY <2>2, <1>6, <1>a, <1>d DEF EnterRunning
<1>7. CASE HeadStops(r)
  BY <1>7, <1>a, <1>c DEF HeadStops
<1>8. CASE HeadCancels(r)
  BY <1>8, <1>a, <1>c DEF HeadCancels
<1>9. CASE HeadDispatches(r)
  <2>1. loop'.due = loop.due /\ loop'.status = loop.status
    BY <1>9, <1>b DEF HeadDispatches, LoopType
  <2>2. GoodLoop(loop')
    BY <2>1, <1>a DEF GoodLoop
  <2>3. \A q \in Runners : thread'[q] = thread[q] \/ thread'[q].task = NoTask
    BY <1>9, <1>b DEF HeadDispatches, NoThread
  <2> QED BY <2>2, <2>3, <1>9, <1>a, <1>d DEF HeadDispatches
<1>10. CASE HeadExhausted(r)
  BY <1>10, <1>a, <1>c DEF HeadExhausted
<1>11. CASE HeadEvaluates(r)
  <2>1. loop'.due = loop.due /\ loop'.status = loop.status
    BY <1>11, <1>b DEF HeadEvaluates, LoopType
  <2>2. GoodLoop(loop')
    BY <2>1, <1>a DEF GoodLoop
  <2> QED BY <2>2, <1>11, <1>a, <1>d DEF HeadEvaluates
<1>12. CASE HeadCompletes(r)
  <2>1. loop.due = "finish"
    BY <1>12 DEF HeadCompletes, Selects
  <2>2. Delivered'
    BY <2>1, <1>a DEF GoodLoop
  <2> QED BY <2>2, <1>12, <1>a, <1>c DEF HeadCompletes
<1>13. CASE DispatchReturns(r)
  <2>1. loop'.due = "gate" /\ loop'.status = loop.status
    BY <1>13, <1>b DEF DispatchReturns, LoopType
  <2>2. GoodLoop(loop')
    BY <2>1, <1>a DEF GoodLoop
  <2> QED BY <2>2, <1>13, <1>a, <1>d, <1>e DEF DispatchReturns, DispatchOver
<1>14. CASE DispatchCancelled(r)
  BY <1>14, <1>a, <1>c, <1>e DEF DispatchCancelled, DispatchOver
<1>15. CASE DispatchRaised(r)
  BY <1>15, <1>a, <1>c, <1>e DEF DispatchRaised, DispatchOver
<1>16. CASE DispatchDetached(r)
  BY <1>16, <1>a, <1>c DEF DispatchDetached
<1>17. CASE GateLoads(r)
  <2>1. QualityPassed(task) => Delivered'
    BY <1>0, PassedDelivered, DeliveredStays DEF DeliveryInv, Honest, BaseInv
  <2>2. /\ runner'[r] = [runner[r] EXCEPT !.pc = "gated", !.task = task,
                                          !.passed = QualityPassed(task)]
        /\ Others
    BY <1>17, <1>b DEF GateLoads
  <2>3. GoodRunner(runner'[r])
    BY <2>1, <2>2, <1>a, <1>b DEF GoodRunner, RunnerType
  <2> QED BY <2>2, <2>3, <1>17, <1>a DEF GateLoads, disk
<1>18. CASE GateSaves(r)
  <2>1. runner[r].passed => Delivered'
    BY <1>a DEF GoodRunner
  <2>2. Good(task')
    BY <2>1, <1>18, <1>a, <1>b, GoodStatus DEF GateSaves
  <2>3. runner'[r] = [runner[r] EXCEPT !.pc = "record", !.task = NoTask] /\ Others
    BY <1>18, <1>b DEF GateSaves
  <2>4. GoodRunner(runner'[r])
    BY <2>3, <1>a, <1>b DEF GoodRunner, RunnerType
  <2> QED BY <2>2, <2>3, <2>4, <1>18, <1>a DEF GateSaves
<1>19. CASE GateRecords(r)
  <2>1. runner[r].passed => Delivered'
    BY <1>a DEF GoodRunner
  <2>2. /\ loop'.status = loop.status
        /\ loop'.due = IF runner[r].passed THEN "finish" ELSE "remediate"
    BY <1>19, <1>b DEF GateRecords, LoopType
  <2>3. GoodLoop(loop')
    BY <2>1, <2>2, <1>a DEF GoodLoop
  <2>4. GoodRunner(runner'[r]) /\ Others
    BY <1>19, <1>a, <1>b DEF GateRecords, GoodRunner, IdleRunner
  <2> QED BY <2>3, <2>4, <1>19, <1>a DEF GateRecords
<1>20. CASE SyncLoads(r)
  <2>1. runner'[r] = [runner[r] EXCEPT !.pc = "sync", !.task = task] /\ Others
    BY <1>20, <1>b DEF SyncLoads
  <2>2. GoodRunner(runner'[r])
    BY <2>1, <1>a, <1>b DEF GoodRunner, RunnerType
  <2> QED BY <2>1, <2>2, <1>20, <1>a DEF SyncLoads, disk
<1>21. CASE SyncSaves(r)
  <2>1. SyncedStatus(runner[r].task.status, runner[r].saw) = "completed" => Delivered'
    BY <1>a DEF SyncedStatus, Good, GoodRunner
  <2>2. Good(task')
    BY <2>1, <1>21, <1>a, <1>b, GoodStatus DEF SyncSaves
  <2>3. GoodRunner(runner'[r]) /\ Others
    BY <1>21, <1>a, <1>b DEF SyncSaves
  <2> QED BY <2>2, <2>3, <1>21, <1>a DEF SyncSaves
<1>22. CASE Crash(r)
  <2>1. GoodRunner(runner'[r]) /\ Others
    BY <1>22, <1>a, <1>b, <1>e DEF Crash
  <2> QED BY <2>1, <1>22, <1>a DEF Crash, disk
<1> QED BY <1>1, <1>2, <1>3, <1>4, <1>5, <1>6, <1>7, <1>8, <1>9, <1>10, <1>11, <1>12, <1>13, <1>14,
           <1>15, <1>16, <1>17, <1>18, <1>19, <1>20, <1>21, <1>22 DEF RunStep

\* The steps of a dispatch thread leave every record good.
LEMMA ThreadGood ==
  ASSUME BaseInv, DeliveryInv, config.kind # "app", NEW r \in Runners, ThreadStep(r)
  PROVE  /\ Good(task') /\ Good(thread'[r].task)
         /\ \A q \in Runners \ {r} : thread'[q] = thread[q]
         /\ UNCHANGED <<loop, runner, canceller>>
<1>0. Next
  BY DEF Next
<1>a. Good(task) /\ Good(thread[r].task) /\ Good(NoTask) /\ Good(NewTask("pending"))
  BY <1>0, GoodKept
<1>b. /\ task \in TaskType /\ thread[r].task \in TaskType /\ thread[r] \in ThreadType
      /\ thread \in [Runners -> ThreadType]
  BY DEF BaseInv, TypeOK, ThreadType
<1>c. ASSUME NEW pc, thread' = [thread EXCEPT ![r] = [NoThread EXCEPT !.pc = pc]]
      PROVE  thread'[r].task = NoTask /\ \A q \in Runners \ {r} : thread'[q] = thread[q]
  BY <1>c, <1>b DEF NoThread
<1>1. CASE ThreadCreates(r)
  BY <1>1, <1>a DEF ThreadCreates, calls
<1>2. CASE ThreadLoads(r)
  <2>1. thread'[r].task \in {task, NoTask} /\ \A q \in Runners \ {r} : thread'[q] = thread[q]
    BY <1>2, <1>b DEF ThreadLoads, ThreadType
  <2> QED BY <2>1, <1>2, <1>a DEF ThreadLoads, disk
<1>3. CASE ThreadMarks(r)
  <2>1. Good(task')
    BY <1>3, <1>a, <1>b, GoodStatus DEF ThreadMarks
  <2>2. thread'[r].task \in {task', NoTask} /\ \A q \in Runners \ {r} : thread'[q] = thread[q]
    BY <1>3, <1>b DEF ThreadMarks, ThreadType
  <2> QED BY <2>1, <2>2, <1>3, <1>a DEF ThreadMarks
<1>4. CASE ThreadSkips(r)
  <2>1. thread'[r].task = thread[r].task /\ \A q \in Runners \ {r} : thread'[q] = thread[q]
    BY <1>4, <1>b DEF ThreadSkips, ThreadType
  <2> QED BY <2>1, <1>4, <1>a DEF ThreadSkips, disk
<1>5. CASE ThreadPicks(r)
  <2>1. thread'[r].task = task /\ \A q \in Runners \ {r} : thread'[q] = thread[q]
    BY <1>5, <1>b DEF ThreadPicks, ThreadType
  <2> QED BY <2>1, <1>5, <1>a DEF ThreadPicks, disk
<1>6. CASE ThreadReturns(r)
  BY <1>6, <1>a, <1>c DEF ThreadReturns, disk
<1>7. CASE AdapterReturns(r)
  <2>1. /\ thread'[r].task = Reported(thread[r].task, Sub(r))
        /\ \A q \in Runners \ {r} : thread'[q] = thread[q]
    BY <1>7, <1>b DEF AdapterReturns, ThreadType
  <2>2. /\ Reported(thread[r].task, Sub(r)).status = thread[r].task.status
        /\ Reported(thread[r].task, Sub(r)).kept \subseteq thread[r].task.kept \cup {Sub(r)}
    BY <1>b DEF Reported, TaskType
  <2>3. produced' = produced \cup {Sub(r)}
    BY <1>7 DEF AdapterReturns
  <2>4. Good(Reported(thread[r].task, Sub(r)))
    BY <2>2, <2>3, <1>a DEF Good
  <2> QED BY <2>1, <2>4, <1>7, <1>a DEF AdapterReturns, disk
<1>8. CASE ThreadSaves(r)
  <2>1. thread'[r].task = NoTask /\ \A q \in Runners \ {r} : thread'[q] = thread[q]
    BY <1>8, <1>b DEF ThreadSaves, ThreadType
  <2> QED BY <2>1, <1>8, <1>a DEF ThreadSaves
<1>9. ASSUME NEW pc, NEW s, s # "completed", ThreadFails(r, pc, s)
      PROVE  /\ Good(task') /\ Good(thread'[r].task)
             /\ \A q \in Runners \ {r} : thread'[q] = thread[q]
             /\ UNCHANGED <<loop, runner, canceller>>
  <2>1. task'.status = s /\ task'.kept = thread[r].task.kept
    BY <1>9, <1>b DEF ThreadFails, TaskType
  <2>2. Good(task')
    BY <2>1, <1>9, <1>a DEF Good
  <2> QED BY <2>2, <1>9, <1>a, <1>c DEF ThreadFails
<1>10. CASE AdapterRaises(r)
  BY <1>10, <1>9 DEF AdapterRaises
<1>11. CASE AdapterCancelled(r)
  BY <1>11, <1>9 DEF AdapterCancelled
<1>12. CASE DispatchAppGrade(r)
  BY <1>12 DEF DispatchAppGrade
<1>13. CASE ThreadExits(r)
  BY <1>13, <1>a, <1>b DEF ThreadExits, NoThread, disk
<1> QED BY <1>1, <1>2, <1>3, <1>4, <1>5, <1>6, <1>7, <1>8, <1>10, <1>11, <1>12, <1>13
        DEF ThreadStep

\* The steps of a cancel_task call leave every record good.
LEMMA CancelGood ==
  ASSUME BaseInv, DeliveryInv, config.kind # "app", NEW c \in Cancellers,
         CancelLoads(c) \/ CancelStep(c)
  PROVE  /\ Good(task') /\ GoodLoop(loop') /\ Good(canceller'[c].task)
         /\ \A d \in Cancellers \ {c} : canceller'[d] = canceller[d]
         /\ UNCHANGED <<runner, thread>>
<1>0. Next
  BY DEF Next
<1>a. Good(task) /\ GoodLoop(loop) /\ Good(canceller[c].task) /\ Good(NoTask)
  BY <1>0, GoodKept
<1>b. /\ task \in TaskType /\ canceller[c].task \in TaskType /\ loop \in LoopType
      /\ canceller \in [Cancellers -> CancellerType]
  BY DEF BaseInv, TypeOK, CancellerType
<1>c. ASSUME NEW pc, CancelGoto(c, pc)
      PROVE  /\ canceller'[c].task = canceller[c].task
             /\ \A d \in Cancellers \ {c} : canceller'[d] = canceller[d]
  BY <1>c, <1>b DEF CancelGoto, CancellerType
<1>1. CASE CancelLoads(c)
  <2>1. canceller'[c].task = task /\ \A d \in Cancellers \ {c} : canceller'[d] = canceller[d]
    BY <1>1, <1>b DEF CancelLoads, CancellerType
  <2> QED BY <2>1, <1>1, <1>a DEF CancelLoads, disk
<1>2. CASE CancelReadsLoop(c)
  BY <1>2, <1>a, <1>c DEF CancelReadsLoop
<1>3. CASE CancelRequests(c)
  BY <1>3, <1>a, <1>c DEF CancelRequests
<1>4. CASE CancelLocks(c)
  <2>1. loop'.due = loop.due /\ loop'.status \in {loop.status, "cancelled"}
    BY <1>4, <1>b DEF CancelLocks, LoopType
  <2>2. GoodLoop(loop')
    BY <2>1, <1>a DEF GoodLoop
  <2> QED BY <2>2, <1>4, <1>a, <1>c DEF CancelLocks
<1>5. CASE CancelLeaves(c)
  BY <1>5, <1>a, <1>c DEF CancelLeaves, disk
<1>6. CASE CancelSaves(c)
  <2>1. Good(task')
    BY <1>6, <1>a, <1>b, GoodStatus DEF CancelSaves
  <2>2. canceller'[c].task = NoTask /\ \A d \in Cancellers \ {c} : canceller'[d] = canceller[d]
    BY <1>6, <1>b DEF CancelSaves, IdleCanceller
  <2> QED BY <2>1, <2>2, <1>6, <1>a DEF CancelSaves
<1> QED BY <1>1, <1>2, <1>3, <1>4, <1>5, <1>6 DEF CancelStep

\* DeliveryInv is kept.
LEMMA DeliveryKept ==
  ASSUME BaseInv, DeliveryInv, Next \/ UNCHANGED vars
  PROVE  DeliveryInv'
<1>0. config' = config
  BY EnvStep DEF BaseInv
<1> SUFFICES ASSUME config.kind # "app" PROVE DeliveryInv'
  BY <1>0 DEF DeliveryInv
<1>1. SUFFICES /\ Good(task') /\ GoodLoop(loop')
               /\ \A r \in Runners : GoodRunner(runner'[r]) /\ Good(thread'[r].task)
               /\ \A c \in Cancellers : Good(canceller'[c].task)
  BY DEF DeliveryInv, Good, GoodRunner, GoodLoop, Honest
<1>2. /\ Good(task) /\ GoodLoop(loop)
      /\ \A r \in Runners : GoodRunner(runner[r]) /\ Good(thread[r].task)
      /\ \A c \in Cancellers : Good(canceller[c].task)
      /\ Good(NoTask) /\ GoodRunner(IdleRunner) /\ Good(NewTask("pending"))
  BY GoodKept
<1>3. CASE UNCHANGED vars
  BY <1>3, <1>2 DEF vars, disk, calls
<1>4. CASE SubmitLoop
  <2>1. loop'.due = loop.due /\ loop'.status = "pending"
    BY <1>4 DEF SubmitLoop, BaseInv, TypeOK, LoopType
  <2>2. GoodLoop(loop')
    BY <2>1, <1>2 DEF GoodLoop
  <2> QED BY <2>2, <1>4, <1>2 DEF SubmitLoop, calls
<1>5. CASE SubmitTask \/ SubmitReleaseE2eTask \/ SubmitRemote
  BY <1>5, <1>2 DEF SubmitTask, SubmitReleaseE2eTask, SavesTask, SubmitRemote, calls
<1>6. CASE TimePasses
  BY <1>6, <1>2 DEF TimePasses, calls, disk
<1>7. ASSUME NEW r \in Runners, RunLoads(r) \/ RunLoopDirect(r) \/ RunStep(r) \/ Crash(r)
      PROVE  /\ Good(task') /\ GoodLoop(loop')
             /\ \A q \in Runners : GoodRunner(runner'[q]) /\ Good(thread'[q].task)
             /\ \A c \in Cancellers : Good(canceller'[c].task)
  BY <1>7, <1>2, RunGood
<1>8. ASSUME NEW r \in Runners, ThreadStep(r)
      PROVE  /\ Good(task') /\ GoodLoop(loop')
             /\ \A q \in Runners : GoodRunner(runner'[q]) /\ Good(thread'[q].task)
             /\ \A c \in Cancellers : Good(canceller'[c].task)
  BY <1>8, <1>2, ThreadGood
<1>9. ASSUME NEW c \in Cancellers, CancelLoads(c) \/ CancelStep(c)
      PROVE  /\ Good(task') /\ GoodLoop(loop')
             /\ \A q \in Runners : GoodRunner(runner'[q]) /\ Good(thread'[q].task)
             /\ \A d \in Cancellers : Good(canceller'[d].task)
  BY <1>9, <1>2, CancelGood
<1> QED BY <1>3, <1>4, <1>5, <1>6, <1>7, <1>8, <1>9 DEF Next

\* A completed task has delivered, for any plan and however many run_task and
\* cancel_task calls save stale copies of the record, crash and start again.
THEOREM DeliveryCorrect == Spec => []CompletedDelivered
<1>1. Init => DeliveryInv
  BY DEF Init, DeliveryInv, Honest, NoTask, NewTask, IdleRunner, NoThread, IdleCanceller
<1>2. BaseInv /\ DeliveryInv /\ [Next]_vars => DeliveryInv'
  BY DeliveryKept
<1>3. DeliveryInv => CompletedDelivered
  BY DEF DeliveryInv, Honest, Delivered, CompletedDelivered
<1> QED BY <1>1, <1>2, <1>3, BaseCorrect, PTL DEF Spec
-----------------------------------------------------------------------------
(* A decided loop and its task agree once the calls have returned.         *)

\* Calls work on a task that has been submitted.
LEMMA WorkSubmitted ==
  ASSUME SubmissionInv,
         \/ \E r \in Runners :
              RunLoads(r) \/ RunLoopDirect(r) \/ RunStep(r) \/ ThreadStep(r) \/ Crash(r)
         \/ \E c \in Cancellers : CancelLoads(c) \/ CancelStep(c)
  PROVE  submission = "done"
<1> SUFFICES ASSUME submission # "done" PROVE FALSE
  OBVIOUS
<1>1. /\ task.status = "absent"
      /\ \A r \in Runners : runner[r].pc = "idle" /\ thread[r].pc = "none"
      /\ \A c \in Cancellers : canceller[c].pc = "idle"
  BY DEF SubmissionInv
<1>2. ASSUME NEW r \in Runners,
             RunLoads(r) \/ RunLoopDirect(r) \/ RunStep(r) \/ ThreadStep(r) \/ Crash(r)
      PROVE  FALSE
  BY <1>1, <1>2 DEF RunLoads, RunLoopDirect, RunStep, ThreadStep, RunnerAt, MarkTaskStarted,
       EnterTerminal, EnterOpen, EnterRunning, EnterFree, HeadStops, HeadCancels, HeadDispatches,
       HeadExhausted, HeadEvaluates, HeadCompletes, Selects, DispatchReturns, DispatchCancelled,
       DispatchRaised, DispatchOver, DispatchDetached, GateLoads, GateSaves, GateRecords, SyncLoads,
       SyncSaves, ThreadCreates, ThreadLoads, ThreadMarks, ThreadSkips, ThreadPicks, ThreadReturns,
       AdapterReturns, ThreadSaves, AdapterRaises, AdapterCancelled, ThreadFails, DispatchAppGrade,
       ThreadExits, ThreadOver, ThreadAt, Crash
<1>3. ASSUME NEW c \in Cancellers, CancelLoads(c) \/ CancelStep(c)
      PROVE  FALSE
  BY <1>1, <1>3 DEF CancelLoads, CancelStep, CancelReadsLoop, CancelRequests, CancelLocks,
       CancelLeaves, CancelSaves, CancellerAt
<1> QED BY <1>2, <1>3

\* A run_task call that ends the loop, which it holds, and returns.
LEMMA EndsAgrees ==
  ASSUME BaseInv, HoldInv, PassedInv, NEW r \in Runners, NEW s \in LoopTerminal,
         runner[r].pc \in LockHeld, Ends(r, s),
         s = "completed" => loop.due = "finish",
         (thread' = thread /\ runner[r].pc # "dispatch") \/ thread' = [thread EXCEPT ![r] = NoThread],
         UNCHANGED <<task, overtime, canceller>>
  PROVE  HoldInv' /\ PassedInv' /\ PendingSave'
<1>1. lock = r /\ loop.status = "running" /\ runner[r].direct = FALSE
  BY RuntimeBoundAssumption DEF HoldInv
<1>2. /\ loop'.status = s /\ loop'.open = FALSE /\ loop'.due = loop.due /\ lock' = None
  BY DEF Ends, Returned, BaseInv, TypeOK, LoopType
<1>3. /\ runner'[r].pc = "returned" /\ runner'[r].saw = s /\ runner'[r].direct = FALSE
      /\ \A q \in Runners \ {r} : runner'[q] = runner[q]
  BY <1>1 DEF Ends, Returned, BaseInv, TypeOK, IdleRunner
<1>4. \A q \in Runners : thread'[q].pc # "none" => q # r /\ thread[q].pc # "none"
  BY <1>1 DEF BaseInv, TypeOK, NoThread, HoldInv
<1>5. \A q \in Runners \ {r} : runner[q].pc \notin LockHeld \cup {"returned", "sync"}
  BY <1>1 DEF HoldInv, LoopTerminal, Terminal
<1>6. HoldInv'
  <2>1. \A q \in Runners : runner'[q].pc \notin LockHeld
    BY <1>3, <1>5 DEF LockHeld
  <2>2. \A q \in Runners : lock' # q
    BY <1>2, RuntimeBoundAssumption
  <2>3. \A q \in Runners : runner'[q].pc \in {"returned", "sync"} => q = r
    BY <1>3, <1>5
  <2>4. \A q \in Runners : thread'[q].pc = "none"
    BY <1>4, <1>5 DEF HoldInv, LockHeld
  <2>5. overtime' = FALSE /\ \A q \in Runners : runner'[q].direct = FALSE
    BY <1>3 DEF HoldInv
  <2> QED BY <1>2, <1>3, <2>1, <2>2, <2>3, <2>4, <2>5 DEF HoldInv, LockHeld
<1>7. PassedInv'
  <2>1. \A q \in Runners : runner'[q].pc \notin {"record", "sync"}
    BY <1>3, <1>5 DEF LockHeld
  <2>2. s = "completed" => task.status # "failed"
    BY <1>1 DEF PassedInv, LoopTerminal, Terminal
  <2> QED BY <2>1, <2>2, <1>2 DEF PassedInv
<1>8. PendingSave'
  BY <1>3 DEF PendingSave
<1> QED BY <1>6, <1>7, <1>8

\* A run_task call goes on from one of its steps to the next while it holds the
\* lock; the loop stays running.
LEMMA HolderAgrees ==
  ASSUME BaseInv, HoldInv, NEW r \in Runners, runner[r].pc \in LockHeld,
         runner'[r].pc \in LockHeld, runner'[r].direct = runner[r].direct,
         \A q \in Runners \ {r} : runner'[q] = runner[q] /\ thread'[q] = thread[q],
         lock' = lock, overtime' = overtime, loop'.status = loop.status,
         thread'[r].pc # "none" => runner'[r].pc = "dispatch",
         runner'[r].pc = "dispatch" => loop'.due \in {"dispatch", "remediate"},
         runner'[r].pc \in {"evaluate", "gated", "record"} => loop'.due = "gate",
         runner'[r].pc = "record" /\ runner'[r].passed => task'.status # "failed",
         loop'.due = "finish" => task'.status # "failed"
  PROVE  HoldInv' /\ PassedInv' /\ PendingSave'
<1>1. lock = r /\ lock # None /\ loop.status = "running"
  BY RuntimeBoundAssumption DEF HoldInv
<1>2. \A q \in Runners \ {r} : runner[q].pc \notin LockHeld \cup {"returned", "sync"}
  BY <1>1 DEF HoldInv, LoopTerminal, Terminal
<1>3. runner'[r].pc \notin {"returned", "sync"}
  BY DEF LockHeld
<1>4. \A q \in Runners \ {r} : runner[q].pc \notin {"evaluate", "gated", "record", "dispatch"}
  BY <1>2 DEF LockHeld
<1>5. HoldInv'
  BY <1>1, <1>2, <1>3, <1>4 DEF HoldInv
<1>6. loop'.status \notin LoopTerminal
  BY <1>1 DEF LoopTerminal, Terminal
<1>7. PassedInv'
  BY <1>6, <1>1, <1>2, <1>3, <1>4 DEF PassedInv
<1>8. PendingSave'
  BY <1>6 DEF PendingSave
<1> QED BY <1>5, <1>7, <1>8

\* The iterations of the loop.
LEMMA LoopAgrees ==
  ASSUME BaseInv, HoldInv, PassedInv, NEW r \in Runners,
         \/ HeadStops(r) \/ HeadCancels(r) \/ HeadDispatches(r) \/ HeadExhausted(r)
         \/ HeadEvaluates(r) \/ HeadCompletes(r)
         \/ DispatchReturns(r) \/ DispatchCancelled(r) \/ DispatchRaised(r) \/ DispatchDetached(r)
         \/ GateLoads(r) \/ GateSaves(r) \/ GateRecords(r)
  PROVE  HoldInv' /\ PassedInv' /\ PendingSave'
<1>0. /\ task \in TaskType /\ runner[r].task \in TaskType /\ runner[r] \in RunnerType
      /\ loop \in LoopType /\ runner \in [Runners -> RunnerType]
      /\ thread \in [Runners -> ThreadType] /\ overtime = FALSE
  BY DEF BaseInv, TypeOK, RunnerType, HoldInv
<1>a. ASSUME NEW pc, Goto(r, pc)
      PROVE  /\ runner'[r].pc = pc /\ runner'[r].direct = runner[r].direct
             /\ \A q \in Runners \ {r} : runner'[q] = runner[q]
  BY <1>a, <1>0 DEF Goto, RunnerType
<1>b. runner[r].pc # "dispatch" => thread[r].pc = "none"
  BY DEF HoldInv
<1>1. CASE HeadStops(r) \/ DispatchDetached(r)
  BY <1>1, <1>0 DEF HeadStops, DispatchDetached
<1>2. CASE HeadCancels(r) \/ HeadExhausted(r)
  <2>1. \E s \in {"cancelled", "failed"} : Ends(r, s)
    BY <1>2 DEF HeadCancels, HeadExhausted
  <2>2. runner[r].pc = "head" /\ UNCHANGED <<task, thread, canceller, env>>
    BY <1>2 DEF HeadCancels, HeadExhausted, Selects, RunnerAt
  <2> QED BY <2>1, <2>2, EndsAgrees DEF env, LoopTerminal, Terminal, LockHeld
<1>3. CASE HeadCompletes(r)
  <2>1. Ends(r, "completed") /\ loop.due = "finish"
    BY <1>3 DEF HeadCompletes, Selects
  <2>2. runner[r].pc = "head" /\ UNCHANGED <<task, thread, canceller, env>>
    BY <1>3 DEF HeadCompletes, Selects, RunnerAt
  <2> QED BY <2>1, <2>2, EndsAgrees DEF env, LoopTerminal, Terminal, LockHeld
<1>4. CASE DispatchCancelled(r) \/ DispatchRaised(r)
  <2>1. \E s \in {"cancelled", "failed"} : Ends(r, s)
    BY <1>4 DEF DispatchCancelled, DispatchRaised
  <2>2. /\ runner[r].pc = "dispatch" /\ UNCHANGED <<task, canceller, env>>
        /\ thread' = [thread EXCEPT ![r] = NoThread]
    BY <1>4 DEF DispatchCancelled, DispatchRaised, DispatchOver, RunnerAt
  <2> QED BY <2>1, <2>2, EndsAgrees DEF env, LoopTerminal, Terminal, LockHeld
<1>5. CASE HeadDispatches(r)
  <2>1. runner[r].pc = "head" /\ loop.due \in {"dispatch", "remediate"}
    BY <1>5 DEF HeadDispatches, Selects, RunnerAt
  <2>2. loop'.due = loop.due /\ loop'.status = loop.status
    BY <1>5, <1>0 DEF HeadDispatches, LoopType
  <2>3. \A q \in Runners \ {r} : thread'[q] = thread[q]
    BY <1>5, <1>0 DEF HeadDispatches
  <2>4. Goto(r, "dispatch") /\ UNCHANGED <<lock, overtime>>
    BY <1>5 DEF HeadDispatches, env
  <2> QED BY <2>1, <2>2, <2>3, <2>4, <1>a, HolderAgrees DEF LockHeld
<1>6. CASE HeadEvaluates(r)
  <2>1. runner[r].pc = "head" /\ loop.due = "gate"
    BY <1>6 DEF HeadEvaluates, Selects, RunnerAt
  <2>2. loop'.due = loop.due /\ loop'.status = loop.status
    BY <1>6, <1>0 DEF HeadEvaluates, LoopType
  <2>3. Goto(r, "evaluate") /\ UNCHANGED <<lock, overtime, thread>>
    BY <1>6 DEF HeadEvaluates, env
  <2> QED BY <2>1, <2>2, <2>3, <1>a, <1>b, HolderAgrees DEF LockHeld
<1>7. CASE DispatchReturns(r)
  <2>1. runner[r].pc = "dispatch"
    BY <1>7 DEF DispatchReturns, DispatchOver, RunnerAt
  <2>2. loop'.due = "gate" /\ loop'.status = loop.status
    BY <1>7, <1>0 DEF DispatchReturns, LoopType
  <2>3. Goto(r, "head") /\ UNCHANGED <<lock, overtime>>
    BY <1>7 DEF DispatchReturns, DispatchOver, env
  <2>4. thread'[r].pc = "none" /\ \A q \in Runners \ {r} : thread'[q] = thread[q]
    BY <1>7, <1>0 DEF DispatchReturns, DispatchOver, NoThread
  <2> QED BY <2>1, <2>2, <2>3, <2>4, <1>a, HolderAgrees DEF LockHeld
<1>8. CASE GateLoads(r)
  <2>1. runner[r].pc = "evaluate" /\ loop.due = "gate"
    BY <1>8 DEF GateLoads, RunnerAt, HoldInv
  <2>2. /\ runner'[r].pc = "gated" /\ runner'[r].direct = runner[r].direct
        /\ \A q \in Runners \ {r} : runner'[q] = runner[q]
    BY <1>8, <1>0 DEF GateLoads, RunnerType
  <2>3. UNCHANGED <<lock, overtime, thread, loop>>
    BY <1>8 DEF GateLoads, env, disk
  <2> QED BY <2>1, <2>2, <2>3, <1>b, HolderAgrees DEF LockHeld
<1>9. CASE GateSaves(r)
  <2>1. runner[r].pc = "gated" /\ loop.due = "gate"
    BY <1>9 DEF GateSaves, RunnerAt, HoldInv
  <2>2. /\ runner'[r].pc = "record" /\ runner'[r].direct = runner[r].direct
        /\ runner'[r].passed = runner[r].passed
        /\ \A q \in Runners \ {r} : runner'[q] = runner[q]
    BY <1>9, <1>0 DEF GateSaves, RunnerType
  <2>3. runner[r].passed => task'.status = "completed"
    BY <1>9, <1>0 DEF GateSaves, TaskType
  <2>4. UNCHANGED <<lock, overtime, thread, loop>>
    BY <1>9 DEF GateSaves, env
  <2> QED BY <2>1, <2>2, <2>3, <2>4, <1>b, HolderAgrees DEF LockHeld
<1>10. CASE GateRecords(r)
  <2>1. runner[r].pc = "record" /\ (runner[r].passed => task.status # "failed")
    BY <1>10 DEF GateRecords, RunnerAt, PassedInv
  <2>2. /\ runner'[r].pc = "head" /\ runner'[r].direct = runner[r].direct
        /\ \A q \in Runners \ {r} : runner'[q] = runner[q]
    BY <1>10, <1>0 DEF GateRecords, IdleRunner
  <2>3. loop'.status = loop.status /\ (loop'.due = "finish" => runner[r].passed)
    BY <1>10, <1>0 DEF GateRecords, LoopType
  <2>4. UNCHANGED <<task, lock, overtime, thread>>
    BY <1>10 DEF GateRecords, env
  <2> QED BY <2>1, <2>2, <2>3, <2>4, <1>b, HolderAgrees DEF LockHeld
<1> QED BY <1>1, <1>2, <1>3, <1>4, <1>5, <1>6, <1>7, <1>8, <1>9, <1>10

\* A step of a call that does not hold the lock and leaves the loop alone.
LEMMA OutsiderAgrees ==
  ASSUME BaseInv, HoldInv, PassedInv, NEW r \in Runners,
         runner[r].pc \notin LockHeld, runner'[r].pc \notin LockHeld,
         runner'[r].direct = FALSE,
         \A q \in Runners \ {r} : runner'[q] = runner[q],
         runner'[r].pc \in {"returned", "sync"}
           => runner'[r].saw = loop.status /\ loop.status \in LoopTerminal,
         UNCHANGED <<lock, loop, thread, overtime>>,
         task'.status = "failed" =>
           task.status = "failed" \/ (loop.status \in LoopTerminal /\ loop.status # "completed"),
         runner'[r].pc = "sync" /\ loop.status = "completed" => runner'[r].task.status # "failed"
  PROVE  HoldInv' /\ PassedInv'
<1>1. runner'[r].pc \notin {"evaluate", "gated", "record", "dispatch"}
  BY DEF LockHeld
<1>2. runner[r].pc # "dispatch" /\ thread[r].pc = "none"
  BY DEF HoldInv, LockHeld
<1>3. HoldInv'
  BY <1>1, <1>2 DEF HoldInv
<1>4. loop.status \in LoopTerminal => \A q \in Runners : runner[q].pc # "record"
  BY RuntimeBoundAssumption DEF HoldInv, LoopTerminal, Terminal, LockHeld
<1>5. PassedInv'
  BY <1>1, <1>4 DEF PassedInv
<1> QED BY <1>3, <1>5

\* What a decided loop makes of any status is a status it agrees with.
LEMMA SyncedAgrees ==
  ASSUME NEW s \in LoopTerminal, NEW t \in {"absent", "pending", "running"} \cup Terminal,
         s = "completed" => t # "failed"
  PROVE  /\ SyncedStatus(t, s) \in Agreeing(s)
         /\ s = "completed" => SyncedStatus(t, s) # "failed"
BY DEF SyncedStatus, Agreeing, LoopTerminal, Terminal

\* A run_task call before and after the loop.
LEMMA CallAgrees ==
  ASSUME BaseInv, Regular, HoldInv, PassedInv, PendingSave, NEW r \in Runners,
         \/ RunLoads(r) \/ RunLoopDirect(r) \/ MarkTaskStarted(r) \/ EnterTerminal(r)
         \/ EnterOpen(r) \/ EnterRunning(r) \/ SyncLoads(r) \/ SyncSaves(r)
  PROVE  HoldInv' /\ PassedInv' /\ PendingSave'
<1>0. /\ task \in TaskType /\ runner[r].task \in TaskType /\ runner[r] \in RunnerType
      /\ loop \in LoopType /\ runner \in [Runners -> RunnerType]
      /\ runner[r].direct = FALSE /\ r # None
  BY RuntimeBoundAssumption DEF BaseInv, TypeOK, RunnerType, HoldInv
<1>1. CASE RunLoads(r)
  <2>1. /\ runner[r].pc = "idle" /\ runner'[r].pc = "loaded" /\ runner'[r].direct = FALSE
        /\ \A q \in Runners \ {r} : runner'[q] = runner[q]
    BY <1>1, <1>0 DEF RunLoads, RunnerAt, RunnerType
  <2>2. UNCHANGED <<task, lock, loop, thread, canceller, overtime>>
    BY <1>1 DEF RunLoads, disk, env
  <2>3. HoldInv' /\ PassedInv'
    BY <2>1, <2>2, OutsiderAgrees DEF LockHeld
  <2>4. PendingSave'
    BY <2>1, <2>2 DEF PendingSave
  <2> QED BY <2>3, <2>4
<1>2. CASE RunLoopDirect(r)
  BY <1>2 DEF RunLoopDirect, Regular
<1>3. CASE MarkTaskStarted(r)
  <2>1. /\ runner[r].pc = "loaded" /\ runner'[r].pc = "lock" /\ runner'[r].direct = FALSE
        /\ \A q \in Runners \ {r} : runner'[q] = runner[q]
    BY <1>3, <1>0 DEF MarkTaskStarted, RunnerAt, IdleRunner
  <2>2. UNCHANGED <<lock, loop, thread, canceller, overtime>>
    BY <1>3 DEF MarkTaskStarted, env
  <2>3. task'.status \in {task.status, "running"}
    BY <1>3, <1>0 DEF MarkTaskStarted, TaskType
  <2>4. HoldInv' /\ PassedInv'
    BY <2>1, <2>2, <2>3, OutsiderAgrees DEF LockHeld
  <2>5. PendingSave'
    BY <2>1 DEF PendingSave
  <2> QED BY <2>4, <2>5
<1>4. CASE EnterTerminal(r)
  <2>1. /\ runner[r].pc = "lock" /\ runner'[r].pc = "returned" /\ runner'[r].direct = FALSE
        /\ runner'[r].saw = loop.status /\ loop.status \in LoopTerminal
        /\ \A q \in Runners \ {r} : runner'[q] = runner[q]
    BY <1>4, <1>0 DEF EnterTerminal, EnterFree, Returned, RunnerAt, IdleRunner
  <2>2. UNCHANGED <<task, lock, loop, thread, canceller, overtime>>
    BY <1>4 DEF EnterTerminal, EnterFree, Returned, env
  <2>3. HoldInv' /\ PassedInv'
    BY <2>1, <2>2, OutsiderAgrees DEF LockHeld
  <2>4. PendingSave'
    BY <2>1 DEF PendingSave
  <2> QED BY <2>3, <2>4
<1>5. CASE EnterOpen(r)
  BY <1>5 DEF EnterOpen, EnterFree, HoldInv
<1>6. CASE EnterRunning(r)
  <2>1. /\ runner[r].pc = "lock" /\ lock = None /\ loop.status \in {"pending", "running"}
        /\ runner'[r].pc = "head" /\ runner'[r].direct = FALSE /\ lock' = r
        /\ \A q \in Runners \ {r} : runner'[q] = runner[q]
    BY <1>6, <1>0 DEF EnterRunning, EnterFree, Goto, RunnerAt, RunnerType
  <2>2. loop'.status = "running" /\ loop'.due = loop.due /\ loop'.open = loop.open
    BY <1>6, <1>0 DEF EnterRunning, LoopType
  <2>3. UNCHANGED <<task, thread, canceller, overtime>>
    BY <1>6 DEF EnterRunning, env
  <2>4. \A q \in Runners : runner[q].pc \notin LockHeld \cup {"returned", "sync"}
    BY <2>1, RuntimeBoundAssumption DEF HoldInv, LoopTerminal, Terminal
  <2>5. \A q \in Runners : thread[q].pc = "none"
    BY <2>4 DEF HoldInv, LockHeld
  <2>6. HoldInv'
    <3>1. \A q \in Runners : runner'[q].pc \in LockHeld <=> lock' = q
      BY <2>1, <2>4 DEF LockHeld
    <3>2. \A q \in Runners :
            runner'[q].pc \notin {"dispatch", "evaluate", "gated", "record", "returned", "sync"}
      BY <2>1, <2>4 DEF LockHeld
    <3> QED BY <3>1, <3>2, <2>1, <2>2, <2>3, <2>5, <1>0 DEF HoldInv
  <2>7. loop'.status \notin LoopTerminal
    BY <2>2 DEF LoopTerminal, Terminal
  <2>8. PassedInv'
    <3>1. loop.status \notin LoopTerminal
      BY <2>1 DEF LoopTerminal, Terminal
    <3>2. \A q \in Runners : runner'[q].pc \notin {"record", "sync"}
      BY <2>1, <2>4 DEF LockHeld
    <3> QED BY <3>1, <3>2, <2>2, <2>3 DEF PassedInv
  <2> QED BY <2>6, <2>7, <2>8 DEF PendingSave
<1>7. CASE SyncLoads(r)
  <2>1. /\ runner[r].pc = "returned" /\ runner'[r].pc = "sync" /\ runner'[r].direct = FALSE
        /\ runner'[r].saw = runner[r].saw /\ runner'[r].task = task
        /\ \A q \in Runners \ {r} : runner'[q] = runner[q]
    BY <1>7, <1>0 DEF SyncLoads, RunnerAt, RunnerType
  <2>2. runner[r].saw = loop.status /\ loop.status \in LoopTerminal
    BY <2>1 DEF HoldInv
  <2>3. UNCHANGED <<task, lock, loop, thread, canceller, overtime>>
    BY <1>7 DEF SyncLoads, disk, env
  <2>4. loop.status = "completed" => task.status # "failed"
    BY DEF PassedInv
  <2>5. HoldInv' /\ PassedInv'
    BY <2>1, <2>2, <2>3, <2>4, OutsiderAgrees DEF LockHeld
  <2>6. PendingSave'
    BY <2>1 DEF PendingSave
  <2> QED BY <2>5, <2>6
<1>8. CASE SyncSaves(r)
  <2>1. /\ runner[r].pc = "sync" /\ runner'[r].pc = "idle" /\ runner'[r].direct = FALSE
        /\ \A q \in Runners \ {r} : runner'[q] = runner[q]
    BY <1>8, <1>0 DEF SyncSaves, RunnerAt, IdleRunner
  <2>2. /\ runner[r].saw = loop.status /\ loop.status \in LoopTerminal
        /\ loop.status = "completed" => runner[r].task.status # "failed"
    BY <2>1 DEF HoldInv, PassedInv
  <2>3. task'.status = SyncedStatus(runner[r].task.status, loop.status)
    BY <2>2, <1>8, <1>0 DEF SyncSaves, TaskType
  <2>4. /\ task'.status \in Agreeing(loop.status)
        /\ loop.status = "completed" => task'.status # "failed"
    BY <2>2, <2>3, <1>0, SyncedAgrees DEF TaskType
  <2>5. UNCHANGED <<lock, loop, thread, canceller, overtime>>
    BY <1>8 DEF SyncSaves, env
  <2>6. HoldInv' /\ PassedInv'
    BY <2>1, <2>2, <2>4, <2>5, OutsiderAgrees DEF LockHeld
  <2>7. Agreeing(loop.status)' = Agreeing(loop.status)
    BY <2>5
  <2>8. PendingSave'
    BY <2>4, <2>5 DEF PendingSave
  <2> QED BY <2>6, <2>8
<1> QED BY <1>1, <1>2, <1>3, <1>4, <1>5, <1>6, <1>7, <1>8

\* A dispatch thread works for the call that holds the lock.
LEMMA ThreadAgrees ==
  ASSUME BaseInv, HoldInv, NEW r \in Runners, ThreadStep(r)
  PROVE  HoldInv' /\ PassedInv' /\ PendingSave'
<1>1. thread[r].pc # "none"
  BY DEF ThreadStep, ThreadCreates, ThreadLoads, ThreadMarks, ThreadSkips, ThreadPicks, ThreadReturns,
       AdapterReturns, ThreadSaves, AdapterRaises, AdapterCancelled, ThreadFails, DispatchAppGrade,
       ThreadExits, ThreadOver, ThreadAt
<1>2. runner[r].pc = "dispatch" /\ loop.due \in {"dispatch", "remediate"}
  BY <1>1 DEF HoldInv
<1>3. UNCHANGED <<loop, lock, runner, overtime>> /\ \A q \in Runners \ {r} : thread'[q] = thread[q]
  BY <1>2 DEF ThreadStep, ThreadCreates, ThreadLoads, ThreadMarks, ThreadSkips, ThreadPicks,
       ThreadReturns, AdapterReturns, ThreadSaves, AdapterRaises, AdapterCancelled, ThreadFails,
       DispatchAppGrade, ThreadExits, RunnerAt, calls, disk, env, BaseInv, TypeOK
<1> QED BY <1>2, <1>3, HolderAgrees DEF LockHeld

\* A cancel_task call.
LEMMA CancelAgrees ==
  ASSUME BaseInv, HoldInv, PassedInv, PendingSave, NEW c \in Cancellers,
         CancelLoads(c) \/ CancelStep(c)
  PROVE  HoldInv' /\ PassedInv' /\ PendingSave'
<1>0. /\ canceller[c].task \in TaskType /\ loop \in LoopType
      /\ canceller \in [Cancellers -> CancellerType]
  BY DEF BaseInv, TypeOK, CancellerType
<1>a. UNCHANGED <<runner, thread, lock, overtime>>
  BY DEF CancelLoads, CancelStep, CancelReadsLoop, CancelRequests, CancelLocks, CancelLeaves,
       CancelSaves, env
<1>b. ASSUME NEW pc, CancelGoto(c, pc)
      PROVE  canceller'[c].pc = pc /\ \A d \in Cancellers \ {c} : canceller'[d] = canceller[d]
  BY <1>b, <1>0 DEF CancelGoto, CancellerType
<1>c. ASSUME UNCHANGED loop, task'.status \in {task.status, "cancelled"}
      PROVE  HoldInv' /\ PassedInv'
  <2>1. HoldInv'
    BY <1>a, <1>c DEF HoldInv
  <2>2. PassedInv'
    BY <1>a, <1>c DEF PassedInv
  <2> QED BY <2>1, <2>2
<1>d. ASSUME UNCHANGED <<loop, task>>,
             \A d \in Cancellers : canceller[d].pc = "save" => canceller'[d].pc = "save"
      PROVE  PendingSave'
  BY <1>a, <1>d DEF PendingSave
<1>1. CASE CancelLoads(c)
  <2>1. canceller[c].pc = "idle" /\ \A d \in Cancellers \ {c} : canceller'[d] = canceller[d]
    BY <1>1, <1>0 DEF CancelLoads, CancellerAt
  <2>2. UNCHANGED <<loop, task>>
    BY <1>1 DEF CancelLoads, disk
  <2> QED BY <2>1, <2>2, <1>c, <1>d
<1>2. CASE CancelReadsLoop(c) \/ CancelRequests(c) \/ CancelLeaves(c)
  <2>1. /\ canceller[c].pc \in {"loaded", "request", "lock"}
        /\ \E pc \in {"save", "request", "lock"} : CancelGoto(c, pc)
    BY <1>2 DEF CancelReadsLoop, CancelRequests, CancelLeaves, CancellerAt
  <2>2. UNCHANGED <<loop, task>>
    BY <1>2 DEF CancelReadsLoop, CancelRequests, CancelLeaves, disk
  <2> QED BY <2>1, <2>2, <1>b, <1>c, <1>d
<1>3. CASE CancelLocks(c)
  <2>1. canceller'[c].pc = "save" /\ lock = None /\ UNCHANGED task
    BY <1>3, <1>b DEF CancelLocks
  <2>2. PendingSave'
    BY <2>1 DEF PendingSave
  <2>3. CASE UNCHANGED loop
    BY <2>1, <2>2, <2>3, <1>c
  <2>4. CASE loop.status \notin LoopTerminal
    <3>1. loop'.status = "cancelled" /\ loop'.open = FALSE /\ loop'.due = loop.due
      BY <2>4, <1>3, <1>0 DEF CancelLocks, LoopType
    <3>2. \A q \in Runners : runner[q].pc \notin LockHeld \cup {"returned", "sync"}
      BY <2>1, <2>4, RuntimeBoundAssumption DEF HoldInv
    <3>3. HoldInv'
      BY <3>1, <3>2, <2>1, <1>a DEF HoldInv, LockHeld
    <3>4. PassedInv'
      BY <3>1, <3>2, <1>a DEF PassedInv, LoopTerminal, Terminal, LockHeld
    <3> QED BY <3>3, <3>4, <2>2
  <2> QED BY <2>3, <2>4, <1>3 DEF CancelLocks
<1>4. CASE CancelSaves(c)
  <2>1. task'.status = "cancelled" /\ UNCHANGED loop
    BY <1>4, <1>0 DEF CancelSaves, TaskType
  <2>2. "cancelled" \in Agreeing(loop'.status)
    BY DEF Agreeing
  <2>3. PendingSave'
    BY <2>1, <2>2 DEF PendingSave
  <2> QED BY <2>1, <2>3, <1>c
<1> QED BY <1>1, <1>2, <1>3, <1>4 DEF CancelStep

\* What the calls leave of the submission and of the count of crashes.
LEMMA WorkStep ==
  ASSUME \/ \E r \in Runners :
              RunLoads(r) \/ RunLoopDirect(r) \/ RunStep(r) \/ ThreadStep(r) \/ Crash(r)
         \/ \E c \in Cancellers : CancelLoads(c) \/ CancelStep(c)
  PROVE  submission' = submission /\ crashes' \in {crashes, crashes + 1}
<1>1. ASSUME NEW r \in Runners, RunLoads(r) \/ RunLoopDirect(r) \/ RunStep(r)
      PROVE  UNCHANGED env
  BY <1>1 DEF RunLoads, RunLoopDirect, RunStep, MarkTaskStarted, EnterTerminal, EnterOpen,
       EnterRunning, HeadStops, HeadCancels, HeadDispatches, HeadExhausted, HeadEvaluates,
       HeadCompletes, DispatchReturns, DispatchCancelled, DispatchRaised, DispatchOver,
       DispatchDetached, GateLoads, GateSaves, GateRecords, SyncLoads, SyncSaves
<1>2. ASSUME NEW r \in Runners, ThreadStep(r)
      PROVE  UNCHANGED <<submission, crashes>>
  BY <1>2 DEF ThreadStep, ThreadCreates, ThreadLoads, ThreadMarks, ThreadSkips, ThreadPicks,
       ThreadReturns, AdapterReturns, ThreadSaves, AdapterRaises, AdapterCancelled, ThreadFails,
       DispatchAppGrade, ThreadExits, env
<1>3. ASSUME NEW r \in Runners, Crash(r)
      PROVE  submission' = submission /\ crashes' = crashes + 1
  BY <1>3 DEF Crash
<1>4. ASSUME NEW c \in Cancellers, CancelLoads(c) \/ CancelStep(c)
      PROVE  UNCHANGED env
  BY <1>4 DEF CancelLoads, CancelStep, CancelReadsLoop, CancelRequests, CancelLocks, CancelLeaves,
       CancelSaves
<1> QED BY <1>1, <1>2, <1>3, <1>4 DEF env

\* AgreementInv is kept.
LEMMA AgreementKept ==
  ASSUME BaseInv, AgreementInv, Next \/ UNCHANGED vars
  PROVE  AgreementInv'
<1>0. config' = config /\ (crashes' = 0 => crashes = 0)
  <2>1. config' = config
    BY EnvStep DEF BaseInv
  <2>2. config \in ConfigType /\ crashes \in Nat
    BY ConfigAssumption DEF BaseInv, TypeOK, ConfigType
  <2>3. crashes' \in {crashes, crashes + 1}
    BY WorkStep DEF Next, vars, env, SubmitLoop, SubmitTask, SubmitReleaseE2eTask, SavesTask,
         SubmitRemote, TimePasses
  <2> QED BY <2>1, <2>2, <2>3
<1> SUFFICES ASSUME Regular' PROVE SubmissionInv' /\ HoldInv' /\ PassedInv' /\ PendingSave'
  BY DEF AgreementInv
<1>1. Regular /\ SubmissionInv /\ HoldInv /\ PassedInv /\ PendingSave
  BY <1>0 DEF Regular, AgreementInv
<1>2. CASE UNCHANGED vars
  BY <1>2, <1>1 DEF vars, disk, calls, env, SubmissionInv, HoldInv, PassedInv, PendingSave
<1>3. CASE SubmitLoop
  <2>1. /\ submission = "new" /\ loop'.status = "pending" /\ loop'.open = loop.open
        /\ loop'.due = loop.due
    BY <1>3 DEF SubmitLoop, BaseInv, TypeOK, LoopType
  <2>2. UNCHANGED <<task, runner, thread, canceller, lock, overtime>>
    BY <1>3 DEF SubmitLoop, calls
  <2>3. /\ task.status = "absent" /\ loop.status \in {"absent", "pending"}
        /\ \A r \in Runners : runner[r].pc = "idle" /\ thread[r].pc = "none"
        /\ \A c \in Cancellers : canceller[c].pc = "idle"
    BY <2>1, <1>1 DEF SubmissionInv
  <2>4. SubmissionInv'
    BY <2>1, <2>2, <2>3 DEF SubmissionInv
  <2>5. \A r \in Runners : lock # r /\ runner[r].direct = FALSE
    BY <2>3, <1>1 DEF HoldInv, LockHeld
  <2>6. lock = None
    BY <2>5 DEF BaseInv, TypeOK
  <2>7. loop.open = FALSE
    BY <2>6, <1>1 DEF HoldInv, BaseInv, TypeOK, LoopType
  <2>8. HoldInv'
    BY <2>1, <2>2, <2>3, <2>5, <2>6, <2>7, <1>1 DEF HoldInv, LockHeld
  <2>9. PassedInv' /\ PendingSave'
    BY <2>1, <2>2, <2>3 DEF PassedInv, PendingSave, LoopTerminal, Terminal
  <2> QED BY <2>4, <2>8, <2>9
<1>4. CASE SubmitTask \/ SubmitReleaseE2eTask
  <2>1. /\ submission = "bound" /\ submission' = "done" /\ task'.status = "pending"
    BY <1>4 DEF SubmitTask, SubmitReleaseE2eTask, SavesTask, NewTask
  <2>2. UNCHANGED <<loop, runner, thread, canceller, lock, overtime>>
    BY <1>4 DEF SubmitTask, SubmitReleaseE2eTask, SavesTask, calls
  <2>3. loop.status \notin LoopTerminal
    BY <2>1, <1>1 DEF SubmissionInv, LoopTerminal, Terminal
  <2>4. SubmissionInv'
    BY <2>1 DEF SubmissionInv
  <2>5. HoldInv'
    BY <2>2, <1>1 DEF HoldInv
  <2>6. PassedInv'
    BY <2>1, <2>2, <2>3, <1>1 DEF PassedInv, HoldInv
  <2>7. PendingSave'
    BY <2>2, <2>3 DEF PendingSave
  <2> QED BY <2>4, <2>5, <2>6, <2>7
<1>5. CASE SubmitRemote
  BY <1>5, <1>1 DEF SubmitRemote, Regular
<1>6. CASE TimePasses
  <2>1. config \in Configs /\ config.timed
    BY <1>6 DEF TimePasses, BaseInv, TypeOK
  <2> QED BY <2>1, <1>1, ConfigAssumption DEF Regular
<1>7. ASSUME NEW r \in Runners,
             RunLoads(r) \/ RunLoopDirect(r) \/ RunStep(r) \/ ThreadStep(r)
      PROVE  HoldInv' /\ PassedInv' /\ PendingSave'
  BY <1>7, <1>1, LoopAgrees, CallAgrees, ThreadAgrees DEF RunStep
<1>8. ASSUME NEW r \in Runners, Crash(r)
      PROVE  FALSE
  <2>1. crashes' = crashes + 1 /\ crashes = 0 /\ crashes' = 0
    BY <1>8, <1>1 DEF Crash, Regular
  <2> QED BY <2>1
<1>9. ASSUME NEW c \in Cancellers, CancelLoads(c) \/ CancelStep(c)
      PROVE  HoldInv' /\ PassedInv' /\ PendingSave'
  BY <1>9, <1>1, CancelAgrees
<1>10. CASE \/ \E r \in Runners :
                 RunLoads(r) \/ RunLoopDirect(r) \/ RunStep(r) \/ ThreadStep(r) \/ Crash(r)
            \/ \E c \in Cancellers : CancelLoads(c) \/ CancelStep(c)
  <2>1. submission = "done"
    BY <1>10, <1>1, WorkSubmitted
  <2>2. submission' = submission
    BY <1>10, WorkStep
  <2>3. SubmissionInv'
    BY <2>1, <2>2 DEF SubmissionInv
  <2> QED BY <2>3, <1>7, <1>8, <1>9, <1>10
<1> QED BY <1>2, <1>3, <1>4, <1>5, <1>6, <1>10 DEF Next

\* Once the calls have returned without a crash, a decided loop and its task
\* agree, for any number of run_task and cancel_task calls whose unlocked saves
\* of the whole record overwrite one another; and every copy stays a record.
THEOREM AgreementCorrect == Spec => []QuietAgreement
<1>1. Init => AgreementInv
  <2> SUFFICES ASSUME Init PROVE SubmissionInv /\ HoldInv /\ PassedInv /\ PendingSave
    BY DEF AgreementInv
  <2>1. SubmissionInv
    BY DEF Init, SubmissionInv, NoTask, NewTask, IdleRunner, NoThread, IdleCanceller
  <2>2. HoldInv
    BY RuntimeBoundAssumption DEF Init, HoldInv, LockHeld, IdleRunner, NoThread
  <2>3. PassedInv /\ PendingSave
    BY DEF Init, PassedInv, PendingSave, IdleRunner, NoTask, NewTask, LoopTerminal, Terminal
  <2> QED BY <2>1, <2>2, <2>3
<1>2. BaseInv /\ AgreementInv /\ [Next]_vars => AgreementInv'
  BY AgreementKept
<1>3. BaseInv /\ AgreementInv => QuietAgreement
  BY DEF BaseInv, AgreementInv, PendingSave, Regular, QuietAgreement, Quiet, RunnerAt, ThreadAt
<1> QED BY <1>1, <1>2, <1>3, BaseCorrect, PTL DEF Spec
=============================================================================
