-------------------------- MODULE AgentLoopProofs --------------------------
(***************************************************************************)
(* Proofs about AgentLoop, for any loop a host may start, any number of    *)
(* cancel calls and all bounds.                                            *)
(***************************************************************************)
EXTENDS AgentLoop, SequenceTheorems, NaturalsInduction, WellFoundedInduction, TLAPS

\* The statuses of a step that is not decided, and who may have them.
Open == {"running", "waiting_approval"}
OpenLast(l) == \A i \in DOMAIN l.steps : l.steps[i].status \in Open => i = Len(l.steps)
NoneOpen(l) == \A i \in DOMAIN l.steps : l.steps[i].status \notin Open

\* What the runner knows of the loop at each place.
StepInv ==
  /\ OpenLast(loop)
  /\ runner.pc \notin {"free", "ack"} => loop.status \notin Terminal
  /\ runner.pc \in {"head", "select", "picked", "recover"} => NoneOpen(loop)
  /\ runner.pc = "record" /\ loop.status # "awaiting_approval" => NoneOpen(loop)
  /\ runner.pc = "execute" =>
       /\ loop.steps # <<>>
       /\ runner.action \in ActionTypes
       /\ runner.by \in {"run", "approve"}
  /\ runner.pc \in {"recover", "record"} => runner.failure \in Failures /\ runner.by # "none"
  /\ runner.pc = "recover" => FailedStep \in DOMAIN loop.steps

\* The inductive invariant.
LoopInv == TypeOK /\ StepInv

\* The planner only ever names an action.
LEMMA PeekType ==
  ASSUME TypeOK, NEW l \in LoopType
  PROVE  PeekNextAction(l) \in ActionTypes \cup {None}
<1>1. config \in ConfigType
  BY ConfigAssumption DEF TypeOK
<1>2. ASSUME NEW steps, NEW q PROVE PlannedAction(steps, q) \in ActionTypes \cup {None}
  <2> DEFINE place == PlanProgress(steps) + 1
             owed == FirstOwed(steps, q)
  <2>1. place \in DOMAIN config.plan => config.plan[place] \in ActionTypes
    BY <1>1 DEF ConfigType
  <2>2. owed \in DOMAIN BuiltInPlan => BuiltInPlan[owed] \in ActionTypes
    BY DEF BuiltInPlan, ActionTypes, Dispatches
  <2> QED
    BY <2>1, <2>2 DEF PlannedAction
<1> QED
  BY <1>2 DEF PeekNextAction, LoopType, ActionTypes, Dispatches
-----------------------------------------------------------------------------
(* What the changes to the loop record do to its steps. *)

\* The steps of a loop are a sequence of steps.
LEMMA StepsDomain ==
  ASSUME NEW l \in LoopType
  PROVE  /\ DOMAIN l.steps = 1..Len(l.steps) /\ Len(l.steps) \in Nat
         /\ \A i \in DOMAIN l.steps : l.steps[i] \in StepType
         /\ l.steps # <<>> => Len(l.steps) \in DOMAIN l.steps
<1>1. l.steps \in Seq(StepType)
  BY DEF LoopType
<1> QED
  BY <1>1, EmptySeq, LenProperties, ElementOfSeq

\* Replacing the turn and the steps leaves a loop.
LEMMA LoopWith ==
  ASSUME NEW l \in LoopType, NEW turn \in Nat, NEW steps \in Seq(StepType)
  PROVE  LET w == [l EXCEPT !.turn = turn, !.steps = steps]
         IN w \in LoopType /\ w.steps = steps /\ w.status = l.status
BY DEF LoopType

\* So does replacing the status.
LEMMA LoopStatus ==
  ASSUME NEW l \in LoopType, NEW status \in {"pending", "running", "awaiting_approval"} \cup Terminal
  PROVE  LET w == [l EXCEPT !.status = status]
         IN w \in LoopType /\ w.steps = l.steps /\ w.status = status
BY DEF LoopType

\* Closing the last step closes the only open one.
LEMMA WithLastFacts ==
  ASSUME NEW l \in LoopType, OpenLast(l), l.steps # <<>>,
         NEW status \in StepStatus \ Open, NEW passed \in BOOLEAN
  PROVE  /\ WithLast(l, status, passed) \in LoopType
         /\ NoneOpen(WithLast(l, status, passed))
         /\ WithLast(l, status, passed).status = l.status
         /\ WithLast(l, status, passed).steps # <<>>
<1> DEFINE n == Len(l.steps)
           new == [l.steps[n] EXCEPT !.status = status, !.passed = passed]
           w == WithLast(l, status, passed)
<1>1. l.steps \in Seq(StepType) /\ n \in DOMAIN l.steps /\ DOMAIN l.steps = 1..n /\ n \in Nat
  BY StepsDomain DEF LoopType
<1>2. new \in StepType /\ new.status = status
  BY <1>1, StepsDomain DEF StepType
<1>3. w = [l EXCEPT !.steps = [l.steps EXCEPT ![n] = new]]
  BY DEF WithLast, LoopType
<1>4. [l.steps EXCEPT ![n] = new] \in Seq(StepType)
  BY <1>1, <1>2, ExceptSeq
<1>5. w \in LoopType /\ w.status = l.status /\ w.steps = [l.steps EXCEPT ![n] = new]
  BY <1>3, <1>4 DEF LoopType
<1>6. NoneOpen(w)
  BY <1>1, <1>2, <1>5 DEF NoneOpen, OpenLast
<1>7. w.steps # <<>>
  BY <1>1, <1>4, <1>5, ExceptSeq, EmptySeq
<1> QED
  BY <1>5, <1>6, <1>7

\* A step may be opened when none is.
LEMMA AppendedFacts ==
  ASSUME NEW l \in LoopType, NoneOpen(l), NEW type \in ActionTypes, NEW status \in StepStatus
  PROVE  /\ Appended(l, type, status) \in LoopType
         /\ OpenLast(Appended(l, type, status))
         /\ Appended(l, type, status).steps # <<>>
<1> DEFINE new == [type |-> type, turn |-> l.turn + 1, passed |-> FALSE, status |-> status]
           a == Appended(l, type, status)
<1>1. l.steps \in Seq(StepType) /\ l.turn \in Nat
  BY DEF LoopType
<1>2. new \in StepType
  BY <1>1 DEF StepType
<1>3. /\ Append(l.steps, new) \in Seq(StepType)
      /\ Len(Append(l.steps, new)) = Len(l.steps) + 1
      /\ \A i \in 1..Len(l.steps) : Append(l.steps, new)[i] = l.steps[i]
      /\ DOMAIN Append(l.steps, new) = 1..(Len(l.steps) + 1)
      /\ DOMAIN l.steps = 1..Len(l.steps) /\ Len(l.steps) \in Nat
  BY <1>1, <1>2
<1>4. a \in LoopType /\ a.steps = Append(l.steps, new)
  <2> DEFINE turn == l.turn + 1
             longer == Append(l.steps, new)
  <2>1. a = [l EXCEPT !.turn = turn, !.steps = longer]
    BY DEF Appended
  <2>2. turn \in Nat /\ longer \in Seq(StepType)
    BY <1>1, <1>3
  <2> SUFFICES a \in LoopType /\ a.steps = longer
    OBVIOUS
  <2> HIDE DEF new, a, turn, longer
  <2> QED BY <2>1, <2>2, LoopWith
<1>5. OpenLast(a)
  BY <1>3, <1>4 DEF OpenLast, NoneOpen
<1>6. a.steps # <<>>
  BY <1>3, <1>4
<1> QED
  BY <1>4, <1>5, <1>6

\* Rolling back to a step drops the open one.
LEMMA RollbackFacts ==
  ASSUME NEW l \in LoopType, OpenLast(l), NEW i \in DOMAIN l.steps
  PROVE  /\ Rollback(l, i) \in LoopType
         /\ NoneOpen(Rollback(l, i))
         /\ Rollback(l, i).status = "running"
<1> DEFINE r == Rollback(l, i)
           kept == SubSeq(l.steps, 1, i - 1)
<1>1. /\ l.steps \in Seq(StepType) /\ DOMAIN l.steps = 1..Len(l.steps)
      /\ Len(l.steps) \in Nat /\ i \in 1..Len(l.steps)
  BY StepsDomain DEF LoopType
<1>2. /\ kept \in Seq(StepType) /\ DOMAIN kept = 1..(i - 1)
      /\ \A j \in 1..(i - 1) : kept[j] = l.steps[j]
  BY <1>1
<1>3. i # 1 => l.steps[i - 1].turn \in Nat
  BY <1>1, StepsDomain DEF StepType
<1>4. r \in LoopType /\ r.steps = kept /\ r.status = "running"
  BY <1>2, <1>3 DEF Rollback, LoopType
<1>5. NoneOpen(r)
  BY <1>1, <1>2, <1>4 DEF NoneOpen, OpenLast
<1> QED
  BY <1>4, <1>5

\* _cancel_loop_state closes every open step.
LEMMA CancelledFacts ==
  ASSUME NEW l \in LoopType
  PROVE  /\ CancelledLoop(l) \in LoopType
         /\ NoneOpen(CancelledLoop(l))
<1> DEFINE step(i) == IF l.steps[i].status \in Open
                        THEN [l.steps[i] EXCEPT !.status = "cancelled"] ELSE l.steps[i]
           c == CancelledLoop(l)
<1>1. DOMAIN l.steps = 1..Len(l.steps) /\ Len(l.steps) \in Nat
      /\ \A i \in DOMAIN l.steps : l.steps[i] \in StepType
  BY StepsDomain
<1>2. \A i \in DOMAIN l.steps : step(i) \in StepType /\ step(i).status \notin Open
  BY <1>1 DEF StepType, StepStatus, Open
<1>3. [i \in 1..Len(l.steps) |-> step(i)] \in Seq(StepType)
  <2> HIDE DEF step
  <2> QED BY <1>1, <1>2, IsASeq
<1>4. c.steps = [i \in 1..Len(l.steps) |-> step(i)] /\ c = [l EXCEPT !.status = "cancelled", !.steps = c.steps]
  BY <1>1 DEF CancelledLoop, LoopType, Open
<1>5. c \in LoopType
  <2> HIDE DEF step
  <2> QED BY <1>3, <1>4 DEF LoopType, Terminal
<1>6. NoneOpen(c)
  BY <1>1, <1>2, <1>4 DEF NoneOpen
<1> QED
  BY <1>5, <1>6
-----------------------------------------------------------------------------
(* The inductive invariant. *)

\* Every action of run_loop, approve_action, reject_action, retry_step and
\* cancel_loop, and a crash at any point, keeps the open step last.
LEMMA LoopStep ==
  ASSUME LoopInv, [Next]_vars
  PROVE  LoopInv'
<1> USE DEF env, Move, Return, Free
<1>A. /\ config \in ConfigType /\ loop \in LoopType /\ runner \in RunnerType
      /\ loop.steps \in Seq(StepType)
  BY ConfigAssumption DEF LoopInv, TypeOK, LoopType
<1>P. PeekNextAction(loop) \in ActionTypes \cup {None}
  BY <1>A, PeekType DEF LoopInv
<1>S. \A status \in {"pending", "running", "awaiting_approval"} \cup Terminal :
        SetStatus(status) =>
          loop' \in LoopType /\ loop'.steps = loop.steps /\ loop'.status = status
  BY <1>A, LoopStatus DEF SetStatus
<1>1. CASE RunTerminal
  BY <1>1 DEF RunTerminal, LoopInv, StepInv, TypeOK, FailedStep
<1>2. CASE RunOverBudget \/ RunHeld \/ RunPending
  BY <1>S, <1>2 DEF RunOverBudget, RunHeld, RunPending, EnterRun, LoopInv, StepInv, TypeOK,
     OpenLast, Terminal
<1>3. CASE RunCancelled \/ HeadCancelled \/ DispatchCancelled
  <2>1. loop' = CancelledLoop(loop) /\ runner'.pc = "ack" /\ runner' \in RunnerType
    BY <1>A, <1>3 DEF RunCancelled, HeadCancelled, DispatchCancelled, RunnerType
  <2>2. loop' \in LoopType /\ NoneOpen(loop')
    BY <1>A, <2>1, CancelledFacts
  <2> QED
    BY <1>3, <2>1, <2>2 DEF RunCancelled, HeadCancelled, DispatchCancelled, LoopInv, StepInv,
       TypeOK, OpenLast, NoneOpen
<1>4. CASE RunStarts
  BY <1>S, <1>4 DEF RunStarts, EnterRun, HasStep, LoopInv, StepInv, TypeOK, RunnerType,
     OpenLast, NoneOpen, Open, Terminal
<1>5. CASE RunExpired
  <2>1. loop.steps # <<>> /\ loop.status \notin Terminal /\ OpenLast(loop)
    BY <1>A, <1>5 DEF RunExpired, EnterRun, HasStep, LoopInv, StepInv
  <2>2. loop' = WithLast(loop, "failed", FALSE)
    BY <1>5 DEF RunExpired
  <2>3. /\ loop' \in LoopType /\ NoneOpen(loop')
        /\ loop'.status = loop.status /\ loop'.steps # <<>>
    BY <1>A, <2>1, <2>2, WithLastFacts DEF StepStatus, Open
  <2>4. Len(loop'.steps) \in DOMAIN loop'.steps
    BY <2>3, StepsDomain
  <2> QED
    BY <1>5, <2>1, <2>3, <2>4 DEF RunExpired, LoopInv, StepInv, TypeOK, RunnerType, OpenLast, NoneOpen,
       FailedStep, Failures
<1>6. CASE HeadOverBudget \/ Complete \/ OutOfTurns
  BY <1>S, <1>6 DEF HeadOverBudget, Complete, OutOfTurns, LoopInv, StepInv, TypeOK,
     RunnerType, OpenLast, Terminal
<1>7. CASE RecoverDeclined
  BY <1>S, <1>7 DEF RecoverDeclined, LoopInv, StepInv, TypeOK, RunnerType, OpenLast, Terminal
<1>8. CASE HeadPasses \/ SelectPlanned
  BY <1>A, <1>P, <1>8 DEF HeadPasses, SelectPlanned, LoopInv, StepInv, TypeOK, RunnerType, FailedStep
<1>9. CASE SelectScheduled
  BY <1>A, <1>9 DEF SelectScheduled, LoopInv, StepInv, TypeOK, LoopType, RunnerType, OpenLast, NoneOpen
<1>10. CASE SelectExhausted
  BY <1>A, <1>10 DEF SelectExhausted, LoopInv, StepInv, TypeOK, RunnerType, FailedStep, QualityFailed,
     Failures
<1>11. CASE AskApproval \/ StartStep
  <2>1. PICK status \in Open :
          /\ loop' = [Appended(loop, runner.action, status)
                        EXCEPT !.status = IF status = "running" THEN "running" ELSE "awaiting_approval"]
          /\ runner'.pc = IF status = "running" THEN "execute" ELSE "free"
    BY <1>11 DEF AskApproval, StartStep, Open
  <2>2. runner.action \in ActionTypes /\ NoneOpen(loop)
    BY <1>A, <1>11 DEF AskApproval, StartStep, ConfigType, LoopInv, StepInv
  <2>3. LET a == Appended(loop, runner.action, status)
        IN a \in LoopType /\ OpenLast(a) /\ a.steps # <<>>
    BY <1>A, <2>2, AppendedFacts DEF Open, StepStatus
  <2>4. /\ loop' \in LoopType /\ OpenLast(loop') /\ loop'.steps # <<>>
        /\ loop'.status \in {"running", "awaiting_approval"}
    BY <2>1, <2>3, LoopStatus DEF OpenLast
  <2> QED
    BY <1>11, <2>2, <2>4 DEF AskApproval, StartStep, LoopInv, StepInv, TypeOK, RunnerType, Terminal
<1>12. CASE \E passed \in BOOLEAN : ExecuteReturns(passed)
  <2>1. PICK passed \in BOOLEAN : ExecuteReturns(passed)
    BY <1>12
  <2>2. loop.steps # <<>> /\ OpenLast(loop)
    BY <2>1 DEF ExecuteReturns, Executing, LoopInv, StepInv
  <2>3. LET w == WithLast(loop, "completed", passed) IN w \in LoopType /\ NoneOpen(w)
    BY <1>A, <2>2, WithLastFacts DEF StepStatus, Open
  <2>4. loop' \in LoopType /\ NoneOpen(loop') /\ loop'.status = "running"
    BY <2>1, <2>3, LoopStatus DEF ExecuteReturns, NoneOpen
  <2> QED
    BY <2>1, <2>4 DEF ExecuteReturns, LoopInv, StepInv, TypeOK, RunnerType, OpenLast, NoneOpen, Terminal
<1>13. CASE CheckFails \/ ExecuteRaises
  <2>1. /\ loop.steps # <<>> /\ OpenLast(loop) /\ loop.status \notin Terminal
        /\ runner.by \in {"run", "approve"}
    BY <1>13 DEF CheckFails, ExecuteRaises, Executing, LoopInv, StepInv
  <2>2. /\ loop' = WithLast(loop, "failed", FALSE)
        /\ runner'.pc = "recover" /\ runner'.by = runner.by
        /\ runner'.failure \in Failures /\ runner' \in RunnerType
    <3>1. CASE CheckFails
      BY <3>1, <2>1 DEF CheckFails, Failures, RunnerType
    <3>2. CASE ExecuteRaises
      BY <3>2, <2>1 DEF ExecuteRaises, Failures, RunnerType
    <3> QED
      BY <1>13, <3>1, <3>2
  <2>3. /\ loop' \in LoopType /\ NoneOpen(loop')
        /\ loop'.status = loop.status /\ loop'.steps # <<>>
    BY <1>A, <2>1, <2>2, WithLastFacts DEF StepStatus, Open
  <2>4. Len(loop'.steps) \in DOMAIN loop'.steps
    BY <2>3, StepsDomain
  <2> QED
    BY <1>13, <2>1, <2>2, <2>3, <2>4 DEF CheckFails, ExecuteRaises, LoopInv, StepInv, TypeOK, OpenLast,
       NoneOpen, FailedStep
<1>14. CASE ClearRequest
  BY <1>A, <1>14 DEF ClearRequest, LoopInv, StepInv, TypeOK, RunnerType
<1>15. ASSUME NEW action, Recovers(action)
       PROVE  /\ runner.pc = "recover" /\ runner'.pc = "record" /\ runner' \in RunnerType
              /\ runner'.failure \in Failures /\ runner'.by # "none"
              /\ applied' \in [Failures -> Nat]
              /\ UNCHANGED <<config, request, recovered, canceller, overtime, since, spent>>
              /\ FailedStep \in DOMAIN loop.steps /\ NoneOpen(loop) /\ OpenLast(loop)
  BY <1>15 DEF Recovers, LoopInv, StepInv, TypeOK, RunnerType
<1>16. CASE RecoverRetry
  <2>1. loop' \in LoopType /\ NoneOpen(loop') /\ loop'.status = "running"
    BY <1>A, <1>15, <1>16, RollbackFacts DEF RecoverRetry
  <2> QED
    BY <1>15, <1>16, <2>1 DEF RecoverRetry, LoopInv, StepInv, TypeOK, OpenLast, NoneOpen, Terminal
<1>17. CASE RecoverRemediation
  <2>1. loop' \in LoopType /\ loop'.steps = loop.steps /\ loop'.status = "running"
    BY <1>A, <1>17 DEF RecoverRemediation, LoopType, ActionTypes, Dispatches
  <2> QED
    BY <1>15, <1>17, <2>1 DEF RecoverRemediation, LoopInv, StepInv, TypeOK, OpenLast, NoneOpen, Terminal
<1>18. CASE RecoverRequireHuman
  <2>1. loop.steps[FailedStep].type \in ActionTypes
    BY <1>A, <1>15, <1>18, StepsDomain DEF RecoverRequireHuman, StepType
  <2>2. LET a == Appended(loop, loop.steps[FailedStep].type, "waiting_approval")
        IN a \in LoopType /\ OpenLast(a)
    BY <1>A, <1>15, <1>18, <2>1, AppendedFacts DEF RecoverRequireHuman, StepStatus
  <2>3. loop' \in LoopType /\ OpenLast(loop') /\ loop'.status = "awaiting_approval"
    BY <1>18, <2>2, LoopStatus DEF RecoverRequireHuman, OpenLast
  <2> QED
    BY <1>15, <1>18, <2>3 DEF RecoverRequireHuman, LoopInv, StepInv, TypeOK, Terminal
<1>19. CASE RecordRecovery
  BY <1>A, <1>P, <1>19 DEF RecordRecovery, LoopInv, StepInv, TypeOK, RunnerType
<1>20. ASSUME NEW i \in DOMAIN loop.steps, ApproveAction(i) \/ RejectAction(i) PROVE LoopInv'
  <2>1. PICK status \in {"running", "rejected"}, over \in {"running", "stopped"} :
          /\ loop' = [loop EXCEPT !.status = over, !.steps[i].status = status]
          /\ status = "running" => over = "running"
          /\ runner'.pc # "free" => over = "running"
    BY <1>20 DEF ApproveAction, RejectAction, Answerable
  <2>2. loop.steps[i].status = "waiting_approval" /\ runner.pc = "free" /\ OpenLast(loop)
    BY <1>20 DEF ApproveAction, RejectAction, Answerable, LoopInv, StepInv
  <2> DEFINE new == [loop.steps[i] EXCEPT !.status = status]
             steps == [loop.steps EXCEPT ![i] = new]
  <2>3. loop.steps[i] \in StepType /\ i = Len(loop.steps)
    BY <1>A, <2>2, StepsDomain DEF OpenLast, Open
  <2>4. new \in StepType
    BY <2>3 DEF StepType, StepStatus
  <2>5. /\ steps \in Seq(StepType) /\ Len(steps) = Len(loop.steps) /\ steps # <<>>
        /\ DOMAIN steps = DOMAIN loop.steps
        /\ \A j \in DOMAIN steps : j # i => steps[j] = loop.steps[j]
    <3>1. steps \in Seq(StepType) /\ Len(steps) = Len(loop.steps)
      BY <1>A, <2>4, ExceptSeq
    <3>2. steps # <<>>
      BY <1>A, <3>1, StepsDomain
    <3> QED
      BY <3>1, <3>2
  <2>6. loop' \in LoopType /\ loop'.steps = steps /\ loop'.status = over
    <3>1. loop' = [loop EXCEPT !.status = over, !.steps = steps]
      BY <1>A, <2>1 DEF LoopType
    <3> HIDE DEF steps
    <3> QED
      BY <1>A, <2>5, <3>1 DEF LoopType, Terminal
  <2>7. OpenLast(loop')
    BY <2>2, <2>3, <2>5, <2>6 DEF OpenLast
  <2>8. loop.steps[i].type \in ActionTypes
    BY <2>3 DEF StepType
  <2>9. /\ runner' \in RunnerType /\ runner'.pc \in {"free", "execute"}
        /\ runner'.pc = "execute" => runner'.action \in ActionTypes /\ runner'.by = "approve"
        /\ UNCHANGED <<config, request, recovered, canceller, env>>
    <3>1. CASE ApproveAction(i)
      BY <3>1, <2>8 DEF ApproveAction, RunnerType
    <3>2. CASE RejectAction(i)
      BY <1>A, <3>2, <2>2 DEF RejectAction
    <3> QED
      BY <1>20, <3>1, <3>2
  <2>10. TypeOK'
    BY <2>6, <2>9 DEF LoopInv, TypeOK
  <2> HIDE DEF steps
  <2> QED
    BY <2>1, <2>5, <2>6, <2>7, <2>9, <2>10 DEF LoopInv, StepInv, Terminal
<1>21. ASSUME NEW i \in DOMAIN loop.steps, RetryStep(i) PROVE LoopInv'
  <2>1. loop' \in LoopType /\ NoneOpen(loop')
    BY <1>A, <1>21, RollbackFacts DEF RetryStep, LoopInv, StepInv
  <2>2. spent' \in [crashes : 0..MaxCrashes, retries : 0..MaxRetries, cancels : 0..MaxCancels]
    BY <1>21, LoopBoundAssumption DEF RetryStep, LoopInv, TypeOK
  <2> QED
    BY <1>21, <2>1, <2>2 DEF RetryStep, LoopInv, StepInv, TypeOK, OpenLast, NoneOpen
<1>22. ASSUME NEW c \in Cancellers,
              CancelBegins(c) \/ CancelClears(c) \/ CancelRequests(c) \/ CancelLeaves(c)
       PROVE  LoopInv'
  <2>1. spent' \in [crashes : 0..MaxCrashes, retries : 0..MaxRetries, cancels : 0..MaxCancels]
    BY <1>22, LoopBoundAssumption DEF CancelBegins, CancelClears, CancelRequests, CancelLeaves,
       LoopInv, TypeOK
  <2>2. TypeOK'
    <3>1. canceller' \in [Cancellers -> {"idle", "request", "clear", "lock"}]
      BY <1>22 DEF CancelBegins, CancelClears, CancelRequests, CancelLeaves, At, LoopInv, TypeOK
    <3>2. since' \in Nat
      BY <1>22 DEF CancelBegins, CancelClears, CancelRequests, CancelLeaves, LoopInv, TypeOK
    <3>4. request' \in BOOLEAN
      BY <1>22, Zenon DEF CancelBegins, CancelClears, CancelRequests, CancelLeaves, LoopInv, TypeOK
    <3>3. UNCHANGED <<config, loop, recovered, runner, overtime, applied>>
      BY <1>22 DEF CancelBegins, CancelClears, CancelRequests, CancelLeaves
    <3> QED
      BY <2>1, <3>1, <3>2, <3>3, <3>4 DEF LoopInv, TypeOK
  <2> QED
    BY <1>22, <2>2 DEF CancelBegins, CancelClears, CancelRequests, CancelLeaves, LoopInv, StepInv,
       FailedStep
<1>23. ASSUME NEW c \in Cancellers, CancelLocks(c) PROVE LoopInv'
  <2>1. loop' \in LoopType /\ OpenLast(loop')
    BY <1>A, <1>23, CancelledFacts DEF CancelLocks, LoopInv, StepInv, NoneOpen, OpenLast
  <2> QED
    BY <1>23, <2>1 DEF CancelLocks, At, LoopInv, StepInv, TypeOK, RunnerType
<1>24. CASE Crash \/ RuntimeElapses
  <2>1. spent' \in [crashes : 0..MaxCrashes, retries : 0..MaxRetries, cancels : 0..MaxCancels]
    BY <1>24, LoopBoundAssumption DEF Crash, RuntimeElapses, LoopInv, TypeOK
  <2>2. CASE Crash
    BY <1>A, <2>1, <2>2 DEF Crash, LoopInv, StepInv, TypeOK, RunnerType
  <2>3. CASE RuntimeElapses
    BY <2>1, <2>3 DEF RuntimeElapses, LoopInv, StepInv, TypeOK, FailedStep
  <2> QED
    BY <1>24, <2>2, <2>3
<1>25. CASE UNCHANGED vars
  BY <1>25 DEF vars, LoopInv, StepInv, TypeOK, FailedStep
<1> QED
  BY <1>1, <1>2, <1>3, <1>4, <1>5, <1>6, <1>7, <1>8, <1>9, <1>10, <1>11, <1>12, <1>13, <1>14,
     <1>16, <1>17, <1>18, <1>19, <1>20, <1>21, <1>22, <1>23, <1>24, <1>25
  DEF Next, RunLoop, Iterate, Execute, Recover, HostCalls, CancelLoop

\* A loop just started satisfies the invariant.
LEMMA LoopInit == Init => LoopInv
<1> SUFFICES ASSUME Init PROVE LoopInv
  OBVIOUS
<1>1. loop \in LoopType /\ runner \in RunnerType
  BY DEF Init, LoopType, RunnerType, Free
<1>2. spent \in [crashes : 0..MaxCrashes, retries : 0..MaxRetries, cancels : 0..MaxCancels]
  BY LoopBoundAssumption DEF Init
<1>3. TypeOK
  <2>1. request \in BOOLEAN /\ overtime \in BOOLEAN
    BY Zenon DEF Init
  <2> QED
    BY <1>1, <1>2, <2>1 DEF Init, TypeOK
<1> QED
  BY <1>3 DEF Init, LoopInv, StepInv, OpenLast, Free

\* The invariant holds of every loop, at every point.
LEMMA LoopInvariant == Spec => []LoopInv
<1>1. LoopInv /\ [Next]_vars => LoopInv'
  BY LoopStep
<1> QED
  BY <1>1, LoopInit, PTL DEF Spec

\* The store only ever holds a well-formed loop: in particular every recovered
\* or approved step has an action type, and every count stays a number.
THEOREM TypeCorrect == Spec => []TypeOK
<1>1. LoopInv => TypeOK
  BY DEF LoopInv
<1> QED
  BY <1>1, LoopInvariant, PTL

\* The running or pending step of a loop is its last one, whatever is
\* approved, rejected, retried, cancelled or lost in a crash.
THEOREM StepDiscipline == Spec => []OpenStepLast
<1>1. LoopInv => OpenStepLast
  BY DEF LoopInv, StepInv, OpenStepLast, OpenLast, Open
<1> QED
  BY <1>1, LoopInvariant, PTL

\* A decided loop leaves its terminal status only through retry_step.
THEOREM DecidedLoop == Spec => TerminalSticky
<1>1. ASSUME LoopInv, [Next]_vars, loop.status \in Terminal, loop'.status # loop.status
      PROVE  spent'.retries = spent.retries + 1
  <2>1. runner.pc \in {"free", "ack"} /\ spent.retries \in Nat
    BY <1>1, LoopBoundAssumption DEF LoopInv, StepInv, TypeOK
  <2>2. ASSUME NEW i \in DOMAIN loop.steps, RetryStep(i) PROVE spent'.retries = spent.retries + 1
    BY <1>1, <2>2 DEF RetryStep, LoopInv, TypeOK
  <2>3. ~(Iterate \/ Execute \/ DispatchCancelled \/ Recover)
    BY <2>1 DEF Iterate, HeadOverBudget, HeadCancelled, HeadPasses, SelectScheduled, SelectPlanned,
       SelectExhausted, Complete, OutOfTurns, AskApproval, StartStep, Execute, CheckFails,
       ExecuteRaises, ExecuteReturns, Executing, DispatchCancelled, Recover, RecoverRetry,
       RecoverRemediation, RecoverRequireHuman, RecoverDeclined, Recovers, RecordRecovery
  <2>4. ~RunLoop
    BY <1>1 DEF RunLoop, RunTerminal, RunOverBudget, RunCancelled, RunHeld, RunExpired, RunPending,
       RunStarts, EnterRun
  <2>5. \A i \in DOMAIN loop.steps : ~ApproveAction(i) /\ ~RejectAction(i)
    BY <1>1 DEF ApproveAction, RejectAction, Answerable
  <2>6. ~(ClearRequest \/ CancelLoop \/ Crash \/ RuntimeElapses \/ UNCHANGED vars)
    BY <1>1 DEF ClearRequest, CancelLoop, CancelBegins, CancelClears, CancelRequests, CancelLocks,
       CancelLeaves, Crash, RuntimeElapses, vars
  <2> QED
    BY <1>1, <2>2, <2>3, <2>4, <2>5, <2>6 DEF Next, HostCalls
<1>2. LoopInv /\ [Next]_vars =>
        [loop.status \in Terminal /\ loop'.status # loop.status
           => spent'.retries = spent.retries + 1]_vars
  BY <1>1
<1> QED
  BY <1>2, LoopInvariant, PTL DEF Spec, TerminalSticky
-----------------------------------------------------------------------------
(* A cancel request, and the budget of a recovery policy. *)

\* The places from which run_loop begins an action without reading the request
\* again.
PastTheCheck == runner.pc \in {"select", "picked"} \/ runner.by = "select"
PromptInv == since <= 1 /\ (request /\ PastTheCheck => since = 0)

\* The request is read again before a second action.
LEMMA PromptStep ==
  ASSUME LoopInv, PromptInv, [Next]_vars
  PROVE  PromptInv'
<1> USE DEF env, Move, Return, Free
<1> DEFINE Calm == since' = since /\ request' \in {request, FALSE}
           Unaware == PastTheCheck' => PastTheCheck
           Elsewhere == \/ runner' = runner
                        \/ runner'.pc \notin {"select", "picked"} /\ runner'.by # "select"
<1>T. /\ since \in Nat
      /\ runner.pc = "execute" => runner.by # "select"
      /\ runner.pc \in {"recover", "record"} => runner.by # "none"
      /\ runner \in RunnerType
  BY DEF LoopInv, StepInv, TypeOK
<1>1. CASE StartStep
  BY <1>T, <1>1 DEF StartStep, PromptInv, PastTheCheck
<1>2. ASSUME NEW c \in Cancellers, CancelRequests(c) PROVE PromptInv'
  BY <1>T, <1>2 DEF CancelRequests, PromptInv, PastTheCheck
<1>3. CASE Calm /\ Unaware
  <2>1. CASE request' = FALSE
    BY <1>3, <2>1 DEF PromptInv
  <2>2. CASE request' = request
    BY <1>3, <2>2 DEF PromptInv
  <2> QED
    BY <1>3, <2>1, <2>2
<1>E. Elsewhere => Unaware
  BY DEF PastTheCheck
<1>4. CASE RunLoop
  <2>1. Calm
    BY <1>4 DEF RunLoop, RunTerminal, RunOverBudget, RunCancelled, RunHeld, RunExpired, RunPending, RunStarts
  <2>2. Elsewhere
    <3>1. CASE RunTerminal \/ RunOverBudget \/ RunHeld \/ RunPending
      BY <3>1 DEF RunTerminal, RunOverBudget, RunHeld, RunPending
    <3>2. CASE RunCancelled \/ RunExpired \/ RunStarts
      <4>1. runner'.pc \notin {"select", "picked"} /\ runner'.by = "run"
        <5>1. CASE RunCancelled
          BY <5>1 DEF RunCancelled
        <5>2. CASE RunExpired
          BY <5>2 DEF RunExpired
        <5>3. CASE RunStarts
          BY <5>3 DEF RunStarts
        <5> QED
          BY <3>2, <5>1, <5>2, <5>3
      <4> QED
        BY <4>1
    <3> QED
      BY <1>4, <3>1, <3>2 DEF RunLoop
  <2> QED
    BY <1>3, <1>E, <2>1, <2>2
<1>5. CASE HeadPasses
  BY <1>5 DEF HeadPasses, Resumable, PromptInv
<1>6. CASE Iterate /\ ~StartStep /\ ~HeadPasses
  <2>1. Calm
    BY <1>6 DEF Iterate, HeadOverBudget, HeadCancelled, SelectScheduled, SelectPlanned,
       SelectExhausted, Complete, OutOfTurns, AskApproval
  <2>2. Unaware
    BY <1>6 DEF Iterate, HeadOverBudget, HeadCancelled, SelectScheduled, SelectPlanned,
       SelectExhausted, Complete, OutOfTurns, AskApproval, PastTheCheck
  <2> QED
    BY <1>3, <2>1, <2>2
<1>7. CASE Execute \/ DispatchCancelled \/ ClearRequest
  <2>1. Calm
    BY <1>7 DEF Execute, CheckFails, ExecuteRaises, ExecuteReturns, DispatchCancelled, ClearRequest
  <2>2. Unaware
    <3>1. CASE Execute
      <4>1. Elsewhere
        <5>1. CASE CheckFails
          BY <5>1 DEF CheckFails
        <5>3. CASE ExecuteRaises
          BY <1>T, <5>3 DEF ExecuteRaises, Executing
        <5>2. ASSUME NEW passed \in BOOLEAN, ExecuteReturns(passed) PROVE Elsewhere
          <6>1. runner'.pc \in {"free", "head"} /\ runner'.by \in {"none", "run"}
            BY <5>2 DEF ExecuteReturns
          <6> QED
            BY <6>1
        <5> QED
          BY <3>1, <5>1, <5>2, <5>3 DEF Execute
      <4> QED
        BY <1>E, <4>1
    <3>2. CASE DispatchCancelled \/ ClearRequest
      BY <1>T, <3>2 DEF DispatchCancelled, Executing, ClearRequest, PastTheCheck
    <3> QED
      BY <1>7, <3>1, <3>2
  <2> QED
    BY <1>3, <2>1, <2>2
<1>8. CASE Recover
  <2>1. Calm
    BY <1>8 DEF Recover, RecoverRetry, RecoverRemediation, RecoverRequireHuman, RecoverDeclined,
       Recovers, RecordRecovery
  <2>2. Unaware
    <3>1. CASE RecordRecovery
      BY <1>T, <3>1 DEF RecordRecovery, RunnerType, PastTheCheck
    <3>2. CASE Recover /\ ~RecordRecovery
      BY <3>2 DEF Recover, RecoverRetry, RecoverRemediation, RecoverRequireHuman, RecoverDeclined,
         Recovers, PastTheCheck
    <3> QED
      BY <1>8, <3>1, <3>2
  <2> QED
    BY <1>3, <2>1, <2>2
<1>9. CASE HostCalls \/ Crash \/ RuntimeElapses \/ UNCHANGED vars
  <2>1. Calm
    BY <1>9 DEF HostCalls, ApproveAction, RejectAction, RetryStep, Crash, RuntimeElapses, vars
  <2>2. Elsewhere
    <3>1. CASE HostCalls
      BY <3>1 DEF HostCalls, ApproveAction, RejectAction, RetryStep
    <3>2. CASE Crash \/ RuntimeElapses \/ UNCHANGED vars
      BY <3>2 DEF Crash, RuntimeElapses, vars
    <3> QED
      BY <1>9, <3>1, <3>2
  <2> QED
    BY <1>3, <1>E, <2>1, <2>2
<1>10. ASSUME NEW c \in Cancellers,
              CancelBegins(c) \/ CancelClears(c) \/ CancelLocks(c) \/ CancelLeaves(c)
       PROVE  PromptInv'
  <2>1. Calm
    BY <1>10 DEF CancelBegins, CancelClears, CancelLocks, CancelLeaves
  <2>2. Elsewhere
    BY <1>10 DEF CancelBegins, CancelClears, CancelLocks, CancelLeaves
  <2> QED
    BY <1>3, <1>E, <2>1, <2>2
<1> QED
  BY <1>1, <1>2, <1>4, <1>5, <1>6, <1>7, <1>8, <1>9, <1>10 DEF Next, Iterate, CancelLoop

\* However often a loop is cancelled, run_loop begins at most one action after
\* a request that it has not cleared.
THEOREM CancelIsPrompt == Spec => []CancelPrompt
<1>1. Init => PromptInv
  BY DEF Init, PromptInv
<1>2. LoopInv /\ PromptInv /\ [Next]_vars => PromptInv'
  BY PromptStep
<1>3. PromptInv => CancelPrompt
  BY DEF PromptInv, CancelPrompt
<1> QED
  BY <1>1, <1>2, <1>3, LoopInvariant, PTL DEF Spec

\* A recovery of f is on disk and its event is not.
Unrecorded(f) == runner.pc = "record" /\ runner.failure = f
RecoveryInv ==
  \A f \in Failures :
    /\ recovered[f] <= config.budget[f]
    /\ Unrecorded(f) => recovered[f] < config.budget[f]
    /\ applied[f] <= recovered[f] + spent.crashes + IF Unrecorded(f) THEN 1 ELSE 0

\* Only a crash hides a recovery from the count.
LEMMA RecoveryStep ==
  ASSUME LoopInv, RecoveryInv, [Next]_vars
  PROVE  RecoveryInv'
<1> USE DEF env, Move, Return, Free
<1> DEFINE Counts == UNCHANGED <<config, recovered, applied>> /\ spent'.crashes = spent.crashes
           Quiet == runner' = runner \/ (runner'.pc # "record" /\ runner.pc # "record")
<1>T. /\ recovered \in [Failures -> Nat] /\ applied \in [Failures -> Nat]
      /\ config.budget \in [Failures -> Nat]
      /\ spent \in [crashes : 0..MaxCrashes, retries : 0..MaxRetries, cancels : 0..MaxCancels]
      /\ spent.crashes \in Nat
  BY ConfigAssumption, LoopBoundAssumption DEF LoopInv, TypeOK, ConfigType
<1>1. CASE Counts /\ Quiet
  BY <1>T, <1>1 DEF RecoveryInv, Unrecorded
<1>2. ASSUME NEW action, Recovers(action) PROVE RecoveryInv'
  <2>1. runner.failure \in Failures /\ runner'.pc = "record" /\ runner'.failure = runner.failure
    BY <1>2 DEF Recovers, LoopInv, StepInv
  <2>2. ASSUME NEW f \in Failures
        PROVE  /\ recovered'[f] <= config'.budget[f]
               /\ Unrecorded(f)' => recovered'[f] < config'.budget[f]
               /\ applied'[f] <= recovered'[f] + spent'.crashes + IF Unrecorded(f)' THEN 1 ELSE 0
    BY <1>T, <1>2, <2>1 DEF Recovers, BudgetLeft, RecoveryInv, Unrecorded
  <2> QED
    BY <2>2 DEF RecoveryInv
<1>3. CASE RecordRecovery
  <2>1. runner.failure \in Failures /\ runner'.pc # "record"
    BY <1>3 DEF RecordRecovery, LoopInv, StepInv
  <2> QED
    BY <1>T, <1>3, <2>1 DEF RecordRecovery, RecoveryInv, Unrecorded
<1>4. CASE Crash
  BY <1>T, <1>4 DEF Crash, RecoveryInv, Unrecorded
<1>5. CASE RunLoop
  <2>1. Counts
    BY <1>5 DEF RunLoop, RunTerminal, RunOverBudget, RunCancelled, RunHeld, RunExpired, RunPending, RunStarts
  <2>2. Quiet
    <3>1. CASE RunTerminal \/ RunOverBudget \/ RunHeld \/ RunPending
      BY <3>1 DEF RunTerminal, RunOverBudget, RunHeld, RunPending
    <3>2. CASE RunCancelled
      BY <3>2 DEF RunCancelled, EnterRun
    <3>4. CASE RunExpired
      BY <3>4 DEF RunExpired, EnterRun
    <3>3. CASE RunStarts
      BY <3>3 DEF RunStarts, EnterRun
    <3> QED
      BY <1>5, <3>1, <3>2, <3>3, <3>4 DEF RunLoop
  <2> QED
    BY <1>1, <2>1, <2>2
<1>6. CASE Iterate
  <2>1. Counts
    BY <1>6 DEF Iterate, HeadOverBudget, HeadCancelled, HeadPasses, SelectScheduled, SelectPlanned,
       SelectExhausted, Complete, OutOfTurns, AskApproval, StartStep
  <2>2. runner.pc \in {"head", "select", "picked"} /\ runner'.pc # "record"
    BY <1>6 DEF Iterate, HeadOverBudget, HeadCancelled, HeadPasses, SelectScheduled, SelectPlanned,
       SelectExhausted, Complete, OutOfTurns, AskApproval, StartStep
  <2> QED
    BY <1>1, <2>1, <2>2
<1>7. CASE Execute
  <2>1. CASE CheckFails
    BY <1>1, <2>1 DEF CheckFails, Executing
  <2>2. CASE ExecuteRaises
    BY <1>1, <2>2 DEF ExecuteRaises, Executing
  <2>3. ASSUME NEW passed \in BOOLEAN, ExecuteReturns(passed) PROVE RecoveryInv'
    BY <1>1, <2>3 DEF ExecuteReturns, Executing
  <2> QED
    BY <1>7, <2>1, <2>2, <2>3 DEF Execute
<1>8. CASE DispatchCancelled
  BY <1>1, <1>8 DEF DispatchCancelled, Executing
<1>9. CASE ClearRequest
  BY <1>1, <1>9 DEF ClearRequest
<1>10. CASE RecoverDeclined
  BY <1>1, <1>10 DEF RecoverDeclined
<1>11. ASSUME NEW i \in DOMAIN loop.steps, ApproveAction(i) PROVE RecoveryInv'
  BY <1>1, <1>11 DEF ApproveAction, Answerable
<1>12. ASSUME NEW i \in DOMAIN loop.steps, RejectAction(i) PROVE RecoveryInv'
  BY <1>1, <1>12 DEF RejectAction
<1>13. ASSUME NEW i \in DOMAIN loop.steps, RetryStep(i) PROVE RecoveryInv'
  BY <1>T, <1>1, <1>13 DEF RetryStep
<1>14. ASSUME NEW c \in Cancellers, CancelBegins(c) PROVE RecoveryInv'
  BY <1>T, <1>1, <1>14 DEF CancelBegins
<1>15. ASSUME NEW c \in Cancellers, CancelClears(c) \/ CancelRequests(c) \/ CancelLeaves(c)
       PROVE  RecoveryInv'
  BY <1>1, <1>15 DEF CancelClears, CancelRequests, CancelLeaves
<1>16. ASSUME NEW c \in Cancellers, CancelLocks(c) PROVE RecoveryInv'
  BY <1>1, <1>16 DEF CancelLocks
<1>17. CASE RuntimeElapses \/ UNCHANGED vars
  BY <1>1, <1>17 DEF RuntimeElapses, vars
<1> QED
  BY <1>2, <1>3, <1>4, <1>5, <1>6, <1>7, <1>8, <1>9, <1>10, <1>11, <1>12, <1>13, <1>14, <1>15, <1>16, <1>17
  DEF Next, Recover, RecoverRetry, RecoverRemediation, RecoverRequireHuman, HostCalls, CancelLoop

\* However failures, retries, approvals and cancels interleave, a failure type
\* is recovered at most maxRetries times plus once per crash.
THEOREM RecoveryIsBounded == Spec => []RecoveryBounded
<1>1. Init => RecoveryInv
  <2> SUFFICES ASSUME Init PROVE RecoveryInv
    OBVIOUS
  <2>1. config.budget \in [Failures -> Nat]
    BY ConfigAssumption DEF Init, ConfigType
  <2> QED
    BY <2>1 DEF Init, RecoveryInv, Unrecorded, Free
<1>2. LoopInv /\ RecoveryInv /\ [Next]_vars => RecoveryInv'
  BY RecoveryStep
<1>3. LoopInv /\ RecoveryInv => RecoveryBounded
  <2> SUFFICES ASSUME LoopInv, RecoveryInv, NEW f \in Failures
               PROVE  applied[f] <= config.budget[f] + spent.crashes
    BY DEF RecoveryBounded
  <2>1. /\ recovered[f] \in Nat /\ applied[f] \in Nat /\ config.budget[f] \in Nat
        /\ spent.crashes \in Nat
    BY ConfigAssumption, LoopBoundAssumption DEF LoopInv, TypeOK, ConfigType
  <2> QED
    BY <2>1 DEF RecoveryInv
<1> QED
  BY <1>1, <1>2, <1>3, LoopInvariant, PTL DEF Spec
-----------------------------------------------------------------------------
(* The gate of a completed loop.                                           *)

\* A set of natural numbers has a least one.
LEMMA LeastNatural ==
  ASSUME NEW T \in SUBSET Nat, T # {}
  PROVE  \E x \in T : \A y \in T : x <= y
<1>1. IsWellFoundedOn(OpToRel(<, Nat), Nat)
  BY NatLessThanWellFounded, Zenon
<1>2. \E x \in T : \A y \in T : ~(<<y, x>> \in OpToRel(<, Nat))
  BY <1>1, WFMin, Zenon
<1>3. \A x \in Nat : \A y \in Nat : y < x => <<y, x>> \in OpToRel(<, Nat)
  BY DEF OpToRel
<1>4. \E x \in T : \A y \in T : ~(y < x)
  BY <1>2, <1>3, Zenon
<1>5. \A x \in T : \A y \in T : ~(y < x) => x <= y
  OBVIOUS
<1> QED BY <1>4, <1>5, Zenon

\* _latest_action_index is the last index of such a step, or 0.
LEMMA LatestFacts ==
  ASSUME NEW steps \in Seq(StepType), NEW types
  PROVE  LET q == LatestIndex(steps, types)
         IN /\ q \in 0..Len(steps)
            /\ q # 0 => q \in DOMAIN steps /\ steps[q].type \in types
            /\ \A j \in DOMAIN steps : steps[j].type \in types => j <= q
<1> DEFINE found == {i \in DOMAIN steps : steps[i].type \in types}
           n == Len(steps)
           above == {m \in Nat : \A j \in found : j <= m}
<1>1. DOMAIN steps = 1..n /\ n \in Nat /\ found \subseteq 1..n
  OBVIOUS
<1>2. CASE found = {}
  BY <1>1, <1>2 DEF LatestIndex
<1>3. CASE found # {}
  <2>1. n \in above
    BY <1>1
  <2>2. PICK x \in above : \A y \in above : x <= y
    <3> HIDE DEF above
    <3>1. above \in SUBSET Nat
      BY DEF above
    <3> QED BY <2>1, <3>1, LeastNatural
  <2>3. x \in found
    <3> SUFFICES ASSUME x \notin found PROVE FALSE
      OBVIOUS
    <3>1. x # 0
      BY <1>1, <1>3, <2>2
    <3>2. \A j \in found : j <= x /\ j # x /\ j \in Nat
      BY <1>1, <2>2
    <3>3. x - 1 \in above
      BY <2>2, <3>1, <3>2
    <3> QED BY <2>2, <3>3
  <2>4. \E i \in found : \A j \in found : j <= i
    BY <2>2, <2>3
  <2>5. LatestIndex(steps, types) = CHOOSE i \in found : \A j \in found : j <= i
    BY <1>3 DEF LatestIndex
  <2>6. LatestIndex(steps, types) \in found /\ \A j \in found : j <= LatestIndex(steps, types)
    <3> HIDE DEF found
    <3> QED BY <2>4, <2>5
  <2> QED BY <1>1, <2>6
<1> QED BY <1>2, <1>3

Gate(l) == LatestIndex(l.steps, {"quality_gate"})
Dispatch(l) == LatestIndex(l.steps, Dispatches)

\* A gate is due, or the latest one passed; the loop may be completed.
Due(l) == QualityFailed(l) => Gate(l) < Dispatch(l)
Gated(l) == Dispatch(l) <= Gate(l) /\ (Gate(l) \in DOMAIN l.steps => l.steps[Gate(l)].passed)

\* A gate that did not pass is not followed by another before a dispatch.
Separated(steps) ==
  \A i, j \in DOMAIN steps :
    i < j /\ steps[i].type = "quality_gate" /\ ~steps[i].passed /\ steps[j].type = "quality_gate" =>
      \E k \in DOMAIN steps : i < k /\ k < j /\ steps[k].type \in Dispatches

\* What the planner has found at each place, and what a rollback relies on.
GateInv ==
  /\ loop.next \in {None, "remediation_dispatch"}
  /\ config.policy["quality_failed"] = "retry" => Separated(loop.steps)
  /\ runner.pc = "picked" =>
       (runner.action = None => Gated(loop)) /\ (runner.action = "quality_gate" => Due(loop))
  /\ runner.pc = "recover" /\ runner.by = "select" =>
       runner.failure = "quality_failed" /\ QualityFailed(loop) /\ loop.next = None
  /\ runner.pc = "record" /\ runner.by = "select" /\ loop.status # "awaiting_approval" /\ loop.next = None =>
       Due(loop)
  /\ loop.status = "completed" => Gated(loop)

\* A failed gate that is retried is not also handed to a human, whose approval
\* would leave the failed attempt behind.
GatesRetriedAlone ==
  config.policy["quality_failed"] = "retry" =>
    config.policy["adapter_error"] # "require_human" /\ config.policy["lease_expired"] # "require_human"

\* When the planner has nothing left and no failed gate is the latest, the gate
\* is passed; a gate that it names is due.
LEMMA PeekFacts ==
  ASSUME NEW l \in LoopType
  PROVE  /\ PeekNextAction(l) = None /\ Due(l) => Gated(l)
         /\ PeekNextAction(l) = "quality_gate" /\ l.next \in {None, "remediation_dispatch"} => Due(l)
         /\ ~QualityFailed(l) => Due(l)
<1>1. /\ Gate(l) \in 0..Len(l.steps) /\ Dispatch(l) \in 0..Len(l.steps) /\ Len(l.steps) \in Nat
      /\ None # "quality_gate" /\ None # "remediation_dispatch"
  BY LatestFacts, NoneAssumption DEF LoopType, Gate, Dispatch, ActionTypes, Dispatches
<1>2. ASSUME PeekNextAction(l) = None, Due(l) PROVE Gated(l)
  <2>1. ~(Gate(l) < Dispatch(l))
    BY <1>1, <1>2 DEF PeekNextAction, Gate, Dispatch
  <2> QED BY <1>1, <1>2, <2>1 DEF Due, Gated, QualityFailed, Gate
<1>3. ASSUME PeekNextAction(l) = "quality_gate", l.next \in {None, "remediation_dispatch"} PROVE Due(l)
  BY <1>1, <1>3 DEF PeekNextAction, Due, Gate, Dispatch
<1> QED BY <1>2, <1>3 DEF Due

\* Steps that differ in their status, and the last one also in its report.
LEMMA SeparatedKept ==
  ASSUME NEW s, NEW t, Separated(s), DOMAIN t = DOMAIN s, DOMAIN s \subseteq Nat,
         \A i \in DOMAIN s : t[i].type = s[i].type,
         \A i, j \in DOMAIN s : i < j => t[i].passed = s[i].passed
  PROVE  Separated(t)
BY DEF Separated

\* A step is appended: another gate only when it is due.
LEMMA SeparatedAppended ==
  ASSUME NEW l \in LoopType, Separated(l.steps), NEW new \in StepType,
         new.type = "quality_gate" => Due(l)
  PROVE  Separated(Append(l.steps, new))
<1> DEFINE s == l.steps
           t == Append(s, new)
           n == Len(s)
<1>1. s \in Seq(StepType) /\ n \in Nat /\ DOMAIN s = 1..n
  BY DEF LoopType
<1>2. DOMAIN t = 1..(n + 1) /\ t[n + 1] = new /\ \A i \in 1..n : t[i] = s[i]
  BY <1>1
<1>3. /\ Gate(l) \in 0..n /\ Dispatch(l) \in 0..n
      /\ Gate(l) # 0 => s[Gate(l)].type = "quality_gate"
      /\ Dispatch(l) # 0 => s[Dispatch(l)].type \in Dispatches
      /\ \A j \in 1..n : s[j].type = "quality_gate" => j <= Gate(l)
  BY <1>1, LatestFacts DEF Gate, Dispatch
<1> SUFFICES ASSUME NEW i \in DOMAIN t, NEW j \in DOMAIN t, i < j, t[i].type = "quality_gate",
                    ~t[i].passed, t[j].type = "quality_gate"
             PROVE  \E k \in DOMAIN t : i < k /\ k < j /\ t[k].type \in Dispatches
  BY DEF Separated
<1>4. i \in 1..n /\ t[i] = s[i] /\ i <= Gate(l)
  BY <1>1, <1>2, <1>3
<1>5. CASE j \in 1..n
  <2>1. PICK k \in DOMAIN s : i < k /\ k < j /\ s[k].type \in Dispatches
    BY <1>1, <1>2, <1>4, <1>5 DEF Separated
  <2> QED BY <1>1, <1>2, <2>1
<1>6. CASE j = n + 1
  <2>1. Due(l)
    BY <1>2, <1>6
  <2>2. CASE i = Gate(l)
    <3>1. Gate(l) < Dispatch(l)
      BY <1>1, <1>4, <2>1, <2>2 DEF Due, QualityFailed, Gate
    <3> QED BY <1>2, <1>3, <1>6, <2>2, <3>1
  <2>3. CASE i # Gate(l)
    <3>1. PICK k \in DOMAIN s : i < k /\ k < Gate(l) /\ s[k].type \in Dispatches
      BY <1>1, <1>3, <1>4, <2>3 DEF Separated
    <3> QED BY <1>1, <1>2, <1>3, <1>6, <3>1
  <2> QED BY <2>2, <2>3
<1> QED BY <1>2, <1>5, <1>6

\* A rollback keeps the beginning of the steps.
LEMMA RollbackSteps ==
  ASSUME NEW l \in LoopType, NEW i \in DOMAIN l.steps
  PROVE  /\ DOMAIN Rollback(l, i).steps = 1..(i - 1) /\ i \in 1..Len(l.steps)
         /\ \A j \in 1..(i - 1) : Rollback(l, i).steps[j] = l.steps[j]
         /\ Rollback(l, i).next = l.next
<1>1. l.steps \in Seq(StepType) /\ DOMAIN l.steps = 1..Len(l.steps) /\ Len(l.steps) \in Nat
  BY StepsDomain DEF LoopType
<1>2. Rollback(l, i).steps = SubSeq(l.steps, 1, i - 1) /\ Rollback(l, i).next = l.next
  BY DEF Rollback, LoopType
<1> QED BY <1>1, <1>2

\* What a rollback to a gate leaves has an earlier failed gate only before a
\* dispatch.
LEMMA RolledBack ==
  ASSUME NEW l \in LoopType, NEW r \in LoopType, Separated(l.steps), NEW i \in 1..Len(l.steps),
         DOMAIN r.steps = 1..(i - 1), \A j \in 1..(i - 1) : r.steps[j] = l.steps[j]
  PROVE  /\ Separated(r.steps)
         /\ l.steps[i].type = "quality_gate" => Due(r)
<1>1. /\ DOMAIN l.steps = 1..Len(l.steps) /\ Len(l.steps) \in Nat
      /\ r.steps \in Seq(StepType) /\ DOMAIN r.steps \subseteq DOMAIN l.steps
      /\ i \in DOMAIN l.steps /\ i \in Nat
  BY StepsDomain DEF LoopType
<1>2. Separated(r.steps)
  <2> SUFFICES ASSUME NEW g \in 1..(i - 1), NEW h \in 1..(i - 1), g < h,
                      l.steps[g].type = "quality_gate", ~l.steps[g].passed,
                      l.steps[h].type = "quality_gate"
               PROVE  \E k \in 1..(i - 1) : g < k /\ k < h /\ l.steps[k].type \in Dispatches
    BY DEF Separated
  <2>1. g \in DOMAIN l.steps /\ h \in DOMAIN l.steps
    BY <1>1
  <2>2. PICK k \in DOMAIN l.steps : g < k /\ k < h /\ l.steps[k].type \in Dispatches
    BY <2>1 DEF Separated
  <2>3. k \in 1..(i - 1)
    BY <1>1, <2>2
  <2> QED BY <2>2, <2>3
<1>3. ASSUME l.steps[i].type = "quality_gate", QualityFailed(r) PROVE Gate(r) < Dispatch(r)
  <2>1. Gate(r) \in DOMAIN r.steps /\ ~r.steps[Gate(r)].passed
    BY <1>3 DEF QualityFailed, Gate
  <2>2. /\ r.steps[Gate(r)].type = "quality_gate"
        /\ \A j \in DOMAIN r.steps : r.steps[j].type \in Dispatches => j <= Dispatch(r)
        /\ Dispatch(r) \in 0..Len(r.steps) /\ Len(r.steps) \in Nat
    <3>1. Len(r.steps) \in Nat /\ DOMAIN r.steps = 1..Len(r.steps)
      BY StepsDomain
    <3>2. /\ Dispatch(r) \in 0..Len(r.steps)
          /\ \A j \in DOMAIN r.steps : r.steps[j].type \in Dispatches => j <= Dispatch(r)
      BY <1>1, LatestFacts DEF Dispatch
    <3>3. Gate(r) # 0 => r.steps[Gate(r)].type \in {"quality_gate"}
      BY <1>1, LatestFacts DEF Gate
    <3> QED BY <2>1, <3>1, <3>2, <3>3
  <2>3. /\ Gate(r) \in DOMAIN l.steps /\ Gate(r) < i /\ Gate(r) \in Nat
        /\ l.steps[Gate(r)] = r.steps[Gate(r)]
    BY <1>1, <2>1
  <2>4. PICK k \in DOMAIN l.steps : Gate(r) < k /\ k < i /\ l.steps[k].type \in Dispatches
    BY <1>1, <1>3, <2>1, <2>2, <2>3 DEF Separated
  <2>5. k \in DOMAIN r.steps /\ r.steps[k] = l.steps[k] /\ k \in Nat
    BY <1>1, <2>4
  <2> QED BY <2>2, <2>3, <2>4, <2>5
<1> QED BY <1>2, <1>3 DEF Due

\* Closing the last step leaves the types of the steps and the other reports.
LEMMA ClosedSeparated ==
  ASSUME NEW l \in LoopType, Separated(l.steps), l.steps # <<>>,
         NEW status \in StepStatus, NEW passed \in BOOLEAN
  PROVE  Separated(WithLast(l, status, passed).steps)
<1> DEFINE n == Len(l.steps)
           t == WithLast(l, status, passed).steps
<1>1. n \in DOMAIN l.steps /\ DOMAIN l.steps = 1..n /\ n \in Nat /\ l.steps[n] \in StepType
  BY StepsDomain
<1>2. t = [l.steps EXCEPT ![n] = [@ EXCEPT !.status = status, !.passed = passed]]
  BY DEF WithLast, LoopType
<1>3. DOMAIN t = DOMAIN l.steps /\ \A i \in DOMAIN l.steps : t[i].type = l.steps[i].type
  BY <1>1, <1>2 DEF StepType
<1>4. \A i \in DOMAIN l.steps : i # n => t[i] = l.steps[i]
  BY <1>1, <1>2
<1>5. \A i, j \in DOMAIN l.steps : i < j => t[i].passed = l.steps[i].passed
  BY <1>1, <1>4
<1>6. Separated(t)
  <2> HIDE DEF t
  <2> QED BY <1>1, <1>3, <1>5, SeparatedKept
<1> QED BY <1>6

\* So does cancelling the steps that are open.
LEMMA CancelledSeparated ==
  ASSUME NEW l \in LoopType, Separated(l.steps)
  PROVE  Separated(CancelledLoop(l).steps)
<1> DEFINE t == CancelledLoop(l).steps
<1>1. DOMAIN l.steps \subseteq Nat /\ \A i \in DOMAIN l.steps : l.steps[i] \in StepType
  BY StepsDomain
<1>2. t = [i \in DOMAIN l.steps |->
             IF l.steps[i].status \in {"running", "waiting_approval"}
               THEN [l.steps[i] EXCEPT !.status = "cancelled"] ELSE l.steps[i]]
  BY DEF CancelledLoop, LoopType
<1>3. /\ DOMAIN t = DOMAIN l.steps
      /\ \A i \in DOMAIN l.steps : t[i].type = l.steps[i].type /\ t[i].passed = l.steps[i].passed
  BY <1>1, <1>2 DEF StepType
<1>4. Separated(t)
  <2> HIDE DEF t
  <2> QED BY <1>1, <1>3, SeparatedKept
<1> QED BY <1>4

\* So does answering an approval, which changes one status.
LEMMA AnsweredSeparated ==
  ASSUME NEW l \in LoopType, Separated(l.steps), NEW i \in DOMAIN l.steps, NEW status, NEW verdict
  PROVE  LET a == [l EXCEPT !.status = status, !.steps[i].status = verdict]
         IN Separated(a.steps) /\ a.next = l.next /\ a.status = status
<1> DEFINE a == [l EXCEPT !.status = status, !.steps[i].status = verdict]
           t == a.steps
<1>1. DOMAIN l.steps \subseteq Nat /\ \A j \in DOMAIN l.steps : l.steps[j] \in StepType
  BY StepsDomain
<1>2. t = [l.steps EXCEPT ![i].status = verdict] /\ a.next = l.next /\ a.status = status
  BY DEF LoopType
<1>3. /\ DOMAIN t = DOMAIN l.steps
      /\ \A j \in DOMAIN l.steps : t[j].type = l.steps[j].type /\ t[j].passed = l.steps[j].passed
  BY <1>1, <1>2 DEF StepType
<1>4. Separated(t)
  <2> HIDE DEF t
  <2> QED BY <1>1, <1>3, SeparatedKept
<1> QED BY <1>2, <1>4

\* A step of another type is appended, or a gate that is due.
LEMMA OpenedSeparated ==
  ASSUME NEW l \in LoopType, Separated(l.steps), NEW type \in ActionTypes, NEW status \in StepStatus,
         type = "quality_gate" => Due(l)
  PROVE  Separated(Appended(l, type, status).steps)
<1> DEFINE new == [type |-> type, turn |-> l.turn + 1, passed |-> FALSE, status |-> status]
<1>1. new \in StepType /\ new.type = type
  BY DEF StepType, LoopType
<1>2. Appended(l, type, status).steps = Append(l.steps, new)
  BY DEF Appended, LoopType
<1> HIDE DEF new
<1> QED BY <1>1, <1>2, SeparatedAppended

\* Every action keeps GateInv.
LEMMA GateStep ==
  ASSUME LoopInv, GateInv, GatesRetriedAlone, [Next]_vars
  PROVE  GateInv'
<1> USE DEF env, Move, Return, Free
<1> DEFINE Retried == config.policy["quality_failed"] = "retry"
<1>A. /\ config \in Configs /\ config \in ConfigType /\ loop \in LoopType /\ runner \in RunnerType
      /\ None # "quality_gate" /\ None # "remediation_dispatch" /\ "remediation_dispatch" \in ActionTypes
  BY ConfigAssumption, NoneAssumption DEF LoopInv, TypeOK, ActionTypes, Dispatches
<1>S. ASSUME loop'.steps = loop.steps
      PROVE  (Gated(loop))' = Gated(loop) /\ (Due(loop))' = Due(loop) /\ QualityFailed(loop)' = QualityFailed(loop)
  BY <1>S DEF Gated, Due, QualityFailed, Gate, Dispatch
\* Actions after which the planner's findings are forgotten and the loop goes on.
<1>Q. ASSUME config' = config, loop'.next \in {None, "remediation_dispatch"},
             Retried => Separated(loop'.steps),
             runner'.pc # "picked", runner'.pc \in {"recover", "record"} => runner'.by # "select",
             loop'.status = "completed" => loop' = loop
      PROVE  GateInv'
  <2>1. loop'.status = "completed" => (Gated(loop))'
    BY <1>Q, <1>S DEF GateInv
  <2> QED BY <1>Q, <2>1 DEF GateInv
<1>1. CASE UNCHANGED <<config, loop, runner>>
  BY <1>1, <1>S DEF GateInv
<1>2. CASE UNCHANGED <<config, loop>> /\ runner'.pc \in {"free", "select"}
  BY <1>2, <1>Q DEF GateInv
<1>3. CASE \/ RunOverBudget \/ RunHeld \/ RunPending \/ RunStarts
           \/ HeadOverBudget \/ OutOfTurns \/ RecoverDeclined
  <2>1. PICK status \in {"stopped", "running", "awaiting_approval", "failed"} :
          /\ loop' = [loop EXCEPT !.status = status] /\ config' = config
          /\ runner' = runner \/ runner'.pc \in {"free", "head"}
          /\ runner.pc \in {"free", "head", "picked", "recover"}
          /\ runner' = runner => runner.pc = "free"
    BY <1>3 DEF RunOverBudget, RunHeld, RunPending, RunStarts, HeadOverBudget, OutOfTurns,
       RecoverDeclined, EnterRun, SetStatus
  <2>2. loop'.steps = loop.steps /\ loop'.next = loop.next /\ loop'.status # "completed"
    BY <1>A, <2>1 DEF LoopType
  <2> QED BY <1>Q, <2>1, <2>2 DEF GateInv
<1>4. CASE RunCancelled \/ HeadCancelled \/ DispatchCancelled
  <2>1. /\ loop' = CancelledLoop(loop) /\ config' = config /\ runner'.pc = "ack"
    BY <1>4 DEF RunCancelled, HeadCancelled, DispatchCancelled
  <2>2. loop'.next = loop.next /\ loop'.status = "cancelled"
    BY <1>A, <2>1 DEF CancelledLoop, LoopType
  <2>3. Retried => Separated(loop'.steps)
    BY <1>A, <2>1, CancelledSeparated DEF GateInv
  <2> QED BY <1>Q, <2>1, <2>2, <2>3 DEF GateInv
<1>C. ASSUME loop.steps # <<>>, NEW status \in {"failed", "completed"}, NEW passed \in BOOLEAN
      PROVE  /\ Retried => Separated(WithLast(loop, status, passed).steps)
             /\ WithLast(loop, status, passed).next = loop.next
             /\ WithLast(loop, status, passed).status = loop.status
             /\ LET w == [WithLast(loop, status, passed) EXCEPT !.status = "running"]
                IN w.steps = WithLast(loop, status, passed).steps /\ w.next = loop.next /\ w.status = "running"
  <2>1. Retried => Separated(WithLast(loop, status, passed).steps)
    BY <1>A, <1>C, ClosedSeparated DEF GateInv, StepStatus
  <2> QED BY <1>A, <2>1 DEF WithLast, LoopType
<1>5. CASE RunExpired \/ CheckFails \/ ExecuteRaises
  <2>1. /\ loop' = WithLast(loop, "failed", FALSE) /\ config' = config /\ runner'.pc = "recover"
        /\ runner'.by # "select"
    <3>1. CASE RunExpired
      BY <3>1 DEF RunExpired
    <3>2. CASE CheckFails
      BY <3>2 DEF CheckFails
    <3>3. CASE ExecuteRaises
      BY <3>3 DEF ExecuteRaises, Executing, LoopInv, StepInv
    <3> QED BY <1>5, <3>1, <3>2, <3>3
  <2>2. loop.steps # <<>> /\ loop.status \notin Terminal
    <3>1. CASE RunExpired
      BY <3>1, <1>A, StepsDomain DEF RunExpired, EnterRun, HasStep
    <3>2. CASE CheckFails \/ ExecuteRaises
      BY <3>2 DEF CheckFails, ExecuteRaises, Executing, LoopInv, StepInv
    <3> QED BY <1>5, <3>1, <3>2
  <2> QED BY <1>C, <1>Q, <2>1, <2>2 DEF GateInv, Terminal
<1>6. CASE \E passed \in BOOLEAN : ExecuteReturns(passed)
  <2>1. PICK passed \in BOOLEAN :
          /\ loop' = [WithLast(loop, "completed", passed) EXCEPT !.status = "running"]
          /\ config' = config /\ runner.pc = "execute" /\ runner'.pc \in {"head", "free"}
    BY <1>6 DEF ExecuteReturns, Executing
  <2>2. loop.steps # <<>>
    BY <2>1 DEF LoopInv, StepInv
  <2> QED BY <1>C, <1>Q, <2>1, <2>2 DEF GateInv
<1>7. CASE AskApproval \/ StartStep
  <2>1. PICK status \in Open :
          /\ loop' = [Appended(loop, runner.action, status)
                        EXCEPT !.status = IF status = "running" THEN "running" ELSE "awaiting_approval"]
          /\ runner'.pc \in {"free", "execute"} /\ config' = config
    BY <1>7 DEF AskApproval, StartStep, Open
  <2>2. runner.action \in ActionTypes /\ runner.pc = "picked"
    BY <1>A, <1>7 DEF AskApproval, StartStep, ConfigType
  <2>3. Retried => Separated(Appended(loop, runner.action, status).steps)
    BY <1>A, <2>2, OpenedSeparated DEF GateInv, Open, StepStatus
  <2>4. /\ loop'.steps = Appended(loop, runner.action, status).steps /\ loop'.next = loop.next
        /\ loop'.status \in {"running", "awaiting_approval"}
    BY <1>A, <2>1 DEF Appended, LoopType
  <2> QED BY <1>Q, <2>1, <2>3, <2>4 DEF GateInv
<1>8. CASE \E i \in DOMAIN loop.steps : ApproveAction(i) \/ RejectAction(i)
  <2>1. PICK i \in DOMAIN loop.steps, status \in {"running", "stopped"}, verdict \in {"running", "rejected"} :
          /\ loop' = [loop EXCEPT !.status = status, !.steps[i].status = verdict]
          /\ config' = config /\ runner'.pc \in {"execute", "free"}
    <3>1. PICK i \in DOMAIN loop.steps : ApproveAction(i) \/ RejectAction(i)
      BY <1>8
    <3>2. CASE ApproveAction(i)
      BY <3>2 DEF ApproveAction
    <3>3. CASE RejectAction(i)
      BY <3>3 DEF RejectAction, Answerable
    <3> QED BY <3>1, <3>2, <3>3
  <2>2. (Retried => Separated(loop'.steps)) /\ loop'.next = loop.next /\ loop'.status = status
    BY <1>A, <2>1, AnsweredSeparated DEF GateInv
  <2> QED BY <1>Q, <2>1, <2>2 DEF GateInv
<1>9. CASE \E i \in DOMAIN loop.steps : RetryStep(i)
  <2>1. PICK i \in DOMAIN loop.steps :
          loop' = Rollback(loop, i) /\ config' = config /\ runner' = runner /\ runner.pc = "free"
    BY <1>9 DEF RetryStep
  <2>2. loop' \in LoopType /\ loop'.status = "running"
    BY <1>A, <2>1, RollbackFacts DEF LoopInv, StepInv
  <2>3. (Retried => Separated(loop'.steps)) /\ loop'.next = loop.next
    BY <1>A, <2>1, <2>2, RollbackSteps, RolledBack DEF GateInv
  <2> QED BY <1>Q, <2>1, <2>2, <2>3 DEF GateInv
<1>10. CASE SelectScheduled
  <2>1. loop'.steps = loop.steps /\ loop'.next = None /\ loop'.status = loop.status /\ config' = config
        /\ runner'.pc = "picked" /\ runner'.action = "remediation_dispatch"
    BY <1>A, <1>10 DEF SelectScheduled, LoopType, GateInv
  <2> QED BY <1>A, <1>S, <2>1 DEF GateInv
<1>11. CASE SelectPlanned
  <2>1. /\ UNCHANGED <<config, loop>> /\ runner'.pc = "picked" /\ runner'.action = PeekNextAction(loop)
        /\ PeekNextAction(loop) # None \/ ~QualityFailed(loop)
    BY <1>11 DEF SelectPlanned
  <2>2. /\ PeekNextAction(loop) = None => Gated(loop)
        /\ PeekNextAction(loop) = "quality_gate" => Due(loop)
    BY <1>A, <2>1, PeekFacts DEF GateInv
  <2> QED BY <1>S, <2>1, <2>2 DEF GateInv
<1>12. CASE SelectExhausted
  BY <1>S, <1>12 DEF SelectExhausted, GateInv
<1>13. CASE Complete
  <2>1. loop'.steps = loop.steps /\ loop'.next = loop.next /\ config' = config /\ runner'.pc = "free"
        /\ Gated(loop)
    BY <1>A, <1>13 DEF Complete, SetStatus, LoopType, GateInv
  <2> QED BY <1>S, <2>1 DEF GateInv
<1>14. CASE RecoverRetry
  <2>1. /\ loop' = Rollback(loop, FailedStep) /\ config' = config
        /\ runner.pc = "recover" /\ runner'.pc = "record" /\ runner'.by = runner.by
        /\ config.policy[runner.failure] = "retry" /\ FailedStep \in DOMAIN loop.steps
    BY <1>14 DEF RecoverRetry, Recovers, LoopInv, StepInv
  <2>2. loop' \in LoopType /\ loop'.status = "running"
    BY <1>A, <2>1, RollbackFacts DEF LoopInv, StepInv
  <2>3. (Retried => Separated(loop'.steps)) /\ loop'.next = loop.next
    BY <1>A, <2>1, <2>2, RollbackSteps, RolledBack DEF GateInv
  <2>4. CASE runner.by # "select"
    BY <1>Q, <2>1, <2>2, <2>3, <2>4 DEF GateInv
  <2>5. CASE runner.by = "select"
    <3>1. Retried /\ FailedStep = Gate(loop)
      BY <2>1, <2>5 DEF GateInv, FailedStep, Gate
    <3>2. loop.steps[FailedStep].type = "quality_gate"
      <4>1. loop.steps \in Seq(StepType) /\ DOMAIN loop.steps = 1..Len(loop.steps)
        BY <1>A, StepsDomain DEF LoopType
      <4>2. Gate(loop) # 0 => loop.steps[Gate(loop)].type \in {"quality_gate"}
        BY <4>1, LatestFacts DEF Gate
      <4> QED BY <2>1, <3>1, <4>1, <4>2
    <3>3. Due(loop')
      BY <1>A, <2>1, <2>2, <3>1, <3>2, RollbackSteps, RolledBack DEF GateInv
    <3>4. (Due(loop))'
      BY <3>3 DEF Due, QualityFailed, Gate, Dispatch
    <3> QED BY <2>1, <2>2, <2>3, <3>4 DEF GateInv
  <2> QED BY <2>4, <2>5
<1>15. CASE RecoverRemediation
  <2>1. /\ loop'.steps = loop.steps /\ loop'.next = "remediation_dispatch" /\ loop'.status = "running"
        /\ config' = config /\ runner'.pc = "record"
    BY <1>A, <1>15 DEF RecoverRemediation, Recovers, LoopType
  <2> QED BY <1>A, <2>1 DEF GateInv
<1>16. CASE RecoverRequireHuman
  <2>1. /\ loop' = [Appended(loop, loop.steps[FailedStep].type, "waiting_approval")
                      EXCEPT !.status = "awaiting_approval"]
        /\ config' = config /\ runner'.pc = "record" /\ runner.pc = "recover"
        /\ config.policy[runner.failure] = "require_human"
    BY <1>16 DEF RecoverRequireHuman, Recovers
  <2>2. ~Retried
    BY <1>A, <2>1 DEF GatesRetriedAlone, LoopInv, StepInv, Failures
  <2>3. loop'.next = loop.next /\ loop'.status = "awaiting_approval"
    BY <1>A, <2>1 DEF Appended, LoopType
  <2> QED BY <2>1, <2>2, <2>3 DEF GateInv
<1>17. CASE RecordRecovery
  <2>1. UNCHANGED <<config, loop>> /\ runner.pc = "record"
    BY <1>17 DEF RecordRecovery
  <2>2. CASE runner'.pc # "picked"
    <3>1. runner'.pc \in {"free", "head", "select"}
      BY <1>17, <2>2 DEF RecordRecovery
    <3> QED BY <1>Q, <2>1, <3>1 DEF GateInv
  <2>3. CASE runner'.pc = "picked"
    <3>1. /\ runner.by = "select" /\ loop.status # "awaiting_approval" /\ loop.next = None
          /\ runner'.action = PeekNextAction(loop)
      BY <1>A, <1>17, <2>1, <2>3 DEF RecordRecovery, LoopInv, StepInv, RunnerType
    <3>2. Due(loop)
      BY <2>1, <3>1 DEF GateInv
    <3>3. PeekNextAction(loop) = None => Gated(loop)
      BY <1>A, <3>2, PeekFacts
    <3> QED BY <1>S, <2>1, <2>3, <3>1, <3>2, <3>3 DEF GateInv
  <2> QED BY <2>2, <2>3
<1>18. CASE \E c \in Cancellers : CancelLocks(c)
  <2>1. loop' \in {loop, CancelledLoop(loop)} /\ config' = config /\ runner'.pc = "ack"
    BY <1>18 DEF CancelLocks
  <2>2. CASE loop' = loop
    BY <1>Q, <2>1, <2>2 DEF GateInv
  <2>3. CASE loop' = CancelledLoop(loop)
    <3>1. loop'.next = loop.next /\ loop'.status = "cancelled"
      BY <1>A, <2>3 DEF CancelledLoop, LoopType
    <3>2. Retried => Separated(loop'.steps)
      BY <1>A, <2>3, CancelledSeparated DEF GateInv
    <3> QED BY <1>Q, <2>1, <3>1, <3>2 DEF GateInv
  <2> QED BY <2>1, <2>2, <2>3
<1>19. CASE RunTerminal \/ RuntimeElapses \/ UNCHANGED vars
  BY <1>1, <1>19 DEF RunTerminal, RuntimeElapses, vars
<1>20. CASE \E c \in Cancellers : CancelBegins(c) \/ CancelClears(c) \/ CancelRequests(c) \/ CancelLeaves(c)
  BY <1>1, <1>20 DEF CancelBegins, CancelClears, CancelRequests, CancelLeaves
<1>21. CASE HeadPasses \/ ClearRequest \/ Crash
  BY <1>2, <1>21 DEF HeadPasses, ClearRequest, Crash
<1> HIDE DEF env, Move, Return, Free
<1> QED
  BY <1>3, <1>4, <1>5, <1>6, <1>7, <1>8, <1>9, <1>10, <1>11, <1>12, <1>13, <1>14, <1>15, <1>16,
     <1>17, <1>18, <1>19, <1>20, <1>21 DEF Next, RunLoop, Iterate, Execute, Recover, HostCalls, CancelLoop

\* A completed loop passed its latest gate and dispatched nothing after it, if
\* its recoveryPolicy does not hand failed adapter calls or expired leases to a
\* human while it retries failed gates.
THEOREM GateCorrect == Spec => [](GatesRetriedAlone => GatePassed)
<1> DEFINE Inv == GatesRetriedAlone => GateInv
<1>1. Init => Inv
  BY DEF Init, GateInv, Separated, Free
<1>2. LoopInv /\ Inv /\ [Next]_vars => Inv'
  <2> SUFFICES ASSUME LoopInv, Inv, [Next]_vars, GatesRetriedAlone'
               PROVE  GateInv'
    OBVIOUS
  <2>1. config' = config
    BY DEF Next, RunLoop, Iterate, Execute, Recover, HostCalls, CancelLoop, RunTerminal, RunOverBudget,
       RunCancelled, RunHeld, RunExpired, RunPending, RunStarts, HeadOverBudget, HeadCancelled,
       HeadPasses, SelectScheduled, SelectPlanned, SelectExhausted, Complete, OutOfTurns, AskApproval,
       StartStep, CheckFails, ExecuteRaises, ExecuteReturns, DispatchCancelled, ClearRequest,
       RecoverRetry, RecoverRemediation, RecoverRequireHuman, Recovers, RecoverDeclined,
       RecordRecovery, ApproveAction, RejectAction, RetryStep, CancelBegins, CancelClears,
       CancelRequests, CancelLocks, CancelLeaves, Crash, RuntimeElapses, vars
  <2> QED BY <2>1, GateStep DEF GatesRetriedAlone
<1>3. Inv => (GatesRetriedAlone => GatePassed)
  BY DEF GateInv, GatePassed, Gated, Gate, Dispatch
<1> QED BY <1>1, <1>2, <1>3, LoopInvariant, PTL DEF Spec
=============================================================================
