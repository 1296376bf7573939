------------------------ MODULE TerminalCommitProofs ------------------------
(***************************************************************************)
(* Proofs about TerminalCommit, for any processes, events, attempts and    *)
(* set of unlocked writers.                                                *)
(***************************************************************************)
EXTENDS TerminalCommit, TLAPS

Applying == {"check", "put_job", "append", "commit"}
Locked == {"list", "recover", "load", "prepare", "revoke", "reply"} \cup Applying
Serving == {"wait", "list", "recover", "load", "prepare", "revoke", "reply"}

\* What a process relies on, wherever it is.  Whatever it knows about the log
\* it knows while it holds the lock, which is what keeps it true.
LocalInv(p) ==
  /\ pc[p] \in Locked => lock = p
  /\ pc[p] \in Serving => call[p] \in Event
  /\ pc[p] \in {"down", "startup", "idle", "write"} => call[p] = None
  /\ \A e \in todo[p] : tx[e] # "none"
  /\ pc[p] \in Applying =>
       /\ cur[p] \in Event
       /\ tx[cur[p]] # "none"
       /\ call[p] # None /\ cur[p] \notin todo[p] => cur[p] = call[p]
  /\ pc[p] \in {"put_job", "append"} => \A i \in DOMAIN log : log[i] = cur[p]
  /\ pc[p] = "commit" => InLog(cur[p])
  /\ pc[p] \in {"revoke", "reply"} => InLog(call[p])
  /\ pc[p] = "write" => mem[p].terminal = None /\ op[p] \in Writers

\* What the store says of itself at every moment.
StoreInv ==
  /\ Len(log) <= 1
  /\ \A e \in Event : tx[e] # "none" => saved[e].terminal = e
  /\ \A e \in acked : InLog(e)

IInv == TypeOK /\ WriteAhead /\ StoreInv /\ \A p \in Process : LocalInv(p)

-----------------------------------------------------------------------------
\* The initial state satisfies the invariant.
LEMMA InitIInv == Init => IInv
<1> SUFFICES ASSUME Init PROVE IInv
  OBVIOUS
<1>1. TypeOK
  <2>1. NoJob \in JobType /\ job \in JobType
    BY DEF Init, NoJob, JobType
  <2>2. log \in Seq(Event) /\ faults \in 0..MaxFaults
    BY BoundAssumption DEF Init
  <2> QED BY <2>1, <2>2 DEF Init, TypeOK, PcType
<1>2. WriteAhead /\ StoreInv
  BY EventAssumption DEF Init, WriteAhead, StoreInv, InLog
<1>3. \A p \in Process : LocalInv(p)
  BY DEF Init, LocalInv, Locked, Serving, Applying
<1> QED BY <1>1, <1>2, <1>3 DEF IInv

-----------------------------------------------------------------------------
\* Forgetting, raising and moving on keep the types of the local variables.
LEMMA ForgetType ==
  ASSUME TypeOK, NEW p \in Process, Forget(p)
  PROVE  /\ call' \in [Process -> Event \cup {None}]
         /\ cur' \in [Process -> Event \cup {None}]
         /\ todo' \in [Process -> SUBSET Event]
         /\ mem' \in [Process -> JobType]
         /\ op' \in [Process -> Writers \cup {None}]
<1>1. NoJob \in JobType
  BY DEF NoJob, JobType
<1> QED BY <1>1 DEF TypeOK, Forget

\* Every step of a process keeps the types.
LEMMA StepTypeOK ==
  ASSUME TypeOK, NEW p \in Process, LocalInv(p), Step(p)
  PROVE  TypeOK'
<1>1. CASE AcquireLock(p) \/ ListPending(p) \/ RecoverNext(p) \/ StartupNext(p)
  <2>1. CASE AcquireLock(p)
    BY <2>1 DEF TypeOK, AcquireLock, GoTo, PcType, store, history, locals
  <2>2. CASE ListPending(p)
    BY <2>2 DEF TypeOK, ListPending, Prepared, GoTo, PcType, store, history
  <2>3. CASE RecoverNext(p)
    BY <2>3 DEF TypeOK, RecoverNext, GoTo, PcType, store, history
  <2>4. CASE StartupNext(p)
    BY <2>4 DEF TypeOK, StartupNext, GoTo, PcType, store, history
  <2> QED BY <1>1, <2>1, <2>2, <2>3, <2>4
<1>2. CASE Load(p)
  BY <1>2, ForgetType DEF TypeOK, Load, Raise, Release, GoTo, PcType, store, history, locals
<1>3. CASE Prepare(p)
  <2>1. call[p] \in Event
    BY <1>3 DEF LocalInv, Serving, Prepare
  <2>2. [mem[p] EXCEPT !.status = "finished", !.terminal = call[p]] \in JobType
    BY <2>1 DEF TypeOK, JobType
  <2> QED BY <1>3, <2>1, <2>2 DEF TypeOK, Prepare, GoTo, history, PcType
<1>4. CASE Check(p)
  BY <1>4, ForgetType DEF TypeOK, Check, Raise, Release, GoTo, PcType, store, history, locals
<1>5. CASE PutJob(p) \/ AppendEvent(p) \/ Commit(p)
  <2>1. cur[p] \in Event
    BY <1>5 DEF LocalInv, Applying, PutJob, AppendEvent, Commit
  <2>2. CASE PutJob(p)
    BY <2>1, <2>2 DEF TypeOK, PutJob, GoTo, history, PcType, locals
  <2>3. CASE AppendEvent(p)
    <3>1. log' \in Seq(Event)
      BY <2>1, <2>3 DEF TypeOK, AppendEvent
    <3> QED BY <3>1, <2>3 DEF TypeOK, AppendEvent, GoTo, history, PcType, locals
  <2>4. CASE Commit(p)
    BY <2>1, <2>4 DEF TypeOK, Commit, CommittedTransactions, Release, GoTo, history, PcType
  <2> QED BY <1>5, <2>2, <2>3, <2>4
<1>6. CASE RevokeGrants(p)
  BY <1>6 DEF TypeOK, RevokeGrants, GoTo, history, PcType, locals
<1>7. CASE Reply(p)
  <2>1. call[p] \in Event
    BY <1>7 DEF LocalInv, Serving, Reply
  <2> QED BY <1>7, <2>1, ForgetType DEF TypeOK, Reply, Release, GoTo, PcType, store, history
<1>8. CASE WriteJob(p)
  <2>1. op[p] \in Writers /\ mem[p] \in JobType
    BY <1>8 DEF TypeOK, LocalInv, WriteJob
  <2>2. Effect(op[p], mem[p]) \in JobType
    <3>1. CASE op[p] = "touch" BY <3>1, <2>1 DEF Effect
    <3>2. CASE op[p] = "cancel"
      <4>1. Effect(op[p], mem[p])
              = IF mem[p].status = "queued"
                THEN [mem[p] EXCEPT !.status = "cancelled", !.terminal = HostCancel]
                ELSE mem[p]
        BY <3>2 DEF Effect
      <4>2. [mem[p] EXCEPT !.status = "cancelled", !.terminal = HostCancel] \in JobType
        BY <2>1 DEF JobType
      <4> QED BY <4>1, <4>2, <2>1
    <3>3. CASE op[p] = "requeue" BY <3>3, <2>1 DEF Effect, JobType
    <3>4. CASE op[p] = "review" BY <3>4, <2>1 DEF Effect, JobType
    <3>5. CASE op[p] = "lease"
      <4>1. mem[p].attempt + 1 \in Nat
        BY <2>1 DEF JobType
      <4>2. Effect(op[p], mem[p])
              = [mem[p] EXCEPT !.status = "leased", !.attempt = mem[p].attempt + 1]
        BY <3>5 DEF Effect
      <4> QED BY <4>1, <4>2, <2>1 DEF JobType
    <3> QED BY <2>1, <3>1, <3>2, <3>3, <3>4, <3>5, WritersAssumption
  <2> QED BY <1>8, <2>2, ForgetType DEF TypeOK, WriteJob, GoTo, history, PcType
<1> QED BY <1>1, <1>2, <1>3, <1>4, <1>5, <1>6, <1>7, <1>8 DEF Step

\* Requests, restarts and faults keep the types.
LEMMA OtherTypeOK ==
  ASSUME TypeOK, NEW p \in Process,
         Request(p) \/ Start(p) \/ Exit(p) \/ Crash(p) \/ WriteFails(p)
  PROVE  TypeOK'
<1>1. CASE Request(p)
  <2>1. CASE \E e \in Event : record_event(p, e)
    BY <2>1 DEF TypeOK, record_event, GoTo, PcType, store, history
  <2>2. CASE \E o \in Writers : ReadJob(p, o)
    BY <2>2 DEF TypeOK, ReadJob, GoTo, PcType, store, history
  <2> QED BY <1>1, <2>1, <2>2 DEF Request
<1>2. CASE Start(p) \/ Exit(p)
  BY <1>2 DEF TypeOK, Start, Exit, Prepared, GoTo, PcType, store, history, locals
<1>3. CASE Crash(p) \/ WriteFails(p)
  <2>1. faults' \in 0..MaxFaults
    BY <1>3, BoundAssumption DEF TypeOK, Crash, WriteFails
  <2> QED BY <1>3, <2>1, ForgetType DEF TypeOK, Crash, WriteFails, Raise, Release, GoTo,
                                      PcType, store, history
<1> QED BY <1>1, <1>2, <1>3

-----------------------------------------------------------------------------
\* A step of p cannot disturb what another process relies on: it leaves the
\* other's variables alone, transactions never go back to "none", and while
\* the other is in its locked region neither lock nor log changes.
LEMMA OthersKept ==
  ASSUME IInv, NEW p \in Process, NEW q \in Process, q # p,
         pc'[q] = pc[q], call'[q] = call[q], cur'[q] = cur[q], todo'[q] = todo[q],
         mem'[q] = mem[q], op'[q] = op[q],
         \A e \in Event : tx[e] # "none" => tx'[e] # "none",
         lock' # lock => lock \in {None, p},
         log' # log => lock = p
  PROVE  LocalInv(q)'
<1>1. LocalInv(q)
  BY DEF IInv
<1>2. pc[q] \in Locked => lock' = q /\ log' = log
  BY <1>1, EventAssumption DEF LocalInv
<1>3. todo[q] \subseteq Event
  BY DEF IInv, TypeOK
<1>4. CASE pc[q] \in Locked
  BY <1>1, <1>2, <1>3, <1>4 DEF LocalInv, InLog
<1>5. CASE pc[q] \notin Locked
  BY <1>1, <1>3, <1>5 DEF LocalInv, InLog, Locked, Applying, Serving
<1> QED BY <1>4, <1>5

\* As long as record, log, transactions and answers stay, so does what is said
\* of them.
LEMMA StoreKept ==
  ASSUME IInv, UNCHANGED <<job, log, tx, saved, acked>>
  PROVE  WriteAhead' /\ StoreInv'
BY DEF IInv, WriteAhead, StoreInv, InLog

\* A handler that has ended relies on nothing.
LEMMA EndedInv ==
  ASSUME IInv, NEW p \in Process, Forget(p),
         pc' = [pc EXCEPT ![p] = "idle"] \/ pc' = [pc EXCEPT ![p] = "down"]
  PROVE  LocalInv(p)'
BY DEF IInv, TypeOK, LocalInv, Forget, Locked, Applying, Serving

\* p's own assertions after each of its steps.
LEMMA OwnKept ==
  ASSUME IInv, NEW p \in Process, Step(p)
  PROVE  LocalInv(p)'
<1>0. TypeOK /\ LocalInv(p) /\ WriteAhead /\ StoreInv
  BY DEF IInv
<1>1. CASE AcquireLock(p)
  BY <1>0, <1>1 DEF AcquireLock, LocalInv, TypeOK, GoTo, store, history, locals, InLog, Locked, Applying, Serving
<1>2. CASE ListPending(p)
  BY <1>0, <1>2 DEF ListPending, Prepared, LocalInv, TypeOK, GoTo, store, history, locals, InLog, Locked, Applying, Serving
<1>3. CASE RecoverNext(p)
  BY <1>0, <1>3 DEF RecoverNext, LocalInv, TypeOK, GoTo, store, history, locals, InLog, Locked, Applying, Serving
<1>4. CASE Load(p)
  <2>1. CASE Raise(p)
    BY <2>1, EndedInv DEF Raise, GoTo
  <2>2. CASE ~Raise(p)
    BY <1>0, <1>4, <2>2 DEF Load, IsDuplicate, LocalInv, TypeOK, GoTo, store, history, locals, InLog, Locked, Applying, Serving
  <2> QED BY <2>1, <2>2
<1>5. CASE Prepare(p)
  BY <1>0, <1>5 DEF Prepare, LocalInv, TypeOK, GoTo, store, history, locals, InLog, Locked, Applying, Serving
<1>6. CASE Check(p)
  <2>1. CASE Raise(p)
    BY <2>1, EndedInv DEF Raise, GoTo
  <2>2. CASE ~Raise(p)
    BY <1>0, <1>6, <2>2 DEF Check, Conflicts, LocalInv, TypeOK, GoTo, store, history, locals, InLog, Locked, Applying, Serving
  <2> QED BY <2>1, <2>2
<1>7. CASE PutJob(p)
  BY <1>0, <1>7 DEF PutJob, LocalInv, TypeOK, GoTo, store, history, locals, InLog, Locked, Applying, Serving
<1>8. CASE AppendEvent(p)
  <2>1. InLog(cur[p])'
    BY <1>0, <1>8 DEF AppendEvent, LocalInv, TypeOK, InLog, locals, Applying
  <2> QED BY <1>0, <1>8, <2>1 DEF AppendEvent, LocalInv, TypeOK, GoTo, store, history, locals, Locked, Applying, Serving
<1>9. CASE Commit(p)
  BY <1>0, <1>9 DEF Commit, CommittedTransactions, Release, LocalInv, TypeOK, GoTo, store, history, locals, InLog, Locked, Applying, Serving
<1>10. CASE RevokeGrants(p)
  BY <1>0, <1>10 DEF RevokeGrants, LocalInv, TypeOK, GoTo, store, history, locals, InLog, Locked, Applying, Serving
<1>11. CASE Reply(p) \/ WriteJob(p)
  BY <1>11, EndedInv DEF Reply, WriteJob, GoTo
<1>12. CASE StartupNext(p)
  BY <1>0, <1>12 DEF StartupNext, LocalInv, TypeOK, GoTo, store, history, locals, InLog, Locked, Applying, Serving
<1> QED BY <1>1, <1>2, <1>3, <1>4, <1>5, <1>6, <1>7, <1>8, <1>9, <1>10, <1>11, <1>12 DEF Step

\* The writers outside the lock never put a worker's terminal event on record.
LEMMA EffectTerminal ==
  ASSUME NEW o \in Writers, NEW rec \in JobType, rec.terminal = None
  PROVE  Effect(o, rec).terminal \in {None, HostCancel}
<1>1. CASE o \in {"touch", "cancel"}
  BY <1>1 DEF Effect, JobType
<1>2. CASE o \in {"requeue", "review", "lease"}
  BY <1>2 DEF Effect, JobType
<1> QED BY <1>1, <1>2, WritersAssumption

\* The four steps that write the store, one by one; the others keep it.
LEMMA StepStore ==
  ASSUME IInv, NEW p \in Process, Step(p)
  PROVE  WriteAhead' /\ StoreInv'
<1>0. TypeOK /\ LocalInv(p) /\ WriteAhead /\ StoreInv
  BY DEF IInv
<1>1. CASE \/ AcquireLock(p) \/ ListPending(p) \/ RecoverNext(p) \/ Load(p) \/ Check(p)
           \/ RevokeGrants(p) \/ StartupNext(p)
  <2>1. UNCHANGED <<job, log, tx, saved, acked>>
    BY <1>1 DEF AcquireLock, ListPending, RecoverNext, Load, Check, RevokeGrants, StartupNext, store, history
  <2> QED BY <2>1, StoreKept
<1>2. CASE Prepare(p)
  <2>1. call[p] \in Event
    BY <1>0, <1>2 DEF Prepare, LocalInv, Serving
  <2>2. ([mem[p] EXCEPT !.status = "finished", !.terminal = call[p]]).terminal = call[p]
    BY <1>0 DEF TypeOK, JobType
  <2>3. \A e \in Event : tx'[e] # "none" => saved'[e].terminal = e
    BY <1>0, <1>2, <2>1, <2>2 DEF Prepare, TypeOK, StoreInv
  <2> QED BY <1>0, <1>2, <2>1, <2>3 DEF Prepare, TypeOK, StoreInv, WriteAhead, InLog, history
<1>3. CASE PutJob(p)
  <2>1. job'.terminal = cur[p] /\ tx[cur[p]] # "none" /\ cur[p] \in Event
    BY <1>0, <1>3 DEF PutJob, LocalInv, Applying, StoreInv
  <2> QED BY <1>0, <1>3, <2>1 DEF PutJob, StoreInv, WriteAhead, InLog, history
<1>4. CASE AppendEvent(p)
  <2>1. cur[p] \in Event /\ tx[cur[p]] # "none" /\ \A i \in DOMAIN log : log[i] = cur[p]
    BY <1>0, <1>4 DEF AppendEvent, LocalInv, Applying
  <2>2. Len(log') <= 1 /\ \A i \in DOMAIN log' : log'[i] = cur[p]
    BY <1>0, <1>4, <2>1 DEF AppendEvent, TypeOK, StoreInv, InLog
  <2>3. \A e \in Event : InLog(e) => InLog(e)'
    BY <1>0, <1>4, <2>1 DEF AppendEvent, TypeOK, InLog
  <2>4. acked \subseteq Event
    BY <1>0 DEF TypeOK
  <2>5. \A e \in Event : InLog(e)' => e = cur[p]
    BY <2>2 DEF InLog
  <2>6. UNCHANGED <<job, tx, saved, acked>>
    BY <1>4 DEF AppendEvent, history
  <2> QED BY <1>0, <2>1, <2>2, <2>3, <2>4, <2>5, <2>6 DEF StoreInv, WriteAhead
<1>5. CASE Commit(p)
  <2>1. cur[p] \in Event /\ InLog(cur[p])
    BY <1>0, <1>5 DEF Commit, LocalInv, Applying
  <2> QED BY <1>0, <1>5, <2>1 DEF Commit, CommittedTransactions, TypeOK, StoreInv, WriteAhead, InLog, history
<1>6. CASE Reply(p)
  <2>1. InLog(call[p])
    BY <1>0, <1>6 DEF Reply, LocalInv
  <2> QED BY <1>0, <1>6, <2>1 DEF Reply, store, history, StoreInv, WriteAhead, InLog
<1>7. CASE WriteJob(p)
  <2>1. job'.terminal \in {None, HostCancel}
    BY <1>0, <1>7, EffectTerminal DEF WriteJob, LocalInv, TypeOK
  <2> QED BY <1>0, <1>7, <2>1, EventAssumption DEF WriteJob, StoreInv, WriteAhead, InLog
<1> QED BY <1>1, <1>2, <1>3, <1>4, <1>5, <1>6, <1>7 DEF Step

\* What a step of p leaves alone, as OthersKept needs it.
LEMMA StepFrame ==
  ASSUME IInv, NEW p \in Process, Step(p)
  PROVE  /\ \A q \in Process : q # p =>
              /\ pc'[q] = pc[q] /\ call'[q] = call[q] /\ cur'[q] = cur[q]
              /\ todo'[q] = todo[q] /\ mem'[q] = mem[q] /\ op'[q] = op[q]
         /\ \A e \in Event : tx[e] # "none" => tx'[e] # "none"
         /\ lock' # lock => lock \in {None, p}
         /\ log' # log => lock = p
<1>0. TypeOK /\ LocalInv(p)
  BY DEF IInv
<1>1. CASE AcquireLock(p) \/ ListPending(p) \/ RecoverNext(p) \/ RevokeGrants(p) \/ StartupNext(p)
  BY <1>0, <1>1 DEF AcquireLock, ListPending, RecoverNext, RevokeGrants, StartupNext,
                    TypeOK, GoTo, store, history, locals
<1>2. CASE Load(p) \/ Check(p)
  BY <1>0, <1>2 DEF Load, Check, Raise, Release, Forget, TypeOK, GoTo, store, history, locals
<1>3. CASE Prepare(p)
  BY <1>0, <1>3 DEF Prepare, LocalInv, Serving, TypeOK, GoTo, history
<1>4. CASE PutJob(p) \/ AppendEvent(p)
  BY <1>0, <1>4 DEF PutJob, AppendEvent, LocalInv, Locked, Applying, TypeOK, GoTo, history, locals
<1>5. CASE Commit(p)
  BY <1>0, <1>5 DEF Commit, CommittedTransactions, Release, LocalInv, Applying, TypeOK, GoTo, history
<1>6. CASE Reply(p) \/ WriteJob(p)
  BY <1>0, <1>6 DEF Reply, WriteJob, Release, Forget, TypeOK, GoTo, store, history
<1> QED BY <1>1, <1>2, <1>3, <1>4, <1>5, <1>6 DEF Step

\* Requests, restarts and faults touch nothing that anybody relies on.
LEMMA OtherKept ==
  ASSUME IInv, NEW p \in Process,
         Request(p) \/ Start(p) \/ Exit(p) \/ Crash(p) \/ WriteFails(p)
  PROVE  /\ WriteAhead' /\ StoreInv'
         /\ \A q \in Process : LocalInv(q)'
<1>0. TypeOK /\ LocalInv(p)
  BY DEF IInv
<1>1. UNCHANGED <<job, log, tx, saved, acked>>
  BY DEF Request, record_event, ReadJob, Start, Exit, Crash, WriteFails, store, history
<1>2. LocalInv(p)'
  <2>1. CASE Request(p) \/ Start(p) \/ Exit(p)
    BY <1>0, <2>1 DEF Request, record_event, ReadJob, Applies, Start, Exit, Prepared, LocalInv,
                      TypeOK, GoTo, store, history, locals, InLog, Locked, Applying, Serving
  <2>2. CASE Crash(p) \/ WriteFails(p)
    BY <2>2, EndedInv DEF Crash, WriteFails, Raise, GoTo
  <2> QED BY <2>1, <2>2
<1>3. ASSUME NEW q \in Process, q # p PROVE LocalInv(q)'
  <2>1. /\ pc'[q] = pc[q] /\ call'[q] = call[q] /\ cur'[q] = cur[q]
        /\ todo'[q] = todo[q] /\ mem'[q] = mem[q] /\ op'[q] = op[q]
    BY <1>0, <1>3 DEF Request, record_event, ReadJob, Start, Exit, Crash, WriteFails, Raise,
                      Forget, TypeOK, GoTo, history, locals
  <2>2. lock' # lock => lock \in {None, p}
    BY DEF Request, record_event, ReadJob, Start, Exit, Crash, WriteFails, Raise, Release
  <2> QED BY <1>1, <1>3, <2>1, <2>2, OthersKept
<1> QED BY <1>1, <1>2, <1>3, StoreKept

-----------------------------------------------------------------------------
\* The invariant is inductive.
LEMMA NextIInv == IInv /\ [Next]_vars => IInv'
<1> SUFFICES ASSUME IInv, [Next]_vars PROVE IInv'
  OBVIOUS
<1>1. CASE UNCHANGED vars
  BY <1>1 DEF vars, store, history, locals, IInv, TypeOK, WriteAhead, StoreInv, LocalInv, InLog
<1>2. ASSUME NEW p \in Process, Step(p) PROVE IInv'
  <2>1. TypeOK'
    BY <1>2, StepTypeOK DEF IInv
  <2>2. WriteAhead' /\ StoreInv'
    BY <1>2, StepStore
  <2>3. ASSUME NEW q \in Process PROVE LocalInv(q)'
    <3>1. CASE q = p BY <3>1, <1>2, OwnKept
    <3>2. CASE q # p BY <3>2, <1>2, StepFrame, OthersKept
    <3> QED BY <3>1, <3>2
  <2> QED BY <2>1, <2>2, <2>3 DEF IInv
<1>3. ASSUME NEW p \in Process,
             Request(p) \/ Start(p) \/ Exit(p) \/ Crash(p) \/ WriteFails(p)
      PROVE  IInv'
  BY <1>3, OtherTypeOK, OtherKept DEF IInv
<1> QED BY <1>1, <1>2, <1>3 DEF Next

\* TypeOK holds in every reachable state.
THEOREM TypeCorrect == Spec => []TypeOK
<1>1. IInv => TypeOK
  BY DEF IInv
<1> QED BY <1>1, InitIInv, NextIInv, PTL DEF Spec

\* A terminal event is in the job record or the log only if its transaction was
\* written before, and a committed transaction's event is in the log.
THEOREM WriteAheadCorrect == Spec => []WriteAhead
<1>1. IInv => WriteAhead
  BY DEF IInv
<1> QED BY <1>1, InitIInv, NextIInv, PTL DEF Spec

-----------------------------------------------------------------------------
(* As long as no unlocked handler has put the job back.                    *)

\* What the store says, and what the holder of the lock knows besides: there is
\* one transaction at most, and every one that is pending is on its list until
\* it looks at the job itself.
OnlyOne == \A e, f \in Event : tx[e] # "none" /\ tx[f] # "none" => e = f
HolderInv(p) ==
  /\ pc[p] = "recover" \/ (pc[p] \in Applying /\ call[p] # None /\ cur[p] \in todo[p]) => Prepared \subseteq todo[p]
  /\ pc[p] = "load" => Prepared = {}
  /\ pc[p] = "prepare" => \A e \in Event : tx[e] = "none"
  /\ pc[p] \in {"append", "commit"} => job.terminal = cur[p]
QuietInv ==
  ~disturbed =>
    /\ job.terminal \in Event \cup {None}
    /\ CommittedRecord /\ OnlyOne
    /\ \A p \in Process : HolderInv(p)

\* Then no transaction that is applied meets a conflict.
LEMMA QuietUnobstructed == IInv /\ QuietInv => IsolatedRecovery
<1> SUFFICES ASSUME IInv, QuietInv, ~disturbed, NEW p \in Process, pc[p] = "check"
             PROVE  ~Conflicts(cur[p])
  BY DEF IsolatedRecovery, StartupUnobstructed, QuietInv
<1>1. cur[p] \in Event /\ tx[cur[p]] # "none"
  BY DEF IInv, LocalInv, Applying
<1>2. OnlyOne /\ job.terminal \in Event \cup {None}
  BY DEF QuietInv
<1>3. \A i \in DOMAIN log : log[i] \in Event /\ InLog(log[i])
  BY DEF IInv, TypeOK, InLog
<1> QED BY <1>1, <1>2, <1>3 DEF IInv, WriteAhead, OnlyOne, Conflicts

\* A step of p that leaves the record and the transactions alone leaves what
\* the others know; one that does not has the lock, which the others then lack.
LEMMA HoldersKept ==
  ASSUME IInv, NEW p \in Process, NEW q \in Process, q # p, HolderInv(q),
         pc'[q] = pc[q], call'[q] = call[q], cur'[q] = cur[q], todo'[q] = todo[q],
         UNCHANGED <<job, tx>> \/ lock = p
  PROVE  HolderInv(q)'
<1>1. pc[q] \in Locked => lock = q
  BY DEF IInv, LocalInv
<1>2. CASE UNCHANGED <<job, tx>>
  BY <1>2 DEF HolderInv, Prepared
<1>3. CASE lock = p
  BY <1>1, <1>3 DEF HolderInv, Locked, Applying
<1> QED BY <1>2, <1>3

\* What p itself knows after a step that leaves the record and the transactions.
LEMMA OwnQuiet ==
  ASSUME IInv, QuietInv, ~disturbed, NEW p \in Process, UNCHANGED <<job, tx>>,
         \/ AcquireLock(p) \/ ListPending(p) \/ RecoverNext(p) \/ Load(p) \/ Check(p)
         \/ RevokeGrants(p) \/ Reply(p) \/ StartupNext(p)
         \/ Request(p) \/ Start(p) \/ Exit(p) \/ Crash(p) \/ WriteFails(p)
  PROVE  HolderInv(p)'
<1> USE DEF HolderInv, Applying, Prepared, GoTo
<1>0. HolderInv(p) /\ TypeOK /\ LocalInv(p) /\ None \notin Event
  BY EventAssumption DEF IInv, QuietInv
<1>1. CASE AcquireLock(p) \/ ListPending(p) \/ RevokeGrants(p)
  BY <1>0, <1>1 DEF AcquireLock, ListPending, RevokeGrants, TypeOK, locals
<1>2. CASE RecoverNext(p)
  BY <1>0, <1>2 DEF RecoverNext, TypeOK
<1>3. CASE StartupNext(p)
  BY <1>0, <1>3 DEF StartupNext, TypeOK, LocalInv
<1>4. CASE Load(p)
  <2>1. CASE IsFresh(call[p])
    BY <1>0, <1>4, <2>1 DEF Load, IsFresh, IsDuplicate, QuietInv, CommittedRecord, TypeOK, Raise
  <2>2. CASE ~IsFresh(call[p])
    BY <1>0, <1>4, <2>2 DEF Load, Raise, TypeOK
  <2> QED BY <2>1, <2>2
<1>5. CASE Check(p)
  BY <1>0, <1>5 DEF Check, Raise, TypeOK, locals
<1>6. CASE Reply(p) \/ Request(p) \/ Start(p) \/ Exit(p) \/ Crash(p) \/ WriteFails(p)
  BY <1>0, <1>6 DEF Reply, Request, record_event, ReadJob, Start, Exit, Crash, WriteFails, Raise, TypeOK
<1> QED BY <1>1, <1>2, <1>3, <1>4, <1>5, <1>6

\* A prepared transaction is the first, a record is put for the one transaction
\* there is, and it is committed once the record says so.
LEMMA WritesQuiet ==
  ASSUME IInv, QuietInv, ~disturbed, NEW p \in Process,
         Prepare(p) \/ PutJob(p) \/ AppendEvent(p) \/ Commit(p)
  PROVE  /\ job'.terminal \in Event \cup {None}
         /\ CommittedRecord' /\ OnlyOne' /\ HolderInv(p)'
<1>0. /\ TypeOK /\ LocalInv(p) /\ StoreInv /\ HolderInv(p) /\ CommittedRecord /\ OnlyOne
      /\ None \notin Event /\ job.terminal \in Event \cup {None}
  BY EventAssumption DEF IInv, QuietInv
<1>1. CASE Prepare(p)
  <2>1. call[p] \in Event /\ \A e \in Event : tx[e] = "none"
    BY <1>0, <1>1 DEF Prepare, LocalInv, HolderInv, Serving
  <2>2. tx' = [tx EXCEPT ![call[p]] = "prepared"] /\ job' = job
    BY <1>1, <2>1 DEF Prepare
  <2>3. todo[p] = {} /\ todo' = todo /\ cur'[p] = call[p] /\ pc'[p] = "check"
    BY <1>0, <1>1, <2>1 DEF Prepare, LocalInv, TypeOK, GoTo
  <2> QED BY <1>0, <2>1, <2>2, <2>3 DEF CommittedRecord, OnlyOne, HolderInv, TypeOK
<1>2. CASE PutJob(p)
  <2>1. cur[p] \in Event /\ tx[cur[p]] # "none" /\ job'.terminal = cur[p]
    BY <1>0, <1>2 DEF PutJob, LocalInv, StoreInv, Applying
  <2>2. UNCHANGED <<tx, call, cur, todo>> /\ pc[p] = "put_job" /\ pc'[p] = "append"
    BY <1>0, <1>2 DEF PutJob, GoTo, locals, TypeOK
  <2> QED BY <1>0, <2>1, <2>2 DEF CommittedRecord, OnlyOne, HolderInv, Prepared, Applying
<1>3. CASE AppendEvent(p)
  <2>1. UNCHANGED <<job, tx, call, cur, todo>> /\ pc[p] = "append" /\ pc'[p] = "commit"
    BY <1>0, <1>3 DEF AppendEvent, GoTo, locals, TypeOK
  <2> QED BY <1>0, <2>1 DEF CommittedRecord, OnlyOne, HolderInv, Prepared, Applying
<1>4. CASE Commit(p)
  <2>1. cur[p] \in Event /\ tx[cur[p]] # "none" /\ job.terminal = cur[p] /\ job' = job
    BY <1>0, <1>4 DEF Commit, LocalInv, HolderInv, Applying
  <2>2. tx' = [tx EXCEPT ![cur[p]] = "committed"] /\ todo'[p] = todo[p] \ {cur[p]}
    BY <1>0, <1>4 DEF Commit, CommittedTransactions, TypeOK
  <2>3. pc'[p] \in {"startup", "revoke"} \/ (pc'[p] = "recover" /\ Prepared \subseteq todo[p])
    BY <1>0, <1>4 DEF Commit, GoTo, TypeOK, HolderInv, Applying
  <2>4. Prepared' = Prepared \ {cur[p]}
    BY <1>0, <2>1, <2>2 DEF Prepared, TypeOK
  <2> QED BY <1>0, <2>1, <2>2, <2>3, <2>4 DEF CommittedRecord, OnlyOne, HolderInv, Applying, TypeOK
<1> QED BY <1>1, <1>2, <1>3, <1>4

LEMMA NextQuiet == IInv /\ QuietInv /\ [Next]_vars => QuietInv'
<1> SUFFICES ASSUME IInv, QuietInv, [Next]_vars, ~disturbed' PROVE QuietInv'
  BY DEF QuietInv
<1>1. CASE UNCHANGED vars
  BY <1>1 DEF vars, store, history, locals, QuietInv, CommittedRecord, OnlyOne, HolderInv, Prepared
<1>2. ASSUME NEW p \in Process,
             Step(p) \/ Request(p) \/ Start(p) \/ Exit(p) \/ Crash(p) \/ WriteFails(p)
      PROVE  QuietInv'
  <2>0. TypeOK /\ LocalInv(p) /\ ~WriteJob(p)
    BY <1>2 DEF IInv, WriteJob
  <2>1. ~disturbed
    BY <1>2, <2>0 DEF Step, AcquireLock, ListPending, RecoverNext, Load, Prepare, Check, PutJob, AppendEvent,
       Commit, RevokeGrants, Reply, StartupNext, Request, record_event, ReadJob, Start, Exit, Crash, WriteFails,
       history
  <2>2. CASE Prepare(p) \/ PutJob(p) \/ AppendEvent(p) \/ Commit(p)
    <3>1. lock = p
      BY <2>0, <2>2 DEF LocalInv, Locked, Applying, Prepare, PutJob, AppendEvent, Commit
    <3>2. ASSUME NEW q \in Process, q # p PROVE HolderInv(q)'
      <4>1. pc'[q] = pc[q] /\ call'[q] = call[q] /\ cur'[q] = cur[q] /\ todo'[q] = todo[q]
        BY <2>2, <3>2, StepFrame DEF Step
      <4> QED BY <2>1, <3>1, <3>2, <4>1, HoldersKept DEF QuietInv
    <3> QED BY <2>1, <2>2, <3>2, WritesQuiet DEF QuietInv
  <2>3. CASE ~(Prepare(p) \/ PutJob(p) \/ AppendEvent(p) \/ Commit(p))
    <3>1. UNCHANGED <<job, log, tx, saved>>
      BY <1>2, <2>0, <2>3 DEF Step, AcquireLock, ListPending, RecoverNext, Load, Check, RevokeGrants, Reply,
         StartupNext, Request, record_event, ReadJob, Start, Exit, Crash, WriteFails, store
    <3>2. HolderInv(p)'
      BY <1>2, <2>0, <2>1, <2>3, <3>1, OwnQuiet DEF Step
    <3>3. ASSUME NEW q \in Process, q # p PROVE HolderInv(q)'
      <4>1. pc'[q] = pc[q] /\ call'[q] = call[q] /\ cur'[q] = cur[q] /\ todo'[q] = todo[q]
        <5>1. CASE Step(p)
          BY <3>3, <5>1, StepFrame
        <5>2. CASE ~Step(p)
          BY <1>2, <2>0, <3>3, <5>2 DEF Request, record_event, ReadJob, Start, Exit, Crash, WriteFails, Raise,
             Forget, TypeOK, GoTo, locals
        <5> QED BY <5>1, <5>2
      <4> QED BY <2>1, <3>1, <3>3, <4>1, HoldersKept DEF QuietInv
    <3> QED BY <2>1, <3>1, <3>2, <3>3 DEF QuietInv, CommittedRecord, OnlyOne
  <2> QED BY <2>2, <2>3
<1> QED BY <1>1, <1>2 DEF Next

\* As long as no handler has put a job back without the lock, what record_event
\* committed is what the job record says, and no recovery that a new
\* WorkerCoordinator() runs meets a conflict, whichever processes die or fail to
\* write at any step, however many submit events of the job.
THEOREM RecoveryCorrect == Spec => []IsolatedRecovery
<1>1. Init => QuietInv
  BY EventAssumption DEF Init, QuietInv, CommittedRecord, OnlyOne, HolderInv, Applying
<1> QED BY <1>1, InitIInv, NextIInv, NextQuiet, QuietUnobstructed, PTL DEF Spec

-----------------------------------------------------------------------------
Decided == IF log = <<>> THEN None ELSE log[Len(log)]

\* The log and the answers only change as TerminalOutcome allows.
LEMMA StepRefines ==
  ASSUME IInv, NEW p \in Process, Step(p)
  PROVE  \/ \E e \in Event : Outcome!Decide(e) \/ Outcome!Acknowledge(e)
         \/ UNCHANGED <<log, acked>>
<1>0. TypeOK /\ LocalInv(p) /\ StoreInv
  BY DEF IInv
<1>1. CASE AppendEvent(p)
  <2>1. cur[p] \in Event /\ UNCHANGED acked
    BY <1>0, <1>1 DEF AppendEvent, LocalInv, Applying, history
  <2>2. CASE InLog(cur[p])
    BY <1>1, <2>1, <2>2 DEF AppendEvent
  <2>3. CASE ~InLog(cur[p])
    <3>1. log = <<>>
      BY <1>0, <1>1, <2>3 DEF AppendEvent, LocalInv, InLog, TypeOK, StoreInv
    <3>2. log' # <<>> /\ log'[Len(log')] = cur[p]
      BY <1>1, <2>1, <2>3, <3>1 DEF AppendEvent
    <3>3. Outcome!Decide(cur[p])
      BY <2>1, <3>1, <3>2 DEF Outcome!Decide
    <3> QED BY <2>1, <3>3
  <2> QED BY <2>2, <2>3
<1>2. CASE Reply(p)
  <2>1. call[p] \in Event /\ InLog(call[p]) /\ UNCHANGED log
    BY <1>0, <1>2 DEF Reply, LocalInv, Serving, store, history
  <2>2. log # <<>> /\ log[Len(log)] = call[p]
    BY <1>0, <2>1 DEF InLog, TypeOK, StoreInv
  <2>3. Outcome!Acknowledge(call[p])
    BY <1>2, <2>1, <2>2 DEF Outcome!Acknowledge, Reply
  <2> QED BY <2>1, <2>3
<1>3. CASE ~AppendEvent(p) /\ ~Reply(p)
  BY <1>3 DEF Step, AcquireLock, ListPending, RecoverNext, Load, Prepare, Check, PutJob, Commit,
              RevokeGrants, StartupNext, WriteJob, store, history
<1> QED BY <1>1, <1>2, <1>3

\* TerminalCommit implements TerminalOutcome: of all terminal events submitted
\* by any number of processes, crashing anywhere, one at most is ever logged,
\* it stays, and only it is acknowledged.
THEOREM Refinement == Spec => ImplementsOutcome
<1>1. Init => Outcome!Init
  BY DEF Init, Outcome!Init
<1>2. IInv /\ [Next]_vars => [Outcome!Next]_<<Decided, acked>>
  <2> SUFFICES ASSUME IInv, [Next]_vars PROVE [Outcome!Next]_<<Decided, acked>>
    OBVIOUS
  <2>1. CASE UNCHANGED <<log, acked>>
    BY <2>1 DEF Decided
  <2>2. ASSUME NEW p \in Process, Step(p) PROVE [Outcome!Next]_<<Decided, acked>>
    BY <2>1, <2>2, StepRefines DEF Outcome!Next
  <2>3. ASSUME NEW p \in Process,
               Request(p) \/ Start(p) \/ Exit(p) \/ Crash(p) \/ WriteFails(p)
        PROVE  UNCHANGED <<log, acked>>
    BY <2>3 DEF Request, record_event, ReadJob, Start, Exit, Crash, WriteFails, store, history
  <2>4. UNCHANGED vars => UNCHANGED <<log, acked>>
    BY DEF vars, store, history
  <2> QED BY <2>1, <2>2, <2>3, <2>4 DEF Next
<1> QED BY <1>1, <1>2, InitIInv, NextIInv, PTL DEF Spec, ImplementsOutcome, Outcome!Spec, Decided
=============================================================================
