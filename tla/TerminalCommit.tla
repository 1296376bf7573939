--------------------------- MODULE TerminalCommit ---------------------------
(***************************************************************************)
(* How one job's terminal event is committed when several processes share  *)
(* the store: the write-ahead transaction of record_event, the recovery    *)
(* every WorkerCoordinator() runs when it is constructed, and the other    *)
(* handlers, which read the job record and later write it back without     *)
(* taking the terminal lock.  A step is one access to the store.           *)
(*                                                                         *)
(* The worker listener, the control server, a relay session and every CLI  *)
(* command are processes.  The store's own operations are atomic (per      *)
(* record flock, os.replace) and a dead process drops its locks.  The lock *)
(* terminal-event-<id> is only taken while terminal-job-<job> is held, so  *)
(* one lock remains.  The job's lease is its attempt number; progress      *)
(* events, artifacts and the sequence check are Coordinator's subject.     *)
(***************************************************************************)
EXTENDS Naturals, Sequences

CONSTANTS
  Process,     \* processes that construct a WorkerCoordinator
  Event,       \* the terminal events submitted for the job
  AttemptOf,   \* the attempt each event was reported under
  Writers,     \* the unlocked handlers that run besides record_event
  None,        \* absent value
  HostCancel,  \* the terminal id cancel_job invents for a queued job
  MaxAttempts, \* bound: leases of the job
  MaxFaults    \* bound: crashes and failing store writes

ASSUME EventAssumption ==
  /\ AttemptOf \in [Event -> Nat]
  /\ None \notin Event \cup Process /\ HostCancel \notin Event \cup {None}
ASSUME BoundAssumption == MaxAttempts \in Nat /\ MaxFaults \in Nat
ASSUME WritersAssumption ==
  Writers \subseteq {"touch", "cancel", "requeue", "review", "lease"}

JobType ==
  [status : {"leased", "queued", "waiting_review", "cancelled", "finished"},
   attempt : Nat, terminal : Event \cup {None, HostCancel}]

NoJob == [status |-> "queued", attempt |-> 0, terminal |-> None]

PcType == {"down", "startup", "idle", "wait", "list", "recover", "load", "prepare",
           "check", "put_job", "append", "commit", "revoke", "reply", "write"}

VARIABLES
  job,      \* the record in "jobs"
  log,      \* the terminal entries of the job's log in "events"
  tx,       \* "terminal_transactions": event -> "none", "prepared", "committed"
  saved,    \* and the job record each of them carries
  revoked,  \* whether the job's model grants are revoked
  lock,     \* holder of the flock terminal-job-<job>
  acked,    \* the events whose submission was answered "recorded"
  faults,   \* crashes and failed writes so far
  disturbed,  \* an unlocked handler has put the job record back (history)
  pc,       \* where each process is
  call,     \* the event its record_event was given; None in a constructor
  cur,      \* the event of the transaction it is applying
  todo,     \* the pending transactions it has listed
  mem,      \* the job record it has read
  op        \* the unlocked handler it runs

store == <<job, log, tx, saved, revoked>>
locals == <<call, cur, todo, mem, op>>
history == <<acked, disturbed>>
vars == <<store, lock, history, faults, pc, locals>>

TypeOK ==
  /\ job \in JobType
  /\ log \in Seq(Event)
  /\ tx \in [Event -> {"none", "prepared", "committed"}]
  /\ saved \in [Event -> JobType]
  /\ revoked \in BOOLEAN
  /\ lock \in Process \cup {None}
  /\ acked \subseteq Event /\ disturbed \in BOOLEAN
  /\ faults \in 0..MaxFaults
  /\ pc \in [Process -> PcType]
  /\ call \in [Process -> Event \cup {None}]
  /\ cur \in [Process -> Event \cup {None}]
  /\ todo \in [Process -> SUBSET Event]
  /\ mem \in [Process -> JobType]
  /\ op \in [Process -> Writers \cup {None}]

Init ==
  /\ job = [status |-> "leased", attempt |-> 1, terminal |-> None]
  /\ log = <<>>
  /\ tx = [e \in Event |-> "none"]
  /\ saved = [e \in Event |-> NoJob]
  /\ revoked = FALSE
  /\ lock = None
  /\ acked = {} /\ disturbed = FALSE
  /\ faults = 0
  /\ pc = [p \in Process |-> "idle"]
  /\ call = [p \in Process |-> None]
  /\ cur = [p \in Process |-> None]
  /\ todo = [p \in Process |-> {}]
  /\ mem = [p \in Process |-> NoJob]
  /\ op = [p \in Process |-> None]

-----------------------------------------------------------------------------
Prepared == {e \in Event : tx[e] = "prepared"}
InLog(e) == \E i \in DOMAIN log : log[i] = e

GoTo(p, where) == pc' = [pc EXCEPT ![p] = where]
Release(p) == lock' = IF lock = p THEN None ELSE lock

\* A handler's local variables end with it.
Forget(p) ==
  /\ call' = [call EXCEPT ![p] = None]
  /\ cur' = [cur EXCEPT ![p] = None]
  /\ todo' = [todo EXCEPT ![p] = {}]
  /\ mem' = [mem EXCEPT ![p] = NoJob]
  /\ op' = [op EXCEPT ![p] = None]

\* The handler raises: a running process serves the next request, a
\* constructor's exception ends the process.
Raise(p) ==
  /\ GoTo(p, IF call[p] = None THEN "down" ELSE "idle")
  /\ Forget(p)
  /\ Release(p)

-----------------------------------------------------------------------------
(* record_event for a terminal event.                                      *)

record_event(p, e) ==
  /\ pc[p] = "idle"
  /\ GoTo(p, "wait")
  /\ call' = [call EXCEPT ![p] = e]
  /\ UNCHANGED <<store, lock, history, faults, cur, todo, mem, op>>

AcquireLock(p) ==
  /\ pc[p] = "wait" /\ lock = None
  /\ lock' = p
  /\ GoTo(p, "list")
  /\ UNCHANGED <<store, history, faults, locals>>

\* _recover_terminal_transactions_for_job lists, then applies one by one.
ListPending(p) ==
  /\ pc[p] = "list"
  /\ GoTo(p, "recover")
  /\ todo' = [todo EXCEPT ![p] = Prepared]
  /\ UNCHANGED <<store, lock, history, faults, call, cur, mem, op>>

RecoverNext(p) ==
  /\ pc[p] = "recover"
  /\ \/ /\ todo[p] = {}
        /\ GoTo(p, "load")
        /\ UNCHANGED cur
     \/ \E e \in todo[p] :
          /\ cur' = [cur EXCEPT ![p] = e]
          /\ GoTo(p, "check")
  /\ UNCHANGED <<store, lock, history, faults, call, todo, mem, op>>

OwnsLease(rec, e) ==
  rec.status \in {"leased", "finished"} /\ rec.attempt = AttemptOf[e]

\* _record_event reads the job and decides: a foreign lease and a finished job
\* raise, a duplicate of the recorded event is answered, the rest goes on to
\* commit the record it has just read.
IsDuplicate(e) == OwnsLease(job, e) /\ InLog(e) /\ job.terminal = e
IsFresh(e) == OwnsLease(job, e) /\ ~InLog(e) /\ job.terminal = None

Load(p) ==
  /\ pc[p] = "load"
  /\ \/ /\ ~IsDuplicate(call[p]) /\ ~IsFresh(call[p])
        /\ Raise(p)
     \/ /\ IsDuplicate(call[p])
        /\ GoTo(p, "reply")
        /\ UNCHANGED <<lock, locals>>
     \/ /\ IsFresh(call[p])
        /\ mem' = [mem EXCEPT ![p] = job]
        /\ GoTo(p, "prepare")
        /\ UNCHANGED <<lock, call, cur, todo, op>>
  /\ UNCHANGED <<store, history, faults>>

\* _commit_terminal_event writes the transaction with the whole new record, or
\* finds the one an earlier submission left.
Prepare(p) ==
  LET e == call[p]
      record == [mem[p] EXCEPT !.status = "finished", !.terminal = e]
  IN /\ pc[p] = "prepare"
     /\ tx' = IF tx[e] = "none" THEN [tx EXCEPT ![e] = "prepared"] ELSE tx
     /\ saved' = IF tx[e] = "none" THEN [saved EXCEPT ![e] = record] ELSE saved
     /\ cur' = [cur EXCEPT ![p] = e]
     /\ GoTo(p, "check")
     /\ UNCHANGED <<job, log, revoked, lock, history, faults, call, todo, mem, op>>

-----------------------------------------------------------------------------
(* _apply_terminal_transaction, shared by commit and both recoveries.      *)

\* Fault: the record is trusted and the log is not read.
Conflicts_record_only(e) == job.terminal \notin {None, e}

\* Another terminal id on the record, or another terminal event in the log.
Conflicts(e) ==
  job.terminal \notin {None, e} \/ \E i \in DOMAIN log : log[i] # e

Check(p) ==
  /\ pc[p] = "check"
  /\ \/ Conflicts(cur[p]) /\ Raise(p)
     \/ ~Conflicts(cur[p]) /\ GoTo(p, "put_job") /\ UNCHANGED <<lock, locals>>
  /\ UNCHANGED <<store, history, faults>>

\* Fault: the job record is never written.
PutJob_skipped(p) ==
  /\ pc[p] = "put_job"
  /\ GoTo(p, "append")
  /\ UNCHANGED <<store, lock, history, faults, locals>>

PutJob(p) ==
  /\ pc[p] = "put_job"
  /\ job' = saved[cur[p]]
  /\ GoTo(p, "append")
  /\ UNCHANGED <<log, tx, saved, revoked, lock, history, faults, locals>>

AppendEvent(p) ==
  /\ pc[p] = "append"
  /\ log' = IF InLog(cur[p]) THEN log ELSE Append(log, cur[p])
  /\ GoTo(p, "commit")
  /\ UNCHANGED <<job, tx, saved, revoked, lock, history, faults, locals>>

\* Fault: the transaction is cleared away once it is applied.
CommittedTransactions_cleared(e) == [tx EXCEPT ![e] = "none"]

CommittedTransactions(e) == [tx EXCEPT ![e] = "committed"]

\* Where the process goes once its transaction is committed: to the grants of
\* its own event, or on with the list it recovers.
Commit(p) ==
  /\ pc[p] = "commit"
  /\ tx' = CommittedTransactions(cur[p])
  /\ cur' = [cur EXCEPT ![p] = None]
  /\ todo' = [todo EXCEPT ![p] = @ \ {cur[p]}]
  /\ \/ /\ call[p] = None
        /\ GoTo(p, "startup")
        /\ Release(p)
     \/ /\ call[p] # None /\ cur[p] \in todo[p]
        /\ GoTo(p, "recover")
        /\ UNCHANGED lock
     \/ /\ call[p] # None /\ cur[p] \notin todo[p]
        /\ GoTo(p, "revoke")
        /\ UNCHANGED lock
  /\ UNCHANGED <<job, log, saved, revoked, history, faults, call, mem, op>>

\* revoke_model_grant for every grant of the job, by the committing call only.
RevokeGrants(p) ==
  /\ pc[p] = "revoke"
  /\ revoked' = TRUE
  /\ GoTo(p, "reply")
  /\ UNCHANGED <<job, log, tx, saved, lock, history, faults, locals>>

Reply(p) ==
  /\ pc[p] = "reply"
  /\ acked' = acked \cup {call[p]}
  /\ GoTo(p, "idle")
  /\ Forget(p)
  /\ Release(p)
  /\ UNCHANGED <<store, disturbed, faults>>

-----------------------------------------------------------------------------
(* Processes come and go.                                                  *)

\* Fault: a new process does not recover.
Start_plain(p) ==
  /\ pc[p] = "down"
  /\ GoTo(p, "startup")
  /\ UNCHANGED <<store, lock, history, faults, locals>>

\* WorkerCoordinator(): recover_terminal_transactions lists before it locks.
Start(p) ==
  /\ pc[p] = "down"
  /\ GoTo(p, "startup")
  /\ todo' = [todo EXCEPT ![p] = Prepared]
  /\ UNCHANGED <<store, lock, history, faults, call, cur, mem, op>>

StartupNext(p) ==
  /\ pc[p] = "startup"
  /\ \/ /\ todo[p] = {}
        /\ GoTo(p, "idle")
        /\ UNCHANGED <<lock, cur>>
     \/ \E e \in todo[p] :
          /\ lock = None
          /\ lock' = p
          /\ cur' = [cur EXCEPT ![p] = e]
          /\ GoTo(p, "check")
  /\ UNCHANGED <<store, history, faults, call, todo, mem, op>>

\* A command has run to its end.
Exit(p) ==
  /\ pc[p] = "idle"
  /\ GoTo(p, "down")
  /\ UNCHANGED <<store, lock, history, faults, locals>>

Crash(p) ==
  /\ pc[p] # "down" /\ faults < MaxFaults
  /\ faults' = faults + 1
  /\ GoTo(p, "down")
  /\ Forget(p)
  /\ Release(p)
  /\ UNCHANGED <<store, history>>

\* The store's next write fails with an OSError that leaves the handler.
WriteFails(p) ==
  /\ pc[p] \in {"prepare", "put_job", "append", "commit", "revoke"}
  /\ faults < MaxFaults
  /\ faults' = faults + 1
  /\ Raise(p)
  /\ UNCHANGED <<store, history>>

-----------------------------------------------------------------------------
(* The handlers that load a job and put it back outside the lock.  touch:  *)
(* record_validator_result; requeue: _requeue_expired and                  *)
(* recover_expired_leases; review: revoke_node, authorize_goal_revision and *)
(* an expired lease that may not be retried, none of which leaves the job  *)
(* to its worker; lease: lease_next; cancel: cancel_job.                   *)

Applies(o, rec) ==
  /\ rec.terminal = None
  /\ o = "requeue" => rec.status = "leased"
  /\ o = "lease" => rec.status = "queued" /\ rec.attempt < MaxAttempts

Effect(o, rec) ==
  CASE o = "touch" -> rec
    [] o = "cancel" ->
         IF rec.status = "queued"
         THEN [rec EXCEPT !.status = "cancelled", !.terminal = HostCancel] ELSE rec
    [] o = "requeue" -> [rec EXCEPT !.status = "queued"]
    [] o = "review" -> [rec EXCEPT !.status = "waiting_review"]
    [] o = "lease" -> [rec EXCEPT !.status = "leased", !.attempt = @ + 1]

ReadJob(p, o) ==
  /\ pc[p] = "idle" /\ Applies(o, job)
  /\ GoTo(p, "write")
  /\ mem' = [mem EXCEPT ![p] = job]
  /\ op' = [op EXCEPT ![p] = o]
  /\ UNCHANGED <<store, lock, history, faults, call, cur, todo>>

WriteJob(p) ==
  /\ pc[p] = "write"
  /\ job' = Effect(op[p], mem[p])
  /\ disturbed' = TRUE
  /\ GoTo(p, "idle")
  /\ Forget(p)
  /\ UNCHANGED <<log, tx, saved, revoked, lock, acked, faults>>

-----------------------------------------------------------------------------
\* What a process does by itself once it has begun.
Step(p) ==
  \/ AcquireLock(p) \/ ListPending(p) \/ RecoverNext(p) \/ Load(p) \/ Prepare(p)
  \/ Check(p) \/ PutJob(p) \/ AppendEvent(p) \/ Commit(p) \/ RevokeGrants(p)
  \/ Reply(p) \/ StartupNext(p) \/ WriteJob(p)

Request(p) ==
  \/ \E e \in Event : record_event(p, e)
  \/ \E o \in Writers : ReadJob(p, o)

Next ==
  \E p \in Process :
    Step(p) \/ Request(p) \/ Start(p) \/ Exit(p) \/ Crash(p) \/ WriteFails(p)

Spec == Init /\ [][Next]_vars

\* Processes are scheduled, commands end and hosts keep starting new ones; no
\* request is ever promised.
Fairness ==
  \A p \in Process : WF_vars(Step(p)) /\ WF_vars(Exit(p)) /\ WF_vars(Start(p))

FairSpec == Spec /\ Fairness

-----------------------------------------------------------------------------
(* Properties.                                                             *)

\* The log decides: whatever the unlocked writers do to the job record and
\* wherever a process dies, one terminal event at most is ever logged and only
\* that event is ever acknowledged.
Outcome == INSTANCE TerminalOutcome WITH
  outcome <- IF log = <<>> THEN None ELSE log[Len(log)], acknowledged <- acked
ImplementsOutcome == Outcome!Spec

\* Write-ahead: a terminal event reaches the job record or the log only after
\* its transaction was written, and a committed transaction's event is logged.
WriteAhead ==
  \A e \in Event :
    /\ job.terminal = e \/ InLog(e) => tx[e] # "none"
    /\ tx[e] = "committed" => InLog(e)

\* A committed terminal event is what the job record says.
CommittedRecord ==
  \A e \in Event : tx[e] = "committed" => job.terminal = e

\* The recovery a new coordinator runs never meets a conflict, so it never
\* raises out of the constructor.
StartupUnobstructed ==
  \A p \in Process :
    pc[p] = "check" /\ call[p] = None => ~Conflicts(cur[p])

\* As long as no unlocked handler has put the job back, what record_event
\* committed is what the job record says, wherever the processes die, and the
\* recovery of a new coordinator never meets a conflict.
IsolatedRecovery == ~disturbed => CommittedRecord /\ StartupUnobstructed

\* A prepared transaction is eventually committed, by the process that wrote
\* it or by one that recovers it.
PreparedCommitted ==
  \A e \in Event : tx[e] = "prepared" ~> tx[e] = "committed"
=============================================================================
