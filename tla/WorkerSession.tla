--------------------------- MODULE WorkerSession ---------------------------
(***************************************************************************)
(* One job from the queue to its terminal event: the worker's run loop, its *)
(* session with the coordinator (one request and one answer at a time), the *)
(* executor thread beside it, the upload of the job's output in chunks, and *)
(* what the coordinator's session handler does for each request.           *)
(*                                                                         *)
(* Connections break between any two steps.  The handler of a broken       *)
(* connection may still serve the request it has read, and notices the end *)
(* late, when the worker may be back on a new connection.  Workers die and  *)
(* are restarted; leases expire.  Goals, model grants, enrollment and the  *)
(* write-ahead commit of the terminal event are subjects of other modules. *)
(***************************************************************************)
EXTENDS Naturals, FiniteSets

CONSTANTS
  Worker,       \* the enrolled workers
  Rank,         \* [Worker -> Nat]: choose_node's order of the workers
  Scenarios,    \* what the instance starts from: see ScenarioType
  MaxChunks,    \* bound on the chunks of an output
  MaxAttempts,  \* bound on retry_policy.max_attempts
  MaxFaults,    \* bound on broken connections, crashes and early expiries
  None          \* absent value

ASSUME SessionAssumption ==
  /\ Rank \in [Worker -> Nat] /\ \A w, v \in Worker : Rank[w] = Rank[v] => w = v
  /\ MaxChunks \in Nat \ {0} /\ MaxAttempts \in Nat \ {0} /\ MaxFaults \in Nat

ASSUME NoneAssumption ==
  None \notin Worker \cup {"uploading", "verified", "completed", "failed", "cancelled", "raised"}

\* The job's manifest and the host's gateway; which workers have an update
\* directive pending, and which the operator has drained.
ScenarioType ==
  [chunks : 0..MaxChunks, attempts : 1..MaxAttempts, answerable : BOOLEAN,
   updates : SUBSET Worker, drained : SUBSET Worker]

ASSUME ScenarioAssumption == Scenarios \subseteq ScenarioType

VARIABLES
  chunks,      \* the chunks of the output expected_outputs names; 0 when it names none
  attempts,    \* retry_policy.max_attempts
  answerable,  \* the host has the model gateway the job asks for
  job,         \* the job record
  leases,      \* the leases issued, one for each attempt
  uploads,     \* the artifact record of each attempt's output
  received,    \* the chunk files of each attempt's output
  node,        \* whether the coordinator has each node online
  directive,   \* an update directive is pending for the node, which drains it
  conn,        \* each worker's connection: what waits on it
  old,         \* the handler of a broken connection: the request it holds
  client,      \* each worker's session
  executor,    \* each worker's executor thread
  version,     \* which content each worker's output file has
  marker,      \* the drain marker in each worker's state directory
  faults,      \* how often something broke
  outcome      \* what the execution of each attempt came to (history)

given == <<chunks, attempts, answerable>>
coordinator == <<job, leases, uploads, received, node, directive>>
worker == <<client, executor, version, marker>>
vars == <<given, coordinator, conn, old, worker, faults, outcome>>

Declared == chunks > 0
MaxLeases == MaxAttempts + MaxFaults
Attempt == 1..MaxLeases
ResultState == {"completed", "failed", "cancelled"}

\* Where a session is: at a request whose answer is awaited, or between two.
Asking == {"hello", "request", "downloading", "updated", "ack", "preparing", "control", "running", "beat",
           "begin", "chunk", "finalize", "terminal", "goodbye"}
Pc == Asking \cup {"down", "updating", "start", "exec", "lost"}
Answer == {"ok", "cancel", "job", "no_job", "directive", "bye", "reject"}

Request ==
  [kind : Asking \cup {"quiet"}, lease : 0..MaxLeases, chunk : 0..MaxChunks, version : {1, 2},
   state : ResultState \cup {None}, artifact : BOOLEAN]

JobType ==
  [status : {"queued", "leased", "preparing", "running", "waiting_review"} \cup ResultState,
   attempt : 0..MaxLeases, lease : 0..MaxLeases, node : Worker \cup {None}, cancel : BOOLEAN,
   terminal : BOOLEAN]
LeaseType == [node : Worker, acknowledged : BOOLEAN, expired : BOOLEAN]
UploadType == [status : {None, "uploading", "verified"}, lease : 0..MaxLeases]
ConnType == [is : {"none", "ask", "quiet", "closed"} \cup Answer, lease : 0..MaxLeases]
ClientType ==
  [pc : Pc, lease : 0..MaxLeases, chunk : 0..MaxChunks, state : ResultState \cup {None}]
ExecutorType ==
  [at : {"none", "preflight", "running", "ended"}, cancel : BOOLEAN, started : BOOLEAN,
   result : ResultState \cup {None, "raised"}]

TypeOK ==
  /\ chunks \in 0..MaxChunks /\ attempts \in 1..MaxAttempts /\ answerable \in BOOLEAN
  /\ job \in JobType
  /\ leases \in [1..job.attempt -> LeaseType]
  /\ uploads \in [Attempt -> UploadType]
  /\ received \in [Attempt -> [1..chunks -> 0..2]]
  /\ node \in [Worker -> BOOLEAN] /\ directive \in [Worker -> BOOLEAN]
  /\ conn \in [Worker -> ConnType] /\ old \in [Worker -> Request \cup {None}]
  /\ client \in [Worker -> ClientType] /\ executor \in [Worker -> ExecutorType]
  /\ version \in [Worker -> {1, 2}] /\ marker \in [Worker -> BOOLEAN]
  /\ faults \in 0..MaxFaults
  /\ outcome \in [Attempt -> ResultState \cup {None}]

NoSession == [pc |-> "down", lease |-> 0, chunk |-> 0, state |-> None]
NoExecution == [at |-> "none", cancel |-> FALSE, started |-> FALSE, result |-> None]
Waiting(what) == [is |-> what, lease |-> 0]
Quiet == [kind |-> "quiet", lease |-> 0, chunk |-> 0, version |-> 1, state |-> None, artifact |-> FALSE]

Init ==
  /\ \E s \in Scenarios :
       /\ chunks = s.chunks /\ attempts = s.attempts /\ answerable = s.answerable
       /\ directive = [w \in Worker |-> w \in s.updates]
       /\ marker = [w \in Worker |-> w \in s.drained]
  /\ job = [status |-> "queued", attempt |-> 0, lease |-> 0, node |-> None, cancel |-> FALSE, terminal |-> FALSE]
  /\ leases = [l \in 1..0 |-> None]
  /\ uploads = [a \in Attempt |-> [status |-> None, lease |-> 0]]
  /\ received = [a \in Attempt |-> [k \in 1..chunks |-> 0]]
  /\ node = [w \in Worker |-> FALSE]
  /\ conn = [w \in Worker |-> Waiting("none")] /\ old = [w \in Worker |-> None]
  /\ client = [w \in Worker |-> NoSession] /\ executor = [w \in Worker |-> NoExecution]
  /\ version = [w \in Worker |-> 1]
  /\ faults = 0
  /\ outcome = [a \in Attempt |-> None]

-----------------------------------------------------------------------------
(* The coordinator's handler: what each request does, and its answer.      *)

\* _requeue_expired: only a job that still holds the lease goes back.
Requeued(l) ==
  IF ~job.terminal /\ job.lease = l
  THEN [job EXCEPT !.status = "queued", !.lease = 0, !.node = None]
  ELSE job

\* The node record: connect_node and heartbeat_node put the node online unless
\* it drains; the report of an update and disconnect_node put it off.
NodeAfter(w, r, a) ==
  CASE a \in {"reject", "bye"} \/ r.kind = "updated" -> FALSE
    [] a \notin {"reject", "bye"} /\ r.kind \in {"hello", "control", "beat"} -> ~directive[w]
    [] OTHER -> node[w]

Hello(w, r, a) ==
  /\ r.kind = "hello" /\ a = "ok"
  /\ UNCHANGED <<job, leases, uploads, received, directive>>

\* _lease_next_locked: the asking node must be online and the one choose_node
\* ranks first among the online nodes.
Leasable(w) ==
  /\ node[w] /\ job.status = "queued" /\ job.attempt < MaxLeases
  /\ \A v \in Worker : node[v] => Rank[w] <= Rank[v]

\* A job whose model policy needs a gateway the host has not raises after the
\* lease was issued.
LeaseRequest(w, r, a) ==
  /\ r.kind = "request"
  /\ \/ /\ Leasable(w)
        /\ a = IF answerable THEN "job" ELSE "reject"
        /\ job' = [job EXCEPT !.status = "leased", !.attempt = @ + 1, !.lease = job.attempt + 1, !.node = w]
        /\ leases' = [l \in 1..(job.attempt + 1) |->
             IF l <= job.attempt THEN leases[l] ELSE [node |-> w, acknowledged |-> FALSE, expired |-> FALSE]]
     \/ /\ ~Leasable(w)
        /\ a = IF directive[w] THEN "directive" ELSE "no_job"
        /\ UNCHANGED <<job, leases>>
  /\ UNCHANGED <<uploads, received, directive>>

LeaseAck(w, r, a) ==
  /\ r.kind = "ack"
  /\ \/ /\ leases[r.lease].expired /\ a = "reject"
        /\ job' = Requeued(r.lease) /\ UNCHANGED leases
     \/ /\ ~leases[r.lease].expired /\ a = "ok"
        /\ leases' = [leases EXCEPT ![r.lease].acknowledged = TRUE] /\ UNCHANGED job
  /\ UNCHANGED <<uploads, received, directive>>

\* lease_control and heartbeat_node: renewal does not ask who holds the job.
LeaseHeartbeat(w, r, a) ==
  /\ r.kind \in {"control", "beat"}
  /\ \/ /\ ~leases[r.lease].acknowledged \/ leases[r.lease].expired
        /\ a = "reject"
        /\ job' = IF leases[r.lease].acknowledged THEN Requeued(r.lease) ELSE job
     \/ /\ leases[r.lease].acknowledged /\ ~leases[r.lease].expired
        /\ a = IF job.cancel THEN "cancel" ELSE "ok"
        /\ UNCHANGED job
  /\ UNCHANGED <<leases, uploads, received, directive>>

\* _authoritative_terminal_artifacts.
ArtifactsVerified(r) ==
  /\ r.artifact => uploads[r.lease].status = "verified" /\ uploads[r.lease].lease = r.lease
  /\ Declared => r.artifact

Holds(w, r) == job.lease = r.lease /\ job.node = w

EventState_requested(r) ==
  IF r.kind = "terminal" THEN IF job.cancel THEN "cancelled" ELSE r.state ELSE r.kind
EventState(r) == IF r.kind = "terminal" THEN r.state ELSE r.kind

\* _record_event: ownership, acknowledgement, expiry, one terminal event, and
\* the artifacts of a terminal event.
Event(w, r, a) ==
  /\ r.kind \in {"preparing", "running", "terminal"}
  /\ LET l == leases[r.lease]
         live == Holds(w, r) /\ l.acknowledged /\ ~l.expired
     IN \/ /\ Holds(w, r) /\ l.acknowledged /\ l.expired /\ a = "reject"
           /\ job' = Requeued(r.lease)
        \/ /\ live /\ ~job.terminal /\ (r.kind = "terminal" => ArtifactsVerified(r)) /\ a = "ok"
           /\ job' = [job EXCEPT !.status = EventState(r), !.terminal = r.kind = "terminal"]
        \/ /\ \/ ~Holds(w, r) \/ ~l.acknowledged
              \/ live /\ (job.terminal \/ (r.kind = "terminal" /\ ~ArtifactsVerified(r)))
           /\ a = "reject" /\ UNCHANGED job
  /\ UNCHANGED <<leases, uploads, received, directive>>

\* begin_artifact_upload binds the upload to the lease the job holds now.
Bindable(w, r) ==
  /\ ~job.terminal /\ job.status \in {"leased", "running"} /\ job.node = w
  /\ uploads[r.lease].status # None => uploads[r.lease].lease = job.lease

ArtifactBegin(w, r, a) ==
  /\ r.kind = "begin"
  /\ \/ /\ Bindable(w, r) /\ a = "ok"
        /\ uploads' = IF uploads[r.lease].status # None THEN uploads
                      ELSE [uploads EXCEPT ![r.lease] = [status |-> "uploading", lease |-> job.lease]]
     \/ /\ ~Bindable(w, r) /\ a = "reject" /\ UNCHANGED uploads
  /\ UNCHANGED <<job, leases, received, directive>>

\* write_chunk asks nothing of the coordinator; the chunk's own hash matches.
ArtifactChunk(w, r, a) ==
  /\ r.kind = "chunk" /\ a = "ok"
  /\ received' = [received EXCEPT ![r.lease][r.chunk] = r.version]
  /\ UNCHANGED <<job, leases, uploads, directive>>

\* finalize joins the chunk files there are and compares size and hash with
\* the descriptor (content 1); then finalize_artifact_upload asks whether the
\* job still holds the lease.
Assembled_size(l) == \A k \in 1..chunks : received[l][k] # 0
Assembled(l) == \A k \in 1..chunks : received[l][k] = 1

ArtifactFinalize(w, r, a) ==
  /\ r.kind = "finalize"
  /\ LET ok == Assembled(r.lease) /\ uploads[r.lease].lease = job.lease
     IN \/ /\ ok /\ a = "ok" /\ uploads' = [uploads EXCEPT ![r.lease].status = "verified"]
        \/ /\ ~ok /\ a = "reject" /\ UNCHANGED uploads
  /\ UNCHANGED <<job, leases, received, directive>>

\* record_node_update: the final report ends the drain.
UpdateResult(w, r, a) ==
  /\ r.kind \in {"downloading", "updated"} /\ a = "ok"
  /\ directive' = [directive EXCEPT ![w] = r.kind = "downloading"]
  /\ UNCHANGED <<job, leases, uploads, received>>

Goodbye(w, r, a) ==
  /\ r.kind = "goodbye" /\ a = "bye"
  /\ UNCHANGED <<job, leases, uploads, received, directive>>

Handles(w, r, a) ==
  /\ \/ Hello(w, r, a) \/ LeaseRequest(w, r, a) \/ LeaseAck(w, r, a) \/ LeaseHeartbeat(w, r, a)
     \/ Event(w, r, a) \/ ArtifactBegin(w, r, a) \/ ArtifactChunk(w, r, a) \/ ArtifactFinalize(w, r, a)
     \/ UpdateResult(w, r, a) \/ Goodbye(w, r, a)
  /\ node' = [node EXCEPT ![w] = NodeAfter(w, r, a)]

-----------------------------------------------------------------------------
(* The connection, and the handler of a broken one.                        *)

\* The request a session stands at.
RequestOf(w) ==
  LET c == client[w]
  IN [kind |-> c.pc, lease |-> c.lease, chunk |-> c.chunk, version |-> version[w], state |-> c.state,
      artifact |-> Declared /\ executor[w].result = "completed"]

\* A refused request ends the session: the handler closes the connection.
Serve(w) ==
  /\ conn[w].is = "ask"
  /\ \E a \in Answer :
       /\ Handles(w, RequestOf(w), a)
       /\ conn' = [conn EXCEPT ![w] = [is |-> IF a = "reject" THEN "closed" ELSE a,
                                       lease |-> IF a = "job" THEN job'.lease ELSE 0]]
  /\ UNCHANGED <<given, old, worker, faults, outcome>>

\* The answer to what was in flight is lost, and so is the answer to what the
\* handler serves now.
ServeLate(w) ==
  /\ old[w] # None /\ old[w] # Quiet
  /\ \E a \in Answer :
       /\ Handles(w, old[w], a)
       /\ old' = [old EXCEPT ![w] = IF a \in {"reject", "bye"} THEN None ELSE Quiet]
  /\ UNCHANGED <<given, conn, worker, faults, outcome>>

\* The handler notices the end, by the stream or by its timeout, and its finally
\* clause disconnects the node by its id.
HandlerEnds(w) ==
  /\ old[w] # None
  /\ old' = [old EXCEPT ![w] = None]
  /\ node' = [node EXCEPT ![w] = FALSE]
  /\ UNCHANGED <<given, job, leases, uploads, received, directive, conn, worker, faults, outcome>>

Left(w) == IF conn[w].is = "ask" THEN RequestOf(w) ELSE Quiet
Breakable(w) == conn[w].is \notin {"none", "closed", "bye"} /\ old[w] = None

ConnectionLost(w) ==
  /\ Breakable(w) /\ faults < MaxFaults
  /\ faults' = faults + 1
  /\ old' = [old EXCEPT ![w] = Left(w)] /\ conn' = [conn EXCEPT ![w] = Waiting("closed")]
  /\ UNCHANGED <<given, coordinator, worker, outcome>>

-----------------------------------------------------------------------------
(* The worker's session: run_worker and WorkerSessionClient.run_once.      *)

\* The next request goes out: pc names it.
Ask(w, pc) ==
  /\ client' = [client EXCEPT ![w].pc = pc] /\ conn' = [conn EXCEPT ![w] = Waiting("ask")]

Answered(w, pc, as) == client[w].pc = pc /\ conn[w].is \in as

\* A worker with the drain marker does not connect.
Connect(w) ==
  /\ client[w].pc = "down" /\ ~marker[w] /\ conn[w].is = "none"
  /\ client' = [client EXCEPT ![w] = [NoSession EXCEPT !.pc = "hello"]]
  /\ conn' = [conn EXCEPT ![w] = Waiting("ask")]
  /\ UNCHANGED <<given, coordinator, old, executor, version, marker, faults, outcome>>

Ready(w) ==
  /\ Answered(w, "hello", {"ok"}) /\ Ask(w, "request")
  /\ UNCHANGED <<given, coordinator, old, executor, version, marker, faults, outcome>>

\* An idle session polls again, until its time is up.
PollAgain(w) ==
  /\ Answered(w, "request", {"no_job"}) /\ Ask(w, "request")
  /\ UNCHANGED <<given, coordinator, old, executor, version, marker, faults, outcome>>

IdleEnds(w) ==
  /\ Answered(w, "request", {"no_job"}) /\ Ask(w, "goodbye")
  /\ UNCHANGED <<given, coordinator, old, executor, version, marker, faults, outcome>>

\* _apply_update.
TakeDirective(w) ==
  /\ Answered(w, "request", {"directive"}) /\ Ask(w, "downloading")
  /\ UNCHANGED <<given, coordinator, old, executor, version, marker, faults, outcome>>

\* update_worker sets the drain marker for as long as it works.
UpdateBegins(w) ==
  /\ Answered(w, "downloading", {"ok"})
  /\ client' = [client EXCEPT ![w].pc = "updating"] /\ conn' = [conn EXCEPT ![w] = Waiting("quiet")]
  /\ marker' = [marker EXCEPT ![w] = TRUE]
  /\ UNCHANGED <<given, coordinator, old, executor, version, faults, outcome>>

\* Whatever came of it, the marker goes and the result is reported.
UpdateEnds(w) ==
  /\ client[w].pc = "updating"
  /\ marker' = [marker EXCEPT ![w] = FALSE]
  /\ client' = [client EXCEPT ![w].pc = "updated"]
  /\ conn' = [conn EXCEPT ![w] = IF @.is = "closed" THEN @ ELSE Waiting("ask")]
  /\ UNCHANGED <<given, coordinator, old, executor, version, faults, outcome>>

\* The session returns without a goodbye and the process ends, to be restarted.
UpdateReported(w) ==
  /\ Answered(w, "updated", {"ok"}) /\ old[w] = None
  /\ client' = [client EXCEPT ![w] = NoSession] /\ conn' = [conn EXCEPT ![w] = Waiting("none")]
  /\ old' = [old EXCEPT ![w] = Quiet]
  /\ UNCHANGED <<given, coordinator, executor, version, marker, faults, outcome>>

TakeJob(w) ==
  /\ Answered(w, "request", {"job"})
  /\ client' = [client EXCEPT ![w].pc = "ack", ![w].lease = conn[w].lease]
  /\ conn' = [conn EXCEPT ![w] = Waiting("ask")]
  /\ version' = [version EXCEPT ![w] = 1]
  /\ UNCHANGED <<given, coordinator, old, executor, marker, faults, outcome>>

Acknowledged(w) ==
  /\ \/ Answered(w, "ack", {"ok"}) /\ Ask(w, "preparing")
     \/ Answered(w, "preparing", {"ok"}) /\ Ask(w, "control")
  /\ UNCHANGED <<given, coordinator, old, executor, version, marker, faults, outcome>>

\* The first poll of the lease precedes the execution.
Execute(w) ==
  /\ Answered(w, "control", {"ok", "cancel"})
  /\ client' = [client EXCEPT ![w].pc = "start"] /\ conn' = [conn EXCEPT ![w] = Waiting("quiet")]
  /\ executor' = [executor EXCEPT ![w] =
       [NoExecution EXCEPT !.at = "preflight", !.cancel = conn[w].is = "cancel"]]
  /\ UNCHANGED <<given, coordinator, old, version, marker, faults, outcome>>

\* The session waits until the process was started or the execution is over.
Started(w) ==
  /\ client[w].pc = "start" /\ executor[w].at \notin {"none", "preflight"}
  /\ IF executor[w].started
     THEN /\ client' = [client EXCEPT ![w].pc = "running"]
          /\ conn' = [conn EXCEPT ![w] = IF @.is = "closed" THEN @ ELSE Waiting("ask")]
     ELSE client' = [client EXCEPT ![w].pc = "exec"] /\ UNCHANGED conn
  /\ UNCHANGED <<given, coordinator, old, executor, version, marker, faults, outcome>>

\* _maintain_lease, one poll.
Beat(w) ==
  /\ client[w].pc = "exec" /\ executor[w].at = "running"
  /\ client' = [client EXCEPT ![w].pc = "beat"]
  /\ conn' = [conn EXCEPT ![w] = IF @.is = "closed" THEN @ ELSE Waiting("ask")]
  /\ UNCHANGED <<given, coordinator, old, executor, version, marker, faults, outcome>>

Beaten(w) ==
  /\ client[w].pc \in {"running", "beat"} /\ conn[w].is \in {"ok", "cancel"}
  /\ client' = [client EXCEPT ![w].pc = "exec"] /\ conn' = [conn EXCEPT ![w] = Waiting("quiet")]
  /\ executor' = [executor EXCEPT ![w].cancel = @ \/ conn[w].is = "cancel"]
  /\ UNCHANGED <<given, coordinator, old, version, marker, faults, outcome>>

\* What is reported: a completed execution whose sandbox could not be removed
\* has failed.
Reportable(w) ==
  IF executor[w].result = "completed" THEN {"completed", "failed"} ELSE {executor[w].result}

Report(w) ==
  /\ \E s \in Reportable(w) : client' = [client EXCEPT ![w].pc = "terminal", ![w].state = s]
  /\ conn' = [conn EXCEPT ![w] = IF @.is = "closed" THEN @ ELSE Waiting("ask")]

\* The execution is over: upload the output there is, or report.
Executed(w) ==
  /\ client[w].pc = "exec" /\ executor[w].at = "ended" /\ executor[w].result # "raised"
  /\ IF Declared /\ executor[w].result = "completed"
     THEN /\ client' = [client EXCEPT ![w].pc = "begin", ![w].chunk = 1]
          /\ conn' = [conn EXCEPT ![w] = IF @.is = "closed" THEN @ ELSE Waiting("ask")]
     ELSE Report(w)
  /\ UNCHANGED <<given, coordinator, old, executor, version, marker, faults, outcome>>

\* _upload_artifact.
Upload(w) ==
  /\ \/ Answered(w, "begin", {"ok"}) /\ Ask(w, "chunk")
     \/ /\ Answered(w, "chunk", {"ok"}) /\ client[w].chunk < chunks
        /\ client' = [client EXCEPT ![w].chunk = @ + 1] /\ conn' = [conn EXCEPT ![w] = Waiting("ask")]
     \/ Answered(w, "chunk", {"ok"}) /\ client[w].chunk = chunks /\ Ask(w, "finalize")
     \/ Answered(w, "finalize", {"ok"}) /\ Report(w)
  /\ UNCHANGED <<given, coordinator, old, executor, version, marker, faults, outcome>>

Reported(w) ==
  /\ Answered(w, "terminal", {"ok"}) /\ Ask(w, "goodbye")
  /\ UNCHANGED <<given, coordinator, old, executor, version, marker, faults, outcome>>

Farewell(w) ==
  /\ Answered(w, "goodbye", {"bye"})
  /\ client' = [client EXCEPT ![w] = NoSession] /\ conn' = [conn EXCEPT ![w] = Waiting("none")]
  /\ executor' = [executor EXCEPT ![w] = NoExecution]
  /\ UNCHANGED <<given, coordinator, old, version, marker, faults, outcome>>

\* A closed connection fails the session at its next read or write, but while
\* the executor works the session first waits for it to end; nothing tells
\* the executor.
Fail(w) ==
  /\ \/ conn[w].is = "closed" /\ client[w].pc \in Asking
     \/ client[w].pc = "lost"
     \/ client[w].pc = "exec" /\ executor[w].result = "raised"
  /\ IF executor[w].at \in {"preflight", "running"}
     THEN /\ client' = [client EXCEPT ![w].pc = "lost"] /\ client[w].pc # "lost"
          /\ UNCHANGED <<conn, old, executor>>
     ELSE /\ client' = [client EXCEPT ![w] = NoSession]
          /\ conn' = [conn EXCEPT ![w] = Waiting("none")]
          /\ executor' = [executor EXCEPT ![w] = NoExecution]
          /\ conn[w].is # "closed" => old[w] = None
          /\ old' = IF conn[w].is = "closed" THEN old ELSE [old EXCEPT ![w] = Left(w)]
  /\ UNCHANGED <<given, coordinator, version, marker, faults, outcome>>

\* The worker's process dies; its job's process group outlives it, unheard.
Crash(w) ==
  /\ client[w].pc # "down" /\ faults < MaxFaults
  /\ conn[w].is \in {"closed", "bye"} \/ Breakable(w)
  /\ faults' = faults + 1
  /\ client' = [client EXCEPT ![w] = NoSession] /\ conn' = [conn EXCEPT ![w] = Waiting("none")]
  /\ executor' = [executor EXCEPT ![w] = NoExecution]
  /\ old' = IF Breakable(w) THEN [old EXCEPT ![w] = Left(w)] ELSE old
  /\ UNCHANGED <<given, coordinator, version, marker, outcome>>

-----------------------------------------------------------------------------
(* The executor thread: BoundedProcessExecutor.execute.                    *)

Ends(w, started, result) ==
  /\ executor' = [executor EXCEPT ![w].at = "ended", ![w].started = started, ![w].result = result]
  /\ outcome' = IF result = "raised" THEN outcome ELSE [outcome EXCEPT ![client[w].lease] = result]
  /\ UNCHANGED <<given, coordinator, conn, old, client, version, marker, faults>>

\* The payloads are not the inputs the manifest declares.
InputsRefused(w) == Ends(w, FALSE, "raised")

\* The disk is short: the job fails before it began.
PreflightFails(w) == Ends(w, FALSE, "failed")

\* Up to Popen: the binding and the inputs are checked and may raise, the disk
\* may be short, the entry point missing, the job already cancelled.
Preflight(w) ==
  /\ executor[w].at = "preflight"
  /\ \/ InputsRefused(w)
     \/ PreflightFails(w)
     \/ executor[w].cancel /\ Ends(w, FALSE, "cancelled")
     \/ /\ ~executor[w].cancel
        /\ executor' = [executor EXCEPT ![w].at = "running", ![w].started = TRUE]
        /\ UNCHANGED <<given, coordinator, conn, old, client, version, marker, faults, outcome>>

\* The process exits, and its outputs are collected, or are not there.
Exits(w) ==
  /\ executor[w].at = "running"
  /\ Ends(w, TRUE, "completed") \/ Ends(w, TRUE, "failed")

Cancelled(w) ==
  /\ executor[w].at = "running" /\ executor[w].cancel
  /\ Ends(w, TRUE, "cancelled")

\* Time, output, memory and process budgets.
BudgetExceeded(w) ==
  /\ executor[w].at = "running" /\ Ends(w, TRUE, "failed")

\* A process the job left behind writes the output again after it was hashed;
\* only the chunks read from now on differ.
OutputRewritten(w) ==
  /\ client[w].pc \in {"begin", "chunk"} /\ conn[w].is = "ok" /\ version[w] = 1
  /\ version' = [version EXCEPT ![w] = 2]
  /\ UNCHANGED <<given, coordinator, conn, old, client, executor, marker, faults, outcome>>

-----------------------------------------------------------------------------
(* The host and the clock.                                                 *)

\* A lease whose worker is gone expires; one that is kept up expires only when
\* its heartbeats are late, which counts as a fault.
Maintained(l) ==
  \E w \in Worker : conn[w].lease = l \/ (client[w].lease = l /\ client[w].pc # "lost")

LeaseExpires(l) ==
  /\ ~leases[l].expired
  /\ \/ ~Maintained(l) /\ UNCHANGED faults
     \/ Maintained(l) /\ faults < MaxFaults /\ faults' = faults + 1
  /\ leases' = [leases EXCEPT ![l].expired = TRUE]
  /\ UNCHANGED <<given, job, uploads, received, node, directive, conn, old, worker, outcome>>

\* recover_expired_leases, for a job that may be retried.
RecoverExpired_acknowledged ==
  /\ job.lease # 0 /\ ~job.terminal /\ leases[job.lease].expired /\ leases[job.lease].acknowledged
  /\ job' = [job EXCEPT !.status = IF job.attempt < attempts THEN "queued" ELSE "waiting_review",
                        !.lease = 0, !.node = None]
  /\ UNCHANGED <<given, leases, uploads, received, node, directive, conn, old, worker, faults, outcome>>
RecoverExpired ==
  /\ job.lease # 0 /\ ~job.terminal /\ leases[job.lease].expired
  /\ job' = [job EXCEPT !.status = IF job.attempt < attempts THEN "queued" ELSE "waiting_review",
                        !.lease = 0, !.node = None]
  /\ UNCHANGED <<given, leases, uploads, received, node, directive, conn, old, worker, faults, outcome>>

CancelJob ==
  /\ ~job.terminal /\ ~job.cancel
  /\ job' = IF job.status = "queued"
            THEN [job EXCEPT !.cancel = TRUE, !.status = "cancelled", !.terminal = TRUE]
            ELSE [job EXCEPT !.cancel = TRUE]
  /\ UNCHANGED <<given, leases, uploads, received, node, directive, conn, old, worker, faults, outcome>>

-----------------------------------------------------------------------------
Session(w) ==
  \/ Connect(w) \/ Ready(w) \/ PollAgain(w) \/ IdleEnds(w) \/ TakeDirective(w) \/ UpdateBegins(w) \/ UpdateEnds(w)
  \/ UpdateReported(w) \/ TakeJob(w) \/ Acknowledged(w) \/ Execute(w) \/ Started(w) \/ Beaten(w)
  \/ Executed(w) \/ Upload(w) \/ Reported(w) \/ Farewell(w) \/ Fail(w)

Next ==
  \/ \E w \in Worker :
       \/ Serve(w) \/ ServeLate(w) \/ HandlerEnds(w) \/ ConnectionLost(w) \/ Crash(w)
       \/ Session(w) \/ Beat(w)
       \/ Preflight(w) \/ Exits(w) \/ Cancelled(w) \/ BudgetExceeded(w) \/ OutputRewritten(w)
  \/ \E l \in DOMAIN leases : LeaseExpires(l)
  \/ RecoverExpired \/ CancelJob

\* The workers run on and leave a session that stays idle, the host serves
\* connections and recovers leases, ended connections are noticed, unkept
\* leases expire and every process meets its time budget.  Nobody has to
\* cancel and nothing has to break.
Fairness ==
  /\ \A w \in Worker :
       /\ WF_vars(Serve(w)) /\ WF_vars(HandlerEnds(w)) /\ WF_vars(Session(w)) /\ SF_vars(IdleEnds(w))
       /\ WF_vars(Preflight(w)) /\ WF_vars(BudgetExceeded(w))
  /\ \A l \in Attempt : WF_vars(l \in DOMAIN leases /\ ~Maintained(l) /\ LeaseExpires(l))
  /\ WF_vars(RecoverExpired)

Spec == Init /\ [][Next]_vars /\ Fairness

-----------------------------------------------------------------------------
(* Properties.                                                             *)

\* Of a job that completed with declared outputs, the coordinator holds the
\* complete output of the completing attempt, as it was when it was hashed,
\* although uploads break off, are served late, bind to whatever lease the job
\* has by then and read a file that may change.
OutputsHeld ==
  job.status = "completed" /\ Declared =>
    /\ uploads[job.lease] = [status |-> "verified", lease |-> job.lease]
    /\ \A k \in 1..chunks : received[job.lease][k] = 1

\* The terminal state a worker's event gave the job is the outcome of the
\* execution of exactly the attempt the job holds (a failure to clean up
\* included): no earlier attempt, late handler or other worker speaks for it.
OutcomeOwned ==
  job.terminal /\ job.lease # 0 =>
    /\ leases[job.lease].acknowledged /\ job.lease = job.attempt
    /\ \/ outcome[job.lease] = job.status
       \/ outcome[job.lease] = "completed" /\ job.status = "failed"

\* A worker that removed its sandbox, sent its report and had it confirmed has
\* nothing to say again: the job is terminal with exactly what it reported.
ConfirmedRecorded ==
  \A w \in Worker :
    client[w].pc = "goodbye" /\ client[w].lease # 0 =>
      job.terminal /\ job.lease = client[w].lease /\ job.status = client[w].state

\* Whatever breaks, the job is decided: it gets a terminal state or is handed to
\* a reviewer, unless every worker died during an update and waits behind the
\* drain marker it left.
JobSettles ==
  <>(job.terminal \/ job.status = "waiting_review") \/ <>[](\A w \in Worker : marker[w])

\* Job, lease, upload and both ends of every session keep their types, and what
\* the job says, the attempt it holds and the reporting worker agree.
OutcomeSound == TypeOK /\ OutcomeOwned /\ ConfirmedRecorded
=============================================================================
