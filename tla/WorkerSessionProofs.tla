------------------------- MODULE WorkerSessionProofs -------------------------
(***************************************************************************)
(* Proofs about WorkerSession: for any number of workers, chunks, attempts *)
(* and faults.                                                             *)
(***************************************************************************)
EXTENDS WorkerSession, TLAPS
-----------------------------------------------------------------------------
(* The inductive invariant.                                                *)

\* Where a session has a lease, and where it has none yet.
Leased == {"ack", "preparing", "control", "start", "running", "exec", "beat", "begin", "chunk",
           "finalize", "terminal", "lost"}
Unleased == {"down", "hello", "request", "downloading", "updating", "updated"}
Executing == {"preflight", "running"}

Lease == 1..job.attempt

\* What may be reported of an execution.
Told(l, s) ==
  s \in ResultState /\ (outcome[l] = s \/ (outcome[l] = "completed" /\ s = "failed"))

\* The job holds the newest lease or none, and is terminal with a final status.
JobInv ==
  /\ job.lease \in {0, job.attempt}
  /\ job.status = "queued" => job.lease = 0
  /\ job.terminal <=> job.status \in ResultState
  /\ job.status = "completed" => job.lease # 0

\* Nothing is known of a lease that was not issued.
FreshInv ==
  \A l \in Attempt : l > job.attempt => outcome[l] = None /\ uploads[l].status # "verified"

\* A session's lease was issued to its worker; its execution is the only one of
\* the lease; what it reports came of it.
SessionInv(w) ==
  LET c == client[w]
      x == executor[w]
  IN /\ c.pc \in Leased => c.lease # 0
     /\ c.pc \in Unleased => c.lease = 0
     /\ c.lease # 0 => c.lease \in Lease /\ leases[c.lease].node = w
     /\ c.pc \in Unleased \cup {"ack", "preparing", "control"} => x.at = "none"
     /\ c.pc \in {"ack", "preparing", "control"} => outcome[c.lease] = None
     /\ x.at \in Executing =>
          c.pc \in {"start", "running", "exec", "beat", "lost"} /\ outcome[c.lease] = None
     /\ x.at = "ended" /\ x.result # "raised" =>
          x.result \in ResultState /\ c.lease # 0 /\ outcome[c.lease] = x.result
     /\ c.pc \in {"begin", "chunk", "finalize"} =>
          x.at = "ended" /\ x.result = "completed" /\ c.chunk \in 1..chunks
     /\ c.pc = "terminal" \/ (c.pc = "goodbye" /\ c.lease # 0) => Told(c.lease, c.state)

\* What an answer on the connection says is so.
AnswerInv(w) ==
  /\ conn[w].is = "ask" => client[w].pc \in Asking
  /\ conn[w].is # "job" => conn[w].lease = 0
  /\ conn[w].is = "job" =>
       LET l == conn[w].lease
       IN /\ client[w].pc = "request" /\ l \in Lease /\ leases[l].node = w
          /\ outcome[l] = None /\ uploads[l].status # "verified"
          /\ \A v \in Worker : client[v].lease # l /\ (old[v] # None => old[v].lease # l)
  /\ client[w].pc = "terminal" /\ conn[w].is = "ok" =>
       job.terminal /\ job.lease = client[w].lease /\ job.status = client[w].state

\* The request a late handler holds was its worker's; the session it came from,
\* if it is still there, is cut off where it asked.
LateInv(w) ==
  old[w] # None =>
    /\ old[w].kind \in Leased => old[w].lease # 0
    /\ old[w].lease # 0 => old[w].lease \in Lease /\ leases[old[w].lease].node = w
    /\ old[w].kind = "terminal" => Told(old[w].lease, old[w].state)
    /\ old[w].lease # 0 /\ old[w].lease = client[w].lease =>
         conn[w].is = "closed" /\ client[w].pc \in {old[w].kind, "lost"}

\* After the last chunk.
Uploaded == {"finalize", "terminal", "goodbye", "lost"}

\* A verified output is complete, and no chunk of it is still to come.
VerifiedInv ==
  \A l \in Attempt :
    uploads[l].status = "verified" =>
      /\ Assembled(l)
      /\ \A w \in Worker :
           /\ client[w].lease = l => client[w].pc \in Uploaded
           /\ old[w] # None /\ old[w].lease = l => old[w].kind # "chunk"

WorkerInv ==
  /\ TypeOK /\ JobInv /\ FreshInv /\ VerifiedInv
  /\ \A w \in Worker : SessionInv(w) /\ AnswerInv(w) /\ LateInv(w)
  /\ OutcomeOwned /\ ConfirmedRecorded /\ OutputsHeld
-----------------------------------------------------------------------------
(* Types.                                                                  *)

\* The bounds are numbers.
LEMMA Bounds ==
  /\ MaxLeases \in Nat \ {0} /\ MaxChunks \in Nat \ {0} /\ MaxFaults \in Nat
  /\ MaxAttempts \in Nat \ {0}
BY SessionAssumption DEF MaxLeases

CoordinatorTypes(j, ls, u, rc, n, d) ==
  /\ j \in JobType /\ ls \in [1..j.attempt -> LeaseType] /\ u \in [Attempt -> UploadType]
  /\ rc \in [Attempt -> [1..chunks -> 0..2]]
  /\ n \in [Worker -> BOOLEAN] /\ d \in [Worker -> BOOLEAN]

\* A job that loses its lease.
LEMMA RequeuedType ==
  ASSUME TypeOK, NEW l
  PROVE  Requeued(l) \in JobType /\ Requeued(l).attempt = job.attempt
<1>1. [job EXCEPT !.status = "queued", !.lease = 0, !.node = None] \in JobType
  <2>1. 0 \in 0..MaxLeases
    BY Bounds
  <2> QED BY <2>1 DEF TypeOK, JobType
<1>2. [job EXCEPT !.status = "queued", !.lease = 0, !.node = None].attempt = job.attempt
  BY DEF TypeOK, JobType
<1> QED BY <1>1, <1>2 DEF Requeued, TypeOK

\* What the handler does for a request leaves the coordinator's records records.
LEMMA HandlesTypes ==
  ASSUME TypeOK, NEW w \in Worker, NEW r \in Request, NEW a, Handles(w, r, a),
         r.kind = "terminal" => r.state \in ResultState
  PROVE  CoordinatorTypes(job', leases', uploads', received', node', directive')
<1>0. /\ job \in JobType /\ leases \in [1..job.attempt -> LeaseType]
      /\ uploads \in [Attempt -> UploadType] /\ received \in [Attempt -> [1..chunks -> 0..2]]
      /\ node \in [Worker -> BOOLEAN] /\ directive \in [Worker -> BOOLEAN]
      /\ job.attempt \in 0..MaxLeases
  BY DEF TypeOK, JobType
<1>n. node' \in [Worker -> BOOLEAN]
  <2>1. NodeAfter(w, r, a) \in BOOLEAN
    BY <1>0 DEF NodeAfter
  <2> QED BY <2>1, <1>0 DEF Handles
<1> USE DEF CoordinatorTypes
<1>1. CASE Hello(w, r, a)
  BY <1>1, <1>0, <1>n DEF Hello
<1>2. CASE LeaseRequest(w, r, a)
  <2>1. CASE Leasable(w) /\ job' = [job EXCEPT !.status = "leased", !.attempt = @ + 1,
                                              !.lease = job.attempt + 1, !.node = w]
             /\ leases' = [l \in 1..(job.attempt + 1) |->
                  IF l <= job.attempt THEN leases[l]
                  ELSE [node |-> w, acknowledged |-> FALSE, expired |-> FALSE]]
    <3>1. job.attempt + 1 \in 0..MaxLeases
      BY <2>1, <1>0, Bounds DEF Leasable
    <3>2. job' \in JobType /\ job'.attempt = job.attempt + 1
      BY <3>1, <2>1, <1>0 DEF JobType
    <3>3. [node |-> w, acknowledged |-> FALSE, expired |-> FALSE] \in LeaseType
      BY DEF LeaseType
    <3>4. leases' \in [1..(job.attempt + 1) -> LeaseType]
      BY <3>3, <2>1, <1>0
    <3> QED BY <3>2, <3>4, <1>2, <1>0, <1>n DEF LeaseRequest
  <2>2. CASE UNCHANGED <<job, leases>>
    BY <2>2, <1>2, <1>0, <1>n DEF LeaseRequest
  <2> QED BY <2>1, <2>2, <1>2 DEF LeaseRequest
<1>3. CASE LeaseAck(w, r, a)
  <2>1. CASE job' = Requeued(r.lease) /\ UNCHANGED leases
    BY <2>1, <1>3, <1>0, <1>n, RequeuedType DEF LeaseAck
  <2>2. CASE leases' = [leases EXCEPT ![r.lease].acknowledged = TRUE] /\ UNCHANGED job
    <3>1. leases' \in [1..job.attempt -> LeaseType]
      BY <2>2, <1>0 DEF LeaseType
    <3> QED BY <3>1, <2>2, <1>3, <1>0, <1>n DEF LeaseAck
  <2> QED BY <2>1, <2>2, <1>3 DEF LeaseAck
<1>4. CASE LeaseHeartbeat(w, r, a)
  <2>1. job' \in {job, Requeued(r.lease)}
    BY <1>4 DEF LeaseHeartbeat
  <2>2. job' \in JobType /\ job'.attempt = job.attempt
    BY <2>1, <1>0, RequeuedType
  <2> QED BY <2>2, <1>4, <1>0, <1>n DEF LeaseHeartbeat
<1>5. CASE Event(w, r, a)
  <2>1. \/ job' \in {job, Requeued(r.lease)}
        \/ job' = [job EXCEPT !.status = EventState(r), !.terminal = (r.kind = "terminal")]
    BY <1>5 DEF Event
  <2>2. ASSUME job' = [job EXCEPT !.status = EventState(r), !.terminal = (r.kind = "terminal")]
        PROVE  job' \in JobType /\ job'.attempt = job.attempt
    <3>1. r.kind \in {"preparing", "running", "terminal"}
      BY <1>5 DEF Event
    <3>2. EventState(r) \in {"preparing", "running"} \cup ResultState
      BY <3>1 DEF EventState
    <3> QED BY <3>2, <2>2, <1>0 DEF JobType
  <2>3. job' \in JobType /\ job'.attempt = job.attempt
    <3>1. CASE job' \in {job, Requeued(r.lease)}
      BY <3>1, <1>0, RequeuedType
    <3> QED BY <3>1, <2>1, <2>2
  <2> QED BY <2>3, <1>5, <1>0, <1>n DEF Event
<1>6. CASE ArtifactBegin(w, r, a)
  <2>1. [status |-> "uploading", lease |-> job.lease] \in UploadType
    BY <1>0 DEF UploadType, JobType
  <2>2. uploads' \in [Attempt -> UploadType]
    BY <2>1, <1>6, <1>0 DEF ArtifactBegin
  <2> QED BY <2>2, <1>6, <1>0, <1>n DEF ArtifactBegin
<1>7. CASE ArtifactChunk(w, r, a)
  <2>1. r.version \in 0..2
    BY DEF Request
  <2>2. received' \in [Attempt -> [1..chunks -> 0..2]]
    BY <2>1, <1>7, <1>0 DEF ArtifactChunk
  <2> QED BY <2>2, <1>7, <1>0, <1>n DEF ArtifactChunk
<1>8. CASE ArtifactFinalize(w, r, a)
  <2>1. uploads' \in [Attempt -> UploadType]
    BY <1>8, <1>0 DEF ArtifactFinalize, UploadType
  <2> QED BY <2>1, <1>8, <1>0, <1>n DEF ArtifactFinalize
<1>9. CASE UpdateResult(w, r, a)
  BY <1>9, <1>0, <1>n DEF UpdateResult
<1>10. CASE Goodbye(w, r, a)
  BY <1>10, <1>0, <1>n DEF Goodbye
<1> QED BY <1>1, <1>2, <1>3, <1>4, <1>5, <1>6, <1>7, <1>8, <1>9, <1>10 DEF Handles

SessionTypes(cn, o, c, x, v, m) ==
  /\ cn \in [Worker -> ConnType] /\ o \in [Worker -> Request \cup {None}]
  /\ c \in [Worker -> ClientType] /\ x \in [Worker -> ExecutorType]
  /\ v \in [Worker -> {1, 2}] /\ m \in [Worker -> BOOLEAN]

\* The values a session starts from, and what may wait on a connection.
LEMMA SessionInitials ==
  /\ NoSession \in ClientType /\ NoExecution \in ExecutorType /\ Quiet \in Request
  /\ \A s \in {"none", "ask", "quiet", "closed"} : Waiting(s) \in ConnType
<1>1. 0 \in 0..MaxLeases /\ 0 \in 0..MaxChunks
  BY Bounds
<1> QED BY <1>1 DEF NoSession, ClientType, Pc, NoExecution, ExecutorType, Quiet, Request, Waiting,
              ConnType

\* What a session sends is a request, and so is what a broken connection leaves.
LEMMA RequestTypes ==
  ASSUME TypeOK, NEW w \in Worker, conn[w].is = "ask" => client[w].pc \in Asking
  PROVE  /\ conn[w].is = "ask" => RequestOf(w) \in Request
         /\ Left(w) \in Request
<1>1. client[w] \in ClientType /\ version[w] \in {1, 2}
  BY DEF TypeOK
<1>2. ASSUME client[w].pc \in Asking
      PROVE  RequestOf(w) \in Request
  BY <1>1, <1>2 DEF RequestOf, Request, ClientType, Declared
<1> QED BY <1>2, SessionInitials DEF Left

\* The steps of a worker's session, of its connection and of its executor leave
\* their records records.
LEMMA SessionStepTypes ==
  ASSUME TypeOK, NEW w \in Worker, AnswerInv(w), SessionInv(w),
         \/ ConnectionLost(w) \/ Crash(w) \/ Session(w) \/ Beat(w) \/ OutputRewritten(w)
  PROVE  /\ SessionTypes(conn', old', client', executor', version', marker')
         /\ faults' \in 0..MaxFaults
<1> USE DEF SessionTypes
<1>0. /\ conn \in [Worker -> ConnType] /\ old \in [Worker -> Request \cup {None}]
      /\ client \in [Worker -> ClientType] /\ executor \in [Worker -> ExecutorType]
      /\ version \in [Worker -> {1, 2}] /\ marker \in [Worker -> BOOLEAN]
      /\ faults \in 0..MaxFaults /\ client[w] \in ClientType /\ executor[w] \in ExecutorType
      /\ conn[w] \in ConnType
  BY DEF TypeOK
<1>a. Left(w) \in Request /\ Quiet \in Request
  BY RequestTypes, SessionInitials DEF AnswerInv
<1>b. ASSUME NEW s \in {"none", "ask", "quiet", "closed"}
      PROVE  [conn EXCEPT ![w] = Waiting(s)] \in [Worker -> ConnType]
  BY <1>0, SessionInitials
<1>c. [conn EXCEPT ![w] = IF @.is = "closed" THEN @ ELSE Waiting("ask")] \in [Worker -> ConnType]
  BY <1>0, SessionInitials
<1>d. ASSUME NEW pc \in Pc
      PROVE  [client EXCEPT ![w].pc = pc] \in [Worker -> ClientType]
  BY <1>0, <1>d DEF ClientType
<1>e. ASSUME NEW pc \in Asking
      PROVE  pc \in Pc
  BY DEF Pc
<1>f. ASSUME NEW pc \in Asking, Ask(w, pc)
      PROVE  client' \in [Worker -> ClientType] /\ conn' \in [Worker -> ConnType]
  BY <1>b, <1>d, <1>e, <1>f DEF Ask
<1>g. [client EXCEPT ![w] = NoSession] \in [Worker -> ClientType]
      /\ [executor EXCEPT ![w] = NoExecution] \in [Worker -> ExecutorType]
  BY <1>0, SessionInitials
<1>h. ASSUME faults < MaxFaults
      PROVE  faults + 1 \in 0..MaxFaults
  BY <1>h, <1>0, Bounds
<1>i. [old EXCEPT ![w] = Left(w)] \in [Worker -> Request \cup {None}]
  BY <1>0, <1>a
<1>1. CASE ConnectionLost(w)
  BY <1>1, <1>0, <1>b, <1>h, <1>i DEF ConnectionLost, worker
<1>2. CASE Crash(w)
  BY <1>2, <1>0, <1>b, <1>g, <1>h, <1>i DEF Crash
<1>3. CASE Connect(w)
  <2>1. [NoSession EXCEPT !.pc = "hello"] \in ClientType
    BY SessionInitials DEF ClientType, Pc, Asking
  <2> QED BY <2>1, <1>3, <1>0, <1>b DEF Connect
<1>4. CASE Ready(w) \/ PollAgain(w) \/ IdleEnds(w) \/ TakeDirective(w) \/ Acknowledged(w)
           \/ Reported(w)
  <2>1. \E pc \in Asking : Ask(w, pc)
    BY <1>4 DEF Ready, PollAgain, IdleEnds, TakeDirective, Acknowledged, Reported, Asking
  <2>2. UNCHANGED <<old, executor, version, marker, faults>>
    BY <1>4 DEF Ready, PollAgain, IdleEnds, TakeDirective, Acknowledged, Reported
  <2> QED BY <2>1, <2>2, <1>0, <1>f
<1>5. CASE UpdateBegins(w)
  BY <1>5, <1>0, <1>b, <1>d DEF UpdateBegins, Pc
<1>6. CASE UpdateEnds(w)
  <2>1. "updated" \in Pc
    BY DEF Pc, Asking
  <2> QED BY <2>1, <1>6, <1>0, <1>c, <1>d DEF UpdateEnds
<1>7. CASE UpdateReported(w)
  BY <1>7, <1>0, <1>a, <1>b, <1>g DEF UpdateReported
<1>8. CASE TakeJob(w)
  <2>1. client' \in [Worker -> ClientType]
    BY <1>8, <1>0 DEF TakeJob, ClientType, ConnType, Pc, Asking
  <2> QED BY <2>1, <1>8, <1>0, <1>b DEF TakeJob
<1>9. CASE Execute(w)
  <2>1. [NoExecution EXCEPT !.at = "preflight", !.cancel = (conn[w].is = "cancel")] \in ExecutorType
    BY SessionInitials DEF ExecutorType
  <2>2. executor' \in [Worker -> ExecutorType]
    BY <2>1, <1>9, <1>0 DEF Execute
  <2> QED BY <2>2, <1>9, <1>0, <1>b, <1>d DEF Execute, Pc
<1>10. CASE Started(w)
  <2>1. "running" \in Pc /\ "exec" \in Pc
    BY DEF Pc, Asking
  <2> QED BY <2>1, <1>10, <1>0, <1>c, <1>d DEF Started
<1>11. CASE Beat(w)
  <2>1. "beat" \in Pc
    BY DEF Pc, Asking
  <2> QED BY <2>1, <1>11, <1>0, <1>c, <1>d DEF Beat
<1>12. CASE Beaten(w)
  <2>1. executor' \in [Worker -> ExecutorType]
    BY <1>12, <1>0 DEF Beaten, ExecutorType
  <2> QED BY <2>1, <1>12, <1>0, <1>b, <1>d DEF Beaten, Pc
<1>j. ASSUME Report(w), executor[w].result \in ResultState
      PROVE  client' \in [Worker -> ClientType] /\ conn' \in [Worker -> ConnType]
  <2>1. PICK s \in ResultState : client' = [client EXCEPT ![w].pc = "terminal", ![w].state = s]
    BY <1>j DEF Report, Reportable, ResultState
  <2>2. client' \in [Worker -> ClientType]
    BY <2>1, <1>0 DEF ClientType, Pc, Asking
  <2> QED BY <2>2, <1>j, <1>c DEF Report
<1>13. CASE Executed(w)
  <2>1. executor[w].result \in ResultState
    BY <1>13 DEF Executed, SessionInv
  <2>2. CASE Declared /\ executor[w].result = "completed"
    <3>1. 1 \in 0..MaxChunks
      BY Bounds
    <3>2. client' \in [Worker -> ClientType]
      BY <3>1, <2>2, <1>13, <1>0 DEF Executed, ClientType, Pc, Asking
    <3> QED BY <3>2, <2>2, <1>13, <1>0, <1>c DEF Executed
  <2>3. CASE ~(Declared /\ executor[w].result = "completed")
    BY <2>1, <2>3, <1>13, <1>0, <1>j DEF Executed
  <2> QED BY <2>2, <2>3
<1>14. CASE Upload(w)
  <2>0. UNCHANGED <<old, executor, version, marker, faults>>
    BY <1>14 DEF Upload
  <2>1. CASE Ask(w, "chunk") \/ Ask(w, "finalize")
    BY <2>0, <2>1, <1>0, <1>f DEF Asking
  <2>2. CASE /\ client[w].chunk < chunks /\ client' = [client EXCEPT ![w].chunk = @ + 1]
             /\ conn' = [conn EXCEPT ![w] = Waiting("ask")]
    <3>1. client[w].chunk + 1 \in 0..MaxChunks
      BY <2>2, <1>0, Bounds DEF TypeOK, ClientType
    <3>2. client' \in [Worker -> ClientType]
      BY <3>1, <2>2, <1>0 DEF ClientType
    <3> QED BY <3>2, <2>0, <2>2, <1>0, <1>b
  <2>3. CASE Answered(w, "finalize", {"ok"}) /\ Report(w)
    <3>1. executor[w].result \in ResultState
      BY <2>3 DEF Answered, SessionInv, ResultState
    <3> QED BY <3>1, <2>0, <2>3, <1>0, <1>j
  <2> QED BY <2>1, <2>2, <2>3, <1>14 DEF Upload
<1>15. CASE Farewell(w)
  BY <1>15, <1>0, <1>b, <1>g DEF Farewell
<1>16. CASE Fail(w)
  <2>1. "lost" \in Pc
    BY DEF Pc
  <2>2. CASE /\ client' = [client EXCEPT ![w].pc = "lost"]
             /\ UNCHANGED <<conn, old, executor>>
    BY <2>1, <2>2, <1>16, <1>0, <1>d DEF Fail
  <2>3. CASE /\ client' = [client EXCEPT ![w] = NoSession]
             /\ conn' = [conn EXCEPT ![w] = Waiting("none")]
             /\ executor' = [executor EXCEPT ![w] = NoExecution]
             /\ old' = IF conn[w].is = "closed" THEN old ELSE [old EXCEPT ![w] = Left(w)]
    BY <2>3, <1>16, <1>0, <1>b, <1>g, <1>i DEF Fail
  <2> QED BY <2>2, <2>3, <1>16 DEF Fail
<1>17. CASE OutputRewritten(w)
  BY <1>17, <1>0 DEF OutputRewritten
<1> QED BY <1>1, <1>2, <1>3, <1>4, <1>5, <1>6, <1>7, <1>8, <1>9, <1>10, <1>11, <1>12, <1>13, <1>14,
           <1>15, <1>16, <1>17 DEF Session
-----------------------------------------------------------------------------
(* The coordinator's steps.                                                *)

\* A request some session of w sent.
Valid(w, r) ==
  /\ r.kind \in Leased => r.lease # 0
  /\ r.lease # 0 => r.lease \in Lease /\ leases[r.lease].node = w
  /\ r.kind = "terminal" => Told(r.lease, r.state)

\* How a job may end: without an attempt, or by what the attempt it holds came to.
Ended ==
  \/ job'.lease = 0 /\ job'.status = "cancelled"
  \/ /\ job'.lease = job'.attempt /\ job'.lease \in Lease
     /\ leases[job'.lease].acknowledged
     /\ Told(job'.lease, job'.status)
     /\ Declared => uploads[job'.lease] = [status |-> "verified", lease |-> job'.lease]

\* What the coordinator never takes back.
Kept ==
  /\ job.terminal => job' = job
  /\ job'.attempt >= job.attempt
  /\ job'.terminal /\ ~job.terminal => Ended
  /\ \A l \in Lease : /\ leases'[l].node = leases[l].node
                      /\ leases[l].acknowledged => leases'[l].acknowledged
  /\ \A l \in Attempt : uploads[l].status = "verified" => uploads'[l] = uploads[l]

\* Requeued: the job is left without a lease unless it is decided.
LEMMA RequeuedJob ==
  ASSUME TypeOK, JobInv, NEW l
  PROVE  LET j == Requeued(l)
         IN /\ job.terminal => j = job
            /\ j.attempt = job.attempt /\ j.terminal = job.terminal
            /\ j.lease \in {0, j.attempt}
            /\ j.status = "queued" => j.lease = 0
            /\ j.terminal <=> j.status \in ResultState
            /\ j.status = "completed" => j.lease # 0
<1>1. CASE ~job.terminal /\ job.lease = l
  <2>1. Requeued(l) = [job EXCEPT !.status = "queued", !.lease = 0, !.node = None]
    BY <1>1 DEF Requeued
  <2>2. /\ Requeued(l).status = "queued" /\ Requeued(l).lease = 0
        /\ Requeued(l).attempt = job.attempt /\ Requeued(l).terminal = job.terminal
    BY <2>1 DEF TypeOK, JobType
  <2> QED BY <2>2, <1>1 DEF ResultState
<1>2. CASE ~(~job.terminal /\ job.lease = l)
  BY <1>2 DEF Requeued, JobInv
<1> QED BY <1>1, <1>2

\* A step that requeues the job, or leaves it, and leaves leases and uploads.
LEMMA RequeueKept ==
  ASSUME TypeOK, JobInv, NEW l, job' \in {job, Requeued(l)}, UNCHANGED <<leases, uploads>>
  PROVE  JobInv' /\ Kept /\ job'.attempt = job.attempt
<1>1. /\ job.terminal => job' = job
      /\ job'.attempt = job.attempt /\ job'.terminal = job.terminal
      /\ job'.lease \in {0, job'.attempt}
      /\ job'.status = "queued" => job'.lease = 0
      /\ job'.terminal <=> job'.status \in ResultState
      /\ job'.status = "completed" => job'.lease # 0
  BY RequeuedJob DEF JobInv
<1>2. job.attempt \in Nat
  BY Bounds DEF TypeOK, JobType
<1> QED BY <1>1, <1>2 DEF JobInv, Kept

\* What the handler does to the job, the leases and the uploads.
LEMMA HandlesKept ==
  ASSUME TypeOK, JobInv, NEW w \in Worker, NEW r \in Request, NEW a, Valid(w, r), Handles(w, r, a)
  PROVE  /\ JobInv' /\ Kept
         /\ a = "job" => /\ r.kind = "request" /\ job'.attempt = job.attempt + 1
                         /\ job'.lease = job'.attempt /\ leases'[job'.attempt].node = w
         /\ a = "ok" /\ r.kind = "terminal" =>
              job'.terminal /\ job'.lease = r.lease /\ job'.status = r.state
<1>0. /\ job \in JobType /\ leases \in [1..job.attempt -> LeaseType] /\ job.attempt \in Nat
      /\ uploads \in [Attempt -> UploadType]
  BY Bounds DEF TypeOK, JobType
<1>a. ASSUME UNCHANGED <<job, leases, uploads>>
      PROVE  JobInv' /\ Kept
  BY <1>a, RequeueKept DEF JobInv, Kept
<1>1. CASE Hello(w, r, a) \/ ArtifactChunk(w, r, a) \/ UpdateResult(w, r, a) \/ Goodbye(w, r, a)
  BY <1>1, <1>a DEF Hello, ArtifactChunk, UpdateResult, Goodbye
<1>2. CASE LeaseRequest(w, r, a)
  <2>0. r.kind = "request" /\ UNCHANGED uploads
    BY <1>2 DEF LeaseRequest
  <2>1. CASE Leasable(w) /\ job' = [job EXCEPT !.status = "leased", !.attempt = @ + 1,
                                              !.lease = job.attempt + 1, !.node = w]
             /\ leases' = [l \in 1..(job.attempt + 1) |->
                  IF l <= job.attempt THEN leases[l]
                  ELSE [node |-> w, acknowledged |-> FALSE, expired |-> FALSE]]
    <3>1. /\ job'.status = "leased" /\ job'.attempt = job.attempt + 1 /\ job'.lease = job.attempt + 1
          /\ job'.terminal = job.terminal
      BY <2>1, <1>0 DEF JobType
    <3>2. ~job.terminal
      BY <2>1 DEF Leasable, JobInv, ResultState
    <3>3. \A l \in Lease : leases'[l] = leases[l]
      BY <2>1, <1>0 DEF Lease
    <3>4. leases'[job.attempt + 1].node = w
      BY <2>1, <1>0
    <3>5. JobInv'
      BY <3>1, <3>2 DEF JobInv, ResultState
    <3>6. Kept
      BY <3>1, <3>2, <3>3, <2>0, <1>0 DEF Kept
    <3> QED BY <3>1, <3>4, <3>5, <3>6, <2>0
  <2>2. CASE a = (IF directive[w] THEN "directive" ELSE "no_job") /\ UNCHANGED <<job, leases>>
    BY <2>0, <2>2, <1>a
  <2> QED BY <2>1, <2>2, <1>2 DEF LeaseRequest
<1>3. CASE LeaseAck(w, r, a)
  <2>0. r.kind = "ack" /\ a \in {"ok", "reject"} /\ UNCHANGED uploads
    BY <1>3 DEF LeaseAck
  <2>1. CASE job' = Requeued(r.lease) /\ UNCHANGED leases
    BY <2>0, <2>1, RequeueKept
  <2>2. CASE leases' = [leases EXCEPT ![r.lease].acknowledged = TRUE] /\ UNCHANGED job
    <3>1. \A l \in Lease : leases'[l].node = leases[l].node
                           /\ (leases[l].acknowledged => leases'[l].acknowledged)
      BY <2>2, <1>0 DEF Lease, LeaseType
    <3> QED BY <3>1, <2>0, <2>2, <1>0 DEF JobInv, Kept
  <2> QED BY <2>1, <2>2, <1>3 DEF LeaseAck
<1>4. CASE LeaseHeartbeat(w, r, a)
  <2>1. job' \in {job, Requeued(r.lease)} /\ UNCHANGED <<leases, uploads>>
    BY <1>4 DEF LeaseHeartbeat
  <2>2. r.kind \in {"control", "beat"} /\ a # "job"
    BY <1>4 DEF LeaseHeartbeat
  <2> QED BY <2>1, <2>2, RequeueKept
<1>5. CASE Event(w, r, a)
  <2>0. UNCHANGED <<leases, uploads>> /\ r.kind \in {"preparing", "running", "terminal"} /\ a # "job"
    BY <1>5 DEF Event
  <2>1. CASE a = "reject" /\ job' \in {job, Requeued(r.lease)}
    BY <2>0, <2>1, RequeueKept
  <2>2. CASE /\ Holds(w, r) /\ leases[r.lease].acknowledged /\ ~job.terminal
             /\ r.kind = "terminal" => ArtifactsVerified(r)
             /\ job' = [job EXCEPT !.status = EventState(r), !.terminal = (r.kind = "terminal")]
    <3>1. /\ job'.status = EventState(r) /\ job'.terminal = (r.kind = "terminal")
          /\ job'.attempt = job.attempt /\ job'.lease = job.lease
      BY <2>2, <1>0 DEF JobType
    <3>2. job.lease = r.lease /\ r.lease # 0 /\ r.lease \in Lease /\ r.lease = job.attempt
      BY <2>0, <2>2 DEF Holds, Valid, Leased, JobInv
    <3>3. CASE r.kind = "terminal"
      <4>1. job'.status = r.state /\ r.state \in ResultState /\ Told(r.lease, r.state)
        BY <3>1, <3>3 DEF EventState, Valid, Told
      <4>2. Declared => uploads[r.lease].status = "verified" /\ uploads[r.lease].lease = r.lease
        BY <2>2, <3>3 DEF ArtifactsVerified
      <4>3. r.lease \in Attempt
        BY <3>2, <1>0, Bounds DEF Lease, Attempt, JobType
      <4>4. Declared => uploads[r.lease] = [status |-> "verified", lease |-> r.lease]
        BY <4>2, <4>3, <1>0 DEF UploadType
      <4>5. Ended
        BY <4>1, <4>4, <3>1, <3>2, <2>2 DEF Ended
      <4>6. JobInv'
        BY <4>1, <3>1, <3>2, <3>3 DEF JobInv, ResultState
      <4>7. Kept
        BY <4>5, <3>1, <2>0, <2>2, <1>0 DEF Kept
      <4> QED BY <4>1, <4>6, <4>7, <3>1, <3>2, <3>3, <2>0
    <3>4. CASE r.kind # "terminal"
      <4>1. job'.status \in {"preparing", "running"} /\ ~job'.terminal
        BY <3>1, <3>4, <2>0 DEF EventState
      <4>2. JobInv'
        BY <4>1, <3>1, <3>2 DEF JobInv, ResultState
      <4> QED BY <4>1, <4>2, <3>1, <3>4, <2>0, <2>2, <1>0 DEF Kept
    <3> QED BY <3>3, <3>4
  <2> QED BY <2>1, <2>2, <1>5 DEF Event
<1>6. CASE ArtifactBegin(w, r, a)
  <2>1. UNCHANGED <<job, leases>> /\ r.kind = "begin" /\ a # "job"
    BY <1>6 DEF ArtifactBegin
  <2>2. \A l \in Attempt : uploads[l].status = "verified" => uploads'[l] = uploads[l]
    BY <1>6, <1>0, NoneAssumption DEF ArtifactBegin
  <2> QED BY <2>1, <2>2, <1>0 DEF JobInv, Kept
<1>7. CASE ArtifactFinalize(w, r, a)
  <2>1. UNCHANGED <<job, leases>> /\ r.kind = "finalize" /\ a # "job"
    BY <1>7 DEF ArtifactFinalize
  <2>2. \A l \in Attempt : uploads[l].status = "verified" => uploads'[l] = uploads[l]
    BY <1>7, <1>0 DEF ArtifactFinalize, UploadType
  <2> QED BY <2>1, <2>2, <1>0 DEF JobInv, Kept
<1> QED BY <1>1, <1>2, <1>3, <1>4, <1>5, <1>6, <1>7 DEF Handles

\* What the handler does to the chunks: a chunk request writes its own, a
\* finalize request verifies a complete output.
LEMMA HandlesChunks ==
  ASSUME TypeOK, NEW w \in Worker, NEW r \in Request, NEW a, Handles(w, r, a)
  PROVE  \A l \in Attempt :
           /\ received'[l] = received[l] \/ (r.kind = "chunk" /\ l = r.lease)
           /\ uploads'[l].status = "verified" =>
                \/ uploads[l].status = "verified"
                \/ r.kind = "finalize" /\ l = r.lease /\ Assembled(l)
<1>0. uploads \in [Attempt -> UploadType] /\ received \in [Attempt -> [1..chunks -> 0..2]]
  BY DEF TypeOK
<1>1. CASE ArtifactBegin(w, r, a)
  BY <1>1, <1>0 DEF ArtifactBegin, UploadType
<1>2. CASE ArtifactChunk(w, r, a)
  BY <1>2, <1>0 DEF ArtifactChunk
<1>3. CASE ArtifactFinalize(w, r, a)
  BY <1>3, <1>0 DEF ArtifactFinalize, UploadType
<1>4. CASE \/ Hello(w, r, a) \/ LeaseRequest(w, r, a) \/ LeaseAck(w, r, a) \/ LeaseHeartbeat(w, r, a)
           \/ Event(w, r, a) \/ UpdateResult(w, r, a) \/ Goodbye(w, r, a)
  <2>1. UNCHANGED <<uploads, received>>
    BY <1>4 DEF Hello, LeaseRequest, LeaseAck, LeaseHeartbeat, Event, UpdateResult, Goodbye
  <2> QED BY <2>1
<1> QED BY <1>1, <1>2, <1>3, <1>4 DEF Handles

\* A step of the coordinator that keeps what it must: what is verified now was
\* verified before, or is complete with no chunk of it to come.
LEMMA CoordinatorKeeps ==
  ASSUME WorkerInv, TypeOK', JobInv', Kept, UNCHANGED <<given, worker, outcome>>,
         \A l \in Attempt : uploads'[l].status = "verified" =>
           /\ received'[l] = received[l]
           /\ \/ uploads[l].status = "verified"
              \/ /\ l \in Lease /\ Assembled(l)
                 /\ \A v \in Worker :
                      /\ conn[v].lease # l
                      /\ client[v].lease = l => client[v].pc \in Uploaded
                      /\ old[v] # None /\ old[v].lease = l => old[v].kind # "chunk",
         \A v \in Worker : old'[v] \in {old[v], None, Quiet}
  PROVE  /\ FreshInv' /\ VerifiedInv' /\ OutcomeOwned' /\ OutputsHeld' /\ ConfirmedRecorded'
         /\ \A v \in Worker :
              /\ SessionInv(v)'
              /\ conn'[v] = conn[v] => AnswerInv(v)'
              /\ conn'[v] = conn[v] \/ conn[v].is # "closed" => LateInv(v)'
<1>0. /\ job.attempt \in Nat /\ job'.attempt \in Nat /\ job.attempt <= job'.attempt
      /\ job.attempt <= MaxLeases /\ chunks' = chunks
  BY Bounds DEF WorkerInv, TypeOK, JobType, Kept, given
<1>1. /\ \A l \in Lease : l \in Lease' /\ leases'[l].node = leases[l].node /\ l \in Attempt
      /\ client' = client /\ executor' = executor /\ outcome' = outcome
  BY <1>0, Bounds DEF Lease, Attempt, Kept, worker
<1>2. \A l, s : Told(l, s)' <=> Told(l, s)
  BY <1>1 DEF Told
<1>3. Quiet.lease = 0 /\ Quiet.kind = "quiet"
  BY DEF Quiet
<1>4. \A v \in Worker : SessionInv(v) /\ AnswerInv(v) /\ LateInv(v)
  BY DEF WorkerInv
<1>5. FreshInv'
  <2> SUFFICES ASSUME NEW l \in Attempt, l > job'.attempt
               PROVE  outcome'[l] = None /\ uploads'[l].status # "verified"
    BY DEF FreshInv, Attempt
  <2>1. l > job.attempt /\ l \notin Lease
    BY <1>0 DEF Lease, Attempt
  <2>2. outcome[l] = None /\ uploads[l].status # "verified"
    BY <2>1 DEF WorkerInv, FreshInv
  <2> QED BY <2>1, <2>2, <1>1
<1>6. VerifiedInv'
  <2> SUFFICES ASSUME NEW l \in Attempt, uploads'[l].status = "verified"
               PROVE  /\ Assembled(l)'
                      /\ \A v \in Worker :
                           /\ client'[v].lease = l => client'[v].pc \in Uploaded
                           /\ old'[v] # None /\ old'[v].lease = l => old'[v].kind # "chunk"
    BY DEF VerifiedInv, Attempt
  <2>1. /\ Assembled(l)
        /\ \A v \in Worker :
             /\ client[v].lease = l => client[v].pc \in Uploaded
             /\ old[v] # None /\ old[v].lease = l => old[v].kind # "chunk"
    BY DEF WorkerInv, VerifiedInv
  <2>2. Assembled(l)'
    BY <2>1, <1>0 DEF Assembled
  <2> QED BY <2>1, <2>2, <1>1, <1>3
<1>7. OutcomeOwned'
  <2> SUFFICES ASSUME job'.terminal, job'.lease # 0
               PROVE  /\ leases'[job'.lease].acknowledged /\ job'.lease = job'.attempt
                      /\ \/ outcome'[job'.lease] = job'.status
                         \/ outcome'[job'.lease] = "completed" /\ job'.status = "failed"
    BY DEF OutcomeOwned
  <2>1. CASE job.terminal
    <3>1. job' = job /\ job.lease \in Lease /\ leases[job.lease].acknowledged
      BY <2>1, <1>0 DEF Kept, WorkerInv, JobInv, OutcomeOwned, Lease
    <3> QED BY <3>1, <2>1, <1>1 DEF Kept, WorkerInv, OutcomeOwned
  <2>2. CASE ~job.terminal
    BY <2>2, <1>1 DEF Kept, Ended, Told
  <2> QED BY <2>1, <2>2
<1>8. OutputsHeld'
  <2> SUFFICES ASSUME job'.status = "completed", Declared
               PROVE  /\ uploads'[job'.lease] = [status |-> "verified", lease |-> job'.lease]
                      /\ \A k \in 1..chunks : received'[job'.lease][k] = 1
    BY <1>0 DEF OutputsHeld, Declared
  <2>1. job'.terminal /\ job'.lease # 0
    BY DEF JobInv, ResultState
  <2>2. /\ job'.lease \in Attempt
        /\ uploads[job'.lease] = [status |-> "verified", lease |-> job'.lease]
    <3>1. CASE job.terminal
      <4>1. job' = job
        BY <3>1 DEF Kept
      <4>2. job.lease \in Attempt
        BY <4>1, <2>1, Bounds DEF WorkerInv, TypeOK, JobType, Attempt
      <4> QED BY <4>1, <4>2 DEF WorkerInv, OutputsHeld
    <3>2. CASE ~job.terminal
      <4>1. Ended
        BY <3>2, <2>1 DEF Kept
      <4> QED BY <4>1, <2>1, <1>1 DEF Ended
    <3> QED BY <3>1, <3>2
  <2>3. uploads'[job'.lease] = [status |-> "verified", lease |-> job'.lease]
    BY <2>2 DEF Kept
  <2>4. \A l \in Attempt : uploads'[l].status = "verified" =>
          \A k \in 1..chunks : received'[l][k] = 1
    BY <1>6, <1>0 DEF VerifiedInv, Attempt, MaxLeases, Assembled
  <2>5. uploads'[job'.lease].status = "verified"
    BY <2>3
  <2> QED BY <2>2, <2>3, <2>4, <2>5
<1>9. ConfirmedRecorded'
  BY <1>1 DEF WorkerInv, ConfirmedRecorded, Kept
<1>10. ASSUME NEW v \in Worker
       PROVE  SessionInv(v)'
  BY <1>0, <1>1, <1>2, <1>4 DEF SessionInv
<1>11. ASSUME NEW v \in Worker, conn'[v] = conn[v]
       PROVE  AnswerInv(v)'
  <2>1. CASE conn[v].is # "job"
    BY <2>1, <1>1, <1>4, <1>11 DEF AnswerInv, Kept
  <2>2. CASE conn[v].is = "job"
    <3> DEFINE l == conn[v].lease
    <3>1. /\ client[v].pc = "request" /\ l \in Lease /\ leases[l].node = v
          /\ outcome[l] = None /\ uploads[l].status # "verified"
          /\ \A u \in Worker : client[u].lease # l /\ (old[u] # None => old[u].lease # l)
      BY <2>2, <1>4 DEF AnswerInv
    <3>2. l # 0 /\ l \in Attempt
      BY <3>1, <1>1, <1>0 DEF Lease
    <3>3. uploads'[l].status # "verified"
      BY <3>1, <3>2
    <3>4. \A u \in Worker : client'[u].lease # l /\ (old'[u] # None => old'[u].lease # l)
      BY <3>1, <3>2, <1>1, <1>3
    <3> QED BY <3>1, <3>3, <3>4, <2>2, <1>1, <1>11 DEF AnswerInv
  <2> QED BY <2>1, <2>2
<1>12. ASSUME NEW v \in Worker, conn'[v] = conn[v] \/ conn[v].is # "closed"
       PROVE  LateInv(v)'
  <2>1. CASE old'[v] = None
    BY <2>1 DEF LateInv
  <2>2. CASE old'[v] = Quiet
    BY <2>2, <1>3 DEF LateInv, Leased
  <2>3. CASE old'[v] = old[v] /\ old[v] # None
    BY <2>3, <1>1, <1>2, <1>4, <1>12 DEF LateInv
  <2> QED BY <2>1, <2>2, <2>3
<1> QED BY <1>5, <1>6, <1>7, <1>8, <1>9, <1>10, <1>11, <1>12

\* The parts of WorkerInv a step can disturb beside the types.
PartsInv ==
  /\ JobInv /\ FreshInv /\ VerifiedInv
  /\ \A w \in Worker : SessionInv(w) /\ AnswerInv(w) /\ LateInv(w)
  /\ OutcomeOwned /\ ConfirmedRecorded /\ OutputsHeld

\* The handler serves the request of a session.
LEMMA ServeKeeps ==
  ASSUME WorkerInv, TypeOK', NEW w \in Worker, Serve(w)
  PROVE  PartsInv'
<1>0. TypeOK /\ JobInv /\ \A v \in Worker : SessionInv(v) /\ AnswerInv(v) /\ LateInv(v)
  BY DEF WorkerInv
<1> DEFINE r == RequestOf(w)
<1>1. conn[w].is = "ask" /\ client[w].pc \in Asking /\ r \in Request
  BY <1>0, RequestTypes DEF Serve, AnswerInv
<1>2. /\ r.kind = client[w].pc /\ r.lease = client[w].lease /\ r.state = client[w].state
  BY DEF RequestOf
<1>3. Valid(w, r)
  BY <1>0, <1>2 DEF Valid, SessionInv
<1>4. PICK a \in Answer :
        /\ Handles(w, r, a)
        /\ conn' = [conn EXCEPT ![w] = [is |-> IF a = "reject" THEN "closed" ELSE a,
                                        lease |-> IF a = "job" THEN job'.lease ELSE 0]]
  BY DEF Serve
<1>5. UNCHANGED <<given, old, worker, outcome>>
  BY DEF Serve
<1> HIDE DEF r
<1>6. /\ JobInv' /\ Kept
      /\ a = "job" => /\ r.kind = "request" /\ job'.attempt = job.attempt + 1
                      /\ job'.lease = job'.attempt /\ leases'[job'.attempt].node = w
      /\ a = "ok" /\ r.kind = "terminal" =>
           job'.terminal /\ job'.lease = r.lease /\ job'.status = r.state
  BY <1>0, <1>1, <1>3, <1>4, HandlesKept
<1>7. ASSUME NEW l \in Attempt, uploads'[l].status = "verified"
      PROVE  /\ received'[l] = received[l]
             /\ \/ uploads[l].status = "verified"
                \/ /\ l \in Lease /\ Assembled(l)
                   /\ \A v \in Worker :
                        /\ conn[v].lease # l
                        /\ client[v].lease = l => client[v].pc \in Uploaded
                        /\ old[v] # None /\ old[v].lease = l => old[v].kind # "chunk"
  <2>1. /\ received'[l] = received[l] \/ (r.kind = "chunk" /\ l = r.lease)
        /\ \/ uploads[l].status = "verified"
           \/ r.kind = "finalize" /\ l = r.lease /\ Assembled(l)
    BY <1>0, <1>1, <1>4, <1>7, HandlesChunks
  <2>2. CASE uploads[l].status = "verified"
    <3>1. client[w].lease = l => client[w].pc # "chunk"
      BY <2>2 DEF WorkerInv, VerifiedInv, Uploaded
    <3> QED BY <2>1, <2>2, <3>1, <1>2
  <2>3. CASE r.kind = "finalize" /\ l = r.lease /\ Assembled(l)
    <3>1. client[w].pc = "finalize" /\ client[w].lease = l /\ l \in Lease /\ leases[l].node = w /\ l # 0
      BY <2>3, <1>0, <1>2 DEF SessionInv, Leased
    <3>2. \A v \in Worker : conn[v].lease # l
      BY <3>1, <1>0 DEF AnswerInv
    <3>3. \A v \in Worker \ {w} : client[v].lease # l /\ (old[v] # None => old[v].lease # l)
      BY <3>1, <1>0 DEF SessionInv, LateInv
    <3>4. old[w] # None => old[w].lease # l
      BY <3>1, <1>0, <1>1 DEF LateInv
    <3> QED BY <2>1, <2>3, <3>1, <3>2, <3>3, <3>4 DEF Uploaded
  <2> QED BY <2>1, <2>2, <2>3
<1>8. /\ FreshInv' /\ VerifiedInv' /\ OutcomeOwned' /\ OutputsHeld' /\ ConfirmedRecorded'
      /\ \A v \in Worker :
           /\ SessionInv(v)'
           /\ conn'[v] = conn[v] => AnswerInv(v)'
           /\ conn'[v] = conn[v] \/ conn[v].is # "closed" => LateInv(v)'
  BY <1>5, <1>6, <1>7, CoordinatorKeeps
<1>9. /\ conn'[w] = [is |-> IF a = "reject" THEN "closed" ELSE a,
                     lease |-> IF a = "job" THEN job'.lease ELSE 0]
      /\ \A v \in Worker \ {w} : conn'[v] = conn[v]
  BY <1>4, <1>0 DEF TypeOK
<1>10. AnswerInv(w)'
  <2>0. client' = client /\ old' = old /\ outcome' = outcome
    BY <1>5 DEF worker
  <2>1. conn'[w].is # "ask" /\ (conn'[w].is # "job" => conn'[w].lease = 0)
    BY <1>9 DEF Answer
  <2>2. client'[w].pc = "terminal" /\ conn'[w].is = "ok" =>
          job'.terminal /\ job'.lease = client'[w].lease /\ job'.status = client'[w].state
    BY <2>0, <1>2, <1>6, <1>9
  <2>3. ASSUME conn'[w].is = "job"
        PROVE  LET l == conn'[w].lease
               IN /\ client'[w].pc = "request" /\ l \in Lease' /\ leases'[l].node = w
                  /\ outcome'[l] = None /\ uploads'[l].status # "verified"
                  /\ \A v \in Worker : client'[v].lease # l /\ (old'[v] # None => old'[v].lease # l)
    <3>1. a = "job" /\ conn'[w].lease = job'.lease
      BY <2>3, <1>9
    <3>2. /\ r.kind = "request" /\ job'.lease = job.attempt + 1 /\ job'.attempt = job.attempt + 1
          /\ leases'[job'.lease].node = w
      BY <3>1, <1>6
    <3>3. job.attempt \in Nat /\ job.attempt + 1 \in Attempt /\ job'.lease \in Lease'
      BY <3>2, Bounds, <1>0 DEF TypeOK, JobType, Attempt, Lease
    <3>4. outcome[job.attempt + 1] = None /\ uploads[job.attempt + 1].status # "verified"
      BY <3>3 DEF WorkerInv, FreshInv
    <3>5. uploads'[job.attempt + 1].status # "verified"
      <4>1. r.kind # "finalize"
        BY <3>2
      <4> QED BY <4>1, <3>3, <3>4, <1>0, <1>1, <1>4, HandlesChunks
    <3>6. \A v \in Worker : client[v].lease # job.attempt + 1
                            /\ (old[v] # None => old[v].lease # job.attempt + 1)
      BY <3>3, <1>0 DEF SessionInv, LateInv, Lease
    <3> QED BY <3>1, <3>2, <3>3, <3>4, <3>5, <3>6, <2>0, <1>2
  <2> QED BY <2>1, <2>2, <2>3 DEF AnswerInv
<1>11. \A v \in Worker : AnswerInv(v)' /\ LateInv(v)'
  BY <1>1, <1>8, <1>9, <1>10
<1> QED BY <1>6, <1>8, <1>11 DEF PartsInv

\* The handler of a broken connection serves the request it holds.
LEMMA ServeLateKeeps ==
  ASSUME WorkerInv, TypeOK', NEW w \in Worker, ServeLate(w)
  PROVE  PartsInv'
<1>0. TypeOK /\ JobInv /\ \A v \in Worker : SessionInv(v) /\ AnswerInv(v) /\ LateInv(v)
  BY DEF WorkerInv
<1> DEFINE r == old[w]
<1>1. r # None /\ r \in Request
  BY <1>0 DEF ServeLate, TypeOK
<1>2. PICK a \in Answer :
        /\ Handles(w, r, a)
        /\ old' = [old EXCEPT ![w] = IF a \in {"reject", "bye"} THEN None ELSE Quiet]
  BY DEF ServeLate
<1>3. Valid(w, r)
  BY <1>0, <1>1 DEF Valid, LateInv
<1>4. UNCHANGED <<given, conn, worker, outcome>>
  BY DEF ServeLate
<1>5. JobInv' /\ Kept
  BY <1>0, <1>1, <1>2, <1>3, HandlesKept
<1>6. ASSUME NEW l \in Attempt, uploads'[l].status = "verified"
      PROVE  /\ received'[l] = received[l]
             /\ \/ uploads[l].status = "verified"
                \/ /\ l \in Lease /\ Assembled(l)
                   /\ \A v \in Worker :
                        /\ conn[v].lease # l
                        /\ client[v].lease = l => client[v].pc \in Uploaded
                        /\ old[v] # None /\ old[v].lease = l => old[v].kind # "chunk"
  <2>1. /\ received'[l] = received[l] \/ (r.kind = "chunk" /\ l = r.lease)
        /\ \/ uploads[l].status = "verified"
           \/ r.kind = "finalize" /\ l = r.lease /\ Assembled(l)
    BY <1>0, <1>1, <1>2, <1>6, HandlesChunks
  <2>2. CASE uploads[l].status = "verified"
    <3>1. old[w].lease = l => old[w].kind # "chunk"
      BY <2>2, <1>1 DEF WorkerInv, VerifiedInv
    <3> QED BY <2>1, <2>2, <3>1
  <2>3. CASE r.kind = "finalize" /\ l = r.lease /\ Assembled(l)
    <3>1. l # 0 /\ l \in Lease /\ leases[l].node = w
      BY <2>3, <1>3 DEF Valid, Leased
    <3>2. \A v \in Worker : conn[v].lease # l
      BY <3>1, <2>3, <1>0, <1>1 DEF AnswerInv
    <3>3. \A v \in Worker \ {w} : client[v].lease # l /\ (old[v] # None => old[v].lease # l)
      BY <3>1, <1>0 DEF SessionInv, LateInv
    <3>4. client[w].lease = l => client[w].pc \in {"finalize", "lost"}
      BY <3>1, <2>3, <1>0, <1>1 DEF LateInv
    <3> QED BY <2>1, <2>3, <3>1, <3>2, <3>3, <3>4 DEF Uploaded
  <2> QED BY <2>1, <2>2, <2>3
<1>7. \A v \in Worker : old'[v] \in {old[v], None, Quiet}
  BY <1>2, <1>0 DEF TypeOK
<1>8. /\ FreshInv' /\ VerifiedInv' /\ OutcomeOwned' /\ OutputsHeld' /\ ConfirmedRecorded'
      /\ \A v \in Worker :
           /\ SessionInv(v)'
           /\ conn'[v] = conn[v] => AnswerInv(v)'
           /\ conn'[v] = conn[v] \/ conn[v].is # "closed" => LateInv(v)'
  BY <1>4, <1>5, <1>6, <1>7, CoordinatorKeeps
<1> QED BY <1>4, <1>5, <1>8 DEF PartsInv

\* The handler of a broken connection ends, a lease expires, a job is recovered
\* or cancelled: no upload changes and no session hears of it.
LEMMA HostKeeps ==
  ASSUME WorkerInv, TypeOK',
         \/ \E w \in Worker : HandlerEnds(w)
         \/ \E l \in DOMAIN leases : LeaseExpires(l)
         \/ RecoverExpired \/ CancelJob
  PROVE  PartsInv'
<1>0. /\ TypeOK /\ JobInv /\ \A v \in Worker : SessionInv(v) /\ AnswerInv(v) /\ LateInv(v)
      /\ job \in JobType /\ job.attempt \in Nat /\ leases \in [Lease -> LeaseType]
  BY Bounds DEF WorkerInv, TypeOK, JobType, Lease
<1>1. UNCHANGED <<given, conn, worker, outcome, uploads, received>>
  BY DEF HandlerEnds, LeaseExpires, RecoverExpired, CancelJob
<1>2. \A v \in Worker : old'[v] \in {old[v], None, Quiet}
  <2>1. CASE \E w \in Worker : HandlerEnds(w)
    BY <2>1, <1>0 DEF HandlerEnds, TypeOK
  <2>2. CASE \/ \E l \in DOMAIN leases : LeaseExpires(l)
             \/ RecoverExpired \/ CancelJob
    BY <2>2 DEF LeaseExpires, RecoverExpired, CancelJob
  <2> QED BY <2>1, <2>2
<1>3. JobInv' /\ Kept
  <2>1. CASE \E w \in Worker : HandlerEnds(w)
    <3>1. UNCHANGED <<job, leases, uploads>>
      BY <2>1 DEF HandlerEnds
    <3> QED BY <3>1, <1>0 DEF JobInv, Kept
  <2>2. CASE \E l \in DOMAIN leases : LeaseExpires(l)
    <3>1. PICK l \in Lease : leases' = [leases EXCEPT ![l].expired = TRUE] /\ UNCHANGED <<job, uploads>>
      BY <2>2, <1>0 DEF LeaseExpires
    <3>2. \A k \in Lease : leases'[k].node = leases[k].node
                           /\ leases'[k].acknowledged = leases[k].acknowledged
      BY <3>1, <1>0 DEF LeaseType
    <3> QED BY <3>1, <3>2, <1>0 DEF JobInv, Kept
  <2>3. CASE RecoverExpired
    <3>1. /\ ~job.terminal /\ UNCHANGED <<leases, uploads>>
          /\ job'.status \in {"queued", "waiting_review"} /\ job'.lease = 0
          /\ job'.attempt = job.attempt /\ job'.terminal = job.terminal
      BY <2>3, <1>0 DEF RecoverExpired, JobType
    <3> QED BY <3>1, <1>0 DEF JobInv, Kept, ResultState
  <2>4. CASE CancelJob
    <3>1. /\ ~job.terminal /\ UNCHANGED <<leases, uploads>>
          /\ job'.lease = job.lease /\ job'.attempt = job.attempt
          /\ \/ job.status = "queued" /\ job'.status = "cancelled" /\ job'.terminal = TRUE
             \/ job'.status = job.status /\ job'.terminal = job.terminal
      BY <2>4, <1>0 DEF CancelJob, JobType
    <3> QED BY <3>1, <1>0 DEF JobInv, Kept, Ended, ResultState
  <2> QED BY <2>1, <2>2, <2>3, <2>4
<1>4. /\ FreshInv' /\ VerifiedInv' /\ OutcomeOwned' /\ OutputsHeld' /\ ConfirmedRecorded'
      /\ \A v \in Worker :
           /\ SessionInv(v)'
           /\ conn'[v] = conn[v] => AnswerInv(v)'
           /\ conn'[v] = conn[v] \/ conn[v].is # "closed" => LateInv(v)'
  BY <1>1, <1>2, <1>3, CoordinatorKeeps
<1> QED BY <1>1, <1>3, <1>4 DEF PartsInv
-----------------------------------------------------------------------------
(* The steps of a session and of its executor.                             *)

\* Where a session is cut off, or past its executor.
CutOff == Asking \cup {"lost"}

\* How a step of w's session moves what others rely on: the connection, the
\* lease the session has, the request a handler is left with.
Moves(w) ==
  /\ \A v \in Worker \ {w} : /\ client'[v] = client[v] /\ conn'[v] = conn[v]
                             /\ old'[v] = old[v] /\ executor'[v] = executor[v]
  /\ conn'[w].is # "job" /\ conn'[w].lease = 0 /\ (conn'[w].is = "ask" => client'[w].pc \in Asking)
  /\ conn'[w].is = "ok" => client'[w].pc # "terminal"
  /\ \/ client'[w].lease \in {0, client[w].lease}
     \/ conn[w].is = "job" /\ client'[w].lease = conn[w].lease
  /\ client'[w].lease # 0 /\ client'[w].lease = client[w].lease =>
       /\ client[w].pc \in Uploaded => client'[w].pc \in Uploaded
       /\ conn[w].is = "closed" /\ client[w].pc \in CutOff =>
            conn'[w].is = "closed" /\ client'[w].pc \in {client[w].pc, "lost"}
  /\ \/ old'[w] \in {old[w], Quiet}
     \/ old'[w] = Left(w) /\ (client'[w].lease = 0 \/ (conn'[w].is = "closed" /\ client' = client))

\* A step of w's session that moves so and leaves the session itself in order
\* disturbs nobody.
LEMMA SessionKeeps ==
  ASSUME WorkerInv, TypeOK', NEW w \in Worker, UNCHANGED <<given, coordinator, outcome>>,
         Moves(w), SessionInv(w)',
         client'[w].pc = "goodbye" /\ client'[w].lease # 0 =>
           job.terminal /\ job.lease = client'[w].lease /\ job.status = client'[w].state
  PROVE  PartsInv'
<1>0. /\ TypeOK /\ JobInv /\ \A v \in Worker : SessionInv(v) /\ AnswerInv(v) /\ LateInv(v)
      /\ job' = job /\ leases' = leases /\ uploads' = uploads /\ received' = received
      /\ outcome' = outcome /\ chunks' = chunks /\ Lease' = Lease
  BY DEF WorkerInv, coordinator, given, Lease
<1>1. /\ conn[w].is = "ask" => /\ Left(w).kind = client[w].pc /\ Left(w).lease = client[w].lease
                               /\ Left(w).state = client[w].state
      /\ conn[w].is # "ask" => Left(w) = Quiet
      /\ Quiet.kind = "quiet" /\ Quiet.lease = 0
  BY DEF Left, RequestOf, Quiet
<1>2. \A l, s : Told(l, s)' <=> Told(l, s)
  BY <1>0 DEF Told
<1>3. JobInv' /\ FreshInv' /\ OutcomeOwned' /\ OutputsHeld'
  BY <1>0 DEF WorkerInv, JobInv, FreshInv, OutcomeOwned, OutputsHeld, Declared, Attempt, MaxLeases
<1>4. VerifiedInv'
  <2> SUFFICES ASSUME NEW l \in Attempt, uploads[l].status = "verified"
               PROVE  /\ Assembled(l)'
                      /\ \A v \in Worker :
                           /\ client'[v].lease = l => client'[v].pc \in Uploaded
                           /\ old'[v] # None /\ old'[v].lease = l => old'[v].kind # "chunk"
    BY <1>0 DEF VerifiedInv, Attempt, MaxLeases
  <2>1. /\ Assembled(l)
        /\ \A v \in Worker :
             /\ client[v].lease = l => client[v].pc \in Uploaded
             /\ old[v] # None /\ old[v].lease = l => old[v].kind # "chunk"
    BY DEF WorkerInv, VerifiedInv
  <2>2. l # 0
    BY DEF Attempt
  <2>3. Assembled(l)'
    BY <2>1, <1>0 DEF Assembled
  <2>4. client'[w].lease = l => client'[w].pc \in Uploaded
    <3>1. conn[w].is = "job" => conn[w].lease # l
      BY <1>0 DEF AnswerInv
    <3> QED BY <3>1, <2>1, <2>2 DEF Moves
  <2>5. old'[w] # None /\ old'[w].lease = l => old'[w].kind # "chunk"
    BY <2>1, <2>2, <1>1 DEF Moves, Uploaded
  <2> QED BY <2>1, <2>3, <2>4, <2>5 DEF Moves
<1>5. ConfirmedRecorded'
  BY <1>0 DEF WorkerInv, ConfirmedRecorded, Moves
<1>6. AnswerInv(w)'
  BY DEF AnswerInv, Moves
<1>7. LateInv(w)'
  <2>1. CASE old'[w] = Quiet
    BY <2>1, <1>1 DEF LateInv, Leased
  <2>2. CASE old'[w] = old[w] /\ old[w] # None
    <3>1. /\ old[w].kind \in Leased => old[w].lease # 0
          /\ old[w].lease # 0 => old[w].lease \in Lease /\ leases[old[w].lease].node = w
          /\ old[w].kind = "terminal" => Told(old[w].lease, old[w].state)
          /\ old[w].lease # 0 /\ old[w].lease = client[w].lease =>
               conn[w].is = "closed" /\ client[w].pc \in {old[w].kind, "lost"}
      BY <2>2, <1>0 DEF LateInv
    <3>2. old[w].kind \in Asking \cup {"quiet"} /\ client[w].pc # "quiet"
      BY <2>2, <1>0 DEF TypeOK, Request, ClientType, Pc, Asking
    <3>3. conn[w].is = "job" => conn[w].lease # old[w].lease
      BY <2>2, <1>0 DEF AnswerInv
    <3>4. old[w].lease # 0 /\ old[w].lease = client'[w].lease =>
            conn'[w].is = "closed" /\ client'[w].pc \in {old[w].kind, "lost"}
      BY <3>1, <3>2, <3>3 DEF Moves, CutOff
    <3> QED BY <3>1, <3>4, <2>2, <1>0, <1>2 DEF LateInv
  <2>3. CASE old'[w] = Left(w) /\ conn[w].is = "ask"
             /\ (client'[w].lease = 0 \/ (conn'[w].is = "closed" /\ client' = client))
    BY <2>3, <1>0, <1>1, <1>2 DEF LateInv, SessionInv
  <2> QED BY <2>1, <2>2, <2>3, <1>1 DEF Moves, LateInv
<1>8. ASSUME NEW v \in Worker \ {w}
      PROVE  SessionInv(v)' /\ AnswerInv(v)' /\ LateInv(v)'
  <2>1. client'[v] = client[v] /\ conn'[v] = conn[v] /\ old'[v] = old[v] /\ executor'[v] = executor[v]
    BY DEF Moves
  <2>2. SessionInv(v)'
    BY <2>1, <1>0, <1>2 DEF SessionInv
  <2>3. LateInv(v)'
    BY <2>1, <1>0, <1>2 DEF LateInv
  <2>4. CASE conn[v].is # "job"
    BY <2>1, <2>4, <2>2, <2>3, <1>0 DEF AnswerInv
  <2>5. CASE conn[v].is = "job"
    <3> DEFINE l == conn[v].lease
    <3>1. /\ client[v].pc = "request" /\ l \in Lease /\ leases[l].node = v
          /\ outcome[l] = None /\ uploads[l].status # "verified"
          /\ \A u \in Worker : client[u].lease # l /\ (old[u] # None => old[u].lease # l)
      BY <2>5, <1>0 DEF AnswerInv
    <3>2. l # 0
      BY <3>1 DEF Lease
    <3>3. conn[w].is = "job" => conn[w].lease # l
      BY <3>1, <1>0 DEF AnswerInv
    <3>4. client'[w].lease # l
      BY <3>1, <3>2, <3>3 DEF Moves
    <3>5. old'[w] # None => old'[w].lease # l
      BY <3>1, <3>2, <1>1 DEF Moves
    <3>6. \A u \in Worker : client'[u].lease # l /\ (old'[u] # None => old'[u].lease # l)
      BY <3>1, <3>4, <3>5 DEF Moves
    <3> HIDE DEF l
    <3>7. AnswerInv(v)'
      BY <3>1, <3>6, <2>1, <2>5, <1>0 DEF AnswerInv, l
    <3> QED BY <3>7, <2>2, <2>3
  <2> QED BY <2>2, <2>3, <2>4, <2>5
<1> QED BY <1>3, <1>4, <1>5, <1>6, <1>7, <1>8 DEF PartsInv

\* Whatever a worker's session does, and however it is broken off.
LEMMA SessionStepKeeps ==
  ASSUME WorkerInv, TypeOK', NEW w \in Worker,
         \/ ConnectionLost(w) \/ Crash(w) \/ Session(w) \/ Beat(w) \/ OutputRewritten(w)
  PROVE  PartsInv'
<1>0. /\ UNCHANGED <<given, coordinator, outcome>>
      /\ leases' = leases /\ outcome' = outcome /\ chunks' = chunks /\ Lease' = Lease
  <2>1. UNCHANGED <<given, coordinator, outcome>>
    BY DEF ConnectionLost, Crash, Session, Beat, OutputRewritten, Connect, Ready, PollAgain, IdleEnds,
           TakeDirective, UpdateBegins, UpdateEnds, UpdateReported, TakeJob, Acknowledged, Execute,
           Started, Beaten, Executed, Upload, Reported, Farewell, Fail
  <2> QED BY <2>1 DEF coordinator, given, Lease
<1>1. /\ SessionInv(w) /\ AnswerInv(w) /\ LateInv(w)
      /\ client \in [Worker -> ClientType] /\ conn \in [Worker -> ConnType]
      /\ executor \in [Worker -> ExecutorType] /\ old \in [Worker -> Request \cup {None}]
      /\ client[w] \in ClientType /\ executor[w] \in ExecutorType /\ chunks \in Nat
  BY Bounds DEF WorkerInv, TypeOK
<1>2. \A l, s : Told(l, s)' <=> Told(l, s)
  BY <1>0 DEF Told
<1> DEFINE Others(f, g) == \A v \in Worker \ {w} : g[v] = f[v]
           Goes(pc) == /\ client'[w].pc = pc /\ client'[w].lease = client[w].lease
                       /\ client'[w].chunk = client[w].chunk /\ client'[w].state = client[w].state
                       /\ Others(client, client')
           Waits(s) == conn'[w].is = s /\ conn'[w].lease = 0 /\ Others(conn, conn')
           Confirmed == client'[w].pc = "goodbye" /\ client'[w].lease # 0 =>
             job.terminal /\ job.lease = client'[w].lease /\ job.status = client'[w].state
           InOrder == Moves(w) /\ SessionInv(w)' /\ Confirmed
<1>a. ASSUME NEW pc, client' = [client EXCEPT ![w].pc = pc]
      PROVE  Goes(pc)
  BY <1>1, <1>a DEF ClientType
<1>b. ASSUME NEW s, conn' = [conn EXCEPT ![w] = Waiting(s)]
      PROVE  Waits(s)
  BY <1>1, <1>b DEF Waiting
<1>c. ASSUME conn' = [conn EXCEPT ![w] = IF @.is = "closed" THEN @ ELSE Waiting("ask")]
      PROVE  Waits(IF conn[w].is = "closed" THEN "closed" ELSE "ask")
  <2>1. CASE conn[w].is = "closed"
    <3>1. conn'[w] = conn[w] /\ Others(conn, conn') /\ conn[w].lease = 0
      BY <2>1, <1>1, <1>c DEF AnswerInv
    <3> QED BY <3>1, <2>1
  <2>2. CASE conn[w].is # "closed"
    <3>1. conn'[w] = Waiting("ask") /\ Others(conn, conn')
      BY <2>2, <1>1, <1>c
    <3> QED BY <3>1, <2>2 DEF Waiting
  <2> QED BY <2>1, <2>2
<1>d. ASSUME NEW pc, Ask(w, pc)
      PROVE  Goes(pc) /\ Waits("ask")
  BY <1>a, <1>b, <1>d DEF Ask
<1>e. ASSUME client' = [client EXCEPT ![w] = NoSession]
      PROVE  /\ client'[w].pc = "down" /\ client'[w].lease = 0 /\ Others(client, client')
  BY <1>1, <1>e DEF NoSession
<1>f. ASSUME executor' = [executor EXCEPT ![w] = NoExecution]
      PROVE  executor'[w].at = "none" /\ Others(executor, executor')
  BY <1>1, <1>f DEF NoExecution
<1>g. ASSUME client' = [client EXCEPT ![w] = NoSession], Waits("none"), executor'[w].at = "none",
             Others(executor, executor'), Others(old, old'),
             old'[w] \in {old[w], Quiet, Left(w)}
      PROVE  InOrder
  <2>1. client'[w].pc = "down" /\ client'[w].lease = 0 /\ Others(client, client')
    BY <1>e, <1>g
  <2>2. Moves(w)
    BY <2>1, <1>g DEF Moves
  <2>3. SessionInv(w)'
    BY <2>1, <1>g DEF SessionInv, Leased, Executing
  <2> QED BY <2>1, <2>2, <2>3
<1> HIDE DEF Others, Goes, Waits, Confirmed, InOrder
<1> SUFFICES InOrder
  BY <1>0, SessionKeeps DEF InOrder, Confirmed
<1>h. ASSUME UNCHANGED <<old, executor>>
      PROVE  Others(old, old') /\ Others(executor, executor')
  BY <1>h DEF Others
<1>1a. CASE ConnectionLost(w)
  <2>1. /\ client' = client /\ executor' = executor
        /\ old'[w] = Left(w) /\ Others(old, old') /\ Waits("closed")
    BY <1>1a, <1>1, <1>b DEF ConnectionLost, worker, Others
  <2>2. Moves(w)
    BY <2>1 DEF Moves, Waits, Others
  <2>3. SessionInv(w)'
    BY <2>1, <1>0, <1>1, <1>2 DEF SessionInv
  <2> QED BY <2>1, <2>2, <2>3 DEF InOrder, Confirmed, WorkerInv, ConfirmedRecorded
<1>2a. CASE Crash(w)
  <2>1. /\ client' = [client EXCEPT ![w] = NoSession] /\ Waits("none")
        /\ executor'[w].at = "none" /\ Others(executor, executor')
    BY <1>2a, <1>b, <1>f DEF Crash
  <2>2. Others(old, old') /\ old'[w] \in {old[w], Left(w)}
    BY <1>2a, <1>1 DEF Crash, Others
  <2> QED BY <2>1, <2>2, <1>g
<1>3. CASE Connect(w)
  <2>1. /\ client[w].pc = "down" /\ client[w].lease = 0 /\ executor[w].at = "none"
        /\ client'[w].pc = "hello" /\ client'[w].lease = 0 /\ Others(client, client')
        /\ Waits("ask") /\ UNCHANGED <<old, executor>>
    BY <1>3, <1>1, <1>b DEF Connect, NoSession, Others, SessionInv, Unleased
  <2>2. Moves(w)
    BY <2>1, <1>h DEF Moves, Waits, Others, Asking
  <2>3. SessionInv(w)'
    BY <2>1, <1>0 DEF SessionInv, Leased, Executing
  <2> QED BY <2>1, <2>2, <2>3 DEF InOrder, Confirmed
\* Before the session has a lease.
<1>4. CASE Ready(w) \/ PollAgain(w) \/ IdleEnds(w) \/ TakeDirective(w) \/ UpdateBegins(w) \/ UpdateEnds(w)
  <2>1. /\ client[w].pc \in Unleased /\ UNCHANGED <<old, executor>>
        /\ \E pc \in {"request", "goodbye", "downloading", "updating", "updated"},
              s \in {"ask", "quiet", "closed"} :
             Goes(pc) /\ Waits(s) /\ (s = "ask" => pc # "updating")
    <3>1. CASE Ready(w) \/ PollAgain(w) \/ IdleEnds(w) \/ TakeDirective(w)
      <4>1. /\ client[w].pc \in Unleased /\ UNCHANGED <<old, executor>>
            /\ \E pc \in {"request", "goodbye", "downloading"} : Ask(w, pc)
        BY <3>1 DEF Ready, PollAgain, IdleEnds, TakeDirective, Answered, Unleased
      <4> QED BY <4>1, <1>d
    <3>2. CASE UpdateBegins(w)
      BY <3>2, <1>a, <1>b DEF UpdateBegins, Answered, Unleased
    <3>3. CASE UpdateEnds(w)
      <4>1. /\ client[w].pc \in Unleased /\ UNCHANGED <<old, executor>> /\ Goes("updated")
            /\ Waits(IF conn[w].is = "closed" THEN "closed" ELSE "ask")
        BY <3>3, <1>a, <1>c DEF UpdateEnds, Unleased
      <4> QED BY <4>1
    <3> QED BY <1>4, <3>1, <3>2, <3>3
  <2>2. client[w].lease = 0 /\ executor[w].at = "none"
    BY <2>1, <1>1 DEF SessionInv
  <2>3. Moves(w)
    BY <2>1, <2>2, <1>h DEF Moves, Goes, Waits, Others, Asking
  <2>4. SessionInv(w)'
    BY <2>1, <2>2, <1>0 DEF SessionInv, Goes, Leased, Executing
  <2> QED BY <2>1, <2>2, <2>3, <2>4 DEF InOrder, Confirmed, Goes
<1>5. CASE UpdateReported(w)
  <2>1. /\ client' = [client EXCEPT ![w] = NoSession] /\ Waits("none") /\ executor' = executor
        /\ executor[w].at = "none" /\ old'[w] = Quiet /\ Others(old, old')
    BY <1>5, <1>1, <1>b DEF UpdateReported, Answered, SessionInv, Unleased, Others
  <2>2. Others(executor, executor')
    BY <2>1 DEF Others
  <2> QED BY <2>1, <2>2, <1>g
<1>6. CASE TakeJob(w)
  <2>1. /\ client[w].pc = "request" /\ conn[w].is = "job" /\ UNCHANGED <<old, executor>>
        /\ client'[w].pc = "ack" /\ client'[w].lease = conn[w].lease /\ Others(client, client')
        /\ Waits("ask") /\ executor[w].at = "none" /\ client[w].lease = 0
    BY <1>6, <1>1, <1>b DEF TakeJob, Answered, ClientType, Others, SessionInv, Unleased
  <2>2. conn[w].lease \in Lease /\ conn[w].lease # 0 /\ leases[conn[w].lease].node = w
        /\ outcome[conn[w].lease] = None
    BY <2>1, <1>1 DEF AnswerInv, Lease
  <2>3. Moves(w)
    BY <2>1, <1>h DEF Moves, Waits, Others, Asking
  <2>4. SessionInv(w)'
    BY <2>1, <2>2, <1>0 DEF SessionInv, Unleased, Executing
  <2> QED BY <2>1, <2>3, <2>4 DEF InOrder, Confirmed
<1>7. CASE Acknowledged(w)
  <2>1. /\ client[w].pc \in {"ack", "preparing"} /\ conn[w].is = "ok" /\ UNCHANGED <<old, executor>>
        /\ \E pc \in {"preparing", "control"} : Goes(pc)
        /\ Waits("ask")
    BY <1>7, <1>d DEF Acknowledged, Answered
  <2>2. Moves(w)
    BY <2>1, <1>h DEF Moves, Goes, Waits, Others, Asking, Uploaded
  <2>3. SessionInv(w)'
    BY <2>1, <1>0, <1>1 DEF SessionInv, Goes, Leased, Unleased, Executing
  <2> QED BY <2>1, <2>2, <2>3 DEF InOrder, Confirmed, Goes
<1>8. CASE Execute(w)
  <2>1. /\ client[w].pc = "control" /\ conn[w].is \in {"ok", "cancel"} /\ UNCHANGED old
        /\ Goes("start") /\ Waits("quiet")
        /\ executor'[w].at = "preflight" /\ Others(executor, executor')
    BY <1>8, <1>1, <1>a, <1>b DEF Execute, Answered, NoExecution, Others
  <2>2. Moves(w)
    BY <2>1 DEF Moves, Goes, Waits, Others, Asking, Uploaded
  <2>3. SessionInv(w)'
    BY <2>1, <1>0, <1>1 DEF SessionInv, Goes, Leased, Unleased, Executing
  <2> QED BY <2>1, <2>2, <2>3 DEF InOrder, Confirmed, Goes
\* While the executor works: the process is started, the lease is kept up.
<1>9. CASE Started(w)
  <2>1. /\ client[w].pc = "start" /\ executor[w].at \in {"running", "ended"} /\ UNCHANGED <<old, executor>>
        /\ conn[w].is # "job" /\ conn[w].is # "ask" /\ conn[w].lease = 0
    BY <1>9, <1>1 DEF Started, ExecutorType, AnswerInv, Asking
  <2>2. \/ Goes("running") /\ Waits(IF conn[w].is = "closed" THEN "closed" ELSE "ask")
        \/ Goes("exec") /\ conn' = conn
    BY <1>9, <1>a, <1>c DEF Started
  <2>3. Moves(w)
    BY <2>1, <2>2, <1>h DEF Moves, Goes, Waits, Others, Asking, Uploaded, CutOff
  <2>4. SessionInv(w)'
    BY <2>1, <2>2, <1>0, <1>1 DEF SessionInv, Goes, Leased, Unleased, Executing
  <2> QED BY <2>2, <2>3, <2>4 DEF InOrder, Confirmed, Goes
<1>10. CASE Beat(w)
  <2>1. /\ client[w].pc = "exec" /\ executor[w].at = "running" /\ UNCHANGED <<old, executor>>
        /\ Goes("beat") /\ Waits(IF conn[w].is = "closed" THEN "closed" ELSE "ask")
    BY <1>10, <1>a, <1>c DEF Beat
  <2>2. Moves(w)
    BY <2>1, <1>h DEF Moves, Goes, Waits, Others, Asking, Uploaded, CutOff
  <2>3. SessionInv(w)'
    BY <2>1, <1>0, <1>1 DEF SessionInv, Goes, Leased, Unleased, Executing
  <2> QED BY <2>1, <2>2, <2>3 DEF InOrder, Confirmed, Goes
<1>11. CASE Beaten(w)
  <2>1. /\ client[w].pc \in {"running", "beat"} /\ conn[w].is \in {"ok", "cancel"} /\ UNCHANGED old
        /\ Goes("exec") /\ Waits("quiet")
    BY <1>11, <1>a, <1>b DEF Beaten
  <2>2. /\ executor'[w].at = executor[w].at /\ executor'[w].result = executor[w].result
        /\ Others(executor, executor')
    BY <1>11, <1>1 DEF Beaten, ExecutorType, Others
  <2>3. Moves(w)
    BY <2>1, <2>2 DEF Moves, Goes, Waits, Others, Asking, Uploaded, CutOff
  <2>4. SessionInv(w)'
    BY <2>1, <2>2, <1>0, <1>1 DEF SessionInv, Goes, Leased, Unleased, Executing
  <2> QED BY <2>1, <2>3, <2>4 DEF InOrder, Confirmed, Goes
\* The report says what the execution came to, or that it failed.
<1>i. ASSUME Report(w), client[w].pc \in {"exec", "finalize"}, UNCHANGED <<old, executor>>,
             conn[w].is = "closed" => client[w].pc = "exec",
             executor[w].at = "ended", executor[w].result # "raised"
      PROVE  InOrder
  <2>1. PICK s \in Reportable(w) : client' = [client EXCEPT ![w].pc = "terminal", ![w].state = s]
    BY <1>i DEF Report
  <2>2. /\ client'[w].pc = "terminal" /\ client'[w].state = s /\ client'[w].lease = client[w].lease
        /\ Others(client, client') /\ Waits(IF conn[w].is = "closed" THEN "closed" ELSE "ask")
    BY <2>1, <1>1, <1>c, <1>i DEF Report, ClientType, Others
  <2>3. client[w].lease # 0 /\ outcome[client[w].lease] = executor[w].result
        /\ executor[w].result \in ResultState
    BY <1>1, <1>i DEF SessionInv
  <2>4. Told(client[w].lease, s)
    BY <2>3 DEF Told, Reportable, ResultState
  <2>5. Moves(w)
    BY <2>2, <1>h, <1>i DEF Moves, Waits, Others, Asking, Uploaded, CutOff
  <2>6. SessionInv(w)'
    BY <2>2, <2>3, <2>4, <1>0, <1>1, <1>2, <1>i DEF SessionInv, Leased, Unleased, Executing
  <2> QED BY <2>2, <2>5, <2>6 DEF InOrder, Confirmed
<1>12. CASE Executed(w)
  <2>1. /\ client[w].pc = "exec" /\ executor[w].at = "ended" /\ executor[w].result # "raised"
        /\ UNCHANGED <<old, executor>>
    BY <1>12 DEF Executed
  <2>2. CASE Declared /\ executor[w].result = "completed"
    <3>1. /\ client'[w].pc = "begin" /\ client'[w].chunk = 1 /\ client'[w].lease = client[w].lease
          /\ Others(client, client') /\ Waits(IF conn[w].is = "closed" THEN "closed" ELSE "ask")
      BY <2>2, <1>12, <1>1, <1>c DEF Executed, ClientType, Others
    <3>2. 1 \in 1..chunks
      BY <2>2, <1>1 DEF Declared
    <3>3. Moves(w)
      BY <2>1, <3>1, <1>h DEF Moves, Waits, Others, Asking, Uploaded, CutOff
    <3>4. SessionInv(w)'
      BY <2>1, <2>2, <3>1, <3>2, <1>0, <1>1 DEF SessionInv, Leased, Unleased, Executing
    <3> QED BY <3>1, <3>3, <3>4 DEF InOrder, Confirmed
  <2>3. CASE ~(Declared /\ executor[w].result = "completed")
    BY <2>1, <2>3, <1>12, <1>i DEF Executed
  <2> QED BY <2>2, <2>3
<1>13. CASE Upload(w)
  <2>0. UNCHANGED <<old, executor>>
    BY <1>13 DEF Upload
  <2>1. CASE \/ Answered(w, "begin", {"ok"}) /\ Ask(w, "chunk")
             \/ Answered(w, "chunk", {"ok"}) /\ client[w].chunk = chunks /\ Ask(w, "finalize")
    <3>1. /\ client[w].pc \in {"begin", "chunk"} /\ conn[w].is = "ok" /\ Waits("ask")
          /\ \E pc \in {"chunk", "finalize"} : Goes(pc)
      BY <2>1, <1>d DEF Answered
    <3>2. Moves(w)
      BY <2>0, <3>1, <1>h DEF Moves, Goes, Waits, Others, Asking, Uploaded, CutOff
    <3>3. SessionInv(w)'
      BY <2>0, <3>1, <1>0, <1>1 DEF SessionInv, Goes, Leased, Unleased, Executing
    <3> QED BY <3>1, <3>2, <3>3 DEF InOrder, Confirmed, Goes
  <2>2. CASE /\ Answered(w, "chunk", {"ok"}) /\ client[w].chunk < chunks
             /\ client' = [client EXCEPT ![w].chunk = @ + 1] /\ conn' = [conn EXCEPT ![w] = Waiting("ask")]
    <3>1. /\ client[w].pc = "chunk" /\ conn[w].is = "ok" /\ Waits("ask")
          /\ client'[w].pc = client[w].pc /\ client'[w].lease = client[w].lease
          /\ client'[w].chunk = client[w].chunk + 1 /\ Others(client, client')
      BY <2>2, <1>1, <1>b DEF Answered, ClientType, Others
    <3>2. client[w].chunk + 1 \in 1..chunks
      BY <2>2, <3>1, <1>1 DEF SessionInv
    <3>3. Moves(w)
      BY <2>0, <3>1, <1>h DEF Moves, Waits, Others, Asking, Uploaded, CutOff
    <3>4. SessionInv(w)'
      BY <2>0, <3>1, <3>2, <1>0, <1>1 DEF SessionInv, Leased, Unleased, Executing
    <3> QED BY <3>1, <3>3, <3>4 DEF InOrder, Confirmed
  <2>3. CASE Answered(w, "finalize", {"ok"}) /\ Report(w)
    <3>1. /\ client[w].pc = "finalize" /\ conn[w].is = "ok"
          /\ executor[w].at = "ended" /\ executor[w].result # "raised"
      BY <2>3, <1>1 DEF Answered, SessionInv
    <3> QED BY <2>0, <2>3, <3>1, <1>i
  <2> QED BY <2>1, <2>2, <2>3, <1>13 DEF Upload
<1>14. CASE Reported(w)
  <2>1. /\ client[w].pc = "terminal" /\ conn[w].is = "ok" /\ UNCHANGED <<old, executor>>
        /\ Goes("goodbye") /\ Waits("ask")
    BY <1>14, <1>d DEF Reported, Answered
  <2>2. job.terminal /\ job.lease = client[w].lease /\ job.status = client[w].state
    BY <2>1, <1>1 DEF AnswerInv
  <2>3. Moves(w)
    BY <2>1, <1>h DEF Moves, Goes, Waits, Others, Asking, Uploaded, CutOff
  <2>4. SessionInv(w)'
    BY <2>1, <1>0, <1>1, <1>2 DEF SessionInv, Goes, Leased, Unleased, Executing
  <2> QED BY <2>1, <2>2, <2>3, <2>4 DEF InOrder, Confirmed, Goes
<1>15. CASE Farewell(w)
  <2>1. /\ client' = [client EXCEPT ![w] = NoSession] /\ Waits("none") /\ old' = old
        /\ executor'[w].at = "none" /\ Others(executor, executor')
    BY <1>15, <1>b, <1>f DEF Farewell
  <2>2. Others(old, old')
    BY <2>1 DEF Others
  <2> QED BY <2>1, <2>2, <1>g
<1>16. CASE Fail(w)
  <2>1. CASE /\ executor[w].at \in {"preflight", "running"}
             /\ client' = [client EXCEPT ![w].pc = "lost"] /\ UNCHANGED <<conn, old, executor>>
    <3>1. Goes("lost")
      BY <2>1, <1>a
    <3>2. client[w].pc \in {"start", "exec", "running", "beat", "lost"} /\ conn[w].is # "job"
          /\ conn[w].lease = 0
      BY <2>1, <1>1 DEF SessionInv, Executing, AnswerInv
    <3>3. conn[w].is # "ask"
      BY <1>16, <2>1, <3>2, <1>1 DEF Fail, AnswerInv, Asking
    <3>4. Moves(w)
      BY <2>1, <3>1, <3>2, <3>3, <1>h DEF Moves, Goes, Others, Uploaded, CutOff
    <3>5. SessionInv(w)'
      BY <2>1, <3>1, <3>2, <1>0, <1>1 DEF SessionInv, Goes, Leased, Unleased, Executing
    <3> QED BY <3>1, <3>4, <3>5 DEF InOrder, Confirmed, Goes
  <2>2. CASE /\ client' = [client EXCEPT ![w] = NoSession]
             /\ conn' = [conn EXCEPT ![w] = Waiting("none")]
             /\ executor' = [executor EXCEPT ![w] = NoExecution]
             /\ old' = IF conn[w].is = "closed" THEN old ELSE [old EXCEPT ![w] = Left(w)]
    <3>1. Others(old, old') /\ old'[w] \in {old[w], Left(w)}
      BY <2>2, <1>1 DEF Others
    <3> QED BY <2>2, <3>1, <1>b, <1>f, <1>g
  <2> QED BY <2>1, <2>2, <1>16 DEF Fail
<1>17. CASE OutputRewritten(w)
  <2>1. /\ client[w].pc \in {"begin", "chunk"} /\ conn[w].is = "ok"
        /\ UNCHANGED <<conn, old, client, executor>> /\ conn[w].lease = 0
    BY <1>17, <1>1 DEF OutputRewritten, AnswerInv
  <2>2. Moves(w)
    BY <2>1 DEF Moves
  <2>3. SessionInv(w)'
    BY <2>1, <1>0, <1>1, <1>2 DEF SessionInv
  <2> QED BY <2>1, <2>2, <2>3 DEF InOrder, Confirmed
<1> QED BY <1>1a, <1>2a, <1>3, <1>4, <1>5, <1>6, <1>7, <1>8, <1>9, <1>10, <1>11, <1>12, <1>13, <1>14,
           <1>15, <1>16, <1>17 DEF Session

\* The executor thread's steps: only its own execution's outcome is written, and
\* only once.
LEMMA ExecutorKeeps ==
  ASSUME WorkerInv, NEW w \in Worker,
         Preflight(w) \/ Exits(w) \/ Cancelled(w) \/ BudgetExceeded(w)
  PROVE  TypeOK' /\ PartsInv'
<1>0. /\ TypeOK /\ JobInv /\ \A v \in Worker : SessionInv(v) /\ AnswerInv(v) /\ LateInv(v)
      /\ executor \in [Worker -> ExecutorType] /\ executor[w] \in ExecutorType
      /\ outcome \in [Attempt -> ResultState \cup {None}] /\ job.attempt \in 0..MaxLeases
  BY DEF WorkerInv, TypeOK, JobType
<1>1. UNCHANGED <<given, coordinator, conn, old, client, version, marker, faults>>
  BY DEF Preflight, Exits, Cancelled, BudgetExceeded, InputsRefused, PreflightFails, Ends
<1>2. executor[w].at \in Executing
  BY DEF Preflight, Exits, Cancelled, BudgetExceeded, Executing
<1> DEFINE l == client[w].lease
<1>3. /\ client[w].pc \in {"start", "running", "exec", "beat", "lost"} /\ outcome[l] = None
      /\ l # 0 /\ l \in Lease /\ leases[l].node = w /\ l \in Attempt
  <2>1. /\ client[w].pc \in {"start", "running", "exec", "beat", "lost"} /\ outcome[l] = None
        /\ l # 0 /\ l \in Lease /\ leases[l].node = w
    BY <1>0, <1>2 DEF SessionInv, Leased
  <2> QED BY <2>1, <1>0, Bounds DEF Lease, Attempt
\* The execution goes on, raises, or comes to a result.
<1>4. \/ /\ executor' = [executor EXCEPT ![w].at = "running", ![w].started = TRUE]
         /\ outcome' = outcome
      \/ \E b \in BOOLEAN : /\ Ends(w, b, "raised")
      \/ \E b \in BOOLEAN, s \in ResultState : Ends(w, b, s)
  BY DEF Preflight, Exits, Cancelled, BudgetExceeded, InputsRefused, PreflightFails, ResultState
<1>5. /\ \A v \in Worker \ {w} : executor'[v] = executor[v]
      /\ executor' \in [Worker -> ExecutorType]
      /\ \/ executor'[w].at = "running" /\ outcome' = outcome
         \/ executor'[w].at = "ended" /\ executor'[w].result = "raised" /\ outcome' = outcome
         \/ \E s \in ResultState : /\ executor'[w].at = "ended" /\ executor'[w].result = s
                                   /\ outcome' = [outcome EXCEPT ![l] = s]
  <2>1. CASE /\ executor' = [executor EXCEPT ![w].at = "running", ![w].started = TRUE]
             /\ outcome' = outcome
    BY <2>1, <1>0 DEF ExecutorType
  <2>2. ASSUME NEW b \in BOOLEAN, Ends(w, b, "raised")
        PROVE  <1>5!:
    BY <2>2, <1>0 DEF Ends, ExecutorType
  <2>3. ASSUME NEW b \in BOOLEAN, NEW s \in ResultState, Ends(w, b, s)
        PROVE  <1>5!:
    BY <2>3, <1>0 DEF Ends, ExecutorType, ResultState
  <2> QED BY <2>1, <2>2, <2>3, <1>4
<1>6. /\ \A k \in Attempt : k # l => outcome'[k] = outcome[k]
      /\ outcome' \in [Attempt -> ResultState \cup {None}]
  BY <1>0, <1>3, <1>5
<1>7. /\ job' = job /\ leases' = leases /\ uploads' = uploads /\ received' = received
      /\ client' = client /\ conn' = conn /\ old' = old /\ chunks' = chunks /\ Lease' = Lease
  BY <1>1 DEF coordinator, given, Lease
<1>8. TypeOK'
  BY <1>0, <1>1, <1>5, <1>6 DEF TypeOK, given, coordinator, Attempt, MaxLeases
<1> HIDE DEF l
<1>9. \A k \in Attempt : \A s : Told(k, s) => k # l /\ outcome'[k] = outcome[k]
  <2>1. \A k, s : Told(k, s) => outcome[k] # None
    BY NoneAssumption DEF Told, ResultState
  <2> QED BY <2>1, <1>3, <1>6
<1>10. \A k \in Lease : k \in Attempt
  BY <1>0, Bounds DEF Lease, Attempt
<1>11. JobInv' /\ VerifiedInv' /\ OutputsHeld' /\ ConfirmedRecorded'
  BY <1>7 DEF WorkerInv, JobInv, VerifiedInv, Assembled, OutputsHeld, Declared, ConfirmedRecorded,
              Attempt, MaxLeases
<1>12. FreshInv'
  <2> SUFFICES ASSUME NEW k \in Attempt, k > job.attempt
               PROVE  outcome'[k] = None /\ uploads[k].status # "verified"
    BY <1>7 DEF FreshInv, Attempt, MaxLeases
  <2>1. k # l
    BY <1>3, <1>0, Bounds DEF Lease, Attempt
  <2> QED BY <2>1, <1>6 DEF WorkerInv, FreshInv
<1>13. OutcomeOwned'
  <2>1. job.terminal /\ job.lease # 0 => Told(job.lease, job.status) /\ job.lease \in Attempt
    <3>1. job.terminal /\ job.lease # 0 => job.lease \in Attempt /\ job.status \in ResultState
      BY <1>0, Bounds DEF JobInv, Attempt, JobType, TypeOK
    <3> QED BY <3>1 DEF WorkerInv, OutcomeOwned, Told
  <2>2. job.terminal /\ job.lease # 0 => outcome'[job.lease] = outcome[job.lease]
    BY <2>1, <1>9
  <2> QED BY <2>2, <1>7 DEF WorkerInv, OutcomeOwned
<1>14. ASSUME NEW v \in Worker
       PROVE  AnswerInv(v)'
  <2>1. CASE conn[v].is # "job"
    BY <2>1, <1>0, <1>7 DEF AnswerInv
  <2>2. CASE conn[v].is = "job"
    <3>1. conn[v].lease # l /\ conn[v].lease \in Attempt
      BY <2>2, <1>0, <1>10 DEF AnswerInv, l
    <3>2. outcome'[conn[v].lease] = outcome[conn[v].lease]
      BY <3>1, <1>6
    <3> QED BY <3>2, <2>2, <1>0, <1>7 DEF AnswerInv
  <2> QED BY <2>1, <2>2
<1>15. ASSUME NEW v \in Worker
       PROVE  LateInv(v)'
  <2>1. old[v] # None /\ old[v].kind = "terminal" =>
          old[v].lease \in Attempt /\ Told(old[v].lease, old[v].state)
    BY <1>0, <1>10 DEF LateInv, Leased
  <2>2. old[v] # None /\ old[v].kind = "terminal" => outcome'[old[v].lease] = outcome[old[v].lease]
    BY <2>1, <1>9
  <2> QED BY <2>2, <1>0, <1>7 DEF LateInv, Told
<1>16. ASSUME NEW v \in Worker \ {w}
       PROVE  SessionInv(v)'
  <2>1. client[v].lease # 0 => client[v].lease # l /\ client[v].lease \in Attempt
    BY <1>0, <1>3, <1>10 DEF SessionInv
  <2>2. client[v].lease # 0 => outcome'[client[v].lease] = outcome[client[v].lease]
    BY <2>1, <1>6
  <2> QED BY <2>2, <1>0, <1>5, <1>7 DEF SessionInv, Told, Leased, Executing
<1>17. SessionInv(w)'
  BY <1>0, <1>2, <1>3, <1>5, <1>7 DEF SessionInv, Leased, Unleased, Executing, l
<1> QED BY <1>8, <1>11, <1>12, <1>13, <1>14, <1>15, <1>16, <1>17 DEF PartsInv
-----------------------------------------------------------------------------
(* The theorems.                                                           *)

\* Nothing is leased, asked or known at the start.
LEMMA InitHolds ==
  ASSUME Init
  PROVE  WorkerInv
<1>1. PICK s \in Scenarios :
        /\ chunks = s.chunks /\ attempts = s.attempts /\ answerable = s.answerable
        /\ directive = [w \in Worker |-> w \in s.updates]
        /\ marker = [w \in Worker |-> w \in s.drained]
  BY DEF Init
<1>2. /\ chunks \in 0..MaxChunks /\ attempts \in 1..MaxAttempts /\ answerable \in BOOLEAN
      /\ directive \in [Worker -> BOOLEAN] /\ marker \in [Worker -> BOOLEAN]
  BY <1>1, ScenarioAssumption DEF ScenarioType
<1>3. 0 \in 0..MaxLeases /\ 0 \in 0..MaxFaults
  BY Bounds
<1>4. /\ job.status = "queued" /\ job.attempt = 0 /\ job.lease = 0 /\ job.terminal = FALSE
      /\ job \in JobType
  BY <1>3 DEF Init, JobType
<1>5. leases \in [1..job.attempt -> LeaseType]
  BY <1>4 DEF Init
<1>6. uploads \in [Attempt -> UploadType] /\ \A l \in Attempt : uploads[l].status # "verified"
  BY <1>3, NoneAssumption DEF Init, UploadType
<1>7. /\ \A w \in Worker : /\ conn[w] = Waiting("none") /\ old[w] = None
                           /\ client[w] = NoSession /\ executor[w] = NoExecution
      /\ conn \in [Worker -> ConnType] /\ old \in [Worker -> Request \cup {None}]
      /\ client \in [Worker -> ClientType] /\ executor \in [Worker -> ExecutorType]
  BY SessionInitials DEF Init
<1>8. TypeOK
  <2>1. received \in [Attempt -> [1..chunks -> 0..2]]
    BY DEF Init
  <2>2. /\ node \in [Worker -> BOOLEAN] /\ version \in [Worker -> {1, 2}]
        /\ faults \in 0..MaxFaults /\ outcome \in [Attempt -> ResultState \cup {None}]
    BY <1>3 DEF Init
  <2> QED BY <2>1, <2>2, <1>2, <1>4, <1>5, <1>6, <1>7 DEF TypeOK
<1>9. JobInv /\ FreshInv /\ VerifiedInv /\ OutcomeOwned /\ OutputsHeld
  <2>1. \A l \in Attempt : outcome[l] = None
    BY DEF Init
  <2> QED BY <2>1, <1>4, <1>6 DEF JobInv, FreshInv, VerifiedInv, OutcomeOwned, OutputsHeld, ResultState
<1>10. ASSUME NEW w \in Worker
       PROVE  SessionInv(w) /\ AnswerInv(w) /\ LateInv(w) /\ client[w].pc = "down"
  BY <1>7 DEF SessionInv, AnswerInv, LateInv, NoSession, NoExecution, Waiting, Leased, Executing
<1> QED BY <1>8, <1>9, <1>10 DEF WorkerInv, ConfirmedRecorded

\* Every step keeps the types.
LEMMA NextTypes ==
  ASSUME WorkerInv, Next
  PROVE  TypeOK'
<1>0. TypeOK /\ \A v \in Worker : SessionInv(v) /\ AnswerInv(v) /\ LateInv(v)
  BY DEF WorkerInv
<1>a. ASSUME CoordinatorTypes(job', leases', uploads', received', node', directive'),
             SessionTypes(conn', old', client', executor', version', marker'),
             UNCHANGED <<given, outcome>>, faults' \in 0..MaxFaults
      PROVE  TypeOK'
  <2>1. chunks' = chunks /\ attempts' = attempts /\ answerable' = answerable /\ outcome' = outcome
    BY <1>a DEF given
  <2> QED BY <2>1, <1>a, <1>0 DEF TypeOK, CoordinatorTypes, SessionTypes, Attempt, MaxLeases
<1>b. /\ CoordinatorTypes(job, leases, uploads, received, node, directive)
      /\ SessionTypes(conn, old, client, executor, version, marker)
      /\ faults \in 0..MaxFaults
  BY <1>0 DEF TypeOK, CoordinatorTypes, SessionTypes
<1>1. ASSUME NEW w \in Worker, Serve(w)
      PROVE  TypeOK'
  <2>1. UNCHANGED <<given, outcome, faults, old, client, executor, version, marker>> /\ conn[w].is = "ask"
    BY <1>1 DEF Serve, worker
  <2>2. PICK a \in Answer :
          /\ Handles(w, RequestOf(w), a)
          /\ conn' = [conn EXCEPT ![w] = [is |-> IF a = "reject" THEN "closed" ELSE a,
                                          lease |-> IF a = "job" THEN job'.lease ELSE 0]]
    BY <1>1 DEF Serve
  <2>3. RequestOf(w) \in Request
    BY <2>1, <1>0, RequestTypes DEF AnswerInv
  <2>4. RequestOf(w).kind = "terminal" => RequestOf(w).state \in ResultState
    BY <1>0 DEF RequestOf, SessionInv, Told
  <2>5. CoordinatorTypes(job', leases', uploads', received', node', directive')
    BY <2>2, <2>3, <2>4, <1>0, HandlesTypes
  <2>6. job'.lease \in 0..MaxLeases /\ 0 \in 0..MaxLeases
    BY <2>5, Bounds DEF CoordinatorTypes, JobType
  <2>7. conn' \in [Worker -> ConnType]
    BY <2>2, <2>6, <1>b DEF SessionTypes, ConnType
  <2> QED BY <2>1, <2>5, <2>7, <1>a, <1>b DEF SessionTypes
<1>2. ASSUME NEW w \in Worker, ServeLate(w)
      PROVE  TypeOK'
  <2>1. UNCHANGED <<given, outcome, faults, conn, client, executor, version, marker>> /\ old[w] # None
    BY <1>2 DEF ServeLate, worker
  <2>2. PICK a \in Answer :
          /\ Handles(w, old[w], a)
          /\ old' = [old EXCEPT ![w] = IF a \in {"reject", "bye"} THEN None ELSE Quiet]
    BY <1>2 DEF ServeLate
  <2>3. old[w] \in Request /\ (old[w].kind = "terminal" => old[w].state \in ResultState)
    BY <2>1, <1>0, <1>b DEF SessionTypes, LateInv, Told
  <2>4. CoordinatorTypes(job', leases', uploads', received', node', directive')
    BY <2>2, <2>3, <1>0, HandlesTypes
  <2>5. old' \in [Worker -> Request \cup {None}]
    BY <2>2, <1>b, SessionInitials DEF SessionTypes
  <2> QED BY <2>1, <2>4, <2>5, <1>a, <1>b DEF SessionTypes
<1>3. ASSUME NEW w \in Worker, HandlerEnds(w)
      PROVE  TypeOK'
  BY <1>3, <1>a, <1>b DEF HandlerEnds, worker, CoordinatorTypes, SessionTypes
<1>4. ASSUME NEW w \in Worker,
             \/ ConnectionLost(w) \/ Crash(w) \/ Session(w) \/ Beat(w) \/ OutputRewritten(w)
      PROVE  TypeOK'
  <2>1. UNCHANGED <<given, coordinator, outcome>>
    BY <1>4 DEF ConnectionLost, Crash, Session, Beat, OutputRewritten, Connect, Ready, PollAgain,
                IdleEnds, TakeDirective, UpdateBegins, UpdateEnds, UpdateReported, TakeJob,
                Acknowledged, Execute, Started, Beaten, Executed, Upload, Reported, Farewell, Fail
  <2>2. CoordinatorTypes(job', leases', uploads', received', node', directive')
    BY <2>1, <1>b DEF coordinator
  <2> QED BY <2>1, <2>2, <1>0, <1>4, <1>a, SessionStepTypes
<1>5. ASSUME NEW l \in DOMAIN leases, LeaseExpires(l)
      PROVE  TypeOK'
  <2>1. UNCHANGED <<given, job, uploads, received, node, directive, conn, old, client, executor, version,
                    marker, outcome>>
    BY <1>5 DEF LeaseExpires, worker
  <2>2. leases' \in [1..job.attempt -> LeaseType]
    BY <1>5, <1>b DEF LeaseExpires, CoordinatorTypes, LeaseType
  <2>3. faults' \in 0..MaxFaults
    BY <1>5, <1>b, Bounds DEF LeaseExpires
  <2> QED BY <2>1, <2>2, <2>3, <1>a, <1>b DEF CoordinatorTypes
<1>6. ASSUME RecoverExpired \/ CancelJob
      PROVE  TypeOK'
  <2>1. UNCHANGED <<given, leases, uploads, received, node, directive, conn, old, client, executor,
                    version, marker, faults, outcome>>
    BY <1>6 DEF RecoverExpired, CancelJob, worker
  <2>2. 0 \in 0..MaxLeases /\ job \in JobType
    BY <1>b, Bounds DEF CoordinatorTypes
  <2>3. job' \in JobType /\ job'.attempt = job.attempt
    BY <2>2, <1>6 DEF RecoverExpired, CancelJob, JobType, ResultState
  <2> QED BY <2>1, <2>3, <1>a, <1>b DEF CoordinatorTypes
<1>7. ASSUME NEW w \in Worker, Preflight(w) \/ Exits(w) \/ Cancelled(w) \/ BudgetExceeded(w)
      PROVE  TypeOK'
  BY <1>7, ExecutorKeeps
<1> QED BY <1>1, <1>2, <1>3, <1>4, <1>5, <1>6, <1>7 DEF Next

\* The invariant is inductive.
LEMMA NextKeeps ==
  ASSUME WorkerInv, [Next]_vars
  PROVE  WorkerInv'
<1>1. CASE Next
  <2>1. TypeOK'
    BY <1>1, NextTypes
  <2>2. PartsInv'
    BY <1>1, <2>1, ServeKeeps, ServeLateKeeps, HostKeeps, SessionStepKeeps, ExecutorKeeps DEF Next
  <2> QED BY <2>1, <2>2 DEF WorkerInv, PartsInv
<1>2. CASE UNCHANGED vars
  <2>1. /\ UNCHANGED <<given, coordinator, conn, old, worker, faults, outcome>>
    BY <1>2 DEF vars
  <2>2. /\ UNCHANGED <<chunks, attempts, answerable, job, leases, uploads, received, node, directive>>
        /\ UNCHANGED <<client, executor, version, marker, conn, old, faults, outcome>>
    BY <2>1 DEF given, coordinator, worker
  <2>3. TypeOK'
    BY <2>2 DEF WorkerInv, TypeOK, Attempt, MaxLeases
  <2>4. JobInv' /\ FreshInv' /\ VerifiedInv' /\ OutcomeOwned' /\ ConfirmedRecorded' /\ OutputsHeld'
    BY <2>2 DEF WorkerInv, JobInv, FreshInv, VerifiedInv, Assembled, OutcomeOwned, ConfirmedRecorded,
                OutputsHeld, Declared, Attempt, MaxLeases
  <2>5. ASSUME NEW w \in Worker
        PROVE  SessionInv(w)' /\ AnswerInv(w)' /\ LateInv(w)'
    BY <2>2 DEF WorkerInv, SessionInv, AnswerInv, LateInv, Told, Lease
  <2> QED BY <2>3, <2>4, <2>5 DEF WorkerInv
<1> QED BY <1>1, <1>2

\* Whatever breaks and however late it is noticed, types are kept, the job's
\* terminal state is what the execution of the very attempt it holds came to
\* (_record_event), and a worker whose report was confirmed finds the job
\* terminal with exactly that report (run_once).
THEOREM OutcomeCorrect == Spec => []OutcomeSound
<1>1. Init => WorkerInv
  BY InitHolds
<1>2. WorkerInv /\ [Next]_vars => WorkerInv'
  BY NextKeeps
<1>3. WorkerInv => OutcomeSound
  BY DEF WorkerInv, OutcomeSound
<1> QED BY <1>1, <1>2, <1>3, PTL DEF Spec

\* Of a job that completed with declared outputs, the coordinator holds every
\* chunk of the completing attempt's output, with the content that was hashed
\* (finalize_artifact_upload, _authoritative_terminal_artifacts).
THEOREM OutputsCorrect == Spec => []OutputsHeld
<1>1. Init => WorkerInv
  BY InitHolds
<1>2. WorkerInv /\ [Next]_vars => WorkerInv'
  BY NextKeeps
<1>3. WorkerInv => OutputsHeld
  BY DEF WorkerInv
<1> QED BY <1>1, <1>2, <1>3, PTL DEF Spec
=============================================================================
