--------------------------- MODULE NodeRegistry ---------------------------
(***************************************************************************)
(* Pairing and the record of one node.  Some handlers hold a flock while   *)
(* they read, change and put back a record, others do not; a step is one   *)
(* access to the store, and a process decides at its read what it will     *)
(* write.                                                                  *)
(*                                                                         *)
(* The capability manifest, names, addresses and the current transport are *)
(* left out, and so is the TLS identity connect_node compares: the control *)
(* command connects without one.  Refusals that only leave an audit line   *)
(* are no steps.                                                           *)
(***************************************************************************)
EXTENDS Naturals, FiniteSets

CONSTANTS
  Process,         \* threads and processes on this store
  Enrollment,      \* enrollment ids that may be given out
  Handlers,        \* the handlers that are called
  MaxFailures,     \* max_failures of an enrollment
  MaxGeneration,   \* bound: session generations reached
  MaxDirectives,   \* bound: update and transport directives requested
  None

ASSUME FailuresAssumption == MaxFailures \in 1..20
ASSUME RegistryBounds == MaxGeneration \in Nat /\ MaxDirectives \in Nat
ASSUME RegistryNames == None \notin Process \cup Enrollment

EnrollmentType ==
  [status : {"none", "issued", "expired", "rate_limited", "pending_approval"},
   failed_attempts : Nat]

Online == {"online_idle", "online_busy"}
NodeState ==
  {"none", "pending_approval", "offline", "incompatible", "draining", "revoked"} \cup Online

\* id tells a directive from the one that replaced it; 0 is no directive.
Directive == [id : Nat, status : {"none", "requested", "started", "completed", "failed"}]
NoDirective == [id |-> 0, status |-> "none"]

\* code: the enrollment whose verification code approves the node.
NodeType ==
  [state : NodeState, approved : BOOLEAN, code : Enrollment \cup {None},
   session_generation : Nat, draining : BOOLEAN, update : Directive, transport : Directive]

VARIABLES
  enrollments, \* the collection "enrollments"
  lapsed,      \* enrollments whose expires_at has passed
  knows,       \* processes whose secret hashes the enrollment's code alike
  pairingLock, \* holder of the flock pairing-<id>
  node,        \* the record in "nodes"
  nodeLock,    \* holder of the flock node-<id>
  at,          \* what each process is doing
  nextEnrollment, nextNode,  \* the records it is about to write
  worker,      \* the directive the worker is carrying out
  issued,      \* directives requested so far
  wrong,       \* submissions answered with "wrong code", per enrollment
  accepted,    \* submissions answered with a pending node, per enrollment
  barred       \* highest generation a revocation that returned has ended,
               \* 0 when the host has approved the node since

store == <<enrollments, node>>
seen == <<wrong, accepted, barred>>
vars == <<enrollments, lapsed, knows, pairingLock, node, nodeLock, at,
          nextEnrollment, nextNode, worker, issued, wrong, accepted, barred>>

NoEnrollment == [status |-> "none", failed_attempts |-> 0]
NoNode ==
  [state |-> "none", approved |-> FALSE, code |-> None, session_generation |-> 0,
   draining |-> FALSE, update |-> NoDirective, transport |-> NoDirective]

Idle == [op |-> "idle", enrollment |-> None, deletes |-> FALSE]
Op ==
  {"idle", "late", "limited", "wrong", "submit_pairing", "pending_node", "approve",
   "reject", "revoke", "revoke_node", "delete", "delete_node", "remove",
   "import_approved_node", "connect_node", "disconnect_node", "expire_stale_nodes",
   "heartbeat_node", "set_draining", "request_node_update", "request_node_transport",
   "record_node_update", "record_node_transport"}
Doing == [op : Op, enrollment : Enrollment \cup {None}, deletes : BOOLEAN]

WorkerIdle == [does |-> "nothing", id |-> 0, started |-> FALSE]

TypeOK ==
  /\ enrollments \in [Enrollment -> EnrollmentType]
  /\ lapsed \subseteq Enrollment
  /\ knows \in [Enrollment -> SUBSET Process]
  /\ pairingLock \in [Enrollment -> Process \cup {None}]
  /\ node \in NodeType
  /\ nodeLock \in Process \cup {None}
  /\ at \in [Process -> Doing]
  /\ nextEnrollment \in [Process -> EnrollmentType]
  /\ nextNode \in [Process -> NodeType]
  /\ worker \in [does : {"nothing", "update", "transport"}, id : Nat, started : BOOLEAN]
  /\ issued \in Nat
  /\ wrong \in [Enrollment -> Nat]
  /\ accepted \in [Enrollment -> Nat]
  /\ barred \in Nat

Init ==
  /\ enrollments = [e \in Enrollment |-> NoEnrollment]
  /\ lapsed = {}
  /\ knows = [e \in Enrollment |-> {}]
  /\ pairingLock = [e \in Enrollment |-> None]
  /\ node = NoNode
  /\ nodeLock = None
  /\ at = [p \in Process |-> Idle]
  /\ nextEnrollment = [p \in Process |-> NoEnrollment]
  /\ nextNode = [p \in Process |-> NoNode]
  /\ worker = WorkerIdle
  /\ issued = 0
  /\ wrong = [e \in Enrollment |-> 0]
  /\ accepted = [e \in Enrollment |-> 0]
  /\ barred = 0

-----------------------------------------------------------------------------
(* Pairing, under the flock of the enrollment.                             *)

\* One put.  A code is hashed with a secret drawn when the authority is made, so
\* only its threads, or authorities given the same secret, recognise it.
create_pairing_code(p, e) ==
  /\ "create_pairing_code" \in Handlers
  /\ at[p] = Idle
  /\ enrollments[e].status = "none"
  /\ enrollments' = [enrollments EXCEPT ![e] = [status |-> "issued", failed_attempts |-> 0]]
  /\ \E S \in SUBSET Process : p \in S /\ knows' = [knows EXCEPT ![e] = S]
  /\ UNCHANGED <<lapsed, pairingLock, node, nodeLock, at, nextEnrollment, nextNode,
                 worker, issued, seen>>

\* Fault: the flock is not taken.
PairingLocked_free(p, e) == UNCHANGED pairingLock

PairingLocked(p, e) == pairingLock[e] = None /\ pairingLock' = [pairingLock EXCEPT ![e] = p]

\* The process goes on to write record e, and then, if it accepts, the node.
Answers(p, e, op, record, pending) ==
  /\ at[p] = Idle
  /\ PairingLocked(p, e)
  /\ at' = [at EXCEPT ![p] = [op |-> op, enrollment |-> e, deletes |-> FALSE]]
  /\ nextEnrollment' = [nextEnrollment EXCEPT ![p] = record]
  /\ nextNode' = [nextNode EXCEPT ![p] = pending]
  /\ UNCHANGED <<enrollments, lapsed, knows, node, nodeLock, worker, issued, seen>>

TriesLeft(e) == enrollments[e].failed_attempts < MaxFailures

submit_pairing_late(p, e) ==
  /\ enrollments[e].status = "issued"
  /\ e \in lapsed
  /\ Answers(p, e, "late", [enrollments[e] EXCEPT !.status = "expired"], NoNode)

submit_pairing_limited(p, e) ==
  /\ enrollments[e].status = "issued" /\ e \notin lapsed
  /\ ~TriesLeft(e)
  /\ Answers(p, e, "limited", [enrollments[e] EXCEPT !.status = "rate_limited"], NoNode)

submit_pairing_wrong(p, e) ==
  /\ enrollments[e].status = "issued" /\ e \notin lapsed
  /\ TriesLeft(e)
  /\ Answers(p, e, "wrong", [enrollments[e] EXCEPT !.failed_attempts = @ + 1], NoNode)

submit_pairing_right(p, e) ==
  /\ enrollments[e].status = "issued" /\ e \notin lapsed
  /\ TriesLeft(e)
  /\ p \in knows[e]
  /\ Answers(p, e, "submit_pairing", [enrollments[e] EXCEPT !.status = "pending_approval"],
             [NoNode EXCEPT !.state = "pending_approval", !.code = e])

\* A wrong code, or the right one at a process with another secret, is wrong.
submit_pairing(p, e) ==
  /\ "submit_pairing" \in Handlers
  /\ \/ submit_pairing_late(p, e)
     \/ submit_pairing_limited(p, e)
     \/ submit_pairing_wrong(p, e)
     \/ submit_pairing_right(p, e)

-----------------------------------------------------------------------------
(* Handlers that read the node and put it back.                            *)

\* p has read the node and goes on to write record.  A call another handler has
\* decided to make keeps what is to follow it.
Plans(p, op, record) ==
  /\ at' = [at EXCEPT ![p] = [op |-> op, enrollment |-> None, deletes |-> at[p].deletes]]
  /\ nextNode' = [nextNode EXCEPT ![p] = record]
  /\ UNCHANGED <<store, lapsed, knows, pairingLock, nextEnrollment, seen>>
Writes(p, op, record) == Plans(p, op, record) /\ UNCHANGED <<worker, issued>>

Called(p, op) == op \in Handlers /\ at[p] = Idle /\ node.state # "none"

NodeLocked(p) == nodeLock = None /\ nodeLock' = p
Unlocked == UNCHANGED nodeLock

approve(p, e) ==
  /\ Called(p, "approve")
  /\ node.state = "pending_approval" /\ node.code = e
  /\ NodeLocked(p)
  /\ Writes(p, "approve", [node EXCEPT !.state = "offline", !.approved = TRUE,
                                       !.session_generation = 1])

reject(p) ==
  /\ Called(p, "reject")
  /\ node.state = "pending_approval"
  /\ Unlocked
  /\ Writes(p, "reject", [node EXCEPT !.state = "revoked"])

Revoked(n) == [n EXCEPT !.state = "revoked", !.session_generation = @ + 1]

\* EnrollmentAuthority.revoke, called by the host or by its delete.
revoke(p) ==
  /\ Called(p, "revoke") \/ at[p].op = "delete"
  /\ node.state # "none" /\ node.session_generation < MaxGeneration
  /\ Unlocked
  /\ Writes(p, "revoke", Revoked(node))

\* Fault: the flock of the node is not taken.
revoke_node_unlocked(p) ==
  /\ Called(p, "revoke_node") \/ at[p].op = "delete_node"
  /\ node.state # "none" /\ node.session_generation < MaxGeneration
  /\ Unlocked
  /\ Writes(p, "revoke_node", [Revoked(node) EXCEPT !.draining = TRUE])

\* WorkerCoordinator.revoke_node, as far as the node record goes.
revoke_node(p) ==
  /\ Called(p, "revoke_node") \/ at[p].op = "delete_node"
  /\ node.state # "none" /\ node.session_generation < MaxGeneration
  /\ NodeLocked(p)
  /\ Writes(p, "revoke_node", [Revoked(node) EXCEPT !.draining = TRUE])

\* delete and delete_node revoke first unless the node is revoked already.
Deletes(p, op) ==
  /\ Called(p, op)
  /\ Unlocked
  /\ \/ /\ node.state = "revoked"
        /\ Writes(p, "remove", NoNode)
     \/ /\ node.state # "revoked"
        /\ at' = [at EXCEPT ![p] = [op |-> op, enrollment |-> None, deletes |-> TRUE]]
        /\ UNCHANGED <<store, lapsed, knows, pairingLock, nextEnrollment, nextNode,
                       worker, issued, seen>>

delete(p) == Deletes(p, "delete")
delete_node(p) == Deletes(p, "delete_node")

\* The record is written without reading an older one.
import_approved_node(p, g) ==
  /\ "import_approved_node" \in Handlers /\ at[p] = Idle
  /\ Unlocked
  /\ Writes(p, "import_approved_node",
            [NoNode EXCEPT !.state = "offline", !.approved = TRUE, !.session_generation = g])

\* connect_node lets in a worker of generation g.
Connectable(n, g) ==
  n.state # "none" /\ n.approved /\ n.state # "revoked" /\ n.session_generation = g

connect_node(p, g) ==
  /\ Called(p, "connect_node")
  /\ Connectable(node, g)
  /\ NodeLocked(p)
  /\ \E compatible \in BOOLEAN :
       Writes(p, "connect_node",
              [node EXCEPT !.state = IF ~compatible THEN "incompatible"
                                     ELSE IF node.draining THEN "draining" ELSE "online_idle"])

disconnect_node(p) ==
  /\ Called(p, "disconnect_node") \/ at[p].op = "expire_stale_nodes"
  /\ node.state # "none"
  /\ NodeLocked(p)
  /\ Writes(p, "disconnect_node",
            [node EXCEPT !.state = IF @ \in {"revoked", "incompatible", "pending_approval"}
                                   THEN @ ELSE "offline"])

\* It lists the nodes first and then calls disconnect_node on the stale ones.
expire_stale_nodes(p) ==
  /\ Called(p, "expire_stale_nodes")
  /\ node.state \in Online \cup {"draining"}
  /\ at' = [at EXCEPT ![p] = [op |-> "expire_stale_nodes", enrollment |-> None,
                                deletes |-> FALSE]]
  /\ UNCHANGED <<store, lapsed, knows, pairingLock, nodeLock, nextEnrollment, nextNode,
                 worker, issued, seen>>

heartbeat_node(p) ==
  /\ Called(p, "heartbeat_node")
  /\ node.state # "revoked"
  /\ Unlocked
  /\ \E busy \in BOOLEAN :
       Writes(p, "heartbeat_node",
              [node EXCEPT !.state = IF @ \in {"draining", "incompatible"} THEN @
                                     ELSE IF busy THEN "online_busy" ELSE "online_idle"])

set_draining(p) ==
  /\ Called(p, "set_draining")
  /\ Unlocked
  /\ Writes(p, "set_draining", [node EXCEPT !.draining = TRUE, !.state = "draining"])

set_draining_off(p) ==
  /\ Called(p, "set_draining_off")
  /\ Unlocked
  /\ Writes(p, "set_draining", [node EXCEPT !.draining = FALSE, !.state = "online_idle"])

-----------------------------------------------------------------------------
(* Update and transport directives and the worker that carries them out.   *)

Active(d) == d.status \in {"requested", "started"}

Directed(p, op) ==
  /\ Called(p, op)
  /\ node.state \notin {"revoked", "pending_approval"}
  /\ issued < MaxDirectives /\ issued' = issued + 1
  /\ Unlocked
  /\ UNCHANGED worker

request_node_update(p) ==
  /\ Directed(p, "request_node_update")
  /\ Plans(p, "request_node_update",
           [node EXCEPT !.draining = TRUE, !.state = "draining",
                        !.update = [id |-> issued + 1, status |-> "requested"]])

request_node_transport(p) ==
  /\ Directed(p, "request_node_transport")
  /\ Plans(p, "request_node_transport",
           [node EXCEPT !.transport = [id |-> issued + 1, status |-> "requested"]])

\* A lease request that finds no job answers with the active directives; the
\* worker takes the update first.
fetch_directive(p) ==
  /\ Called(p, "fetch_directive")
  /\ worker = WorkerIdle
  /\ \/ /\ Active(node.update)
        /\ worker' = [does |-> "update", id |-> node.update.id, started |-> FALSE]
     \/ /\ ~Active(node.update) /\ Active(node.transport)
        /\ worker' = [does |-> "transport", id |-> node.transport.id, started |-> FALSE]
  /\ UNCHANGED <<store, lapsed, knows, pairingLock, nodeLock, at, nextEnrollment,
                 nextNode, issued, seen>>

\* The worker says that it started, and then how it ended, of one directive; a
\* report about a directive that was replaced is refused.
Reports(p, what, directive, status) ==
  /\ at[p] = Idle /\ node.state # "none"
  /\ worker.does = what /\ directive.id = worker.id
  /\ \/ ~worker.started /\ status = "started" /\ worker' = [worker EXCEPT !.started = TRUE]
     \/ worker.started /\ status \in {"completed", "failed"} /\ worker' = WorkerIdle
  /\ Unlocked
  /\ UNCHANGED issued

\* Fault: the drain ends when the download starts.
AfterUpdate_early(n, status) ==
  [n EXCEPT !.update.status = status, !.draining = FALSE, !.state = "offline"]

AfterUpdate(n, status) ==
  IF status = "started" THEN [n EXCEPT !.update.status = status]
  ELSE [n EXCEPT !.update.status = status, !.draining = FALSE, !.state = "offline"]

record_node_update(p, status) ==
  /\ Reports(p, "update", node.update, status)
  /\ Plans(p, "record_node_update", AfterUpdate(node, status))

record_node_transport(p, status) ==
  /\ Reports(p, "transport", node.transport, status)
  /\ Plans(p, "record_node_transport", [node EXCEPT !.transport.status = status])

\* The worker's connection breaks, or its report was refused.
WorkerLost ==
  /\ worker # WorkerIdle
  /\ worker' = WorkerIdle
  /\ UNCHANGED <<store, lapsed, knows, pairingLock, nodeLock, at, nextEnrollment,
                 nextNode, issued, seen>>

-----------------------------------------------------------------------------
(* The writes.                                                             *)

\* An accepted submission goes on to write the node and keeps its flock.
PutEnrollment(p) ==
  LET e == at[p].enrollment
      accepts == at[p].op = "submit_pairing"
  IN /\ at[p].op \in {"late", "limited", "wrong", "submit_pairing"}
     /\ enrollments' = [enrollments EXCEPT ![e] = nextEnrollment[p]]
     /\ at' = [at EXCEPT ![p] = IF accepts THEN [@ EXCEPT !.op = "pending_node"] ELSE Idle]
     /\ nextEnrollment' = [nextEnrollment EXCEPT ![p] = NoEnrollment]
     /\ pairingLock' = IF accepts THEN pairingLock ELSE [pairingLock EXCEPT ![e] = None]
     /\ wrong' = IF at[p].op = "wrong" THEN [wrong EXCEPT ![e] = @ + 1] ELSE wrong
     /\ UNCHANGED <<lapsed, knows, node, nodeLock, nextNode, worker, issued, accepted, barred>>

\* The steps of a handler before its write to the node.
BeforeNodeWrite ==
  {"idle", "late", "limited", "wrong", "submit_pairing", "delete", "delete_node",
   "expire_stale_nodes"}

Removing == [op |-> "remove", enrollment |-> None, deletes |-> FALSE]

\* What the host knows once the write is done.
BarredAfter(op) ==
  IF op \in {"approve", "import_approved_node"} THEN 0
  ELSE IF op \in {"revoke", "revoke_node"} /\ node.session_generation > barred
       THEN node.session_generation ELSE barred

PutNode(p) ==
  LET did == at[p]
  IN /\ did.op \notin BeforeNodeWrite
     /\ node' = nextNode[p]
     /\ nextNode' = [nextNode EXCEPT ![p] = NoNode]
     /\ at' = [at EXCEPT ![p] = IF did.deletes THEN Removing ELSE Idle]
     /\ nodeLock' = IF nodeLock = p THEN None ELSE nodeLock
     /\ pairingLock' = [e \in Enrollment |-> IF e = did.enrollment THEN None ELSE pairingLock[e]]
     /\ accepted' = [e \in Enrollment |-> IF e = did.enrollment THEN accepted[e] + 1 ELSE accepted[e]]
     /\ barred' = BarredAfter(did.op)
     /\ UNCHANGED <<enrollments, lapsed, knows, nextEnrollment, worker, issued, wrong>>

\* The node a handler was about to work on is gone: it raises.
Refused(p) ==
  /\ at[p].op \in {"delete", "delete_node", "expire_stale_nodes"} /\ node.state = "none"
  /\ at' = [at EXCEPT ![p] = Idle]
  /\ UNCHANGED <<store, lapsed, knows, pairingLock, nodeLock, nextEnrollment, nextNode,
                 worker, issued, seen>>

\* A process dies before its write; its flocks and its secret go with it, and so
\* does the connection of a worker whose report it was taking.
Crash(p) ==
  /\ at[p] # Idle
  /\ at' = [at EXCEPT ![p] = Idle]
  /\ nextNode' = [nextNode EXCEPT ![p] = NoNode]
  /\ nextEnrollment' = [nextEnrollment EXCEPT ![p] = NoEnrollment]
  /\ nodeLock' = IF nodeLock = p THEN None ELSE nodeLock
  /\ pairingLock' = [e \in Enrollment |-> IF pairingLock[e] = p THEN None ELSE pairingLock[e]]
  /\ knows' = [e \in Enrollment |-> knows[e] \ {p}]
  /\ worker' = IF at[p].op \in {"record_node_update", "record_node_transport"}
               THEN WorkerIdle ELSE worker
  /\ UNCHANGED <<store, lapsed, issued, seen>>

Lapse(e) ==
  /\ enrollments[e].status = "issued" /\ e \notin lapsed
  /\ lapsed' = lapsed \cup {e}
  /\ UNCHANGED <<store, knows, pairingLock, nodeLock, at, nextEnrollment, nextNode,
                 worker, issued, seen>>

Pairing(p) ==
  \E e \in Enrollment : create_pairing_code(p, e) \/ submit_pairing(p, e) \/ approve(p, e)

Hosting(p) ==
  \/ reject(p) \/ revoke(p) \/ revoke_node(p) \/ delete(p) \/ delete_node(p)
  \/ \E g \in 1..MaxGeneration : import_approved_node(p, g) \/ connect_node(p, g)
  \/ disconnect_node(p) \/ expire_stale_nodes(p) \/ heartbeat_node(p)
  \/ set_draining(p) \/ set_draining_off(p)

Directing(p) ==
  \/ request_node_update(p) \/ request_node_transport(p) \/ fetch_directive(p)
  \/ \E s \in {"started", "completed", "failed"} :
       record_node_update(p, s) \/ record_node_transport(p, s)

Next ==
  \/ \E p \in Process : Pairing(p) \/ Hosting(p) \/ Directing(p)
  \/ \E p \in Process : PutEnrollment(p) \/ PutNode(p) \/ Refused(p) \/ Crash(p)
  \/ \E e \in Enrollment : Lapse(e)
  \/ WorkerLost

Spec == Init /\ [][Next]_vars

-----------------------------------------------------------------------------
(* Properties.                                                             *)

\* No enrollment answers more than max_failures wrong codes, however many
\* submissions are made at once and whichever process they reach.
PairingRateLimited == \A e \in Enrollment : wrong[e] <= MaxFailures

\* A pairing code is accepted at most once.
PairingSingleUse == \A e \in Enrollment : accepted[e] <= 1

\* A pairing code can be neither guessed nor shared: few wrong codes are
\* answered and the right one is accepted once, whoever submits at once.
PairingSafe == PairingRateLimited /\ PairingSingleUse

\* A node that is being updated and may be given jobs.
Undrained == Active(node.update) /\ ~node.draining

\* Nothing that connects, disconnects, beats, expires or is requested while a node
\* is updated ends its drain: only the host's set_draining(False) does.
UpdateDrains ==
  [][Undrained' => Undrained \/ \E p \in Process : at[p].op = "set_draining"]_vars

\* After a revocation has returned, no identity that was valid before it connects
\* until the host approves the node again.
RevocationStopsSessions == \A g \in 1..barred : ~Connectable(node, g)
=============================================================================
