------------------------ MODULE NodeRegistryProofs ------------------------
(***************************************************************************)
(* Proofs about NodeRegistry, for any processes, enrollments, handlers and *)
(* bounds.                                                                 *)
(***************************************************************************)
EXTENDS NodeRegistry, TLAPS

\* The steps of submit_pairing that hold the flock of the enrollment.
Answering == {"late", "limited", "wrong", "submit_pairing"}
PairingOps == Answering \cup {"pending_node"}

PairingTypes ==
  /\ enrollments \in [Enrollment -> EnrollmentType]
  /\ pairingLock \in [Enrollment -> Process \cup {None}]
  /\ at \in [Process -> Doing]
  /\ nextEnrollment \in [Process -> EnrollmentType]
  /\ wrong \in [Enrollment -> Nat]
  /\ accepted \in [Enrollment -> Nat]

\* What a process that answers a submission relies on while it holds the flock.
Answer(p, e) ==
  /\ pairingLock[e] = p /\ ~at[p].deletes
  /\ at[p].op \in Answering =>
       enrollments[e].status = "issued" /\ nextEnrollment[p].status # "none"
  /\ at[p].op = "wrong" =>
       /\ nextEnrollment[p].failed_attempts = enrollments[e].failed_attempts + 1
       /\ enrollments[e].failed_attempts < MaxFailures
  /\ at[p].op \in Answering \ {"wrong"} =>
       nextEnrollment[p].failed_attempts = enrollments[e].failed_attempts
  /\ at[p].op = "submit_pairing" => nextEnrollment[p].status = "pending_approval"
  /\ at[p].op = "pending_node" =>
       enrollments[e].status = "pending_approval" /\ accepted[e] = 0

Answered(e) ==
  /\ wrong[e] = enrollments[e].failed_attempts
  /\ wrong[e] <= MaxFailures
  /\ accepted[e] <= 1
  /\ accepted[e] > 0 => enrollments[e].status = "pending_approval"
  /\ enrollments[e].status = "none" => wrong[e] = 0

PairingInv ==
  /\ PairingTypes
  /\ \A p \in Process :
       /\ at[p].op \in PairingOps => at[p].enrollment \in Enrollment
       /\ at[p].op \notin PairingOps => at[p].enrollment = None
  /\ \A p \in Process : at[p].op \in PairingOps => Answer(p, at[p].enrollment)
  /\ \A e \in Enrollment : Answered(e)

\* A process outside submit_pairing goes on to another step outside it.
LEMMA OutsideKeeps ==
  ASSUME PairingInv, NEW p \in Process, NEW d \in Doing,
         at[p].op \notin PairingOps, d.op \notin PairingOps, d.enrollment = None,
         at' = [at EXCEPT ![p] = d],
         UNCHANGED <<enrollments, pairingLock, nextEnrollment, wrong, accepted>>
  PROVE  PairingInv'
<1>1. \A q \in Process : at'[q] = IF q = p THEN d ELSE at[q]
  BY DEF PairingInv, PairingTypes
<1>2. PairingTypes'
  BY DEF PairingInv, PairingTypes
<1>3. \A q \in Process : at'[q].op \in PairingOps => at'[q] = at[q]
  BY <1>1
<1>4. \A q \in Process : at'[q].op \in PairingOps => Answer(q, at[q].enrollment)'
  BY <1>3 DEF PairingInv, Answer
<1>5. \A q \in Process :
        /\ at'[q].op \in PairingOps => at'[q].enrollment \in Enrollment
        /\ at'[q].op \notin PairingOps => at'[q].enrollment = None
  BY <1>1 DEF PairingInv
<1>6. \A e \in Enrollment : Answered(e)'
  BY DEF PairingInv, Answered
<1> QED BY <1>2, <1>3, <1>4, <1>5, <1>6 DEF PairingInv, Answer

\* Every handler that goes on to write the node.
LEMMA PlansOutside ==
  ASSUME PairingInv, NEW p \in Process, NEW op \in Op, NEW record,
         at[p].op \notin PairingOps, op \notin PairingOps, Plans(p, op, record)
  PROVE  PairingInv'
<1> DEFINE d == [op |-> op, enrollment |-> None, deletes |-> at[p].deletes]
<1>1. at[p] \in Doing
  BY DEF PairingInv, PairingTypes
<1>2. d \in Doing /\ d.op = op /\ d.enrollment = None
  BY <1>1 DEF Doing
<1>3. /\ at' = [at EXCEPT ![p] = d]
      /\ UNCHANGED <<enrollments, pairingLock, nextEnrollment, wrong, accepted>>
  BY DEF Plans, store, seen
<1> HIDE DEF d
<1> QED BY <1>2, <1>3, OutsideKeeps

\* Calls come from a process that is outside submit_pairing.
LEMMA IdleOutside == Idle \in Doing /\ Idle.op \notin PairingOps /\ Idle.enrollment = None
BY DEF Idle, Doing, Op, PairingOps, Answering

LEMMA HostingKeeps == ASSUME PairingInv, NEW p \in Process, Hosting(p) PROVE PairingInv'
<1>1. ASSUME NEW op, Called(p, op) PROVE at[p].op \notin PairingOps
  BY <1>1, IdleOutside DEF Called
<1>2. CASE reject(p)
  <2>1. Plans(p, "reject", [node EXCEPT !.state = "revoked"])
    BY <1>2 DEF reject, Writes
  <2> QED BY <1>1, <1>2, <2>1, PlansOutside DEF reject, Op, PairingOps, Answering
<1>3. CASE revoke(p)
  <2>1. Plans(p, "revoke", Revoked(node))
    BY <1>3 DEF revoke, Writes
  <2>2. at[p].op \notin PairingOps
    BY <1>1, <1>3 DEF revoke, PairingOps, Answering
  <2> QED BY <2>1, <2>2, PlansOutside DEF Op, PairingOps, Answering
<1>4. CASE revoke_node(p)
  <2>1. Plans(p, "revoke_node", [Revoked(node) EXCEPT !.draining = TRUE])
    BY <1>4 DEF revoke_node, Writes
  <2>2. at[p].op \notin PairingOps
    BY <1>1, <1>4 DEF revoke_node, PairingOps, Answering
  <2> QED BY <2>1, <2>2, PlansOutside DEF Op, PairingOps, Answering
<1>5. ASSUME NEW op \in {"delete", "delete_node"}, Deletes(p, op) PROVE PairingInv'
  <2>1. at[p].op \notin PairingOps
    BY <1>1, <1>5 DEF Deletes
  <2>2. CASE Writes(p, "remove", NoNode)
    <3>1. Plans(p, "remove", NoNode)
      BY <2>2 DEF Writes
    <3> QED BY <2>1, <3>1, PlansOutside DEF Op, PairingOps, Answering
  <2>3. CASE /\ at' = [at EXCEPT ![p] = [op |-> op, enrollment |-> None, deletes |-> TRUE]]
             /\ UNCHANGED <<store, lapsed, knows, pairingLock, nextEnrollment, nextNode,
                            worker, issued, seen>>
    <3> DEFINE d == [op |-> op, enrollment |-> None, deletes |-> TRUE]
    <3>1. d \in Doing /\ d.op \notin PairingOps /\ d.enrollment = None
      BY DEF Doing, Op, PairingOps, Answering
    <3>2. /\ at' = [at EXCEPT ![p] = d]
          /\ UNCHANGED <<enrollments, pairingLock, nextEnrollment, wrong, accepted>>
      BY <2>3 DEF store, seen
    <3> HIDE DEF d
    <3> QED BY <2>1, <3>1, <3>2, OutsideKeeps
  <2> QED BY <1>5, <2>2, <2>3 DEF Deletes
<1>6. ASSUME NEW g, import_approved_node(p, g) PROVE PairingInv'
  <2>1. at[p].op \notin PairingOps
    BY <1>6, IdleOutside DEF import_approved_node
  <2>2. \E record : Plans(p, "import_approved_node", record)
    BY <1>6 DEF import_approved_node, Writes
  <2> QED BY <2>1, <2>2, PlansOutside DEF Op, PairingOps, Answering
<1>7. ASSUME NEW g, connect_node(p, g) PROVE PairingInv'
  <2>1. \E record : Plans(p, "connect_node", record)
    BY <1>7 DEF connect_node, Writes
  <2> QED BY <1>1, <1>7, <2>1, PlansOutside DEF connect_node, Op, PairingOps, Answering
<1>8. CASE disconnect_node(p)
  <2>1. \E record : Plans(p, "disconnect_node", record)
    BY <1>8 DEF disconnect_node, Writes
  <2>2. at[p].op \notin PairingOps
    BY <1>1, <1>8 DEF disconnect_node, PairingOps, Answering
  <2> QED BY <2>1, <2>2, PlansOutside DEF Op, PairingOps, Answering
<1>9. CASE expire_stale_nodes(p)
  <2> DEFINE d == [op |-> "expire_stale_nodes", enrollment |-> None, deletes |-> FALSE]
  <2>1. d \in Doing /\ d.op \notin PairingOps /\ d.enrollment = None
    BY DEF Doing, Op, PairingOps, Answering
  <2>2. /\ at' = [at EXCEPT ![p] = d]
        /\ UNCHANGED <<enrollments, pairingLock, nextEnrollment, wrong, accepted>>
    BY <1>9 DEF expire_stale_nodes, store, seen
  <2>3. at[p].op \notin PairingOps
    BY <1>1, <1>9 DEF expire_stale_nodes
  <2> HIDE DEF d
  <2> QED BY <2>1, <2>2, <2>3, OutsideKeeps
<1>10. CASE heartbeat_node(p)
  <2>1. \E record : Plans(p, "heartbeat_node", record)
    BY <1>10 DEF heartbeat_node, Writes
  <2> QED BY <1>1, <1>10, <2>1, PlansOutside DEF heartbeat_node, Op, PairingOps, Answering
<1>11. CASE set_draining(p) \/ set_draining_off(p)
  <2>1. \E record : Plans(p, "set_draining", record)
    BY <1>11 DEF set_draining, set_draining_off, Writes
  <2> QED BY <1>1, <1>11, <2>1, PlansOutside DEF Op, set_draining, set_draining_off, PairingOps, Answering
<1> QED BY <1>2, <1>3, <1>4, <1>5, <1>6, <1>7, <1>8, <1>9, <1>10, <1>11
        DEF Hosting, delete, delete_node

LEMMA DirectingKeeps == ASSUME PairingInv, NEW p \in Process, Directing(p) PROVE PairingInv'
<1>1. CASE request_node_update(p) \/ request_node_transport(p)
  <2>1. \E op \in {"request_node_update", "request_node_transport"} : \E record : Plans(p, op, record)
    BY <1>1 DEF request_node_update, request_node_transport
  <2>2. at[p].op \notin PairingOps
    BY <1>1, IdleOutside DEF request_node_update, request_node_transport, Directed, Called
  <2> QED BY <2>1, <2>2, PlansOutside DEF Op, PairingOps, Answering
<1>2. CASE fetch_directive(p)
  <2>1. at[p].op \notin PairingOps /\ at[p] = Idle /\ at \in [Process -> Doing]
    BY <1>2, IdleOutside DEF fetch_directive, Called, PairingInv, PairingTypes
  <2>2. /\ at' = [at EXCEPT ![p] = Idle]
        /\ UNCHANGED <<enrollments, pairingLock, nextEnrollment, wrong, accepted>>
    BY <1>2, <2>1 DEF fetch_directive, store, seen
  <2> QED BY <2>1, <2>2, IdleOutside, OutsideKeeps
<1>3. ASSUME NEW s, record_node_update(p, s) \/ record_node_transport(p, s) PROVE PairingInv'
  <2>1. \E op \in {"record_node_update", "record_node_transport"} : \E record : Plans(p, op, record)
    BY <1>3 DEF record_node_update, record_node_transport
  <2>2. at[p].op \notin PairingOps
    BY <1>3, IdleOutside DEF record_node_update, record_node_transport, Reports
  <2> QED BY <2>1, <2>2, PlansOutside DEF Op, PairingOps, Answering
<1> QED BY <1>1, <1>2, <1>3 DEF Directing


\* A process that takes the flock of e to answer a submission.
LEMMA AnswersKeep ==
  ASSUME PairingInv, NEW p \in Process, NEW e \in Enrollment, NEW op \in Answering,
         NEW record \in EnrollmentType, NEW pending, Answers(p, e, op, record, pending),
         enrollments[e].status = "issued", record.status # "none",
         op = "wrong" => /\ record.failed_attempts = enrollments[e].failed_attempts + 1
                         /\ enrollments[e].failed_attempts < MaxFailures,
         op # "wrong" => record.failed_attempts = enrollments[e].failed_attempts,
         op = "submit_pairing" => record.status = "pending_approval"
  PROVE  PairingInv'
<1> DEFINE d == [op |-> op, enrollment |-> e, deletes |-> FALSE]
<1>1. /\ at' = [at EXCEPT ![p] = d] /\ pairingLock[e] = None
      /\ pairingLock' = [pairingLock EXCEPT ![e] = p]
      /\ nextEnrollment' = [nextEnrollment EXCEPT ![p] = record]
      /\ UNCHANGED <<enrollments, wrong, accepted>>
  BY DEF Answers, PairingLocked, seen
<1>2. d \in Doing /\ d.op = op /\ d.enrollment = e /\ ~d.deletes
  BY DEF Doing, Op, Answering
<1> HIDE DEF d
<1>3. PairingTypes'
  BY <1>1, <1>2 DEF PairingInv, PairingTypes
<1>4. \A q \in Process : /\ q = p => at'[q] = d /\ nextEnrollment'[q] = record
                         /\ q # p => at'[q] = at[q] /\ nextEnrollment'[q] = nextEnrollment[q]
  BY <1>1 DEF PairingInv, PairingTypes
<1>5. \A f \in Enrollment : pairingLock'[f] = IF f = e THEN p ELSE pairingLock[f]
  BY <1>1 DEF PairingInv, PairingTypes
<1>6. \A q \in Process :
        /\ at'[q].op \in PairingOps => at'[q].enrollment \in Enrollment
        /\ at'[q].op \notin PairingOps => at'[q].enrollment = None
  BY <1>2, <1>4 DEF PairingInv, PairingOps
<1>7. ASSUME NEW q \in Process, at'[q].op \in PairingOps
      PROVE  Answer(q, at[q].enrollment)'
  <2>1. CASE q = p
    BY <1>1, <1>2, <1>4, <1>5, <2>1 DEF Answer, Answering
  <2>2. CASE q # p
    <3>1. at'[q] = at[q] /\ nextEnrollment'[q] = nextEnrollment[q]
      BY <1>4, <2>2
    <3>2. Answer(q, at[q].enrollment) /\ at[q].enrollment \in Enrollment
      BY <1>7, <3>1 DEF PairingInv
    <3>3. at[q].enrollment # e
      BY <1>1, <3>2, RegistryNames DEF Answer
    <3> QED BY <1>1, <1>5, <3>1, <3>2, <3>3 DEF Answer
  <2> QED BY <2>1, <2>2
<1>8. \A f \in Enrollment : Answered(f)'
  BY <1>1 DEF PairingInv, Answered
<1> QED BY <1>3, <1>6, <1>7, <1>8 DEF PairingInv

\* The records submit_pairing may write.
LEMMA EnrollmentFields ==
  ASSUME PairingInv, NEW e \in Enrollment
  PROVE  /\ enrollments[e] \in EnrollmentType /\ enrollments[e].failed_attempts \in Nat
         /\ \A s \in {"expired", "rate_limited", "pending_approval"} :
              LET r == [enrollments[e] EXCEPT !.status = s]
              IN  /\ r \in EnrollmentType /\ r.status = s
                  /\ r.failed_attempts = enrollments[e].failed_attempts
         /\ LET r == [enrollments[e] EXCEPT !.failed_attempts = @ + 1]
            IN  /\ r \in EnrollmentType /\ r.status = enrollments[e].status
                /\ r.failed_attempts = enrollments[e].failed_attempts + 1
<1>1. enrollments[e] \in EnrollmentType
  BY DEF PairingInv, PairingTypes
<1>2. enrollments[e].failed_attempts \in Nat /\ enrollments[e].failed_attempts + 1 \in Nat
  BY <1>1 DEF EnrollmentType
<1> QED BY <1>1, <1>2 DEF EnrollmentType

LEMMA SubmitKeeps ==
  ASSUME PairingInv, NEW p \in Process, NEW e \in Enrollment, submit_pairing(p, e)
  PROVE  PairingInv'
<1>1. CASE submit_pairing_late(p, e)
  BY <1>1, EnrollmentFields, AnswersKeep DEF submit_pairing_late, Answering
<1>2. CASE submit_pairing_limited(p, e)
  BY <1>2, EnrollmentFields, AnswersKeep DEF submit_pairing_limited, Answering
<1>3. CASE submit_pairing_wrong(p, e)
  BY <1>3, EnrollmentFields, AnswersKeep DEF submit_pairing_wrong, TriesLeft, Answering
<1>4. CASE submit_pairing_right(p, e)
  BY <1>4, EnrollmentFields, AnswersKeep DEF submit_pairing_right, Answering
<1> QED BY <1>1, <1>2, <1>3, <1>4 DEF submit_pairing


LEMMA CreateKeeps ==
  ASSUME PairingInv, NEW p \in Process, NEW e \in Enrollment, create_pairing_code(p, e)
  PROVE  PairingInv'
<1> DEFINE r == [status |-> "issued", failed_attempts |-> 0]
<1>1. /\ enrollments[e].status = "none" /\ enrollments' = [enrollments EXCEPT ![e] = r]
      /\ UNCHANGED <<pairingLock, at, nextEnrollment, wrong, accepted>>
  BY DEF create_pairing_code, seen
<1>2. r \in EnrollmentType /\ r.failed_attempts = 0 /\ r.status = "issued"
  BY DEF EnrollmentType
<1> HIDE DEF r
<1>3. PairingTypes'
  BY <1>1, <1>2 DEF PairingInv, PairingTypes
<1>4. \A f \in Enrollment : f # e => enrollments'[f] = enrollments[f]
  BY <1>1 DEF PairingInv, PairingTypes
<1>5. ASSUME NEW q \in Process, at[q].op \in PairingOps PROVE Answer(q, at[q].enrollment)'
  <2>1. Answer(q, at[q].enrollment) /\ at[q].enrollment \in Enrollment
    BY <1>5 DEF PairingInv
  <2>2. at[q].enrollment # e
    BY <1>1, <1>5, <2>1 DEF Answer, PairingOps
  <2> QED BY <1>1, <1>4, <2>1, <2>2 DEF Answer
<1>6. ASSUME NEW f \in Enrollment PROVE Answered(f)'
  <2>1. CASE f = e
    <3>1. enrollments'[f] = r
      BY <1>1, <2>1 DEF PairingInv, PairingTypes
    <3> QED BY <1>1, <1>2, <2>1, <3>1, FailuresAssumption DEF PairingInv, Answered
  <2>2. CASE f # e
    BY <1>1, <1>4, <2>2 DEF PairingInv, Answered
  <2> QED BY <2>1, <2>2
<1> QED BY <1>1, <1>3, <1>5, <1>6 DEF PairingInv


LEMMA PutEnrollmentKeeps ==
  ASSUME PairingInv, NEW p \in Process, PutEnrollment(p)
  PROVE  PairingInv'
<1> DEFINE e == at[p].enrollment
           accepts == at[p].op = "submit_pairing"
           d == IF accepts THEN [at[p] EXCEPT !.op = "pending_node"] ELSE Idle
<1>0. at[p] \in Doing /\ at[p].op \in Answering /\ at[p].op \in PairingOps
  BY DEF PutEnrollment, PairingInv, PairingTypes, Answering, PairingOps
<1>1. e \in Enrollment /\ Answer(p, e) /\ Answered(e)
  BY <1>0 DEF PairingInv
<1>2. /\ enrollments' = [enrollments EXCEPT ![e] = nextEnrollment[p]]
      /\ at' = [at EXCEPT ![p] = d]
      /\ nextEnrollment' = [nextEnrollment EXCEPT ![p] = NoEnrollment]
      /\ pairingLock' = IF accepts THEN pairingLock ELSE [pairingLock EXCEPT ![e] = None]
      /\ wrong' = IF at[p].op = "wrong" THEN [wrong EXCEPT ![e] = wrong[e] + 1] ELSE wrong
      /\ accepted' = accepted
  BY DEF PutEnrollment
<1>3. /\ d \in Doing
      /\ accepts => d.op = "pending_node" /\ d.enrollment = e /\ d.deletes = at[p].deletes
      /\ ~accepts => d = Idle
  <2>1. CASE accepts
    BY <1>0, <2>1 DEF Doing, Op
  <2>2. CASE ~accepts
    BY <2>2, IdleOutside
  <2> QED BY <2>1, <2>2
<1>4. NoEnrollment \in EnrollmentType
  BY DEF NoEnrollment, EnrollmentType
<1>5. /\ enrollments \in [Enrollment -> EnrollmentType] /\ at \in [Process -> Doing]
      /\ pairingLock \in [Enrollment -> Process \cup {None}]
      /\ nextEnrollment \in [Process -> EnrollmentType]
      /\ wrong \in [Enrollment -> Nat] /\ accepted \in [Enrollment -> Nat]
  BY DEF PairingInv, PairingTypes
<1> HIDE DEF d, e
<1>6. PairingTypes'
  <2>1. wrong' \in [Enrollment -> Nat]
    BY <1>1, <1>2, <1>5
  <2> QED BY <1>1, <1>2, <1>3, <1>4, <1>5, <2>1 DEF PairingTypes
<1>7. \A q \in Process : /\ q = p => at'[q] = d
                         /\ q # p => at'[q] = at[q] /\ nextEnrollment'[q] = nextEnrollment[q]
  BY <1>2, <1>5
<1>8. \A f \in Enrollment :
        /\ f = e => enrollments'[f] = nextEnrollment[p]
        /\ f # e => /\ enrollments'[f] = enrollments[f] /\ wrong'[f] = wrong[f]
                    /\ pairingLock'[f] = pairingLock[f]
  BY <1>2, <1>5
<1>9. \A q \in Process :
        /\ at'[q].op \in PairingOps => at'[q].enrollment \in Enrollment
        /\ at'[q].op \notin PairingOps => at'[q].enrollment = None
  BY <1>1, <1>3, <1>7, IdleOutside DEF PairingInv, PairingOps
<1>10. ASSUME NEW q \in Process, at'[q].op \in PairingOps
       PROVE  Answer(q, at[q].enrollment)'
  <2>1. CASE q = p
    <3>1. accepts /\ at'[q] = d
      BY <1>3, <1>7, <1>10, <2>1, IdleOutside
    <3>2. enrollments'[e].status = "pending_approval" /\ pairingLock'[e] = p /\ accepted[e] = 0
      <4>1. enrollments[e].status = "issued" /\ nextEnrollment[p].status = "pending_approval"
        BY <1>1, <3>1 DEF Answer, Answering
      <4>2. accepted[e] = 0
        BY <1>1, <1>5, <4>1 DEF Answered
      <4> QED BY <1>1, <1>2, <1>8, <3>1, <4>1, <4>2 DEF Answer
    <3>3. ~at'[q].deletes
      BY <1>1, <1>3, <3>1 DEF Answer
    <3>4. at'[q].op = "pending_node" /\ at'[q].enrollment = e
      BY <1>3, <3>1
    <3> QED BY <1>2, <2>1, <3>2, <3>3, <3>4 DEF Answer, Answering, e
  <2>2. CASE q # p
    <3>1. at'[q] = at[q] /\ nextEnrollment'[q] = nextEnrollment[q]
      BY <1>7, <2>2
    <3>2. Answer(q, at[q].enrollment) /\ at[q].enrollment \in Enrollment
      BY <1>10, <3>1 DEF PairingInv
    <3>3. at[q].enrollment # e
      BY <1>1, <2>2, <3>2 DEF Answer
    <3> QED BY <1>2, <1>8, <3>1, <3>2, <3>3 DEF Answer
  <2> QED BY <2>1, <2>2
<1>11. ASSUME NEW f \in Enrollment PROVE Answered(f)'
  <2>1. CASE f = e
    <3>1. enrollments[e].status = "issued" /\ nextEnrollment[p].status # "none"
      BY <1>0, <1>1 DEF Answer
    <3>2. accepted[e] = 0
      BY <1>1, <1>5, <3>1 DEF Answered
    <3>3. CASE at[p].op = "wrong"
      <4>1. /\ wrong'[e] = wrong[e] + 1
            /\ nextEnrollment[p].failed_attempts = enrollments[e].failed_attempts + 1
            /\ enrollments[e].failed_attempts < MaxFailures
        BY <1>1, <1>2, <1>5, <3>3 DEF Answer
      <4>2. wrong[e] \in Nat /\ wrong[e] = enrollments[e].failed_attempts
        BY <1>1, <1>5 DEF Answered
      <4> QED BY <1>2, <1>8, <2>1, <3>1, <3>2, <4>1, <4>2, FailuresAssumption DEF Answered
    <3>4. CASE at[p].op # "wrong"
      <4>1. wrong' = wrong /\ nextEnrollment[p].failed_attempts = enrollments[e].failed_attempts
        BY <1>0, <1>1, <1>2, <3>4 DEF Answer
      <4> QED BY <1>1, <1>2, <1>8, <2>1, <3>1, <3>2, <4>1 DEF Answered
    <3> QED BY <3>3, <3>4
  <2>2. CASE f # e
    BY <1>2, <1>8, <2>2 DEF PairingInv, Answered
  <2> QED BY <2>1, <2>2
<1> QED BY <1>6, <1>9, <1>10, <1>11 DEF PairingInv


Leaves(p) ==
  /\ at' = [at EXCEPT ![p] = Idle]
  /\ nextEnrollment' \in [Process -> EnrollmentType]
  /\ \A q \in Process : q # p => nextEnrollment'[q] = nextEnrollment[q]
  /\ pairingLock' \in [Enrollment -> Process \cup {None}]
  /\ \A e \in Enrollment :
       e # at[p].enrollment /\ pairingLock[e] # p => pairingLock'[e] = pairingLock[e]
  /\ UNCHANGED <<enrollments, wrong>>
  /\ accepted' \in [Enrollment -> Nat]
  /\ \A e \in Enrollment :
       \/ accepted'[e] = accepted[e]
       \/ e = at[p].enrollment /\ at[p].op = "pending_node" /\ accepted'[e] = accepted[e] + 1

\* A process that leaves submit_pairing and drops its flock, with or without an
\* answer.
LEMMA LeaveKeeps ==
  ASSUME PairingInv, NEW p \in Process, at[p].op \in PairingOps, Leaves(p)
  PROVE  PairingInv'
<1> USE DEF Leaves
<1> DEFINE mine == at[p].enrollment
<1>1. mine \in Enrollment /\ Answer(p, mine)
  BY DEF PairingInv
<1>2. \A q \in Process : at'[q] = IF q = p THEN Idle ELSE at[q]
  BY DEF PairingInv, PairingTypes
<1>3. PairingTypes'
  BY IdleOutside DEF PairingInv, PairingTypes
<1>4. \A q \in Process :
        /\ at'[q].op \in PairingOps => at'[q].enrollment \in Enrollment
        /\ at'[q].op \notin PairingOps => at'[q].enrollment = None
  BY <1>2, IdleOutside DEF PairingInv
<1>5. ASSUME NEW q \in Process, at'[q].op \in PairingOps PROVE Answer(q, at[q].enrollment)'
  <2>1. q # p /\ at'[q] = at[q] /\ nextEnrollment'[q] = nextEnrollment[q]
    BY <1>2, <1>5, IdleOutside
  <2>2. Answer(q, at[q].enrollment) /\ at[q].enrollment \in Enrollment
    BY <1>5, <2>1 DEF PairingInv
  <2>3. at[q].enrollment # mine
    BY <1>1, <2>1, <2>2 DEF Answer
  <2>4. pairingLock'[at[q].enrollment] = q
    BY <2>1, <2>2, <2>3 DEF Answer
  <2>5. accepted'[at[q].enrollment] = accepted[at[q].enrollment]
    BY <2>2, <2>3
  <2> QED BY <2>1, <2>2, <2>4, <2>5 DEF Answer
<1>6. ASSUME NEW e \in Enrollment PROVE Answered(e)'
  <2>1. CASE accepted'[e] = accepted[e]
    BY <2>1 DEF PairingInv, Answered
  <2>2. CASE e = mine /\ at[p].op = "pending_node" /\ accepted'[e] = accepted[e] + 1
    <3>1. enrollments[e].status = "pending_approval" /\ accepted[e] = 0
      BY <1>1, <2>2 DEF Answer
    <3> QED BY <2>2, <3>1 DEF PairingInv, Answered
  <2> QED BY <2>1, <2>2
<1> QED BY <1>3, <1>4, <1>5, <1>6 DEF PairingInv

LEMMA PutNodeKeeps == ASSUME PairingInv, NEW p \in Process, PutNode(p) PROVE PairingInv'
<1>0. /\ enrollments \in [Enrollment -> EnrollmentType] /\ at \in [Process -> Doing]
      /\ pairingLock \in [Enrollment -> Process \cup {None}]
      /\ nextEnrollment \in [Process -> EnrollmentType]
      /\ wrong \in [Enrollment -> Nat] /\ accepted \in [Enrollment -> Nat]
  BY DEF PairingInv, PairingTypes
<1>1. /\ at[p].op \notin BeforeNodeWrite
      /\ at' = [at EXCEPT ![p] = IF at[p].deletes THEN Removing ELSE Idle]
      /\ pairingLock' = [e \in Enrollment |-> IF e = at[p].enrollment THEN None ELSE pairingLock[e]]
      /\ accepted' = [e \in Enrollment |-> IF e = at[p].enrollment THEN accepted[e] + 1 ELSE accepted[e]]
      /\ UNCHANGED <<enrollments, nextEnrollment, wrong>>
  BY DEF PutNode
<1>2. CASE at[p].op \in PairingOps
  <2>1. at[p].op = "pending_node"
    BY <1>1, <1>2 DEF PairingOps, Answering, BeforeNodeWrite
  <2>2. ~at[p].deletes
    BY <1>2 DEF PairingInv, Answer
  <2>3. at' = [at EXCEPT ![p] = Idle]
    BY <1>1, <2>2
  <2>4. \A e \in Enrollment : accepted[e] + 1 \in Nat
    BY <1>0
  <2>5. accepted' \in [Enrollment -> Nat] /\ pairingLock' \in [Enrollment -> Process \cup {None}]
    BY <1>0, <1>1, <2>4
  <2>6. \A e \in Enrollment :
          /\ pairingLock'[e] = pairingLock[e] \/ e = at[p].enrollment
          /\ \/ accepted'[e] = accepted[e]
             \/ e = at[p].enrollment /\ accepted'[e] = accepted[e] + 1
    BY <1>1
  <2> QED BY <1>0, <1>1, <1>2, <2>1, <2>3, <2>5, <2>6, LeaveKeeps DEF Leaves
<1>3. CASE at[p].op \notin PairingOps
  <2> DEFINE d == IF at[p].deletes THEN Removing ELSE Idle
  <2>1. d \in Doing /\ d.op \notin PairingOps /\ d.enrollment = None
    BY IdleOutside DEF Removing, Doing, Op, PairingOps, Answering
  <2>2. at[p].enrollment = None
    BY <1>3 DEF PairingInv
  <2>3. pairingLock' = pairingLock /\ accepted' = accepted
    BY <1>0, <1>1, <2>2, RegistryNames
  <2> HIDE DEF d
  <2> QED BY <1>1, <1>3, <2>1, <2>3, OutsideKeeps DEF d
<1> QED BY <1>2, <1>3

LEMMA CrashKeeps == ASSUME PairingInv, NEW p \in Process, Crash(p) PROVE PairingInv'
<1>0. /\ at \in [Process -> Doing] /\ pairingLock \in [Enrollment -> Process \cup {None}]
      /\ nextEnrollment \in [Process -> EnrollmentType] /\ accepted \in [Enrollment -> Nat]
  BY DEF PairingInv, PairingTypes
<1>1. /\ at' = [at EXCEPT ![p] = Idle]
      /\ nextEnrollment' = [nextEnrollment EXCEPT ![p] = NoEnrollment]
      /\ pairingLock' = [e \in Enrollment |-> IF pairingLock[e] = p THEN None ELSE pairingLock[e]]
      /\ UNCHANGED <<enrollments, wrong, accepted>>
  BY DEF Crash, store, seen
<1>2. NoEnrollment \in EnrollmentType
  BY DEF NoEnrollment, EnrollmentType
<1>3. CASE at[p].op \in PairingOps
  <2>1. /\ nextEnrollment' \in [Process -> EnrollmentType]
        /\ pairingLock' \in [Enrollment -> Process \cup {None}]
        /\ accepted' \in [Enrollment -> Nat]
    BY <1>0, <1>1, <1>2
  <2>2. \A q \in Process : q # p => nextEnrollment'[q] = nextEnrollment[q]
    BY <1>0, <1>1
  <2>3. \A e \in Enrollment : pairingLock[e] \in Process \ {p} => pairingLock'[e] = pairingLock[e]
    BY <1>1
  <2> QED BY <1>1, <1>3, <2>1, <2>2, <2>3, LeaveKeeps DEF Leaves
<1>4. CASE at[p].op \notin PairingOps
  <2>1. \A q \in Process : q # p => at'[q] = at[q] /\ nextEnrollment'[q] = nextEnrollment[q]
    BY <1>0, <1>1
  <2>2. at'[p] = Idle
    BY <1>0, <1>1
  <2>3. PairingTypes'
    BY <1>0, <1>1, <1>2, IdleOutside DEF PairingInv, PairingTypes
  <2>4. ASSUME NEW q \in Process, at'[q].op \in PairingOps PROVE Answer(q, at[q].enrollment)'
    <3>1. q # p /\ at'[q] = at[q] /\ nextEnrollment'[q] = nextEnrollment[q]
      BY <2>1, <2>2, <2>4, IdleOutside
    <3>2. Answer(q, at[q].enrollment) /\ at[q].enrollment \in Enrollment
      BY <2>4, <3>1 DEF PairingInv
    <3>3. pairingLock'[at[q].enrollment] = q
      BY <1>1, <3>1, <3>2 DEF Answer
    <3> QED BY <1>1, <3>1, <3>2, <3>3 DEF Answer
  <2>5. \A e \in Enrollment : Answered(e)'
    BY <1>1 DEF PairingInv, Answered
  <2>6. \A q \in Process :
          /\ at'[q].op \in PairingOps => at'[q].enrollment \in Enrollment
          /\ at'[q].op \notin PairingOps => at'[q].enrollment = None
    BY <2>1, <2>2, IdleOutside DEF PairingInv
  <2> QED BY <2>3, <2>4, <2>5, <2>6 DEF PairingInv
<1> QED BY <1>3, <1>4

\* Steps that do not touch what the invariant is about.
LEMMA StutterKeeps ==
  ASSUME PairingInv, UNCHANGED <<enrollments, pairingLock, at, nextEnrollment, wrong, accepted>>
  PROVE  PairingInv'
BY DEF PairingInv, PairingTypes, Answer, Answered

LEMMA PairingStep == ASSUME PairingInv, [Next]_vars PROVE PairingInv'
<1>1. ASSUME NEW p \in Process, Pairing(p) PROVE PairingInv'
  <2>1. ASSUME NEW e \in Enrollment, approve(p, e) PROVE PairingInv'
    <3>1. \E record : Plans(p, "approve", record)
      BY <2>1 DEF approve, Writes
    <3>2. at[p].op \notin PairingOps
      BY <2>1, IdleOutside DEF approve, Called
    <3> QED BY <3>1, <3>2, PlansOutside DEF Op, PairingOps, Answering
  <2> QED BY <1>1, <2>1, CreateKeeps, SubmitKeeps DEF Pairing
<1>2. ASSUME NEW p \in Process, Refused(p) PROVE PairingInv'
  <2>1. /\ at[p].op \notin PairingOps /\ at' = [at EXCEPT ![p] = Idle]
        /\ UNCHANGED <<enrollments, pairingLock, nextEnrollment, wrong, accepted>>
    BY <1>2 DEF Refused, PairingOps, Answering, store, seen
  <2> QED BY <2>1, IdleOutside, OutsideKeeps
<1>3. CASE (\E e \in Enrollment : Lapse(e)) \/ WorkerLost \/ UNCHANGED vars
  BY <1>3, StutterKeeps DEF Lapse, WorkerLost, vars, store, seen
<1> QED BY <1>1, <1>2, <1>3, HostingKeeps, DirectingKeeps, PutEnrollmentKeeps, PutNodeKeeps,
           CrashKeeps DEF Next

LEMMA PairingInit == ASSUME Init PROVE PairingInv
<1>1. NoEnrollment \in EnrollmentType /\ NoEnrollment.failed_attempts = 0
  BY DEF NoEnrollment, EnrollmentType
<1>2. PairingTypes
  BY <1>1, IdleOutside DEF Init, PairingTypes
<1>3. \A e \in Enrollment : Answered(e)
  BY <1>1, FailuresAssumption DEF Init, Answered
<1> QED BY <1>2, <1>3, IdleOutside DEF Init, PairingInv

\* Whatever processes submit at once, crash or come late, an enrollment answers
\* at most max_failures wrong codes and accepts the right one at most once.
THEOREM PairingCorrect == Spec => []PairingSafe
<1>1. Init => PairingInv
  BY PairingInit
<1>2. PairingInv /\ [Next]_vars => PairingInv'
  BY PairingStep
<1>3. PairingInv => PairingSafe
  BY DEF PairingInv, Answered, PairingSafe, PairingRateLimited, PairingSingleUse
<1> QED BY <1>1, <1>2, <1>3, PTL DEF Spec


-----------------------------------------------------------------------------
(* Types.                                                                  *)

NodeTypes ==
  /\ lapsed \subseteq Enrollment
  /\ knows \in [Enrollment -> SUBSET Process]
  /\ node \in NodeType
  /\ nodeLock \in Process \cup {None}
  /\ nextNode \in [Process -> NodeType]
  /\ worker \in [does : {"nothing", "update", "transport"}, id : Nat, started : BOOLEAN]
  /\ issued \in Nat
  /\ barred \in Nat

LEMMA NoNodeType == NoNode \in NodeType /\ NoDirective \in Directive
<1>1. NoDirective \in Directive
  BY DEF NoDirective, Directive
<1> QED BY <1>1 DEF NoNode, NodeType, NodeState

\* A handler that plans to write a record of the right type.
LEMMA PlansTypes ==
  ASSUME NodeTypes, NEW p \in Process, NEW op, NEW record \in NodeType, Plans(p, op, record),
         nodeLock' \in Process \cup {None}, issued' \in Nat,
         worker' \in [does : {"nothing", "update", "transport"}, id : Nat, started : BOOLEAN]
  PROVE  NodeTypes'
<1>1. nextNode' \in [Process -> NodeType]
  BY DEF Plans, NodeTypes
<1> QED BY <1>1 DEF Plans, NodeTypes, store, seen

LEMMA WritesTypes ==
  ASSUME NodeTypes, NEW p \in Process, NEW op, NEW record \in NodeType, Writes(p, op, record),
         NodeLocked(p) \/ Unlocked
  PROVE  NodeTypes'
<1>1. nodeLock' \in Process \cup {None} /\ issued' \in Nat
  BY DEF NodeLocked, Unlocked, Writes, NodeTypes
<1>2. worker' \in [does : {"nothing", "update", "transport"}, id : Nat, started : BOOLEAN]
  BY DEF Writes, NodeTypes
<1> QED BY <1>1, <1>2, PlansTypes DEF Writes

\* The records the handlers make of the one they read.
LEMMA NodeRecords ==
  ASSUME NEW n \in NodeType
  PROVE  /\ \A s \in NodeState : [n EXCEPT !.state = s] \in NodeType
         /\ \A g \in Nat : [n EXCEPT !.state = "offline", !.approved = TRUE,
                                    !.session_generation = g] \in NodeType
         /\ Revoked(n) \in NodeType
         /\ [Revoked(n) EXCEPT !.draining = TRUE] \in NodeType
         /\ \A b \in BOOLEAN, s \in NodeState : [n EXCEPT !.draining = b, !.state = s] \in NodeType
<1>1. n.session_generation + 1 \in Nat
  BY DEF NodeType
<1>2. Revoked(n) \in NodeType
  BY <1>1 DEF Revoked, NodeType, NodeState
<1> QED BY <1>2 DEF NodeType, NodeState

LEMMA HostingTypes == ASSUME NodeTypes, NEW p \in Process, Hosting(p) PROVE NodeTypes'
<1>0. node \in NodeType /\ node.state \in NodeState
  BY DEF NodeTypes, NodeType
<1>1. CASE reject(p) \/ revoke(p) \/ revoke_node(p)
  BY <1>0, <1>1, NodeRecords, WritesTypes DEF reject, revoke, revoke_node, NodeState
<1>2. ASSUME NEW op, Deletes(p, op) PROVE NodeTypes'
  <2>1. CASE Writes(p, "remove", NoNode)
    BY <1>2, <2>1, NoNodeType, WritesTypes DEF Deletes
  <2>2. CASE UNCHANGED <<store, lapsed, knows, pairingLock, nextEnrollment, nextNode,
                         worker, issued, seen>>
    BY <1>2, <2>2 DEF Deletes, Unlocked, NodeTypes, store, seen
  <2> QED BY <1>2, <2>1, <2>2 DEF Deletes
<1>3. ASSUME NEW g \in 1..MaxGeneration, import_approved_node(p, g) PROVE NodeTypes'
  <2>1. g \in Nat
    BY <1>3, RegistryBounds
  <2> QED BY <1>3, <2>1, NoNodeType, NodeRecords, WritesTypes DEF import_approved_node
<1>4. ASSUME NEW g, connect_node(p, g) PROVE NodeTypes'
  <2>1. \E s \in NodeState : Writes(p, "connect_node", [node EXCEPT !.state = s])
    BY <1>4 DEF connect_node, NodeState, Online
  <2> QED BY <1>0, <1>4, <2>1, NodeRecords, WritesTypes DEF connect_node
<1>5. CASE disconnect_node(p)
  <2>1. \E s \in NodeState : Writes(p, "disconnect_node", [node EXCEPT !.state = s])
    BY <1>0, <1>5 DEF disconnect_node, NodeState
  <2> QED BY <1>0, <1>5, <2>1, NodeRecords, WritesTypes DEF disconnect_node
<1>6. CASE expire_stale_nodes(p)
  BY <1>6 DEF expire_stale_nodes, NodeTypes, store, seen
<1>7. CASE heartbeat_node(p)
  <2>1. \E s \in NodeState : Writes(p, "heartbeat_node", [node EXCEPT !.state = s])
    BY <1>0, <1>7 DEF heartbeat_node, NodeState, Online
  <2> QED BY <1>0, <1>7, <2>1, NodeRecords, WritesTypes DEF heartbeat_node
<1>8. CASE set_draining(p) \/ set_draining_off(p)
  BY <1>0, <1>8, NodeRecords, WritesTypes DEF set_draining, set_draining_off, NodeState, Online
<1> QED BY <1>1, <1>2, <1>3, <1>4, <1>5, <1>6, <1>7, <1>8 DEF Hosting, delete, delete_node

LEMMA DirectingTypes == ASSUME NodeTypes, NEW p \in Process, Directing(p) PROVE NodeTypes'
<1> DEFINE Worker == [does : {"nothing", "update", "transport"}, id : Nat, started : BOOLEAN]
<1>0. /\ node \in NodeType /\ node.update \in Directive /\ node.transport \in Directive
      /\ issued \in Nat /\ issued + 1 \in Nat /\ worker \in Worker
  BY DEF NodeTypes, NodeType
<1>1. WorkerIdle \in Worker
  BY DEF WorkerIdle
<1>2. CASE request_node_update(p)
  <2>1. [id |-> issued + 1, status |-> "requested"] \in Directive
    BY <1>0 DEF Directive
  <2>2. [node EXCEPT !.draining = TRUE, !.state = "draining",
                     !.update = [id |-> issued + 1, status |-> "requested"]] \in NodeType
    BY <1>0, <2>1 DEF NodeType, NodeState
  <2>3. nodeLock' \in Process \cup {None} /\ issued' \in Nat /\ worker' \in Worker
    BY <1>0, <1>2 DEF request_node_update, Directed, Unlocked, NodeTypes
  <2> QED BY <1>2, <2>2, <2>3, PlansTypes DEF request_node_update
<1>3. CASE request_node_transport(p)
  <2>1. [id |-> issued + 1, status |-> "requested"] \in Directive
    BY <1>0 DEF Directive
  <2>2. [node EXCEPT !.transport = [id |-> issued + 1, status |-> "requested"]] \in NodeType
    BY <1>0, <2>1 DEF NodeType
  <2>3. nodeLock' \in Process \cup {None} /\ issued' \in Nat /\ worker' \in Worker
    BY <1>0, <1>3 DEF request_node_transport, Directed, Unlocked, NodeTypes
  <2> QED BY <1>3, <2>2, <2>3, PlansTypes DEF request_node_transport
<1>4. CASE fetch_directive(p)
  <2>0. node.update.id \in Nat /\ node.transport.id \in Nat
    BY <1>0 DEF Directive
  <2>1. worker' \in Worker
    <3>1. \A w \in {"update", "transport"}, i \in Nat :
            [does |-> w, id |-> i, started |-> FALSE] \in Worker
      OBVIOUS
    <3>2. \/ worker' = [does |-> "update", id |-> node.update.id, started |-> FALSE]
          \/ worker' = [does |-> "transport", id |-> node.transport.id, started |-> FALSE]
      BY <1>4 DEF fetch_directive
    <3> QED BY <2>0, <3>1, <3>2
  <2> QED BY <1>4, <2>1 DEF fetch_directive, NodeTypes, store, seen
<1>5. ASSUME NEW s \in {"started", "completed", "failed"},
             record_node_update(p, s) \/ record_node_transport(p, s)
      PROVE  NodeTypes'
  <2>1. [node.update EXCEPT !.status = s] \in Directive /\ [node.transport EXCEPT !.status = s] \in Directive
    BY <1>0 DEF Directive
  <2>2. AfterUpdate(node, s) \in NodeType /\ [node EXCEPT !.transport.status = s] \in NodeType
    BY <1>0, <2>1 DEF AfterUpdate, NodeType, NodeState
  <2>3. nodeLock' \in Process \cup {None} /\ issued' \in Nat
    BY <1>0, <1>5 DEF record_node_update, record_node_transport, Reports, Unlocked, NodeTypes
  <2>4. worker' \in Worker
    BY <1>0, <1>1, <1>5 DEF record_node_update, record_node_transport, Reports
  <2> QED BY <1>5, <2>2, <2>3, <2>4, PlansTypes DEF record_node_update, record_node_transport
<1> QED BY <1>2, <1>3, <1>4, <1>5 DEF Directing

LEMMA PairingPartTypes == ASSUME NodeTypes, NEW p \in Process, Pairing(p) PROVE NodeTypes'
<1>1. ASSUME NEW e \in Enrollment, create_pairing_code(p, e) PROVE NodeTypes'
  BY <1>1 DEF create_pairing_code, NodeTypes, seen
<1>2. ASSUME NEW e \in Enrollment, submit_pairing(p, e) PROVE NodeTypes'
  <2>1. [NoNode EXCEPT !.state = "pending_approval", !.code = e] \in NodeType
    BY NoNodeType DEF NodeType, NodeState
  <2>2. \E op, record : \E pending \in NodeType : Answers(p, e, op, record, pending)
    BY <1>2, <2>1, NoNodeType DEF submit_pairing, submit_pairing_late, submit_pairing_limited,
       submit_pairing_wrong, submit_pairing_right
  <2> QED BY <2>2 DEF Answers, NodeTypes, seen
<1>3. ASSUME NEW e \in Enrollment, approve(p, e) PROVE NodeTypes'
  BY <1>3, NodeRecords, WritesTypes DEF approve, NodeTypes
<1> QED BY <1>1, <1>2, <1>3 DEF Pairing

LEMMA NodeTypesStep == ASSUME NodeTypes, [Next]_vars PROVE NodeTypes'
<1>1. ASSUME NEW p \in Process, PutEnrollment(p) \/ Refused(p) PROVE NodeTypes'
  BY <1>1 DEF PutEnrollment, Refused, NodeTypes, store, seen
<1>2. ASSUME NEW p \in Process, PutNode(p) PROVE NodeTypes'
  <2>1. nextNode[p] \in NodeType /\ node.session_generation \in Nat
    BY DEF NodeTypes, NodeType
  <2>2. barred' \in Nat
    BY <1>2, <2>1 DEF PutNode, BarredAfter, NodeTypes
  <2>3. nextNode' \in [Process -> NodeType] /\ node' \in NodeType
    BY <1>2, <2>1, NoNodeType DEF PutNode, NodeTypes
  <2> QED BY <1>2, <2>2, <2>3 DEF PutNode, NodeTypes
<1>3. ASSUME NEW p \in Process, Crash(p) PROVE NodeTypes'
  <2>1. nextNode' \in [Process -> NodeType]
    BY <1>3, NoNodeType DEF Crash, NodeTypes
  <2>0. WorkerIdle \in [does : {"nothing", "update", "transport"}, id : Nat, started : BOOLEAN]
    BY DEF WorkerIdle
  <2>2. worker' \in [does : {"nothing", "update", "transport"}, id : Nat, started : BOOLEAN]
    BY <1>3, <2>0 DEF Crash, NodeTypes
  <2>3. knows' \in [Enrollment -> SUBSET Process]
    BY <1>3 DEF Crash, NodeTypes
  <2> QED BY <1>3, <2>1, <2>2, <2>3 DEF Crash, NodeTypes, store, seen
<1>4. CASE WorkerLost
  BY <1>4 DEF WorkerLost, WorkerIdle, NodeTypes, store, seen
<1>5. CASE (\E e \in Enrollment : Lapse(e)) \/ UNCHANGED vars
  BY <1>5 DEF Lapse, vars, NodeTypes, store, seen
<1> QED BY <1>1, <1>2, <1>3, <1>4, <1>5, HostingTypes, DirectingTypes, PairingPartTypes DEF Next

LEMMA NodeTypesInit == ASSUME Init PROVE NodeTypes
<1>1. WorkerIdle \in [does : {"nothing", "update", "transport"}, id : Nat, started : BOOLEAN]
  BY DEF WorkerIdle
<1> QED BY <1>1, NoNodeType DEF Init, NodeTypes

\* Records, locks and histories keep their types.
THEOREM TypeCorrect == Spec => []TypeOK
<1>1. Init => PairingInv /\ NodeTypes
  BY PairingInit, NodeTypesInit
<1>2. PairingInv /\ NodeTypes /\ [Next]_vars => (PairingInv /\ NodeTypes)'
  BY PairingStep, NodeTypesStep
<1>3. PairingInv /\ NodeTypes => TypeOK
  BY DEF PairingInv, PairingTypes, NodeTypes, TypeOK
<1> QED BY <1>1, <1>2, <1>3, PTL DEF Spec


-----------------------------------------------------------------------------
(* Revocation, when every handler that puts a node back takes its flock.   *)

LockedHandlers ==
  {"create_pairing_code", "submit_pairing", "approve", "revoke_node", "delete_node",
   "import_approved_node", "connect_node", "disconnect_node", "expire_stale_nodes"}

\* Handlers that hold the flock of the node from their read to their write.
Holders == {"approve", "revoke_node", "connect_node", "disconnect_node"}
\* Handlers whose write admits nobody.
Closers == {"submit_pairing", "pending_node", "revoke_node", "remove"}
LockedOps ==
  {"idle", "late", "limited", "wrong", "delete_node", "import_approved_node",
   "expire_stale_nodes"} \cup Holders \cup Closers

Admits(n) == \E g \in 1..barred : Connectable(n, g)

\* No record that is in the store, or on its way to it, admits a barred
\* generation, except where its writer ends the bar.
RevocationInv ==
  /\ node \in NodeType /\ nextNode \in [Process -> NodeType] /\ at \in [Process -> Doing]
  /\ barred \in Nat
  /\ worker = WorkerIdle
  /\ ~Admits(node)
  /\ \A p \in Process :
       /\ at[p].op \in LockedOps
       /\ at[p].op \in Holders => nodeLock = p
       /\ at[p].op \in {"connect_node", "disconnect_node"} => ~Admits(nextNode[p])
       /\ at[p].op \in Closers => \A g : ~Connectable(nextNode[p], g)

\* A handler that reads the node and plans its write.
LEMMA PlansRevocation ==
  ASSUME RevocationInv, NEW p \in Process, NEW op \in LockedOps, NEW record \in NodeType,
         Writes(p, op, record), at[p].op \notin Holders,
         NodeLocked(p) \/ (op \notin Holders /\ Unlocked),
         op \in {"connect_node", "disconnect_node"} => ~Admits(record),
         op \in Closers => \A g : ~Connectable(record, g), (at \in [Process -> Doing])'
  PROVE  RevocationInv'
<1> DEFINE d == [op |-> op, enrollment |-> None, deletes |-> at[p].deletes]
<1>1. /\ at' = [at EXCEPT ![p] = d] /\ nextNode' = [nextNode EXCEPT ![p] = record]
      /\ UNCHANGED <<node, barred, worker>>
  BY DEF Writes, Plans, store, seen
<1>2. d.op = op
  OBVIOUS
<1> HIDE DEF d
<1>3. \A q \in Process : /\ q = p => at'[q] = d /\ nextNode'[q] = record
                         /\ q # p => at'[q] = at[q] /\ nextNode'[q] = nextNode[q]
  BY <1>1 DEF RevocationInv
<1>4. nextNode' \in [Process -> NodeType]
  BY <1>1 DEF RevocationInv
<1>5. ASSUME NEW q \in Process, at'[q].op \in Holders PROVE nodeLock' = q
  <2>1. CASE q = p
    BY <1>2, <1>3, <1>5, <2>1 DEF NodeLocked
  <2>2. CASE q # p
    <3>1. nodeLock = q
      BY <1>3, <1>5, <2>2 DEF RevocationInv
    <3> QED BY <3>1, RegistryNames DEF NodeLocked, Unlocked
  <2> QED BY <2>1, <2>2
<1>6. ASSUME NEW q \in Process
      PROVE  /\ at'[q].op \in LockedOps
             /\ at'[q].op \in {"connect_node", "disconnect_node"} => ~Admits(nextNode'[q])
             /\ at'[q].op \in Closers => \A g : ~Connectable(nextNode'[q], g)
  BY <1>2, <1>3 DEF RevocationInv
<1> QED BY <1>1, <1>4, <1>5, <1>6 DEF RevocationInv, Admits, Connectable


\* A process that only moves on, or takes up an enrollment.
LEMMA MovesRevocation ==
  ASSUME RevocationInv, NEW p \in Process, NEW d, d.op \in LockedOps \ Holders,
         at' = [at EXCEPT ![p] = d], (at \in [Process -> Doing])',
         nextNode' \in [Process -> NodeType],
         \A q \in Process : q # p => nextNode'[q] = nextNode[q],
         d.op \in Closers => \A g : ~Connectable(nextNode'[p], g),
         at[p].op \in Holders \/ nodeLock' = nodeLock,
         nodeLock' = nodeLock \/ nodeLock = p,
         UNCHANGED <<node, barred, worker>>
  PROVE  RevocationInv'
<1>1. \A q \in Process : at'[q] = IF q = p THEN d ELSE at[q]
  BY DEF RevocationInv
<1>2. ASSUME NEW q \in Process, at'[q].op \in Holders PROVE nodeLock' = q
  <2>1. q # p /\ at'[q] = at[q]
    BY <1>1, <1>2
  <2>2. nodeLock = q
    BY <1>2, <2>1 DEF RevocationInv
  <2> QED BY <2>1, <2>2
<1>3. ASSUME NEW q \in Process
      PROVE  /\ at'[q].op \in LockedOps
             /\ at'[q].op \in {"connect_node", "disconnect_node"} => ~Admits(nextNode'[q])
             /\ at'[q].op \in Closers => \A g : ~Connectable(nextNode'[q], g)
  BY <1>1 DEF RevocationInv, Holders
<1> QED BY <1>2, <1>3 DEF RevocationInv, Admits, Connectable

\* Being disconnected, or let in where the node was open, admits nobody new.
LEMMA SameAdmission ==
  ASSUME NEW n \in NodeType, NEW s, n.state # "none", n.state = "revoked" => s = "revoked"
  PROVE  \A g : Connectable([n EXCEPT !.state = s], g) => Connectable(n, g)
BY DEF Connectable, NodeType

LEMMA HostingRevocation ==
  ASSUME RevocationInv, Handlers \subseteq LockedHandlers, NEW p \in Process, Hosting(p),
         (at \in [Process -> Doing])'
  PROVE  RevocationInv'
<1>0. node \in NodeType /\ node.state \in NodeState /\ NoNode \in NodeType
  BY NoNodeType DEF RevocationInv, NodeType
<1>1. ASSUME NEW op, Called(p, op) PROVE op \in LockedHandlers /\ at[p].op = "idle"
  BY <1>1 DEF Called, Idle
<1>2. at[p].op \in LockedOps
  BY DEF RevocationInv
<1>3. CASE reject(p) \/ revoke(p) \/ delete(p) \/ heartbeat_node(p) \/ set_draining(p)
           \/ set_draining_off(p)
  BY <1>1, <1>2, <1>3 DEF reject, revoke, delete, Deletes, heartbeat_node, set_draining,
     set_draining_off, LockedHandlers, LockedOps, Holders, Closers
<1>4. CASE revoke_node(p)
  <2> DEFINE r == [Revoked(node) EXCEPT !.draining = TRUE]
  <2>1. r \in NodeType
    BY <1>0, NodeRecords
  <2>2. r.state = "revoked"
    BY <1>0 DEF Revoked, NodeType
  <2>3. Writes(p, "revoke_node", r) /\ NodeLocked(p) /\ at[p].op \notin Holders
    BY <1>1, <1>4 DEF revoke_node, Holders
  <2> HIDE DEF r
  <2>4. \A g : ~Connectable(r, g)
    BY <2>2 DEF Connectable
  <2>5. "revoke_node" \in LockedOps /\ "revoke_node" \notin {"connect_node", "disconnect_node"}
    BY DEF LockedOps, Holders
  <2> QED BY <2>1, <2>3, <2>4, <2>5, PlansRevocation
<1>5. CASE delete_node(p)
  <2>1. at[p].op = "idle" /\ nodeLock' = nodeLock
    BY <1>1, <1>5 DEF delete_node, Deletes, Unlocked
  <2>2. CASE Writes(p, "remove", NoNode)
    <3>1. \A g : ~Connectable(NoNode, g)
      BY DEF NoNode, Connectable
    <3>2. Unlocked
      BY <2>1 DEF Unlocked
    <3> QED BY <1>0, <2>1, <2>2, <3>1, <3>2, PlansRevocation DEF LockedOps, Holders, Closers
  <2>3. CASE /\ at' = [at EXCEPT ![p] = [op |-> "delete_node", enrollment |-> None, deletes |-> TRUE]]
             /\ UNCHANGED <<store, lapsed, knows, pairingLock, nextEnrollment, nextNode,
                            worker, issued, seen>>
    <3> DEFINE d == [op |-> "delete_node", enrollment |-> None, deletes |-> TRUE]
    <3>1. d.op \in LockedOps \ Holders /\ d.op \notin Closers
      BY DEF LockedOps, Holders, Closers
    <3>2. /\ at' = [at EXCEPT ![p] = d] /\ nextNode' = nextNode
          /\ UNCHANGED <<node, barred, worker>>
      BY <2>3 DEF store, seen
    <3> HIDE DEF d
    <3> QED BY <2>1, <3>1, <3>2, MovesRevocation DEF RevocationInv
  <2> QED BY <1>5, <2>2, <2>3 DEF delete_node, Deletes
<1>6. ASSUME NEW g \in 1..MaxGeneration, import_approved_node(p, g) PROVE RevocationInv'
  <2> DEFINE r == [NoNode EXCEPT !.state = "offline", !.approved = TRUE, !.session_generation = g]
  <2>0. g \in Nat
    BY <1>6, RegistryBounds
  <2>1. r \in NodeType
    BY <1>0, <2>0, NodeRecords
  <2>2. Writes(p, "import_approved_node", r) /\ Unlocked /\ at[p].op = "idle"
    BY <1>6 DEF import_approved_node, Idle
  <2> HIDE DEF r
  <2> QED BY <2>1, <2>2, PlansRevocation DEF LockedOps, Holders, Closers
<1>7. ASSUME NEW g, connect_node(p, g) PROVE RevocationInv'
  <2>1. PICK s \in NodeState : Writes(p, "connect_node", [node EXCEPT !.state = s])
    BY <1>7 DEF connect_node, NodeState, Online
  <2>2. node.state # "none" /\ node.state # "revoked" /\ at[p].op = "idle" /\ NodeLocked(p)
    BY <1>1, <1>7 DEF connect_node, Connectable
  <2> DEFINE r == [node EXCEPT !.state = s]
  <2>3. r \in NodeType /\ \A h : Connectable(r, h) => Connectable(node, h)
    BY <1>0, <2>2, NodeRecords, SameAdmission
  <2> HIDE DEF r
  <2>4. ~Admits(r)
    BY <2>3 DEF RevocationInv, Admits
  <2>5. "connect_node" \in LockedOps \ Closers /\ at[p].op \notin Holders
    BY <2>2 DEF LockedOps, Holders, Closers
  <2>6. Writes(p, "connect_node", r)
    BY <2>1 DEF r
  <2> QED BY <2>2, <2>3, <2>4, <2>5, <2>6, PlansRevocation
<1>8. CASE disconnect_node(p)
  <2> DEFINE s == IF node.state \in {"revoked", "incompatible", "pending_approval"}
                  THEN node.state ELSE "offline"
             r == [node EXCEPT !.state = s]
  <2>1. Writes(p, "disconnect_node", r) /\ NodeLocked(p) /\ node.state # "none"
    BY <1>8 DEF disconnect_node
  <2>2. s \in NodeState /\ (node.state = "revoked" => s = "revoked")
    BY <1>0 DEF NodeState
  <2>3. at[p].op \notin Holders
    BY <1>1, <1>8 DEF disconnect_node, Holders
  <2> HIDE DEF s
  <2>4. r \in NodeType /\ \A h : Connectable(r, h) => Connectable(node, h)
    BY <1>0, <2>1, <2>2, NodeRecords, SameAdmission
  <2> HIDE DEF r
  <2>5. ~Admits(r)
    BY <2>4 DEF RevocationInv, Admits
  <2>6. "disconnect_node" \in LockedOps \ Closers
    BY DEF LockedOps, Holders, Closers
  <2> QED BY <2>1, <2>3, <2>4, <2>5, <2>6, PlansRevocation
<1>9. CASE expire_stale_nodes(p)
  <2> DEFINE d == [op |-> "expire_stale_nodes", enrollment |-> None, deletes |-> FALSE]
  <2>1. d.op \in LockedOps \ Holders /\ d.op \notin Closers
    BY DEF LockedOps, Holders, Closers
  <2>2. /\ at' = [at EXCEPT ![p] = d] /\ UNCHANGED <<node, nodeLock, nextNode, barred, worker>>
    BY <1>9 DEF expire_stale_nodes, store, seen
  <2> HIDE DEF d
  <2> QED BY <2>1, <2>2, MovesRevocation DEF RevocationInv
<1> QED BY <1>3, <1>4, <1>5, <1>6, <1>7, <1>8, <1>9 DEF Hosting


LEMMA PutNodeRevocation ==
  ASSUME RevocationInv, NEW p \in Process, PutNode(p), (at \in [Process -> Doing])',
         (nextNode \in [Process -> NodeType])', barred' \in Nat
  PROVE  RevocationInv'
<1> DEFINE d == IF at[p].deletes THEN Removing ELSE Idle
           op == at[p].op
<1>1. /\ op \notin BeforeNodeWrite /\ node' = nextNode[p] /\ at' = [at EXCEPT ![p] = d]
      /\ nextNode' = [nextNode EXCEPT ![p] = NoNode]
      /\ nodeLock' = IF nodeLock = p THEN None ELSE nodeLock
      /\ barred' = BarredAfter(op) /\ worker' = worker
  BY DEF PutNode
<1>2. d.op \in {"remove", "idle"}
  BY DEF Removing, Idle
<1>3. \A q \in Process : /\ q = p => at'[q] = d /\ nextNode'[q] = NoNode
                         /\ q # p => at'[q] = at[q] /\ nextNode'[q] = nextNode[q]
  BY <1>1 DEF RevocationInv
<1>4. op \in Closers \cup {"approve", "connect_node", "disconnect_node", "import_approved_node"}
  <2>1. op \in LockedOps
    BY DEF RevocationInv
  <2> HIDE DEF op
  <2> QED BY <1>1, <2>1 DEF LockedOps, Holders, Closers, BeforeNodeWrite
<1>5. \A g : ~Connectable(NoNode, g)
  BY DEF NoNode, Connectable
<1>6. nextNode[p] \in NodeType /\ barred \in Nat /\ node \in NodeType
  BY DEF RevocationInv
<1> HIDE DEF d, op
<1>7. ASSUME NEW q \in Process, at'[q].op \in Holders PROVE q # p /\ nodeLock = q /\ nodeLock' = q
  <2>1. q # p
    BY <1>2, <1>3, <1>7 DEF Holders
  <2> QED BY <1>1, <1>3, <1>7, <2>1 DEF RevocationInv
<1>8. CASE op \in {"approve", "import_approved_node"}
  <2>1. barred' = 0
    BY <1>1, <1>8 DEF BarredAfter
  <2>2. \A n : ~(\E g \in 1..barred' : Connectable(n, g))
    BY <2>1
  <2>3. \A q \in Process : /\ at'[q].op \in LockedOps
                           /\ at'[q].op \in Closers => \A g : ~Connectable(nextNode'[q], g)
    BY <1>2, <1>3, <1>5 DEF RevocationInv, LockedOps, Closers
  <2> QED BY <1>1, <1>6, <1>7, <2>2, <2>3 DEF RevocationInv, Admits, Connectable
<1>9. CASE op = "revoke_node"
  <2>1. \A g : ~Connectable(node', g)
    BY <1>1, <1>9 DEF RevocationInv, Closers, op
  <2>2. nodeLock = p
    BY <1>9 DEF RevocationInv, Holders, op
  <2>3. \A q \in Process : at'[q].op \notin Holders
    BY <1>7, <2>2
  <2>4. \A q \in Process : /\ at'[q].op \in LockedOps
                           /\ at'[q].op \in Closers => \A g : ~Connectable(nextNode'[q], g)
    BY <1>2, <1>3, <1>5 DEF RevocationInv, LockedOps, Closers
  <2> QED BY <1>1, <1>6, <2>1, <2>3, <2>4 DEF RevocationInv, Admits, Connectable, Holders
<1>10. CASE op \in {"connect_node", "disconnect_node", "submit_pairing", "pending_node", "remove"}
  <2>1. barred' = barred
    BY <1>1, <1>10 DEF BarredAfter
  <2>2. ~(\E g \in 1..barred : Connectable(node', g))
    BY <1>1, <1>10 DEF RevocationInv, Admits, Closers, op
  <2>3. ASSUME NEW q \in Process
        PROVE  /\ at'[q].op \in LockedOps
               /\ at'[q].op \in {"connect_node", "disconnect_node"} => ~Admits(nextNode'[q])
               /\ at'[q].op \in Closers => \A g : ~Connectable(nextNode'[q], g)
    BY <1>2, <1>3, <1>5 DEF RevocationInv, LockedOps, Closers, Admits
  <2> QED BY <1>1, <1>6, <1>7, <2>1, <2>2, <2>3 DEF RevocationInv, Admits, Connectable
<1> QED BY <1>4, <1>8, <1>9, <1>10 DEF Closers

LEMMA PairingRevocation ==
  ASSUME RevocationInv, NEW p \in Process, Pairing(p), (at \in [Process -> Doing])',
         (nextNode \in [Process -> NodeType])'
  PROVE  RevocationInv'
<1>1. ASSUME NEW e \in Enrollment, create_pairing_code(p, e) PROVE RevocationInv'
  BY <1>1 DEF create_pairing_code, RevocationInv, Admits, Connectable, seen
<1>2. ASSUME NEW e \in Enrollment, submit_pairing(p, e) PROVE RevocationInv'
  <2> DEFINE pend == [NoNode EXCEPT !.state = "pending_approval", !.code = e]
  <2>1. \A g : ~Connectable(pend, g)
    BY DEF Connectable, NoNode
  <2>2. \E op \in Answering : \E record, pending :
          Answers(p, e, op, record, pending) /\ (op = "submit_pairing" => pending = pend)
    BY <1>2 DEF submit_pairing, submit_pairing_late, submit_pairing_limited,
       submit_pairing_wrong, submit_pairing_right, Answering
  <2> HIDE DEF pend
  <2>a. PICK op \in Answering : \E record, pending :
          Answers(p, e, op, record, pending) /\ (op = "submit_pairing" => pending = pend)
    BY <2>2
  <2>3. PICK record, pending :
          Answers(p, e, op, record, pending) /\ (op = "submit_pairing" => pending = pend)
    BY <2>a
  <2> DEFINE d == [op |-> op, enrollment |-> e, deletes |-> FALSE]
  <2>4. /\ at' = [at EXCEPT ![p] = d] /\ nextNode' = [nextNode EXCEPT ![p] = pending]
        /\ UNCHANGED <<node, nodeLock, barred, worker>>
    BY <2>3 DEF Answers, seen
  <2>5. d.op = op /\ op \in LockedOps \ Holders /\ (op \in Closers => op = "submit_pairing")
    BY DEF Answering, LockedOps, Holders, Closers
  <2> HIDE DEF d
  <2>6. nextNode'[p] = pending /\ \A q \in Process : q # p => nextNode'[q] = nextNode[q]
    BY <2>4 DEF RevocationInv
  <2>7. d.op \in LockedOps \ Holders
    BY <2>5
  <2>8. d.op \in Closers => \A g : ~Connectable(nextNode'[p], g)
    BY <2>1, <2>3, <2>5, <2>6
  <2>9. nodeLock' = nodeLock /\ UNCHANGED <<node, barred, worker>>
    BY <2>4
  <2>10. at' = [at EXCEPT ![p] = d] /\ nextNode' \in [Process -> NodeType]
    BY <2>4
  <2> QED BY ONLY RevocationInv, <2>6, <2>7, <2>8, <2>9, <2>10, (at \in [Process -> Doing])', MovesRevocation
<1>3. ASSUME NEW e \in Enrollment, approve(p, e) PROVE RevocationInv'
  <2> DEFINE r == [node EXCEPT !.state = "offline", !.approved = TRUE, !.session_generation = 1]
  <2>1. r \in NodeType
    BY NodeRecords DEF RevocationInv
  <2>2. Writes(p, "approve", r) /\ NodeLocked(p) /\ at[p].op = "idle"
    BY <1>3 DEF approve, Called, Idle
  <2> HIDE DEF r
  <2>3. "approve" \in LockedOps \ Closers /\ at[p].op \notin Holders
    BY <2>2 DEF LockedOps, Holders, Closers
  <2> QED BY <2>1, <2>2, <2>3, PlansRevocation
<1> QED BY <1>1, <1>2, <1>3 DEF Pairing


\* A process that gives up, or finishes its write to an enrollment.
LEMMA EndsRevocation ==
  ASSUME RevocationInv, NEW p \in Process, PutEnrollment(p) \/ Refused(p) \/ Crash(p),
         (at \in [Process -> Doing])', (nextNode \in [Process -> NodeType])'
  PROVE  RevocationInv'
<1>0. Idle.op = "idle" /\ Idle.op \in LockedOps \ Holders /\ Idle.op \notin Closers
  BY DEF Idle, LockedOps, Holders, Closers
<1>1. CASE Refused(p)
  <2>1. /\ at' = [at EXCEPT ![p] = Idle] /\ UNCHANGED <<node, nodeLock, nextNode, barred, worker>>
    BY <1>1 DEF Refused, store, seen
  <2> QED BY <1>0, <2>1, MovesRevocation DEF RevocationInv
<1>2. CASE Crash(p)
  <2>1. /\ at' = [at EXCEPT ![p] = Idle] /\ nextNode' = [nextNode EXCEPT ![p] = NoNode]
        /\ UNCHANGED <<node, barred>>
        /\ nodeLock' = IF nodeLock = p THEN None ELSE nodeLock
    BY <1>2 DEF Crash, store, seen
  <2>2. worker' = worker
    BY <1>2 DEF Crash, RevocationInv
  <2>3. \A q \in Process : /\ q = p => at'[q] = Idle
                           /\ q # p => at'[q] = at[q] /\ nextNode'[q] = nextNode[q]
    BY <2>1 DEF RevocationInv
  <2>4. ASSUME NEW q \in Process, at'[q].op \in Holders PROVE nodeLock' = q
    <3>1. q # p
      BY <1>0, <2>3, <2>4
    <3>2. nodeLock = q
      BY <2>3, <2>4, <3>1 DEF RevocationInv
    <3> QED BY <2>1, <3>1, <3>2
  <2>5. ASSUME NEW q \in Process
        PROVE  /\ at'[q].op \in LockedOps
               /\ at'[q].op \in {"connect_node", "disconnect_node"} => ~Admits(nextNode'[q])
               /\ at'[q].op \in Closers => \A g : ~Connectable(nextNode'[q], g)
    BY <1>0, <2>3 DEF RevocationInv
  <2> QED BY <2>1, <2>2, <2>4, <2>5 DEF RevocationInv, Admits, Connectable
<1>3. CASE PutEnrollment(p)
  <2>1. /\ at[p].op \in {"late", "limited", "wrong", "submit_pairing"}
        /\ at' = [at EXCEPT ![p] = IF at[p].op = "submit_pairing"
                                   THEN [at[p] EXCEPT !.op = "pending_node"] ELSE Idle]
        /\ UNCHANGED <<node, nodeLock, nextNode, barred, worker>>
    BY <1>3 DEF PutEnrollment, RevocationInv
  <2>2. CASE at[p].op = "submit_pairing"
    <3> DEFINE d == [at[p] EXCEPT !.op = "pending_node"]
    <3>1. d.op = "pending_node"
      BY DEF RevocationInv, Doing
    <3>2. at' = [at EXCEPT ![p] = d]
      BY <2>1, <2>2
    <3> HIDE DEF d
    <3>3. d.op \in LockedOps \ Holders
      BY <3>1 DEF LockedOps, Holders, Closers
    <3>4. \A g : ~Connectable(nextNode'[p], g)
      BY <2>1, <2>2 DEF RevocationInv, Closers
    <3> QED BY <2>1, <3>2, <3>3, <3>4, MovesRevocation DEF RevocationInv
  <2>3. CASE at[p].op # "submit_pairing"
    <3>1. at' = [at EXCEPT ![p] = Idle]
      BY <2>1, <2>3
    <3> QED BY <1>0, <2>1, <3>1, MovesRevocation DEF RevocationInv
  <2> QED BY <2>2, <2>3
<1> QED BY <1>1, <1>2, <1>3

\* The handlers of directives are not among the locked ones.
LEMMA NoDirecting ==
  ASSUME RevocationInv, Handlers \subseteq LockedHandlers, NEW p \in Process
  PROVE  ~Directing(p) /\ ~WorkerLost
<1>1. worker = WorkerIdle /\ WorkerIdle.does = "nothing"
  BY DEF RevocationInv, WorkerIdle
<1>2. "request_node_update" \notin Handlers /\ "request_node_transport" \notin Handlers
      /\ "fetch_directive" \notin Handlers
  BY DEF LockedHandlers
<1> QED BY <1>1, <1>2 DEF Directing, request_node_update, request_node_transport, Directed,
     fetch_directive, Called, record_node_update, record_node_transport, Reports, WorkerLost

LEMMA RevocationStep ==
  ASSUME PairingInv, NodeTypes, RevocationInv, Handlers \subseteq LockedHandlers, [Next]_vars
  PROVE  RevocationInv'
<1>1. PairingInv' /\ NodeTypes'
  BY PairingStep, NodeTypesStep
<1>2. (at \in [Process -> Doing])' /\ (nextNode \in [Process -> NodeType])' /\ barred' \in Nat
  BY <1>1 DEF PairingInv, PairingTypes, NodeTypes
<1>3. ASSUME NEW p \in Process, Pairing(p) \/ Hosting(p) \/ Directing(p) PROVE RevocationInv'
  BY <1>2, <1>3, PairingRevocation, HostingRevocation, NoDirecting
<1>4. ASSUME NEW p \in Process, PutEnrollment(p) \/ PutNode(p) \/ Refused(p) \/ Crash(p)
      PROVE  RevocationInv'
  BY <1>2, <1>4, EndsRevocation, PutNodeRevocation
<1>5. CASE (\E e \in Enrollment : Lapse(e)) \/ UNCHANGED vars
  BY <1>5 DEF Lapse, vars, store, seen, RevocationInv, Admits, Connectable
<1>6. ~WorkerLost
  BY DEF WorkerLost, RevocationInv
<1> QED BY <1>3, <1>4, <1>5, <1>6 DEF Next

LEMMA RevocationInit == ASSUME Init PROVE RevocationInv
<1>1. at \in [Process -> Doing] /\ \A p \in Process : at[p].op = "idle"
  BY DEF Init, Idle, Doing, Op
<1>2. ~Admits(node)
  BY DEF Init, NoNode, Admits, Connectable
<1> QED BY <1>1, <1>2, NoNodeType DEF Init, RevocationInv, LockedOps, Holders, Closers

\* Where only handlers are called that hold the flock of the node from read to
\* write, or that write without reading, no identity that was
\* valid before a revocation returned connects until the node is approved again,
\* however many processes call them and wherever they crash.
THEOREM LockedRevocation ==
  ASSUME Handlers \subseteq LockedHandlers
  PROVE  Spec => []RevocationStopsSessions
<1>1. Init => PairingInv /\ NodeTypes /\ RevocationInv
  BY PairingInit, NodeTypesInit, RevocationInit
<1>2. PairingInv /\ NodeTypes /\ RevocationInv /\ [Next]_vars
      => (PairingInv /\ NodeTypes /\ RevocationInv)'
  BY PairingStep, NodeTypesStep, RevocationStep
<1>3. RevocationInv => RevocationStopsSessions
  BY DEF RevocationInv, RevocationStopsSessions, Admits
<1> QED BY <1>1, <1>2, <1>3, PTL DEF Spec
=============================================================================
