-------------------------- MODULE RelayGrantProofs --------------------------
(***************************************************************************)
(* Proofs about the worker's session over the relay (Relay), for any       *)
(* bounds, and about the model grant its model calls are charged to        *)
(* (ModelGrants), for any limits, processes, calls and amounts, and with   *)
(* any unlocked revocations.  The two models share no state: nothing of    *)
(* one is used in the proofs about the other.                              *)
(***************************************************************************)
EXTENDS Relay, ModelGrants, FiniteSetTheorems, SequenceTheorems, TLAPS

-----------------------------------------------------------------------------
(* ModelGrants.                                                            *)

\* What holds of every record that is in the store or on its way to it.  An
\* open call implies the field consume_model_grant stumbles over, which is why
\* consume need not count open calls.
Sound(g) ==
  /\ g.calls + Cardinality(Open(g)) <= MaxCalls
  /\ Cardinality(Open(g)) <= MaxConcurrency
  /\ g.tokens <= MaxTokens
  /\ ~g.keyed => Open(g) = {}

IInv == TypeOK /\ Sound(grant) /\ \A p \in Process : Sound(next[p])

\* The fields of a grant record.
LEMMA GrantFields ==
  ASSUME NEW g \in GrantType
  PROVE  /\ g.calls \in Nat /\ g.tokens \in Nat /\ g.reserved \in [Call -> Nat]
         /\ g.keyed \in BOOLEAN /\ g.marked \in BOOLEAN /\ g.revoked \in BOOLEAN
BY DEF GrantType

\* A grant has finitely many open calls.
LEMMA OpenFinite ==
  ASSUME NEW g
  PROVE  IsFiniteSet(Open(g)) /\ Cardinality(Open(g)) \in Nat
<1>1. Open(g) \subseteq Call
  BY DEF Open
<1>2. IsFiniteSet(Open(g))
  BY <1>1, FS_Subset, GrantNamesAssumption
<1> QED BY <1>2, FS_CardinalityType

\* The grant that was just issued.
LEMMA NoGrantSound == NoGrant \in GrantType /\ Sound(NoGrant)
<1>1. NoGrant \in GrantType
  BY DEF NoGrant, GrantType
<1>2. Open(NoGrant) = {}
  BY DEF Open, NoGrant
<1>3. Cardinality(Open(NoGrant)) = 0
  BY <1>2, FS_EmptySet
<1>4. NoGrant.calls = 0 /\ NoGrant.tokens = 0
  BY DEF NoGrant
<1> QED BY <1>1, <1>2, <1>3, <1>4, LimitsAssumption DEF Sound

\* A call that begins within the limits.
LEMMA BeginSound ==
  ASSUME NEW g \in GrantType, Sound(g), NEW c \in Call, NEW t \in Nat, t > 0,
         Cardinality(Open(g)) < MaxConcurrency, CallsLeft(g)
  PROVE  LET n == [g EXCEPT !.reserved[c] = t, !.keyed = TRUE]
         IN  n \in GrantType /\ Sound(n)
<1> DEFINE n == [g EXCEPT !.reserved[c] = t, !.keyed = TRUE]
<1>1. /\ n.calls = g.calls /\ n.tokens = g.tokens /\ n.keyed = TRUE
      /\ n.reserved = [g.reserved EXCEPT ![c] = t]
  BY DEF GrantType
<1>2. n \in GrantType
  BY GrantFields DEF GrantType
<1>3. Open(n) = Open(g) \cup {c}
  <2>1. \A d \in Call : n.reserved[d] = IF d = c THEN t ELSE g.reserved[d]
    BY <1>1, GrantFields
  <2> HIDE DEF n
  <2> QED BY <2>1 DEF Open
<1>4. Cardinality(Open(n)) \in Nat /\ Cardinality(Open(n)) <= Cardinality(Open(g)) + 1
  BY <1>3, OpenFinite, FS_AddElement
<1> HIDE DEF n
<1>5. Sound(n)
  BY <1>1, <1>4, OpenFinite, GrantFields, LimitsAssumption DEF Sound, CallsLeft
<1> QED BY <1>2, <1>5 DEF n

\* Closing a call frees its place; charging it keeps the sum.
LEMMA CloseSound ==
  ASSUME NEW g \in GrantType, Sound(g), NEW c \in Open(g),
         NEW n \in GrantType, n.reserved = [g.reserved EXCEPT ![c] = 0],
         n.keyed = g.keyed,
         n.calls = g.calls \/ n.calls = g.calls + 1, n.tokens <= MaxTokens
  PROVE  Sound(n)
<1>1. c \in Call
  BY DEF Open
<1>2. Open(n) = Open(g) \ {c}
  BY <1>1, GrantFields DEF Open
<1>3. Cardinality(Open(n)) = Cardinality(Open(g)) - 1
  BY <1>2, OpenFinite, FS_RemoveElement
<1>4. g.calls \in Nat /\ n.calls \in Nat
  BY GrantFields
<1> QED BY <1>2, <1>3, <1>4, OpenFinite, LimitsAssumption DEF Sound

\* Fields that do not matter to the limits may change.
LEMMA SameSound ==
  ASSUME NEW g \in GrantType, Sound(g), NEW n \in GrantType,
         n.reserved = g.reserved, n.keyed = g.keyed, n.calls = g.calls, n.tokens = g.tokens
  PROVE  Sound(n)
<1>1. Open(n) = Open(g)
  BY DEF Open
<1> QED BY <1>1 DEF Sound

\* A process that decides on a sound record keeps the invariant.
LEMMA DecideKeeps ==
  ASSUME IInv, NEW p \in Process, NEW what \in Doing, NEW r \in GrantType, Sound(r),
         Decide(p, what, r), lock' \in Process \cup {None}
  PROVE  IInv'
<1>1. next' = [next EXCEPT ![p] = r] /\ next \in [Process -> GrantType]
  BY DEF Decide, IInv, TypeOK
<1>2. next' \in [Process -> GrantType] /\ \A q \in Process : Sound(next'[q])
  BY <1>1 DEF IInv
<1>3. doing' \in [Process -> Doing]
  BY DEF Decide, IInv, TypeOK
<1>4. TypeOK'
  BY <1>2, <1>3 DEF Decide, IInv, TypeOK
<1>5. Sound(grant)'
  BY DEF Decide, IInv, Sound, Open
<1>6. \A q \in Process : Sound(next[q])'
  BY <1>2 DEF Sound, Open
<1> QED BY <1>4, <1>5, <1>6 DEF IInv

\* Every step keeps the invariant.
LEMMA StepKeeps == ASSUME IInv, [Next]_vars PROVE IInv'
<1>0. grant \in GrantType /\ Sound(grant) /\ lock \in Process \cup {None}
  BY DEF IInv, TypeOK
<1>1. ASSUME NEW p \in Process, NEW c \in Call, NEW t \in Amount, begin_model_grant_call(p, c, t)
      PROVE  IInv'
  <2> DEFINE r == [grant EXCEPT !.reserved[c] = t, !.keyed = TRUE]
  <2>1. t \in Nat
    BY LimitsAssumption
  <2>2. r \in GrantType /\ Sound(r)
    BY <1>0, <1>1, <2>1, BeginSound DEF begin_model_grant_call
  <2>3. Decide(p, [op |-> "begin", call |-> c], r) /\ lock' = p
    BY <1>1 DEF begin_model_grant_call, Locked
  <2>4. [op |-> "begin", call |-> c] \in Doing
    BY DEF Doing
  <2> HIDE DEF r
  <2> QED BY <2>2, <2>3, <2>4, DecideKeeps
<1>2. ASSUME NEW p \in Process, NEW c \in Call, NEW t \in Amount, NEW over \in BOOLEAN,
             finish_model_grant_call(p, c, t, over)
      PROVE  IInv'
  <2> DEFINE charged == Charge(c, t)
             dropped == [grant EXCEPT !.reserved[c] = 0]
  <2>1. t \in Nat /\ c \in Open(grant) /\ lock' = p
    BY <1>2, LimitsAssumption DEF finish_model_grant_call, Locked
  <2>2. CASE grant.tokens + t <= MaxTokens /\ Decide(p, [op |-> "finish", call |-> c], charged)
    <3>1. /\ charged.reserved = [grant.reserved EXCEPT ![c] = 0] /\ charged.keyed = grant.keyed
          /\ charged.calls = grant.calls + 1 /\ charged.tokens = grant.tokens + t
      BY <1>0 DEF Charge, GrantType
    <3>2. charged \in GrantType
      <4>1. grant.calls + 1 \in Nat /\ grant.tokens + t \in Nat
        BY <1>0, <2>1, GrantFields
      <4>2. [grant.reserved EXCEPT ![c] = 0] \in [Call -> Nat]
        BY <1>0, GrantFields
      <4> QED BY <1>0, <4>1, <4>2 DEF Charge, GrantType
    <3>3. [op |-> "finish", call |-> c] \in Doing
      BY DEF Doing
    <3> HIDE DEF charged
    <3>4. Sound(charged)
      BY <1>0, <2>1, <2>2, <3>1, <3>2, CloseSound
    <3> QED BY <2>1, <2>2, <3>2, <3>3, <3>4, DecideKeeps
  <2>3. CASE Decide(p, [op |-> "overrun", call |-> c], dropped)
    <3>1. /\ dropped.reserved = [grant.reserved EXCEPT ![c] = 0] /\ dropped.keyed = grant.keyed
          /\ dropped.calls = grant.calls /\ dropped.tokens = grant.tokens
      BY <1>0 DEF GrantType
    <3>2. dropped \in GrantType
      BY <1>0, GrantFields DEF GrantType
    <3>3. [op |-> "overrun", call |-> c] \in Doing
      BY DEF Doing
    <3> HIDE DEF dropped
    <3>4. Sound(dropped)
      BY <1>0, <2>1, <3>1, <3>2, CloseSound DEF Sound
    <3> QED BY <2>1, <2>3, <3>2, <3>3, <3>4, DecideKeeps
  <2> QED BY <1>2, <2>2, <2>3 DEF finish_model_grant_call
<1>3. ASSUME NEW p \in Process, NEW t \in Amount, consume_model_grant(p, t) PROVE IInv'
  <2> DEFINE r == [grant EXCEPT !.calls = @ + 1, !.tokens = @ + t]
  <2>1. t \in Nat
    BY LimitsAssumption
  <2>2. /\ r.calls = grant.calls + 1 /\ r.tokens = grant.tokens + t
        /\ r.reserved = grant.reserved /\ r.keyed = grant.keyed
    BY <1>0 DEF GrantType
  <2>3. r \in GrantType
    <3>1. grant.calls + 1 \in Nat /\ grant.tokens + t \in Nat
      BY <1>0, <2>1, GrantFields
    <3> QED BY <1>0, <3>1 DEF GrantType
  <2>4. [op |-> "consume"] \in Doing
    BY DEF Doing
  <2>5. Decide(p, [op |-> "consume"], r) /\ lock' = p
    BY <1>3 DEF consume_model_grant, Locked
  <2> HIDE DEF r
  <2>6. Sound(r)
    <3>1. Open(r) = {} /\ Open(grant) = {}
      BY <1>0, <1>3, <2>2 DEF consume_model_grant, Sound, Open
    <3>2. Cardinality(Open(r)) = 0
      BY <3>1, FS_EmptySet
    <3>3. r.calls <= MaxCalls /\ r.tokens <= MaxTokens /\ r.calls \in Nat
      BY <1>3, <2>2, <2>3, GrantFields DEF consume_model_grant
    <3> QED BY <3>1, <3>2, <3>3, LimitsAssumption DEF Sound
  <2> QED BY <2>3, <2>4, <2>5, <2>6, DecideKeeps
<1>4. ASSUME NEW p \in Process, revoke_model_grant(p) \/ revoke_node(p) PROVE IInv'
  <2>1. ASSUME NEW r \in GrantType, NEW what \in Doing, Decide(p, what, r), lock' = lock,
               r.reserved = grant.reserved, r.keyed = grant.keyed,
               r.calls = grant.calls, r.tokens = grant.tokens
        PROVE  IInv'
    BY <1>0, <2>1, SameSound, DecideKeeps
  <2>2. CASE revoke_model_grant(p)
    <3> DEFINE r == [grant EXCEPT !.revoked = TRUE]
    <3>1. /\ r \in GrantType /\ r.reserved = grant.reserved /\ r.keyed = grant.keyed
          /\ r.calls = grant.calls /\ r.tokens = grant.tokens
      BY <1>0 DEF GrantType
    <3>2. [op |-> "revoke_model_grant"] \in Doing
      BY <2>2 DEF Doing, revoke_model_grant
    <3> QED BY <2>1, <2>2, <3>1, <3>2 DEF revoke_model_grant
  <2>3. CASE revoke_node(p)
    <3> DEFINE r == [grant EXCEPT !.revoked = TRUE, !.marked = TRUE]
    <3>1. /\ r \in GrantType /\ r.reserved = grant.reserved /\ r.keyed = grant.keyed
          /\ r.calls = grant.calls /\ r.tokens = grant.tokens
      BY <1>0 DEF GrantType
    <3>2. [op |-> "revoke_node"] \in Doing
      BY <2>3 DEF Doing, revoke_node
    <3> QED BY <2>1, <2>3, <3>1, <3>2 DEF revoke_node
  <2> QED BY <1>4, <2>2, <2>3
<1>5. ASSUME NEW p \in Process, Put(p) PROVE IInv'
  <2>1. next[p] \in GrantType /\ doing[p] \in Doing /\ Idle \in Doing
    BY DEF IInv, TypeOK, Doing, Idle
  <2>2. grant' \in GrantType /\ next' \in [Process -> GrantType] /\ doing' \in [Process -> Doing]
    BY <1>5, <2>1, NoGrantSound DEF Put, IInv, TypeOK
  <2>3. begun' \subseteq Call /\ refused' \subseteq Call /\ spent' \in Nat /\ ended' \in BOOLEAN
    <3>1. doing[p].op = "begin" \/ doing[p].op = "overrun" => doing[p].call \in Call
      BY <2>1, GrantNamesAssumption DEF Doing
    <3> QED BY <1>5, <3>1 DEF Put, IInv, TypeOK
  <2>4. TypeOK'
    BY <1>5, <2>2, <2>3 DEF Put, IInv, TypeOK
  <2>5. grant' = next[p] /\ Sound(next[p])
    BY <1>5 DEF Put, IInv
  <2>6. Sound(grant)'
    BY <2>5 DEF Sound, Open
  <2>7. \A q \in Process : next'[q] = next[q] \/ next'[q] = NoGrant
    BY <1>5 DEF Put, IInv, TypeOK
  <2>8. \A q \in Process : Sound(next'[q])
    BY <2>7, NoGrantSound DEF IInv
  <2>9. \A q \in Process : Sound(next[q])'
    BY <2>8 DEF Sound, Open
  <2> QED BY <2>4, <2>6, <2>9 DEF IInv
<1>6. ASSUME NEW p \in Process, Crash(p) PROVE IInv'
  <2>1. next' \in [Process -> GrantType] /\ \A q \in Process : next'[q] = next[q] \/ next'[q] = NoGrant
    BY <1>6, NoGrantSound DEF Crash, IInv, TypeOK
  <2>2. Idle \in Doing
    BY DEF Doing, Idle
  <2>3. TypeOK'
    BY <1>6, <2>1, <2>2 DEF Crash, IInv, TypeOK
  <2>4. \A q \in Process : Sound(next'[q])
    BY <2>1, NoGrantSound DEF IInv
  <2>5. Sound(grant)' /\ \A q \in Process : Sound(next[q])'
    BY <1>6, <2>4 DEF Crash, IInv, Sound, Open
  <2> QED BY <2>3, <2>5 DEF IInv
<1>7. ASSUME Expire \/ UNCHANGED vars PROVE IInv'
  BY <1>7 DEF Expire, vars, IInv, TypeOK, Sound, Open
<1> QED BY <1>1, <1>2, <1>3, <1>4, <1>5, <1>6, <1>7 DEF Next

\* The invariant holds throughout.
THEOREM Invariance == Spec => []IInv
<1>1. Init => IInv
  <2> SUFFICES ASSUME Init PROVE IInv
    OBVIOUS
  <2>1. Idle \in Doing
    BY DEF Doing, Idle
  <2>2. TypeOK
    BY <2>1, NoGrantSound DEF Init, TypeOK
  <2>3. Sound(grant) /\ \A p \in Process : Sound(next[p])
    BY NoGrantSound DEF Init
  <2> QED BY <2>2, <2>3 DEF IInv
<1> QED BY <1>1, StepKeeps, PTL DEF Spec

\* The grant and all local copies of it are well-formed in every behaviour.
THEOREM TypeCorrect == Spec => []TypeOK
<1>1. IInv => TypeOK
  BY DEF IInv
<1> QED BY <1>1, Invariance, PTL

\* No interleaving of calls, crashes and unlocked revocations makes the grant
\* promise more than its limits, whatever they are.
THEOREM LimitsKept == Spec => []WithinLimits
<1>1. IInv => WithinLimits
  BY DEF IInv, Sound, WithinLimits
<1> QED BY <1>1, Invariance, PTL
-----------------------------------------------------------------------------
(* CallsAccounted.  The sum alone is not inductive: it is kept because     *)
(* only the holder of the flock is about to write a call, because its copy *)
(* is the grant as it still is until a revocation intervenes, and because  *)
(* an open call has begun and was not refused.                             *)

LockedOps == {"begin", "finish", "overrun", "consume"}
LockInv == \A p \in Process : doing[p].op \in LockedOps => lock = p

\* The process p is about to write the grant with just its own call changed.
Fresh(p) ==
  LET n == next[p]
      did == doing[p]
  IN /\ did.op = "begin" =>
          /\ did.call \notin begun
          /\ n.calls = grant.calls /\ Open(n) = Open(grant) \cup {did.call}
     /\ did.op \in {"finish", "overrun"} =>
          did.call \in Open(grant) /\ Open(n) = Open(grant) \ {did.call}
     /\ did.op = "finish" => n.calls = grant.calls + 1
     /\ did.op = "overrun" => n.calls = grant.calls
     /\ did.op = "consume" => n.calls = grant.calls + 1 /\ Open(n) = Open(grant)

Ledger ==
  /\ Open(grant) \subseteq begun /\ refused \subseteq begun /\ refused \cap Open(grant) = {}
  /\ grant.calls + Cardinality(Open(grant)) + Cardinality(refused) = Cardinality(begun) + spent

AInv == LockInv /\ (~ended => Ledger /\ \A p \in Process : Fresh(p))

\* What a process may be doing.
LEMMA DoingFields ==
  ASSUME NEW d \in Doing
  PROVE  /\ d.op \in LockedOps \cup Revokers \/ d = Idle
         /\ d.op \in {"begin", "finish", "overrun"} => d.call \in Call
         /\ d.op \in Revokers => d.op \notin LockedOps /\ d # Idle
<1>1. CASE d \in [op : {"idle", "consume"} \cup Revokers]
  BY <1>1, GrantNamesAssumption DEF Doing, Idle, LockedOps
<1>2. CASE d \in [op : {"begin", "finish", "overrun"}, call : Call]
  BY <1>2, GrantNamesAssumption DEF Doing, Idle, LockedOps
<1> QED BY <1>1, <1>2 DEF Doing

\* A process that decides on a fresh copy, under the flock if it is to write a
\* call, keeps the account.
LEMMA DecideAccounts ==
  ASSUME IInv, AInv, NEW p \in Process, NEW what, NEW r, Decide(p, what, r),
         what.op \in LockedOps => lock = None /\ lock' = p,
         what.op \notin LockedOps => lock' = lock,
         ~ended => Fresh(p)'
  PROVE  AInv'
<1>1. /\ doing' = [doing EXCEPT ![p] = what] /\ next' = [next EXCEPT ![p] = r]
      /\ grant' = grant /\ begun' = begun /\ refused' = refused /\ spent' = spent /\ ended' = ended
      /\ doing \in [Process -> Doing] /\ next \in [Process -> GrantType]
  BY DEF Decide, IInv, TypeOK
<1>2. LockInv'
  <2> SUFFICES ASSUME NEW q \in Process, doing'[q].op \in LockedOps PROVE lock' = q
    BY DEF LockInv
  <2>1. CASE q = p
    BY <1>1, <2>1
  <2>2. CASE q # p
    <3>1. lock = q
      BY <1>1, <2>2 DEF AInv, LockInv
    <3>2. q # None
      BY GrantNamesAssumption
    <3> QED BY <3>1, <3>2
  <2> QED BY <2>1, <2>2
<1>3. ASSUME ~ended' PROVE Ledger' /\ \A q \in Process : Fresh(q)'
  <2>1. Ledger'
    BY <1>1, <1>3 DEF AInv, Ledger, Open
  <2>2. ASSUME NEW q \in Process PROVE Fresh(q)'
    <3>1. CASE q = p
      BY <1>1, <1>3, <3>1
    <3>2. CASE q # p
      <4>1. doing'[q] = doing[q] /\ next'[q] = next[q] /\ Fresh(q)
        BY <1>1, <1>3, <3>2 DEF AInv
      <4> QED BY <1>1, <4>1 DEF Fresh, Open
    <3> QED BY <3>1, <3>2
  <2> QED BY <2>1, <2>2
<1> QED BY <1>2, <1>3 DEF AInv

\* begin reserves the tokens of a call that has not begun.
LEMMA BeginFresh ==
  ASSUME IInv, NEW p \in Process, NEW c \in Call, NEW t \in Amount, begin_model_grant_call(p, c, t)
  PROVE  Fresh(p)'
<1> DEFINE r == [grant EXCEPT !.reserved[c] = t, !.keyed = TRUE]
<1>1. grant \in GrantType /\ t \in Nat /\ t > 0
  BY LimitsAssumption DEF IInv, TypeOK, begin_model_grant_call
<1>2. r.calls = grant.calls /\ r.reserved = [grant.reserved EXCEPT ![c] = t]
  BY <1>1 DEF GrantType
<1>3. next'[p] = r /\ doing'[p] = [op |-> "begin", call |-> c] /\ grant' = grant /\ begun' = begun
  BY DEF begin_model_grant_call, Decide, IInv, TypeOK
<1> HIDE DEF r
<1>4. Open(r) = Open(grant) \cup {c}
  <2>1. \A d \in Call : r.reserved[d] = IF d = c THEN t ELSE grant.reserved[d]
    BY <1>1, <1>2, GrantFields
  <2> QED BY <1>1, <2>1 DEF Open
<1>5. c \notin begun
  BY DEF begin_model_grant_call
<1> QED BY <1>2, <1>3, <1>4, <1>5 DEF Fresh

\* finish closes an open call.
LEMMA FinishFresh ==
  ASSUME IInv, NEW p \in Process, NEW c \in Call, NEW t \in Amount, NEW over \in BOOLEAN,
         finish_model_grant_call(p, c, t, over)
  PROVE  Fresh(p)' /\ doing'[p].op \in {"finish", "overrun"}
<1>1. grant \in GrantType /\ c \in Open(grant) /\ grant' = grant
  BY DEF IInv, TypeOK, finish_model_grant_call, Decide
<1>2. ASSUME NEW r, r.reserved = [grant.reserved EXCEPT ![c] = 0] PROVE Open(r) = Open(grant) \ {c}
  <2>1. \A d \in Call : r.reserved[d] = IF d = c THEN 0 ELSE grant.reserved[d]
    BY <1>1, <1>2, GrantFields
  <2> QED BY <2>1 DEF Open
<1>3. CASE Decide(p, [op |-> "finish", call |-> c], Charge(c, t))
  <2> DEFINE r == Charge(c, t)
  <2>1. r.reserved = [grant.reserved EXCEPT ![c] = 0] /\ r.calls = grant.calls + 1
    BY <1>1 DEF Charge, GrantType
  <2>2. next'[p] = r /\ doing'[p] = [op |-> "finish", call |-> c]
    BY <1>3 DEF Decide, IInv, TypeOK
  <2> HIDE DEF r
  <2>3. Open(r) = Open(grant) \ {c}
    BY <1>2, <2>1
  <2> QED BY <1>1, <2>1, <2>2, <2>3 DEF Fresh
<1>4. CASE Decide(p, [op |-> "overrun", call |-> c], [grant EXCEPT !.reserved[c] = 0])
  <2> DEFINE r == [grant EXCEPT !.reserved[c] = 0]
  <2>1. r.reserved = [grant.reserved EXCEPT ![c] = 0] /\ r.calls = grant.calls
    BY <1>1 DEF GrantType
  <2>2. next'[p] = r /\ doing'[p] = [op |-> "overrun", call |-> c]
    BY <1>4 DEF Decide, IInv, TypeOK
  <2> HIDE DEF r
  <2>3. Open(r) = Open(grant) \ {c}
    BY <1>2, <2>1
  <2> QED BY <1>1, <2>1, <2>2, <2>3 DEF Fresh
<1> QED BY <1>3, <1>4 DEF finish_model_grant_call

\* consume charges a call of its own.
LEMMA ConsumeFresh ==
  ASSUME IInv, NEW p \in Process, NEW t \in Amount, consume_model_grant(p, t)
  PROVE  Fresh(p)' /\ doing'[p].op = "consume"
<1> DEFINE r == [grant EXCEPT !.calls = @ + 1, !.tokens = @ + t]
<1>1. grant \in GrantType /\ grant' = grant
  BY DEF IInv, TypeOK, consume_model_grant, Decide
<1>2. r.reserved = grant.reserved /\ r.calls = grant.calls + 1
  BY <1>1 DEF GrantType
<1>3. next'[p] = r /\ doing'[p] = [op |-> "consume"]
  BY DEF consume_model_grant, Decide, IInv, TypeOK
<1> HIDE DEF r
<1> QED BY <1>1, <1>2, <1>3 DEF Fresh, Open

\* The write settles the account for the call it is about.
LEMMA PutAccounts ==
  ASSUME IInv, AInv, NEW p \in Process, Put(p)
  PROVE  AInv'
<1>1. /\ doing \in [Process -> Doing] /\ next \in [Process -> GrantType] /\ doing[p] # Idle
      /\ grant' = next[p] /\ grant \in GrantType /\ next[p] \in GrantType
      /\ doing' = [doing EXCEPT ![p] = Idle] /\ lock' = IF lock = p THEN None ELSE lock
  BY DEF Put, IInv, TypeOK
<1>2. Idle.op \notin LockedOps
  BY DEF Idle, LockedOps
<1>3. LockInv'
  BY <1>1, <1>2 DEF AInv, LockInv
<1> SUFFICES ASSUME ~ended' PROVE Ledger' /\ \A q \in Process : Fresh(q)'
  BY <1>3 DEF AInv
<1>4. ~ended /\ doing[p].op \in LockedOps /\ lock = p
  <2>1. ~ended /\ doing[p].op \notin Revokers
    BY DEF Put
  <2> QED BY <1>1, <2>1, DoingFields DEF AInv, LockInv
<1>5. ASSUME NEW q \in Process PROVE Fresh(q)'
  <2>1. doing'[q].op \notin LockedOps
    BY <1>1, <1>2, <1>4 DEF AInv, LockInv
  <2> QED BY <2>1 DEF Fresh, LockedOps
<1>6. Ledger /\ Fresh(p)
  BY <1>4 DEF AInv
<1> DEFINE o == Open(grant)
           c == doing[p].call
<1>7. /\ Cardinality(o) \in Nat /\ IsFiniteSet(o) /\ o \subseteq Call
      /\ Cardinality(begun) \in Nat /\ IsFiniteSet(begun)
      /\ Cardinality(refused) \in Nat /\ IsFiniteSet(refused)
      /\ grant.calls \in Nat /\ spent \in Nat
  <2>1. IsFiniteSet(begun) /\ IsFiniteSet(refused)
    BY FS_Subset, GrantNamesAssumption DEF IInv, TypeOK
  <2> QED BY <1>1, <2>1, FS_CardinalityType, OpenFinite, GrantFields DEF IInv, TypeOK, Open
<1>8. CASE doing[p].op = "begin"
  <2>1. /\ c \notin begun /\ Open(next[p]) = o \cup {c} /\ next[p].calls = grant.calls
        /\ begun' = begun \cup {c} /\ refused' = refused /\ spent' = spent
    BY <1>6, <1>8 DEF Fresh, Put
  <2>2. c \notin o
    BY <1>6, <2>1 DEF Ledger
  <2>3. /\ Cardinality(o \cup {c}) = Cardinality(o) + 1
        /\ Cardinality(begun \cup {c}) = Cardinality(begun) + 1
    BY <1>7, <2>1, <2>2, FS_AddElement
  <2>4. Open(grant') = o \cup {c} /\ grant'.calls = grant.calls
    BY <1>1, <2>1
  <2>5. /\ o \cup {c} \subseteq begun' /\ refused' \subseteq begun'
        /\ refused' \cap (o \cup {c}) = {}
    BY <1>6, <2>1 DEF Ledger
  <2>6. grant.calls + Cardinality(o \cup {c}) + Cardinality(refused) = Cardinality(begun \cup {c}) + spent
    <3>1. PICK a : a = Cardinality(o)
      OBVIOUS
    <3>2. PICK b : b = Cardinality(refused)
      OBVIOUS
    <3>3. PICK d : d = Cardinality(begun)
      OBVIOUS
    <3>4. PICK g : g = grant.calls
      OBVIOUS
    <3>5. g + a + b = d + spent /\ a \in Nat /\ b \in Nat /\ d \in Nat /\ g \in Nat /\ spent \in Nat
      BY <1>6, <1>7, <3>1, <3>2, <3>3, <3>4 DEF Ledger
    <3>6. g + (a + 1) + b = (d + 1) + spent
      BY <3>5
    <3> QED BY <2>3, <3>1, <3>2, <3>3, <3>4, <3>6
  <2> QED BY <1>5, <2>1, <2>4, <2>5, <2>6 DEF Ledger, Open
<1>9. CASE doing[p].op = "finish"
  <2>1. /\ c \in o /\ Open(next[p]) = o \ {c} /\ next[p].calls = grant.calls + 1
        /\ begun' = begun /\ refused' = refused /\ spent' = spent
    BY <1>6, <1>9 DEF Fresh, Put
  <2>2. Cardinality(o \ {c}) = Cardinality(o) - 1
    BY <1>7, <2>1, FS_RemoveElement
  <2>3. Open(grant') = o \ {c} /\ grant'.calls = grant.calls + 1
    BY <1>1, <2>1
  <2>4. grant.calls + 1 + Cardinality(o \ {c}) + Cardinality(refused) = Cardinality(begun) + spent
    BY <1>6, <1>7, <2>2 DEF Ledger
  <2> QED BY <1>5, <1>6, <2>1, <2>3, <2>4 DEF Ledger, Open
<1>10. CASE doing[p].op = "overrun"
  <2>1. /\ c \in o /\ Open(next[p]) = o \ {c} /\ next[p].calls = grant.calls
        /\ begun' = begun /\ refused' = refused \cup {c} /\ spent' = spent
    BY <1>6, <1>10 DEF Fresh, Put
  <2>2. c \notin refused
    BY <1>6, <2>1 DEF Ledger
  <2>3. /\ Cardinality(o \ {c}) = Cardinality(o) - 1
        /\ Cardinality(refused \cup {c}) = Cardinality(refused) + 1
    BY <1>7, <2>1, <2>2, FS_RemoveElement, FS_AddElement
  <2>4. Open(grant') = o \ {c} /\ grant'.calls = grant.calls
    BY <1>1, <2>1
  <2>5. /\ o \ {c} \subseteq begun' /\ refused' \subseteq begun'
        /\ refused' \cap (o \ {c}) = {}
    BY <1>6, <2>1 DEF Ledger
  <2>6. grant.calls + Cardinality(o \ {c}) + Cardinality(refused \cup {c}) = Cardinality(begun) + spent
    <3>1. PICK a : a = Cardinality(o)
      OBVIOUS
    <3>2. PICK b : b = Cardinality(refused)
      OBVIOUS
    <3>3. PICK d : d = Cardinality(begun)
      OBVIOUS
    <3>4. PICK g : g = grant.calls
      OBVIOUS
    <3>5. g + a + b = d + spent /\ a \in Nat /\ b \in Nat /\ d \in Nat /\ g \in Nat /\ spent \in Nat
      BY <1>6, <1>7, <3>1, <3>2, <3>3, <3>4 DEF Ledger
    <3>6. g + (a - 1) + (b + 1) = d + spent
      BY <3>5
    <3> QED BY <2>3, <3>1, <3>2, <3>3, <3>4, <3>6
  <2> QED BY <1>5, <2>1, <2>4, <2>5, <2>6 DEF Ledger, Open
<1>11. CASE doing[p].op = "consume"
  <2>1. /\ Open(next[p]) = o /\ next[p].calls = grant.calls + 1
        /\ begun' = begun /\ refused' = refused /\ spent' = spent + 1
    BY <1>6, <1>11 DEF Fresh, Put
  <2>2. Open(grant') = o /\ grant'.calls = grant.calls + 1
    BY <1>1, <2>1
  <2>3. grant.calls + 1 + Cardinality(o) + Cardinality(refused) = Cardinality(begun) + (spent + 1)
    BY <1>6, <1>7 DEF Ledger
  <2> QED BY <1>5, <1>6, <2>1, <2>2, <2>3 DEF Ledger, Open
<1> QED BY <1>4, <1>8, <1>9, <1>10, <1>11 DEF LockedOps

\* Every step keeps the account.
LEMMA StepAccounts == ASSUME IInv, AInv, [Next]_vars PROVE AInv'
<1>1. ASSUME NEW p \in Process, NEW c \in Call, NEW t \in Amount, begin_model_grant_call(p, c, t)
      PROVE  AInv'
  <2>1. Fresh(p)'
    BY <1>1, BeginFresh
  <2> QED BY <1>1, <2>1, DecideAccounts DEF begin_model_grant_call, Locked, LockedOps
<1>2. ASSUME NEW p \in Process, NEW c \in Call, NEW t \in Amount, NEW over \in BOOLEAN,
             finish_model_grant_call(p, c, t, over)
      PROVE  AInv'
  <2>1. Fresh(p)'
    BY <1>2, FinishFresh
  <2> QED BY <1>2, <2>1, DecideAccounts DEF finish_model_grant_call, Locked, LockedOps
<1>3. ASSUME NEW p \in Process, NEW t \in Amount, consume_model_grant(p, t) PROVE AInv'
  <2>1. Fresh(p)'
    BY <1>3, ConsumeFresh
  <2> QED BY <1>3, <2>1, DecideAccounts DEF consume_model_grant, Locked, LockedOps
<1>4. ASSUME NEW p \in Process, revoke_model_grant(p) \/ revoke_node(p) PROVE AInv'
  <2>1. PICK what, r : Decide(p, what, r) /\ what.op \in {"revoke_model_grant", "revoke_node"}
    BY <1>4 DEF revoke_model_grant, revoke_node
  <2>2. doing'[p] = what
    BY <2>1 DEF Decide, IInv, TypeOK
  <2>3. what.op \notin LockedOps /\ Fresh(p)'
    BY <2>1, <2>2 DEF LockedOps, Fresh
  <2>4. lock' = lock
    BY <1>4 DEF revoke_model_grant, revoke_node
  <2> QED BY <2>1, <2>3, <2>4, DecideAccounts
<1>5. ASSUME NEW p \in Process, Put(p) PROVE AInv'
  BY <1>5, PutAccounts
<1>6. ASSUME NEW p \in Process, Crash(p) PROVE AInv'
  <2>1. /\ doing' = [doing EXCEPT ![p] = Idle] /\ doing \in [Process -> Doing]
        /\ next' = [next EXCEPT ![p] = NoGrant] /\ next \in [Process -> GrantType]
        /\ grant' = grant /\ begun' = begun /\ refused' = refused /\ spent' = spent /\ ended' = ended
        /\ lock' = IF lock = p THEN None ELSE lock
    BY <1>6 DEF Crash, IInv, TypeOK
  <2>2. Idle.op \notin LockedOps
    BY DEF Idle, LockedOps
  <2>3. LockInv'
    BY <2>1, <2>2 DEF AInv, LockInv
  <2>4. ~ended' => Ledger'
    BY <2>1 DEF AInv, Ledger, Open
  <2>5. ASSUME ~ended', NEW q \in Process PROVE Fresh(q)'
    <3>1. CASE q = p
      <4>1. doing'[q] = Idle
        BY <2>1, <3>1
      <4> QED BY <4>1 DEF Fresh, Idle
    <3>2. CASE q # p
      <4>1. doing'[q] = doing[q] /\ next'[q] = next[q] /\ Fresh(q)
        BY <2>1, <2>5, <3>2 DEF AInv
      <4> QED BY <2>1, <4>1 DEF Fresh, Open
    <3> QED BY <3>1, <3>2
  <2> QED BY <2>3, <2>4, <2>5 DEF AInv
<1>7. ASSUME Expire \/ UNCHANGED vars PROVE AInv'
  BY <1>7 DEF Expire, vars, AInv, LockInv, Ledger, Fresh, Open
<1> QED BY <1>1, <1>2, <1>3, <1>4, <1>5, <1>6, <1>7 DEF Next

\* Until a revocation has written, no interleaving of handlers and crashes of
\* any number of processes loses a call or counts one twice.
THEOREM AccountKept == Spec => []CallsAccounted
<1>1. Init => AInv
  <2> SUFFICES ASSUME Init PROVE AInv
    OBVIOUS
  <2>1. Idle.op \notin LockedOps /\ \A p \in Process : doing[p] = Idle
    BY DEF Init, Idle, LockedOps
  <2>2. LockInv /\ \A p \in Process : Fresh(p)
    BY <2>1 DEF LockInv, Fresh, LockedOps
  <2>3. Open(grant) = {} /\ grant.calls = 0 /\ begun = {} /\ refused = {} /\ spent = 0
    BY DEF Init, Open, NoGrant
  <2>4. Ledger
    BY <2>3, FS_EmptySet DEF Ledger
  <2> QED BY <2>2, <2>4 DEF AInv
<1>2. AInv => CallsAccounted
  BY DEF AInv, Ledger, CallsAccounted
<1> QED BY <1>1, <1>2, StepAccounts, Invariance, PTL DEF Spec

-----------------------------------------------------------------------------
(* Relay.                                                                  *)

-----------------------------------------------------------------------------
(* What queues are made of.                                                *)

\* What an append leaves in place and adds.
LEMMA AppendFacts ==
  ASSUME NEW S, NEW q \in Seq(S), NEW m \in S
  PROVE  /\ Append(q, m) \in Seq(S) /\ Append(q, m) # << >>
         /\ Len(q) \in Nat /\ Len(Append(q, m)) = Len(q) + 1
         /\ \A i \in 1..Len(q) : Append(q, m)[i] = q[i]
         /\ Append(q, m)[Len(q) + 1] = m
OBVIOUS

\* What is left once the head was read.
LEMMA TailFacts ==
  ASSUME NEW S, NEW q \in Seq(S), q # << >>
  PROVE  /\ Tail(q) \in Seq(S) /\ Len(q) \in Nat \ {0} /\ Len(Tail(q)) = Len(q) - 1
         /\ \A i \in 1..(Len(q) - 1) : Tail(q)[i] = q[i + 1]
         /\ Head(q) = q[1] /\ q[1] \in S
         /\ Tail(q) = << >> <=> Len(q) = 1
<1>1. Len(q) \in Nat \ {0} /\ Head(q) = q[1] /\ q[1] \in S
  OBVIOUS
<1>2. /\ Tail(q) \in Seq(S) /\ Len(Tail(q)) = Len(q) - 1
      /\ \A i \in 1..Len(Tail(q)) : Tail(q)[i] = q[i + 1]
  BY HeadTailProperties
<1>3. Tail(q) = << >> <=> Len(Tail(q)) = 0
  BY <1>2, EmptySeq
<1> QED BY <1>1, <1>2, <1>3

\* A queue is empty or has a first and a last message.
LEMMA QueueFacts ==
  ASSUME NEW S, NEW q \in Seq(S)
  PROVE  /\ Len(q) \in Nat /\ (q = << >> <=> Len(q) = 0)
         /\ \A i \in 1..Len(q) : q[i] \in S
         /\ << >> \in Seq(S) /\ Len(<< >>) = 0
         /\ q # << >> => Head(q) = q[1] /\ q[1] \in S
OBVIOUS

-----------------------------------------------------------------------------
(* Messages.  The worker's frames are requests, the host's answers; what   *)
(* has no number is the relay's own or the end of the stream.              *)

Controls == {Control(k) : k \in ControlKind}
FrameKind(s) == IF s = "worker" THEN Request ELSE Answer
Frame(s) == [kind : FrameKind(s), seq : Nat \ {0}, conn : Conn, re : Nat]
Sent(s) == Frame(s) \cup Controls

MsgInv ==
  \A s \in Side : (\A c \in Conn : wire[s][c] \in Seq(Sent(s))) /\ inbox[s] \in Seq(Sent(Peer(s)))

TypeInv == RelayTypeOK /\ MsgInv

\* Every request has an answer.
LEMMA AnswersType ==
  ASSUME NEW k \in Request
  PROVE  Answers(k) \subseteq Answer
BY DEF Answer

\* The kinds of answers.
LEMMA AnswerKinds ==
  Answer = {"ready", "job", "no_job", "acknowledged", "recorded", "status", "result", "begun", "stored",
            "verified", "noted", "goodbye"}
<1>1. ASSUME NEW k \in Request
      PROVE  /\ k = "hello" => Answers(k) = {"ready"}
             /\ k = "lease" => Answers(k) = {"job", "no_job"}
             /\ k = "ack" => Answers(k) = {"acknowledged"}
             /\ k \in {"event", "terminal"} => Answers(k) = {"recorded"}
             /\ k = "beat" => Answers(k) = {"status"}
             /\ k = "model" => Answers(k) = {"result"}
             /\ k = "begin" => Answers(k) = {"begun"}
             /\ k = "chunk" => Answers(k) = {"stored"}
             /\ k = "final" => Answers(k) = {"verified"}
             /\ k = "report" => Answers(k) = {"noted"}
             /\ k = "bye" => Answers(k) = {"goodbye"}
  BY DEF Answers
<1>2. Request = {"hello", "lease", "ack", "event", "beat", "model", "begin", "chunk", "final", "terminal",
                 "report", "bye"}
  BY DEF Request
<1>3. ASSUME NEW a \in Answer
      PROVE  a \in {"ready", "job", "no_job", "acknowledged", "recorded", "status", "result", "begun",
                    "stored", "verified", "noted", "goodbye"}
  <2>1. PICK k \in Request : a \in Answers(k)
    BY DEF Answer
  <2> QED BY <1>1, <1>2, <2>1
<1>4. ASSUME NEW a \in {"ready", "job", "no_job", "acknowledged", "recorded", "status", "result", "begun",
                        "stored", "verified", "noted", "goodbye"}
      PROVE  \E k \in Request : a \in Answers(k)
  <2>1. /\ Answers("hello") = {"ready"} /\ Answers("lease") = {"job", "no_job"}
        /\ Answers("ack") = {"acknowledged"} /\ Answers("event") = {"recorded"}
        /\ Answers("beat") = {"status"} /\ Answers("model") = {"result"} /\ Answers("begin") = {"begun"}
        /\ Answers("chunk") = {"stored"} /\ Answers("final") = {"verified"} /\ Answers("report") = {"noted"}
        /\ Answers("bye") = {"goodbye"}
    BY <1>1, <1>2
  <2> QED BY <1>2, <2>1
<1>5. \A a : a \in Answer <=> \E k \in Request : a \in Answers(k)
  BY DEF Answer
<1> QED BY <1>3, <1>4, <1>5

\* A frame has a number and no kind of the relay's own; a control has none.
LEMMA SentFacts ==
  ASSUME NEW s \in Side, NEW m \in Sent(s)
  PROVE  /\ m \in MessageType
         /\ m.seq # 0 => m \in Frame(s) /\ m.kind \in FrameKind(s) /\ m.kind \notin ControlKind
         /\ m.seq = 0 => m.kind \in ControlKind /\ m = Control(m.kind)
<1>1. CASE m \in Frame(s)
  <2>1. m.kind \in FrameKind(s) /\ m.seq \in Nat \ {0} /\ m.conn \in Conn /\ m.re \in Nat
    BY <1>1 DEF Frame
  <2>2. m.kind \in Request \cup Answer
    BY <2>1 DEF FrameKind
  <2>4. m.kind \notin ControlKind
    BY <2>2, AnswerKinds DEF Request, ControlKind
  <2>5. m \in MessageType
    BY <1>1, <2>1, <2>2 DEF Frame, MessageType, Conn
  <2> QED BY <1>1, <2>1, <2>4, <2>5
<1>2. CASE m \in Controls
  <2>1. PICK k \in ControlKind : m = Control(k)
    BY <1>2 DEF Controls
  <2>2. m = [kind |-> k, seq |-> 0, conn |-> 0, re |-> 0]
    BY <2>1 DEF Control, Message
  <2>3. m.kind = k /\ m.seq = 0
    BY <2>2
  <2>4. m \in MessageType
    BY <2>2 DEF MessageType
  <2> QED BY <2>1, <2>3, <2>4
<1> QED BY <1>1, <1>2 DEF Sent

\* What is put on a queue.
LEMMA ControlSent ==
  ASSUME NEW s \in Side, NEW k \in ControlKind
  PROVE  Control(k) \in Sent(s) /\ Control(k).kind = k /\ Control(k).seq = 0
BY DEF Sent, Controls, Control, Message

\* The queues.
WireOk == \A s \in Side : \A c \in Conn : wire[s][c] \in Seq(Sent(s))
InboxOk == \A s \in Side : inbox[s] \in Seq(Sent(Peer(s)))
QueueOk ==
  /\ wire \in [Side -> [Conn -> Seq(MessageType)]] /\ inbox \in [Side -> Seq(MessageType)]
  /\ WireOk /\ InboxOk

LEMMA QueueOkInv == TypeInv <=> RelayTypeOK /\ QueueOk
BY DEF TypeInv, MsgInv, QueueOk, WireOk, InboxOk, RelayTypeOK

LEMMA PeerFacts == ASSUME NEW s \in Side PROVE Peer(s) \in Side /\ Peer(s) # s /\ Peer(Peer(s)) = s
BY DEF Side, Peer

\* A queue of what a side sends is a queue of messages.
LEMMA SentSeq ==
  ASSUME NEW s \in Side, NEW q \in Seq(Sent(s))
  PROVE  q \in Seq(MessageType)
<1>1. Sent(s) \subseteq MessageType
  BY SentFacts
<1> QED BY <1>1

\* Queue q is what connection c of side s holds now; no other connection changes.
OneWire(s, c, q) ==
  /\ wire' \in [Side -> [Conn -> Seq(MessageType)]] /\ WireOk' /\ wire'[s][c] = q
  /\ \A t \in Side : \A d \in Conn : <<t, d>> # <<s, c>> => wire'[t][d] = wire[t][d]

LEMMA WireStep ==
  ASSUME QueueOk, NEW s \in Side, NEW c \in Conn, NEW q \in Seq(Sent(s)), wire' = [wire EXCEPT ![s][c] = q]
  PROVE  OneWire(s, c, q)
<1>1. q \in Seq(MessageType)
  BY SentSeq
<1>2. wire \in [Side -> [Conn -> Seq(MessageType)]]
  BY DEF QueueOk
<1>3. wire' \in [Side -> [Conn -> Seq(MessageType)]]
  BY <1>1, <1>2
<1>4. wire'[s][c] = q /\ \A t \in Side : \A d \in Conn : <<t, d>> # <<s, c>> => wire'[t][d] = wire[t][d]
  BY <1>2
<1>5. ASSUME NEW t \in Side, NEW d \in Conn PROVE wire'[t][d] \in Seq(Sent(t))
  <2>1. CASE t = s /\ d = c
    BY <1>4, <2>1
  <2>2. CASE ~(t = s /\ d = c)
    BY <1>4, <2>2 DEF QueueOk, WireOk
  <2> QED BY <2>1, <2>2
<1> QED BY <1>3, <1>4, <1>5 DEF WireOk, OneWire

\* One inbox changes.
LEMMA InboxStep ==
  ASSUME QueueOk, NEW s \in Side, NEW q \in Seq(Sent(Peer(s))), inbox' = [inbox EXCEPT ![s] = q]
  PROVE  /\ inbox' \in [Side -> Seq(MessageType)] /\ InboxOk'
         /\ inbox'[s] = q /\ inbox'[Peer(s)] = inbox[Peer(s)]
<1>1. q \in Seq(MessageType)
  BY SentSeq, PeerFacts
<1>2. inbox \in [Side -> Seq(MessageType)]
  BY DEF QueueOk
<1>3. ASSUME NEW t \in Side PROVE inbox'[t] \in Seq(Sent(Peer(t)))
  BY <1>2 DEF QueueOk, InboxOk
<1> QED BY <1>1, <1>2, <1>3, PeerFacts DEF InboxOk

\* The type of an endpoint and what sealing makes of a message.
LEMMA EndFacts ==
  ASSUME TypeInv, NEW s \in Side
  PROVE  /\ end[s].conn \in Conn /\ end[s].seq \in Nat /\ end[s].state \in {"closed", "greeting", "open"}
         /\ end \in [Side -> [conn : Conn, seq : Nat, state : {"closed", "greeting", "open"}]]
         /\ handler \in [Side -> [Conn -> BOOLEAN]] /\ registry \in [Side -> 0..2]
         /\ QueueOk
BY QueueOkInv DEF TypeInv, RelayTypeOK

LEMMA SealedSent ==
  ASSUME TypeInv, NEW s \in Side, NEW k \in FrameKind(s), NEW re \in Nat
  PROVE  /\ Sealed(s, k, re) \in Frame(s) /\ Sealed(s, k, re) \in Sent(s)
         /\ Sealed(s, k, re).kind = k /\ Sealed(s, k, re).seq = end[s].seq + 1
         /\ Sealed(s, k, re).conn = end[s].conn /\ Sealed(s, k, re).re = re
<1>1. Sealed(s, k, re) = [kind |-> k, seq |-> end[s].seq + 1, conn |-> end[s].conn, re |-> re]
  BY DEF Sealed, Message
<1>2. end[s].seq + 1 \in Nat \ {0} /\ end[s].conn \in Conn
  BY EndFacts
<1>3. Sealed(s, k, re) \in Frame(s)
  BY <1>1, <1>2 DEF Frame
<1> QED BY <1>1, <1>3 DEF Sent

\* What each operation leaves of the queues and of the endpoints.
EndType == [Side -> [conn : Conn, seq : Nat, state : {"closed", "greeting", "open"}]]

LEMMA SendsEffect ==
  ASSUME TypeInv, NEW s \in Side, NEW k \in FrameKind(s), NEW re \in Nat, Sends(s, k, re)
  PROVE  /\ wire' \in [Side -> [Conn -> Seq(MessageType)]] /\ WireOk' /\ end' \in EndType
         /\ end'[s] = [end[s] EXCEPT !.seq = end[s].seq + 1] /\ end'[Peer(s)] = end[Peer(s)]
         /\ wire'[s][end[s].conn] = IF Reaches(s, wire[s][end[s].conn])
                                    THEN Append(wire[s][end[s].conn], Sealed(s, k, re)) ELSE wire[s][end[s].conn]
         /\ \A t \in Side : \A d \in Conn : <<t, d>> # <<s, end[s].conn>> => wire'[t][d] = wire[t][d]
<1> DEFINE c == end[s].conn
           q == IF Reaches(s, wire[s][c]) THEN Append(wire[s][c], Sealed(s, k, re)) ELSE wire[s][c]
<1>1. c \in Conn /\ end \in EndType /\ QueueOk /\ end[s].seq + 1 \in Nat
  BY EndFacts DEF EndType
<1>2. wire[s][c] \in Seq(Sent(s)) /\ Sealed(s, k, re) \in Sent(s)
  BY <1>1, SealedSent DEF QueueOk, WireOk
<1>3. q \in Seq(Sent(s))
  BY <1>2, AppendFacts
<1>4. wire' = [wire EXCEPT ![s][c] = q]
  BY DEF Sends, Writes
<1>5. end' = [end EXCEPT ![s].seq = end[s].seq + 1]
  BY DEF Sends
<1>6. end' \in EndType /\ end'[s] = [end[s] EXCEPT !.seq = end[s].seq + 1] /\ end'[Peer(s)] = end[Peer(s)]
  BY <1>1, <1>5, PeerFacts DEF EndType
<1>7. /\ wire' \in [Side -> [Conn -> Seq(MessageType)]] /\ WireOk' /\ wire'[s][c] = q
      /\ \A t \in Side : \A d \in Conn : <<t, d>> # <<s, c>> => wire'[t][d] = wire[t][d]
  <2> HIDE DEF c, q
  <2>1. OneWire(s, c, q)
    BY <1>1, <1>3, <1>4, WireStep
  <2> QED BY <2>1 DEF OneWire
<1> QED BY <1>6, <1>7

LEMMA ClosesEffect ==
  ASSUME TypeInv, NEW s \in Side, Closes(s)
  PROVE  /\ QueueOk' /\ end' \in EndType
         /\ end'[s] = [end[s] EXCEPT !.state = "closed", !.seq = 0] /\ end'[Peer(s)] = end[Peer(s)]
         /\ wire'[s][end[s].conn] = IF Reaches(s, wire[s][end[s].conn])
                                    THEN Append(wire[s][end[s].conn], Eof) ELSE wire[s][end[s].conn]
         /\ \A t \in Side : \A d \in Conn : <<t, d>> # <<s, end[s].conn>> => wire'[t][d] = wire[t][d]
         /\ inbox'[s] = << >> /\ inbox'[Peer(s)] = inbox[Peer(s)]
<1> DEFINE c == end[s].conn
           q == IF Reaches(s, wire[s][c]) THEN Append(wire[s][c], Eof) ELSE wire[s][c]
<1>1. c \in Conn /\ end \in EndType /\ QueueOk
  BY EndFacts DEF EndType
<1>2. wire[s][c] \in Seq(Sent(s)) /\ Eof \in Sent(s)
  BY <1>1, ControlSent DEF QueueOk, WireOk, Eof, ControlKind
<1>3. q \in Seq(Sent(s))
  BY <1>2, AppendFacts
<1>4. wire' = [wire EXCEPT ![s][c] = q] /\ inbox' = [inbox EXCEPT ![s] = << >>]
  BY DEF Closes, GivenUp, Writes
<1>5. end' = [end EXCEPT ![s].state = "closed", ![s].seq = 0]
  BY DEF Closes, GivenUp
<1>6. end' \in EndType /\ end'[s] = [end[s] EXCEPT !.state = "closed", !.seq = 0] /\ end'[Peer(s)] = end[Peer(s)]
  BY <1>1, <1>5, PeerFacts DEF EndType
<1>7. << >> \in Seq(Sent(Peer(s)))
  OBVIOUS
<1>8. /\ wire' \in [Side -> [Conn -> Seq(MessageType)]] /\ WireOk' /\ wire'[s][c] = q
      /\ \A t \in Side : \A d \in Conn : <<t, d>> # <<s, c>> => wire'[t][d] = wire[t][d]
  <2> HIDE DEF c, q
  <2>1. OneWire(s, c, q)
    BY <1>1, <1>3, <1>4, WireStep
  <2> QED BY <2>1 DEF OneWire
<1>9. /\ inbox' \in [Side -> Seq(MessageType)] /\ InboxOk'
      /\ inbox'[s] = << >> /\ inbox'[Peer(s)] = inbox[Peer(s)]
  BY <1>1, <1>4, <1>7, InboxStep
<1> QED BY <1>6, <1>8, <1>9 DEF QueueOk

\* The message reaches the inbox if the endpoint still has the connection.
Present(s, c) == end[s].conn = c /\ end[s].state # "closed"

LEMMA DeliveredEffect ==
  ASSUME TypeInv, NEW s \in Side, NEW c, NEW m \in Sent(Peer(s)), inbox' = Delivered(s, c, m)
  PROVE  /\ inbox' \in [Side -> Seq(MessageType)] /\ InboxOk'
         /\ inbox'[s] = IF Present(s, c) THEN Append(inbox[s], m) ELSE inbox[s]
         /\ inbox'[Peer(s)] = inbox[Peer(s)]
<1>1. QueueOk /\ inbox[s] \in Seq(Sent(Peer(s))) /\ inbox \in [Side -> Seq(MessageType)]
  BY EndFacts DEF QueueOk, InboxOk
<1>2. CASE Present(s, c)
  <2>1. inbox' = [inbox EXCEPT ![s] = Append(inbox[s], m)]
    BY <1>2 DEF Delivered, Present
  <2>2. Append(inbox[s], m) \in Seq(Sent(Peer(s)))
    BY <1>1, AppendFacts
  <2> QED BY <1>1, <1>2, <2>1, <2>2, InboxStep
<1>3. CASE ~Present(s, c)
  <2>1. inbox' = inbox
    BY <1>3 DEF Delivered, Present
  <2> QED BY <1>1, <1>3, <2>1 DEF QueueOk, InboxOk
<1> QED BY <1>2, <1>3

LEMMA ReadsEffect ==
  ASSUME TypeInv, NEW s \in Side, NEW c \in Conn, wire[s][c] # << >>, Reads(s, c)
  PROVE  /\ wire' \in [Side -> [Conn -> Seq(MessageType)]] /\ WireOk'
         /\ wire'[s][c] = Tail(wire[s][c])
         /\ \A t \in Side : \A d \in Conn : <<t, d>> # <<s, c>> => wire'[t][d] = wire[t][d]
<1>1. QueueOk /\ wire[s][c] \in Seq(Sent(s))
  BY EndFacts DEF QueueOk, WireOk
<1>2. Tail(wire[s][c]) \in Seq(Sent(s))
  BY <1>1, TailFacts
<1>3. wire' = [wire EXCEPT ![s][c] = Tail(wire[s][c])]
  BY DEF Reads
<1>4. OneWire(s, c, Tail(wire[s][c]))
  BY <1>1, <1>2, <1>3, WireStep
<1> QED BY <1>4 DEF OneWire

LEMMA HandlerEndsEffect ==
  ASSUME TypeInv, NEW s \in Side, NEW c \in Conn, HandlerEnds(s, c)
  PROVE  /\ QueueOk'
         /\ registry' \in [Side -> 0..2] /\ handler' \in [Side -> [Conn -> BOOLEAN]]
         /\ registry'[s] = (IF registry[s] = c THEN 0 ELSE registry[s]) /\ registry'[Peer(s)] = registry[Peer(s)]
         /\ handler'[s] = [handler[s] EXCEPT ![c] = FALSE] /\ handler'[Peer(s)] = handler[Peer(s)]
         /\ wire'[s][c] = << >>
         /\ \A t \in Side : \A d \in Conn : <<t, d>> # <<s, c>> => wire'[t][d] = wire[t][d]
         /\ inbox'[s] = IF Present(s, c) THEN Append(inbox[s], Eof) ELSE inbox[s]
         /\ inbox'[Peer(s)] = inbox[Peer(s)]
<1>1. QueueOk /\ registry \in [Side -> 0..2] /\ handler \in [Side -> [Conn -> BOOLEAN]]
  BY EndFacts
<1>2. /\ registry' \in [Side -> 0..2]
      /\ registry'[s] = (IF registry[s] = c THEN 0 ELSE registry[s]) /\ registry'[Peer(s)] = registry[Peer(s)]
  BY <1>1, PeerFacts DEF HandlerEnds, Unregistered
<1>3. /\ handler' \in [Side -> [Conn -> BOOLEAN]]
      /\ handler'[s] = [handler[s] EXCEPT ![c] = FALSE] /\ handler'[Peer(s)] = handler[Peer(s)]
  BY <1>1, PeerFacts DEF HandlerEnds
<1>4. wire' = [wire EXCEPT ![s][c] = << >>] /\ << >> \in Seq(Sent(s))
  BY DEF HandlerEnds
<1>5. /\ wire' \in [Side -> [Conn -> Seq(MessageType)]] /\ WireOk' /\ wire'[s][c] = << >>
      /\ \A t \in Side : \A d \in Conn : <<t, d>> # <<s, c>> => wire'[t][d] = wire[t][d]
  <2>1. OneWire(s, c, << >>)
    BY <1>1, <1>4, WireStep
  <2> QED BY <2>1 DEF OneWire
<1>6. Eof \in Sent(Peer(s)) /\ inbox' = Delivered(s, c, Eof)
  BY PeerFacts, ControlSent DEF Eof, ControlKind, HandlerEnds
<1>7. /\ inbox' \in [Side -> Seq(MessageType)] /\ InboxOk'
      /\ inbox'[s] = IF Present(s, c) THEN Append(inbox[s], Eof) ELSE inbox[s]
      /\ inbox'[Peer(s)] = inbox[Peer(s)]
  BY <1>6, DeliveredEffect
<1> QED BY <1>2, <1>3, <1>5, <1>7 DEF QueueOk

-----------------------------------------------------------------------------
(* One side of the relay: its endpoint e, the connection r the server has  *)
(* for it, the handlers hd of its connections, what waits for them in wr   *)
(* and what came back in ib.                                               *)

Hello == "relay.hello"
NoHello(q) == \A i \in 1..Len(q) : q[i].kind # Hello

\* A hello is the first on its connection, and no frame follows it there.
HelloFirst(q) == \A i \in 1..Len(q) : (i > 1 => q[i].kind # Hello) /\ (q[1].kind = Hello => q[i].seq = 0)

\* A connection with traffic or a registration has its handler.  The server does
\* not know a connection that waits to be greeted; when it is the endpoint's,
\* nothing came back yet, and nothing is sent.  Once the endpoint was greeted
\* the server knows its connection, or its handler is gone, or it was overtaken.
SideOk(s, e, r, hd, wr, ib, ov) ==
  /\ \A c \in Conn : wr[c] # << >> => hd[c]
  /\ r # 0 => hd[r]
  /\ \A c \in Conn : HelloFirst(wr[c])
  /\ \A c \in Conn : ~NoHello(wr[c]) =>
       r # c /\ (c = e.conn => e.state # "open" /\ (e.state = "greeting" => ib = << >>))
  /\ e.state # "closed" /\ hd[e.conn] /\ s \notin ov =>
       r = e.conn \/ (e.state = "greeting" /\ ~NoHello(wr[e.conn]))
  /\ e.state = "greeting" => e.seq = 0 /\ Len(wr[e.conn]) <= 1 /\ (NoHello(wr[e.conn]) => wr[e.conn] = << >>)

SideInv(s) == SideOk(s, end[s], registry[s], handler[s], wire[s], inbox[s], overtaken)
RegInv == \A s \in Side : SideInv(s)

EndpointType == [conn : Conn, seq : Nat, state : {"closed", "greeting", "open"}]
Wires == [Conn -> Seq(MessageType)]

LEMMA NoHelloAppend ==
  ASSUME NEW q \in Seq(MessageType), NEW m \in MessageType, m.kind # Hello
  PROVE  NoHello(Append(q, m)) <=> NoHello(q)
BY AppendFacts DEF NoHello

LEMMA HelloFirstAppend ==
  ASSUME NEW q \in Seq(MessageType), NEW m \in MessageType, HelloFirst(q), m.kind # Hello,
         NoHello(q) \/ m.seq = 0
  PROVE  HelloFirst(Append(q, m))
<1>1. PICK p : p = Append(q, m)
  OBVIOUS
<1>2. Len(q) \in Nat /\ Len(p) = Len(q) + 1 /\ (\A i \in 1..Len(q) : p[i] = q[i]) /\ p[Len(q) + 1] = m
  BY <1>1, AppendFacts
<1>3. ASSUME NEW i \in 1..Len(p) PROVE (i > 1 => p[i].kind # Hello) /\ (p[1].kind = Hello => p[i].seq = 0)
  <2>1. CASE i = Len(q) + 1
    <3>1. p[i] = m
      BY <1>2, <2>1
    <3>2. ASSUME p[1].kind = Hello PROVE m.seq = 0
      <4>1. Len(q) # 0
        BY <1>2, <3>2
      <4>2. 1 \in 1..Len(q) /\ p[1] = q[1]
        BY <1>2, <4>1
      <4> QED BY <3>2, <4>2 DEF NoHello
    <3> QED BY <3>1, <3>2
  <2>2. CASE i # Len(q) + 1
    <3>1. i \in 1..Len(q) /\ 1 \in 1..Len(q)
      BY <1>2, <2>2
    <3> QED BY <1>2, <3>1 DEF HelloFirst
  <2> QED BY <2>1, <2>2
<1> QED BY <1>1, <1>3 DEF HelloFirst

\* What is left of a connection whose hello was read, or that had none in front.
LEMMA HelloFirstTail ==
  ASSUME NEW q \in Seq(MessageType), q # << >>, HelloFirst(q)
  PROVE  /\ NoHello(Tail(q)) /\ HelloFirst(Tail(q))
         /\ Head(q).kind # Hello => NoHello(q)
         /\ Head(q).kind = Hello => ~NoHello(q) /\ \A i \in 1..Len(q) : q[i].seq = 0
<1>1. PICK p : p = Tail(q)
  OBVIOUS
<1>2. /\ Len(q) \in Nat \ {0} /\ Len(p) = Len(q) - 1 /\ Head(q) = q[1]
      /\ \A i \in 1..(Len(q) - 1) : p[i] = q[i + 1]
  BY <1>1, TailFacts
<1>3. ASSUME NEW i \in 1..Len(p) PROVE p[i].kind # Hello
  <2>1. i + 1 \in 1..Len(q) /\ i + 1 > 1 /\ p[i] = q[i + 1]
    BY <1>2
  <2> QED BY <2>1 DEF HelloFirst
<1>4. NoHello(p)
  BY <1>3 DEF NoHello
<1>5. HelloFirst(p)
  <2>1. ASSUME NEW i \in 1..Len(p) PROVE 1 \in 1..Len(p)
    BY <1>2
  <2> QED BY <1>3, <2>1 DEF HelloFirst
<1>6. 1 \in 1..Len(q)
  BY <1>2
<1>7. Head(q).kind # Hello => NoHello(q)
  <2>1. \A i \in 1..Len(q) : i = 1 \/ i > 1
    BY <1>2
  <2> QED BY <1>2, <2>1 DEF NoHello, HelloFirst
<1>8. Head(q).kind = Hello => ~NoHello(q) /\ \A i \in 1..Len(q) : q[i].seq = 0
  BY <1>2, <1>6 DEF NoHello, HelloFirst
<1> QED BY <1>1, <1>4, <1>5, <1>7, <1>8

LEMMA HelloFirstEmpty == NoHello(<< >>) /\ HelloFirst(<< >>) /\ Len(<< >>) = 0
BY DEF NoHello, HelloFirst

\* Something is taken from the inbox or comes in, and nothing else.
LEMMA SideInbox ==
  ASSUME NEW s, NEW e \in EndpointType, NEW r, NEW hd, NEW wr, NEW ib, NEW ib2, NEW ov, NEW ov2,
         SideOk(s, e, r, hd, wr, ib, ov), s \in ov <=> s \in ov2,
         ib2 = ib \/ e.state # "greeting" \/ r = e.conn
  PROVE  SideOk(s, e, r, hd, wr, ib2, ov2)
BY DEF SideOk

\* An endpoint that is open, or was answered, sends or ends.
LEMMA SideSend ==
  ASSUME NEW s, NEW e \in EndpointType, NEW r, NEW hd \in [Conn -> BOOLEAN], NEW wr \in Wires, NEW ib, NEW ov,
         SideOk(s, e, r, hd, wr, ib, ov), NEW wr2 \in Wires, NEW e2 \in EndpointType, NEW ib2,
         e.state = "open" \/ (e.state = "greeting" /\ ib # << >>),
         e2.conn = e.conn, e2.state \in {"open", "closed"},
         NoHello(wr[e.conn]) /\ HelloFirst(wr[e.conn]) => NoHello(wr2[e.conn]) /\ HelloFirst(wr2[e.conn]),
         ~hd[e.conn] => wr2[e.conn] = wr[e.conn],
         \A d \in Conn : d # e.conn => wr2[d] = wr[d]
  PROVE  SideOk(s, e2, r, hd, wr2, ib2, ov)
<1>1. e.conn \in Conn /\ NoHello(wr[e.conn])
  BY DEF SideOk, EndpointType
<1>2. NoHello(wr2[e.conn]) /\ HelloFirst(wr2[e.conn])
  BY <1>1 DEF SideOk
<1>3. \A c \in Conn : (wr2[c] # << >> => hd[c]) /\ HelloFirst(wr2[c])
  BY <1>2 DEF SideOk
<1>4. \A c \in Conn : ~NoHello(wr2[c]) => r # c /\ c # e.conn
  BY <1>2 DEF SideOk
<1>5. e2.state # "closed" /\ hd[e2.conn] /\ s \notin ov => r = e2.conn
  BY <1>1 DEF SideOk
<1>6. r # 0 => hd[r]
  BY DEF SideOk
<1> QED BY <1>3, <1>4, <1>5, <1>6 DEF SideOk

\* An endpoint is given up before it was answered.
LEMMA SideGivenUp ==
  ASSUME NEW s, NEW e \in EndpointType, NEW r, NEW hd \in [Conn -> BOOLEAN], NEW wr \in Wires, NEW ib, NEW ov,
         SideOk(s, e, r, hd, wr, ib, ov), NEW wr2 \in Wires, NEW e2 \in EndpointType, NEW ib2,
         e2.conn = e.conn, e2.state = "closed",
         (NoHello(wr[e.conn]) => NoHello(wr2[e.conn])) /\ HelloFirst(wr2[e.conn]), hd[e.conn],
         \A d \in Conn : d # e.conn => wr2[d] = wr[d]
  PROVE  SideOk(s, e2, r, hd, wr2, ib2, ov)
<1>1. \A c \in Conn : (wr2[c] # << >> => hd[c]) /\ HelloFirst(wr2[c]) /\ (NoHello(wr[c]) => NoHello(wr2[c]))
  BY DEF SideOk
<1>2. \A c \in Conn : ~NoHello(wr2[c]) => r # c
  BY <1>1 DEF SideOk
<1>3. r # 0 => hd[r]
  BY DEF SideOk
<1> QED BY <1>1, <1>2, <1>3 DEF SideOk

\* A handler reads something else than a hello.
LEMMA SideRead ==
  ASSUME NEW s, NEW e \in EndpointType, NEW r, NEW hd \in [Conn -> BOOLEAN], NEW wr \in Wires, NEW ib, NEW ov,
         SideOk(s, e, r, hd, wr, ib, ov),
         NEW c \in Conn, wr[c] # << >>, Head(wr[c]).kind # Hello,
         NEW wr2 \in Wires, wr2[c] = Tail(wr[c]), \A d \in Conn : d # c => wr2[d] = wr[d],
         NEW ib2, e.conn # c \/ e.state = "closed" => ib2 = ib
  PROVE  SideOk(s, e, r, hd, wr2, ib2, ov)
<1>1. wr[c] \in Seq(MessageType) /\ HelloFirst(wr[c])
  BY DEF Wires, SideOk
<1>2. NoHello(wr[c]) /\ NoHello(wr2[c]) /\ HelloFirst(wr2[c])
  BY <1>1, HelloFirstTail
<1>3. ~(c = e.conn /\ e.state = "greeting")
  BY <1>2 DEF SideOk
<1>4. \A d \in Conn : /\ wr2[d] # << >> => hd[d]
                      /\ HelloFirst(wr2[d]) /\ (NoHello(wr2[d]) <=> NoHello(wr[d]))
  BY <1>2 DEF SideOk
<1>5. e.state = "greeting" => wr2[e.conn] = wr[e.conn] /\ ib2 = ib
  BY <1>3 DEF EndpointType
<1> QED BY <1>2, <1>4, <1>5 DEF SideOk

\* A handler ends.
LEMMA SideEnd ==
  ASSUME NEW s, NEW e \in EndpointType, NEW r \in 0..2, NEW hd \in [Conn -> BOOLEAN], NEW wr \in Wires, NEW ib, NEW ov,
         SideOk(s, e, r, hd, wr, ib, ov),
         NEW c \in Conn, NEW wr2 \in Wires, wr2[c] = << >>, \A d \in Conn : d # c => wr2[d] = wr[d],
         NEW ib2, e.conn # c \/ e.state = "closed" => ib2 = ib
  PROVE  SideOk(s, e, IF r = c THEN 0 ELSE r, [hd EXCEPT ![c] = FALSE], wr2, ib2, ov)
<1> DEFINE r2 == IF r = c THEN 0 ELSE r
           hd2 == [hd EXCEPT ![c] = FALSE]
<1>1. ~hd2[c] /\ \A d \in Conn : d # c => hd2[d] = hd[d]
  OBVIOUS
<1>2. NoHello(wr2[c]) /\ HelloFirst(wr2[c]) /\ Len(wr2[c]) = 0
  BY HelloFirstEmpty
<1>3. \A d \in Conn : (wr2[d] # << >> => hd2[d]) /\ HelloFirst(wr2[d])
  BY <1>1, <1>2 DEF SideOk
<1>4. r2 # 0 => hd2[r2]
  BY <1>1 DEF SideOk, Conn
<1>5. \A d \in Conn : ~NoHello(wr2[d]) =>
        r2 # d /\ (d = e.conn => e.state # "open" /\ (e.state = "greeting" => ib2 = << >>))
  BY <1>2 DEF SideOk, Conn
<1>6. e.state # "closed" /\ hd2[e.conn] /\ s \notin ov =>
        r2 = e.conn \/ (e.state = "greeting" /\ ~NoHello(wr2[e.conn]))
  BY <1>1 DEF SideOk, EndpointType
<1>7. e.state = "greeting" =>
        e.seq = 0 /\ Len(wr2[e.conn]) <= 1 /\ (NoHello(wr2[e.conn]) => wr2[e.conn] = << >>)
  <2>1. e.conn \in Conn
    BY DEF EndpointType
  <2> QED BY <1>2, <2>1 DEF SideOk
<1> QED BY <1>3, <1>4, <1>5, <1>6, <1>7 DEF SideOk

\* What a hello shows that the relay reads.
LEMMA SideGreeting ==
  ASSUME NEW s, NEW e \in EndpointType, NEW r, NEW hd, NEW wr \in Wires, NEW ib, NEW ov,
         SideOk(s, e, r, hd, wr, ib, ov),
         NEW c \in Conn, wr[c] # << >>, Head(wr[c]).kind = Hello
  PROVE  /\ c = e.conn => e.state # "open" /\ (e.state = "greeting" => ib = << >> /\ Tail(wr[c]) = << >>)
         /\ hd[c] /\ \A i \in 1..Len(wr[c]) : wr[c][i].seq = 0
<1>0. /\ wr[c] \in Seq(MessageType) /\ HelloFirst(wr[c]) /\ Len(wr[c]) \in Nat \ {0}
      /\ Tail(wr[c]) = << >> <=> Len(wr[c]) = 1
  BY TailFacts DEF Wires, SideOk
<1>1. ~NoHello(wr[c]) /\ \A i \in 1..Len(wr[c]) : wr[c][i].seq = 0
  BY <1>0, HelloFirstTail
<1>2. c = e.conn => e.state # "open" /\ (e.state = "greeting" => ib = << >> /\ Len(wr[c]) <= 1)
  BY <1>1 DEF SideOk
<1>3. hd[c]
  BY DEF SideOk
<1> QED BY <1>0, <1>1, <1>2, <1>3

\* The relay greets: it overtakes the endpoint if the connection is an older one.
LEMMA SideHello ==
  ASSUME NEW s, NEW e \in EndpointType, NEW r, NEW hd, NEW wr \in Wires, NEW ib, NEW ov,
         SideOk(s, e, r, hd, wr, ib, ov),
         NEW c \in Conn, wr[c] # << >>, Head(wr[c]).kind = Hello,
         NEW wr2 \in Wires, wr2[c] = Tail(wr[c]), \A d \in Conn : d # c => wr2[d] = wr[d],
         NEW ib2, e.conn # c \/ e.state = "closed" => ib2 = ib,
         NEW ov2, s \in ov2 <=> s \in ov \/ (c # e.conn /\ r = e.conn)
  PROVE  SideOk(s, e, c, hd, wr2, ib2, ov2)
<1>1. wr[c] \in Seq(MessageType) /\ HelloFirst(wr[c]) /\ e.conn \in Conn
  BY DEF Wires, SideOk, EndpointType
<1>2. NoHello(wr2[c]) /\ HelloFirst(wr2[c])
  BY <1>1, HelloFirstTail
<1>3. /\ c = e.conn => e.state # "open" /\ (e.state = "greeting" => ib = << >> /\ Tail(wr[c]) = << >>)
      /\ hd[c] /\ \A i \in 1..Len(wr[c]) : wr[c][i].seq = 0
  <2>1. ~NoHello(wr[c]) /\ \A i \in 1..Len(wr[c]) : wr[c][i].seq = 0
    BY <1>1, HelloFirstTail
  <2>2. PICK q : q = wr[c]
    OBVIOUS
  <2>3. q \in Seq(MessageType) /\ q # << >>
    BY <1>1, <2>2
  <2>4. Len(q) \in Nat \ {0} /\ (Tail(q) = << >> <=> Len(q) = 1)
    BY <2>3, TailFacts
  <2>5. c = e.conn => e.state # "open" /\ (e.state = "greeting" => ib = << >> /\ Len(q) <= 1)
    BY <2>1, <2>2 DEF SideOk
  <2> QED BY <2>1, <2>2, <2>4, <2>5 DEF SideOk
<1>4. \A d \in Conn : (wr2[d] # << >> => hd[d]) /\ HelloFirst(wr2[d])
  BY <1>2, <1>3 DEF SideOk
<1>5. \A d \in Conn : ~NoHello(wr2[d]) =>
        c # d /\ (d = e.conn => e.state # "open" /\ (e.state = "greeting" => ib2 = << >>))
  BY <1>2 DEF SideOk
<1>6. e.state # "closed" /\ hd[e.conn] /\ s \notin ov2 =>
        c = e.conn \/ (e.state = "greeting" /\ ~NoHello(wr2[e.conn]))
  BY <1>1 DEF SideOk
<1>7. e.state = "greeting" =>
        e.seq = 0 /\ Len(wr2[e.conn]) <= 1 /\ (NoHello(wr2[e.conn]) => wr2[e.conn] = << >>)
  <2>1. CASE c = e.conn
    <3>1. e.state = "greeting" => wr2[e.conn] = << >> /\ e.seq = 0
      BY <1>3, <2>1 DEF SideOk
    <3>2. Len(<< >>) = 0 /\ 0 <= 1
      OBVIOUS
    <3> QED BY <3>1, <3>2
  <2>2. CASE c # e.conn
    BY <1>1, <2>2 DEF SideOk
  <2> QED BY <2>1, <2>2
<1> QED BY <1>3, <1>4, <1>5, <1>6, <1>7 DEF SideOk

\* A new endpoint connects on the other connection.
Connecting(s, e, r, hd, wr, ib, ov, c, e2, hd2, wr2, ib2) ==
  /\ e \in EndpointType /\ r \in 0..2 /\ hd \in [Conn -> BOOLEAN] /\ wr \in Wires
  /\ SideOk(s, e, r, hd, wr, ib, ov) /\ c \in Conn /\ ~hd[c] /\ c # e.conn
  /\ e2.conn = c /\ e2.seq = 0 /\ e2.state = "greeting" /\ hd2[c] /\ \A d \in Conn : hd[d] => hd2[d]
  /\ wr2[c] = <<Control(Hello)>> /\ (\A d \in Conn : d # c => wr2[d] = wr[d]) /\ ib2 = << >>

LEMMA SideConnect ==
  ASSUME NEW s, NEW e, NEW r, NEW hd, NEW wr, NEW ib, NEW ov, NEW c, NEW e2, NEW hd2, NEW wr2, NEW ib2,
         Connecting(s, e, r, hd, wr, ib, ov, c, e2, hd2, wr2, ib2), NEW ov2
  PROVE  SideOk(s, e2, r, hd2, wr2, ib2, ov2)
<1> USE DEF Connecting
<1>1. /\ Len(wr2[c]) = 1 /\ wr2[c][1].kind = Hello /\ wr2[c][1].seq = 0 /\ wr2[c] # << >>
  BY DEF Control, Message
<1>2. ~NoHello(wr2[c]) /\ HelloFirst(wr2[c])
  <2>1. \A i \in 1..Len(wr2[c]) : i = 1
    BY <1>1
  <2>2. 1 \in 1..Len(wr2[c]) /\ ~(1 > 1)
    BY <1>1
  <2> QED BY <1>1, <2>1, <2>2 DEF NoHello, HelloFirst
<1>4. r # c
  BY DEF SideOk, Conn
<1>5. hd2[c] /\ \A d \in Conn : hd[d] => hd2[d]
  OBVIOUS
<1>6. \A d \in Conn : (wr2[d] # << >> => hd2[d]) /\ HelloFirst(wr2[d])
  BY <1>2, <1>5 DEF SideOk
<1>7. r # 0 => hd2[r]
  BY <1>5 DEF SideOk, Conn
<1>8. e2.conn = c /\ e2.seq = 0 /\ e2.state = "greeting"
  OBVIOUS
<1>9. \A d \in Conn : ~NoHello(wr2[d]) =>
        r # d /\ (d = e2.conn => e2.state # "open" /\ (e2.state = "greeting" => ib2 = << >>))
  BY <1>4, <1>8 DEF SideOk
<1>10. Len(wr2[e2.conn]) <= 1
  <2>1. Len(wr2[e2.conn]) = 1
    BY <1>1, <1>8, Zenon
  <2>2. \A n : n = 1 => n <= 1
    OBVIOUS
  <2> QED BY <2>1, <2>2, Zenon
<1> QED BY <1>2, <1>6, <1>7, <1>8, <1>9, <1>10 DEF SideOk

\* The relay stops: no connection is left.
LEMMA SideRestart ==
  ASSUME NEW s, NEW e \in EndpointType, NEW r, NEW hd, NEW wr, NEW ib, NEW ov, SideOk(s, e, r, hd, wr, ib, ov),
         NEW hd2, \A c \in Conn : ~hd2[c], NEW wr2, \A c \in Conn : wr2[c] = << >>, NEW ib2
  PROVE  SideOk(s, e, 0, hd2, wr2, ib2, ov)
<1>1. \A c \in Conn : NoHello(wr2[c]) /\ HelloFirst(wr2[c]) /\ Len(wr2[c]) = 0
  BY HelloFirstEmpty
<1>2. e.conn \in Conn /\ 0 <= 1
  BY DEF EndpointType
<1> QED BY <1>1, <1>2 DEF SideOk

-----------------------------------------------------------------------------
(* Every step keeps the types and both sides in order.                     *)

WorkerType ==
  [pc : {"off", "hello", "lease", "ack", "prep", "poll", "run", "exec", "begin", "chunk", "final",
         "terminal", "report", "result", "bye"},
   ask : Request \cup {"none"}, seq : Nat, beats : 0..MaxBeats, calls : 0..MaxModelCalls,
   doomed : BOOLEAN, reported : BOOLEAN]
HostType ==
  [pc : {"off", "registering", "hello", "serving", "calling"}, from : 0..2, next : Nat, call : Nat, ordered : BOOLEAN]
RouterType == [live : BOOLEAN, last : [Side -> Nat]]

RestOk ==
  /\ limit \in Limits /\ router \in RouterType /\ w \in WorkerType /\ h \in HostType
  /\ recorded \in BOOLEAN /\ misread \subseteq Request /\ faults \in 0..MaxFaults /\ reset \in BOOLEAN
NetOk ==
  /\ QueueOk /\ end \in EndType /\ registry \in [Side -> 0..2] /\ handler \in [Side -> [Conn -> BOOLEAN]]
  /\ overtaken \subseteq Side

\* A session is on while its endpoint is open.
OpenInv == (end["host"].state = "open" <=> h.pc # "off") /\ (end["worker"].state = "open" <=> w.pc # "off")

BaseInv == RestOk /\ NetOk /\ RegInv /\ OpenInv

LEMMA TypeParts == TypeInv <=> RestOk /\ NetOk
BY QueueOkInv DEF RestOk, NetOk, RelayTypeOK, QueueOk, WorkerType, HostType, RouterType, EndType

LEMMA BaseFacts ==
  ASSUME BaseInv, NEW s \in Side
  PROVE  /\ TypeInv /\ QueueOk /\ SideInv(s) /\ Peer(s) \in Side
         /\ end[s] \in EndpointType /\ registry[s] \in 0..2 /\ handler[s] \in [Conn -> BOOLEAN]
         /\ wire[s] \in Wires /\ inbox[s] \in Seq(MessageType) /\ inbox[s] \in Seq(Sent(Peer(s)))
         /\ \A c \in Conn : wire[s][c] \in Seq(Sent(s))
<1>1. TypeInv /\ QueueOk /\ SideInv(s)
  BY TypeParts DEF BaseInv, NetOk, RegInv
<1>2. end[s] \in EndpointType /\ registry[s] \in 0..2 /\ handler[s] \in [Conn -> BOOLEAN]
  BY DEF BaseInv, NetOk, EndType, EndpointType
<1> QED BY <1>1, <1>2, PeerFacts DEF QueueOk, Wires, InboxOk, WireOk

\* The side that only hears of the step, if at all.
LEMMA SideOther ==
  ASSUME BaseInv, NEW s \in Side, QueueOk',
         end'[s] = end[s], registry'[s] = registry[s], handler'[s] = handler[s],
         \A d \in Conn : wire'[s][d] = wire[s][d], s \in overtaken' <=> s \in overtaken,
         inbox'[s] = inbox[s] \/ end[s].state # "greeting" \/ registry[s] = end[s].conn
  PROVE  SideInv(s)'
<1>1. wire'[s] = wire[s]
  BY BaseFacts DEF QueueOk, Wires
<1>2. SideOk(s, end[s], registry[s], handler[s], wire[s], inbox[s], overtaken) /\ end[s] \in EndpointType
  BY BaseFacts DEF SideInv
<1>3. SideOk(s, end[s], registry[s], handler[s], wire[s], inbox'[s], overtaken')
  BY <1>2, SideInbox
<1> QED BY <1>1, <1>3 DEF SideInv

LEMMA BothSides ==
  ASSUME NEW s \in Side, SideInv(s)', SideInv(Peer(s))'
  PROVE  RegInv'
BY DEF Side, Peer, RegInv

\* A new endpoint.
LEMMA BaseConnect ==
  ASSUME BaseInv, NEW s \in Side, Connect(s)
  PROVE  /\ BaseInv'
         /\ end'[s] = [conn |-> 3 - end[s].conn, seq |-> 0, state |-> "greeting"] /\ end'[Peer(s)] = end[Peer(s)]
         /\ handler'[s] = [handler[s] EXCEPT ![3 - end[s].conn] = TRUE] /\ handler'[Peer(s)] = handler[Peer(s)]
         /\ wire'[s][3 - end[s].conn] = <<Control(Hello)>>
         /\ \A t \in Side : \A d \in Conn : <<t, d>> # <<s, 3 - end[s].conn>> => wire'[t][d] = wire[t][d]
         /\ inbox'[s] = << >> /\ inbox'[Peer(s)] = inbox[Peer(s)]
<1>0. PICK c : c = 3 - end[s].conn
  OBVIOUS
<1>1. /\ end[s].conn \in Conn /\ QueueOk /\ end \in EndType /\ handler \in [Side -> [Conn -> BOOLEAN]]
  BY BaseFacts DEF EndpointType, BaseInv, NetOk
<1>2. c \in Conn /\ c # end[s].conn /\ ~handler[s][c] /\ end[s].state = "closed"
  BY <1>0, <1>1 DEF Conn, Connect
<1>3. /\ end' = [end EXCEPT ![s] = [conn |-> c, seq |-> 0, state |-> "greeting"]]
      /\ handler' = [handler EXCEPT ![s][c] = TRUE]
      /\ wire' = [wire EXCEPT ![s][c] = <<Control(Hello)>>] /\ inbox' = [inbox EXCEPT ![s] = << >>]
      /\ registry' = registry /\ router' = router /\ limit' = limit /\ w' = w /\ h' = h /\ misread' = misread
      /\ faults' = faults /\ reset' = reset /\ recorded' \in BOOLEAN /\ overtaken' = overtaken \ {s}
  BY <1>0 DEF Connect, Hello, BaseInv, RestOk
<1>4. <<Control(Hello)>> \in Seq(Sent(s)) /\ << >> \in Seq(Sent(Peer(s)))
  <2>1. Control(Hello) \in Sent(s)
    BY ControlSent DEF Hello, ControlKind
  <2> QED BY <2>1
<1>5. /\ wire' \in [Side -> [Conn -> Seq(MessageType)]] /\ WireOk' /\ wire'[s][c] = <<Control(Hello)>>
      /\ \A t \in Side : \A d \in Conn : <<t, d>> # <<s, c>> => wire'[t][d] = wire[t][d]
  <2>1. PICK q : q = <<Control(Hello)>>
    OBVIOUS
  <2>2. q \in Seq(Sent(s)) /\ wire' = [wire EXCEPT ![s][c] = q]
    BY <1>3, <1>4, <2>1
  <2>3. /\ wire' \in [Side -> [Conn -> Seq(MessageType)]] /\ WireOk' /\ wire'[s][c] = q
        /\ \A t \in Side : \A d \in Conn : <<t, d>> # <<s, c>> => wire'[t][d] = wire[t][d]
    <3>1. QueueOk /\ c \in Conn
      BY <1>1, <1>2
    <3>2. OneWire(s, c, q)
      BY <2>2, <3>1, WireStep
    <3> QED BY <3>2 DEF OneWire
  <2> QED BY <2>1, <2>3
<1>6. /\ inbox' \in [Side -> Seq(MessageType)] /\ InboxOk'
      /\ inbox'[s] = << >> /\ inbox'[Peer(s)] = inbox[Peer(s)]
  BY <1>1, <1>3, <1>4, InboxStep
<1>7. QueueOk'
  BY <1>5, <1>6 DEF QueueOk
<1>8. /\ end'[s] = [conn |-> c, seq |-> 0, state |-> "greeting"] /\ end'[Peer(s)] = end[Peer(s)]
      /\ end'[s] \in EndpointType /\ end' \in EndType
  <2>1. [conn |-> c, seq |-> 0, state |-> "greeting"] \in EndpointType
    BY <1>2 DEF EndpointType
  <2>2. /\ end'[s] = [conn |-> c, seq |-> 0, state |-> "greeting"] /\ end'[Peer(s)] = end[Peer(s)]
        /\ end' \in [Side -> EndpointType]
    BY <1>1, <1>3, <2>1, PeerFacts DEF EndType, EndpointType
  <2> QED BY <2>1, <2>2 DEF EndType, EndpointType
<1>9. /\ handler'[s] = [handler[s] EXCEPT ![c] = TRUE] /\ handler'[Peer(s)] = handler[Peer(s)]
      /\ handler' \in [Side -> [Conn -> BOOLEAN]]
  BY <1>1, <1>2, <1>3, PeerFacts
<1>10. SideInv(s)'
  <2>1. SideOk(s, end[s], registry[s], handler[s], wire[s], inbox[s], overtaken) /\ end[s] \in EndpointType
        /\ registry[s] \in 0..2 /\ handler[s] \in [Conn -> BOOLEAN] /\ wire[s] \in Wires
    BY BaseFacts DEF SideInv
  <2>2. wire'[s] \in Wires /\ \A d \in Conn : d # c => wire'[s][d] = wire[s][d]
    BY <1>5 DEF Wires
  <2>3. PICK e, r, hd, wr, ib, ov : /\ e = end[s] /\ r = registry[s] /\ hd = handler[s] /\ wr = wire[s]
                                    /\ ib = inbox[s] /\ ov = overtaken
    OBVIOUS
  <2>4. PICK e2, hd2, wr2, ib2, ov2 : /\ e2 = end'[s] /\ hd2 = handler'[s] /\ wr2 = wire'[s] /\ ib2 = inbox'[s]
                                      /\ ov2 = overtaken'
    OBVIOUS
  <2>5. /\ SideOk(s, e, r, hd, wr, ib, ov) /\ e \in EndpointType /\ r \in 0..2 /\ hd \in [Conn -> BOOLEAN]
        /\ wr \in Wires /\ c \in Conn /\ ~hd[c] /\ c # e.conn
    BY <1>2, <2>1, <2>3
  <2>6. e2.conn = c /\ e2.seq = 0 /\ e2.state = "greeting" /\ hd2[c] /\ \A d \in Conn : hd[d] => hd2[d]
    BY <1>8, <1>9, <2>3, <2>4, <2>5
  <2>7. wr2[c] = <<Control(Hello)>> /\ (\A d \in Conn : d # c => wr2[d] = wr[d]) /\ ib2 = << >>
    BY <1>5, <1>6, <2>2, <2>3, <2>4
  <2>8. SideOk(s, e2, r, hd2, wr2, ib2, ov2)
    <3>1. Connecting(s, e, r, hd, wr, ib, ov, c, e2, hd2, wr2, ib2)
      BY <2>5, <2>6, <2>7, Zenon DEF Connecting
    <3> QED BY <3>1, SideConnect
  <2>9. registry' = registry
    BY <1>3
  <2> QED BY <2>3, <2>4, <2>8, <2>9 DEF SideInv
<1>11. SideInv(Peer(s))'
  <2>1. \A d \in Conn : wire'[Peer(s)][d] = wire[Peer(s)][d]
    BY <1>5, PeerFacts
  <2>2. Peer(s) \in overtaken' <=> Peer(s) \in overtaken
    BY <1>3, PeerFacts
  <2> QED BY <1>3, <1>6, <1>7, <1>8, <1>9, <2>1, <2>2, SideOther, PeerFacts
<1>12. RestOk' /\ NetOk'
  BY <1>3, <1>7, <1>8, <1>9 DEF BaseInv, RestOk, NetOk
<1>13. OpenInv'
  <2>1. end'[s].state = "greeting" /\ end[s].state = "closed"
    BY <1>2, <1>8
  <2>2. \A t \in Side : end'[t].state = "open" <=> end[t].state = "open"
    BY <1>8, <2>1 DEF Side, Peer
  <2> QED BY <1>3, <2>2 DEF BaseInv, OpenInv, Side
<1> QED BY <1>0, <1>5, <1>6, <1>8, <1>9, <1>10, <1>11, <1>12, <1>13, BothSides DEF BaseInv

\* A handler reads a frame or a registration, and something is delivered: to the
\* connection itself or to the one the server has for the peer.
LEMMA NetRead ==
  ASSUME BaseInv, NEW s \in Side, NEW c \in Conn, wire[s][c] # << >>, Head(wire[s][c]).kind # Hello,
         Reads(s, c), registry' = registry, handler' = handler, end' = end, overtaken' = overtaken,
         NEW t \in Side, NEW d, NEW m \in Sent(Peer(t)), inbox' = Delivered(t, d, m),
         t = s => d = c, t # s => d = registry[t]
  PROVE  /\ NetOk' /\ RegInv'
         /\ wire'[s][c] = Tail(wire[s][c])
         /\ \A u \in Side : \A f \in Conn : <<u, f>> # <<s, c>> => wire'[u][f] = wire[u][f]
         /\ inbox'[t] = IF Present(t, d) THEN Append(inbox[t], m) ELSE inbox[t]
         /\ inbox'[Peer(t)] = inbox[Peer(t)]
<1>1. TypeInv /\ Peer(s) \in Side /\ Peer(s) # s
  BY BaseFacts, PeerFacts
<1>2. /\ wire' \in [Side -> [Conn -> Seq(MessageType)]] /\ WireOk'
      /\ wire'[s][c] = Tail(wire[s][c])
      /\ \A u \in Side : \A f \in Conn : <<u, f>> # <<s, c>> => wire'[u][f] = wire[u][f]
  BY <1>1, ReadsEffect
<1>3. /\ inbox' \in [Side -> Seq(MessageType)] /\ InboxOk'
      /\ inbox'[t] = IF Present(t, d) THEN Append(inbox[t], m) ELSE inbox[t]
      /\ inbox'[Peer(t)] = inbox[Peer(t)]
  BY <1>1, DeliveredEffect
<1>4. QueueOk' /\ NetOk'
  BY <1>2, <1>3 DEF QueueOk, NetOk, BaseInv
<1>5. SideInv(s)'
  <2>1. /\ SideOk(s, end[s], registry[s], handler[s], wire[s], inbox[s], overtaken) /\ end[s] \in EndpointType
        /\ handler[s] \in [Conn -> BOOLEAN] /\ wire[s] \in Wires
    BY BaseFacts DEF SideInv
  <2>2. PICK wr2, ib2 : wr2 = wire'[s] /\ ib2 = inbox'[s]
    OBVIOUS
  <2>3. /\ wr2 \in Wires /\ wr2[c] = Tail(wire[s][c]) /\ \A f \in Conn : f # c => wr2[f] = wire[s][f]
    BY <1>2, <2>2 DEF Wires
  <2>4. end[s].conn # c \/ end[s].state = "closed" => ib2 = inbox[s]
    <3>1. CASE t = s
      BY <1>3, <2>2, <3>1 DEF Present
    <3>2. CASE t # s
      BY <1>3, <2>2, <3>2 DEF Side, Peer
    <3> QED BY <3>1, <3>2
  <2>5. SideOk(s, end[s], registry[s], handler[s], wr2, ib2, overtaken)
    BY <2>1, <2>3, <2>4, SideRead
  <2> QED BY <2>2, <2>5 DEF SideInv
<1>6. SideInv(Peer(s))'
  <2>1. \A f \in Conn : wire'[Peer(s)][f] = wire[Peer(s)][f]
    BY <1>1, <1>2
  <2>2. inbox'[Peer(s)] = inbox[Peer(s)] \/ registry[Peer(s)] = end[Peer(s)].conn
    <3>1. CASE t = s
      BY <1>3, <3>1
    <3>2. CASE t # s
      <4>1. t = Peer(s) /\ d = registry[Peer(s)]
        BY <3>2 DEF Side, Peer
      <4> QED BY <1>3, <4>1 DEF Present
    <3> QED BY <3>1, <3>2
  <2> QED BY <1>1, <1>4, <2>1, <2>2, SideOther
<1> QED BY <1>2, <1>3, <1>4, <1>5, <1>6, BothSides

\* A handler ends.
LEMMA NetEnd ==
  ASSUME BaseInv, NEW s \in Side, NEW c \in Conn, HandlerEnds(s, c), end' = end, overtaken' = overtaken
  PROVE  NetOk' /\ RegInv'
<1>1. TypeInv /\ Peer(s) \in Side /\ Peer(s) # s
  BY BaseFacts, PeerFacts
<1>2. /\ QueueOk'
      /\ registry' \in [Side -> 0..2] /\ handler' \in [Side -> [Conn -> BOOLEAN]]
      /\ registry'[s] = (IF registry[s] = c THEN 0 ELSE registry[s]) /\ registry'[Peer(s)] = registry[Peer(s)]
      /\ handler'[s] = [handler[s] EXCEPT ![c] = FALSE] /\ handler'[Peer(s)] = handler[Peer(s)]
      /\ wire'[s][c] = << >>
      /\ \A t \in Side : \A d \in Conn : <<t, d>> # <<s, c>> => wire'[t][d] = wire[t][d]
      /\ inbox'[s] = (IF Present(s, c) THEN Append(inbox[s], Eof) ELSE inbox[s])
      /\ inbox'[Peer(s)] = inbox[Peer(s)]
  BY <1>1, HandlerEndsEffect
<1>3. NetOk'
  BY <1>2 DEF NetOk, BaseInv
<1>4. SideInv(s)'
  <2>1. /\ SideOk(s, end[s], registry[s], handler[s], wire[s], inbox[s], overtaken) /\ end[s] \in EndpointType
        /\ registry[s] \in 0..2 /\ handler[s] \in [Conn -> BOOLEAN] /\ wire[s] \in Wires
    BY BaseFacts DEF SideInv
  <2>2. PICK wr2, ib2 : wr2 = wire'[s] /\ ib2 = inbox'[s]
    OBVIOUS
  <2>3. wr2 \in Wires /\ wr2[c] = << >> /\ \A f \in Conn : f # c => wr2[f] = wire[s][f]
    BY <1>2, <2>2 DEF Wires, QueueOk
  <2>4. end[s].conn # c \/ end[s].state = "closed" => ib2 = inbox[s]
    BY <1>2, <2>2 DEF Present
  <2>5. SideOk(s, end[s], IF registry[s] = c THEN 0 ELSE registry[s], [handler[s] EXCEPT ![c] = FALSE], wr2, ib2,
             overtaken)
    BY <2>1, <2>3, <2>4, SideEnd
  <2> QED BY <1>2, <2>2, <2>5 DEF SideInv
<1>5. SideInv(Peer(s))'
  <2>1. \A f \in Conn : wire'[Peer(s)][f] = wire[Peer(s)][f]
    BY <1>1, <1>2
  <2> QED BY <1>1, <1>2, <2>1, SideOther
<1> QED BY <1>3, <1>4, <1>5, BothSides

\* The relay's answers to a hello and to a registration.
LEMMA BaseHello ==
  ASSUME BaseInv, NEW s \in Side, NEW c \in Conn, wire[s][c] # << >>, HandleHello(s, c), end' = end
  PROVE  /\ NetOk' /\ RegInv'
         /\ c = end[s].conn => end[s].state # "open"
         /\ Present(s, c) => inbox[s] = << >> /\ wire'[s][c] = << >>
         /\ \A i \in 1..Len(wire[s][c]) : wire[s][c][i].seq = 0
         /\ registry'[s] = c /\ registry'[Peer(s)] = registry[Peer(s)]
         /\ wire'[s][c] = Tail(wire[s][c])
         /\ \A t \in Side : \A d \in Conn : <<t, d>> # <<s, c>> => wire'[t][d] = wire[t][d]
         /\ inbox'[s] = (IF Present(s, c) THEN <<Control("relay.ready")>> ELSE inbox[s]) /\ inbox'[Peer(s)] = inbox[Peer(s)]
<1>1. TypeInv /\ Peer(s) \in Side /\ Peer(s) # s
  BY BaseFacts, PeerFacts
<1>2. /\ wire' \in [Side -> [Conn -> Seq(MessageType)]] /\ WireOk'
      /\ wire'[s][c] = Tail(wire[s][c])
      /\ \A t \in Side : \A d \in Conn : <<t, d>> # <<s, c>> => wire'[t][d] = wire[t][d]
  BY <1>1, ReadsEffect DEF HandleHello
<1>3. Control("relay.ready") \in Sent(Peer(s)) /\ inbox' = Delivered(s, c, Control("relay.ready"))
  BY <1>1, ControlSent DEF ControlKind, HandleHello
<1>4. /\ inbox' \in [Side -> Seq(MessageType)] /\ InboxOk'
      /\ inbox'[s] = (IF Present(s, c) THEN Append(inbox[s], Control("relay.ready")) ELSE inbox[s])
      /\ inbox'[Peer(s)] = inbox[Peer(s)]
  BY <1>1, <1>3, DeliveredEffect
<1>5. /\ registry' \in [Side -> 0..2] /\ registry'[s] = c /\ registry'[Peer(s)] = registry[Peer(s)]
      /\ handler' = handler
  <2>1. registry \in [Side -> 0..2] /\ c \in 0..2
    BY DEF BaseInv, NetOk, Conn
  <2> QED BY <1>1, <2>1 DEF HandleHello
<1>6. /\ overtaken' = (IF c # end[s].conn /\ registry[s] = end[s].conn THEN overtaken \cup {s} ELSE overtaken)
      /\ overtaken' \subseteq Side
  BY DEF HandleHello, BaseInv, NetOk
<1>7. QueueOk' /\ NetOk'
  BY <1>2, <1>4, <1>5, <1>6 DEF QueueOk, NetOk, BaseInv
<1>8. /\ SideInv(s)' /\ (c = end[s].conn => end[s].state # "open")
      /\ Present(s, c) => inbox[s] = << >> /\ wire'[s][c] = << >>
      /\ \A i \in 1..Len(wire[s][c]) : wire[s][c][i].seq = 0
  <2>1. PICK e, r, hd, wr, ib, ov : /\ e = end[s] /\ r = registry[s] /\ hd = handler[s] /\ wr = wire[s]
                                    /\ ib = inbox[s] /\ ov = overtaken
    OBVIOUS
  <2>2. PICK wr2, ib2, ov2 : wr2 = wire'[s] /\ ib2 = inbox'[s] /\ ov2 = overtaken'
    OBVIOUS
  <2>3. /\ SideOk(s, e, r, hd, wr, ib, ov) /\ e \in EndpointType /\ wr \in Wires /\ wr[c] # << >>
        /\ Head(wr[c]).kind = Hello
    BY <2>1, BaseFacts DEF SideInv, HandleHello, Hello
  <2>4. /\ c = e.conn => e.state # "open" /\ (e.state = "greeting" => ib = << >> /\ Tail(wr[c]) = << >>)
        /\ hd[c] /\ \A i \in 1..Len(wr[c]) : wr[c][i].seq = 0
    BY <2>3, SideGreeting
  <2>5. /\ wr2 \in Wires /\ wr2[c] = Tail(wr[c]) /\ \A f \in Conn : f # c => wr2[f] = wr[f]
    BY <1>2, <2>1, <2>2 DEF Wires
  <2>6. e.conn # c \/ e.state = "closed" => ib2 = ib
    BY <1>4, <2>1, <2>2 DEF Present
  <2>7. s \in ov2 <=> s \in ov \/ (c # e.conn /\ r = e.conn)
    BY <1>6, <2>1, <2>2
  <2>8. SideOk(s, e, c, hd, wr2, ib2, ov2)
    BY <2>3, <2>5, <2>6, <2>7, SideHello
  <2>9. SideInv(s)'
    BY <1>5, <2>1, <2>2, <2>8 DEF SideInv
  <2>10. Present(s, c) => inbox[s] = << >> /\ wire'[s][c] = << >>
    <3>1. e.state \in {"closed", "greeting", "open"}
      BY <2>3 DEF EndpointType
    <3> QED BY <2>1, <2>2, <2>4, <2>5, <3>1 DEF Present
  <2> QED BY <2>1, <2>4, <2>9, <2>10
<1>9. SideInv(Peer(s))'
  <2>1. \A f \in Conn : wire'[Peer(s)][f] = wire[Peer(s)][f]
    BY <1>1, <1>2
  <2>2. Peer(s) \in overtaken' <=> Peer(s) \in overtaken
    BY <1>1, <1>6
  <2> QED BY <1>1, <1>4, <1>5, <1>7, <2>1, <2>2, SideOther
<1>10. inbox'[s] = IF Present(s, c) THEN <<Control("relay.ready")>> ELSE inbox[s]
  <2>1. \A k : Append(<< >>, k) = <<k>>
    OBVIOUS
  <2> QED BY <1>4, <1>8, <2>1, Zenon
<1> QED BY <1>2, <1>4, <1>5, <1>7, <1>8, <1>9, <1>10, BothSides

\* What a handler delivers after it read a frame.
LEMMA BaseFrame ==
  ASSUME BaseInv, NEW s \in Side, NEW c \in Conn, wire[s][c] # << >>, HandleFrame(s, c), end' = end
  PROVE  NetOk' /\ RegInv' /\ router' \in RouterType
<1>1. TypeInv /\ Peer(s) \in Side /\ Peer(s) # s /\ Peer(Peer(s)) = s /\ wire[s][c] \in Seq(Sent(s))
  BY BaseFacts, PeerFacts
<1>2. PICK m : m = Head(wire[s][c])
  OBVIOUS
<1>3. m \in Sent(s) /\ m.seq # 0
  BY <1>1, <1>2, TailFacts DEF HandleFrame
<1>4. m.seq \in Nat /\ m.kind # Hello
  BY <1>3, SentFacts DEF Frame, ControlKind, Hello
<1>5. router \in RouterType /\ [router EXCEPT !.last[s] = m.seq] \in RouterType
  BY <1>4 DEF BaseInv, RestOk, RouterType
<1>6. overtaken' = overtaken
  BY DEF HandleFrame
<1>7. CASE HandlerEnds(s, c) /\ router' \in {router, [router EXCEPT !.last[s] = m.seq]}
  BY <1>5, <1>6, <1>7, NetEnd
<1>8. CASE router' = [router EXCEPT !.last[s] = m.seq] /\ Reads(s, c) /\ UNCHANGED <<registry, handler>>
           /\ inbox' \in {Delivered(s, c, Control("relay.unavailable")), Delivered(Peer(s), registry[Peer(s)], m)}
  <2>1. CASE inbox' = Delivered(s, c, Control("relay.unavailable"))
    <3>1. Control("relay.unavailable") \in Sent(Peer(s))
      BY <1>1, ControlSent DEF ControlKind
    <3> QED BY <1>1, <1>2, <1>4, <1>5, <1>6, <1>8, <2>1, <3>1, NetRead
  <2>2. CASE inbox' = Delivered(Peer(s), registry[Peer(s)], m)
    BY <1>1, <1>2, <1>3, <1>4, <1>5, <1>6, <1>8, <2>2, NetRead
  <2> QED BY <1>8, <2>1, <2>2
<1> QED BY <1>2, <1>7, <1>8 DEF HandleFrame

LEMMA BaseHandle ==
  ASSUME BaseInv, NEW s \in Side, NEW c \in Conn, Handle(s, c)
  PROVE  BaseInv'
<1>1. /\ wire[s][c] # << >> /\ end' = end /\ w' = w /\ h' = h /\ limit' = limit /\ recorded' = recorded
      /\ misread' = misread /\ faults' = faults /\ reset' = reset
  BY DEF Handle, ghosts
<1>2. NetOk' /\ RegInv' /\ router' \in RouterType
  <2>1. CASE HandleHello(s, c)
    <3>1. router' = router
      BY <2>1 DEF HandleHello
    <3> QED BY <1>1, <2>1, <3>1, BaseHello DEF BaseInv, RestOk
  <2>2. CASE HandleRegister(s, c)
    <3>1. router' \in RouterType
      BY <2>2 DEF HandleRegister, BaseInv, RestOk, RouterType
    <3>2. Control("relay.registered") \in Sent(Peer(s))
      BY PeerFacts, ControlSent DEF ControlKind
    <3>3. /\ inbox' = Delivered(s, c, Control("relay.registered")) /\ Reads(s, c) /\ registry' = registry
          /\ handler' = handler /\ overtaken' = overtaken
      BY <2>2 DEF HandleRegister
    <3>4. Head(wire[s][c]).kind # Hello
      BY <2>2 DEF HandleRegister, Hello
    <3> QED BY <1>1, <3>1, <3>2, <3>3, <3>4, NetRead
  <2>3. CASE HandleFrame(s, c)
    BY <1>1, <2>3, BaseFrame
  <2>4. CASE HandleEof(s, c)
    <3>1. router' = router /\ overtaken' = overtaken
      BY <2>4 DEF HandleEof
    <3> QED BY <1>1, <2>4, <3>1, NetEnd DEF HandleEof, BaseInv, RestOk
  <2> QED BY <2>1, <2>2, <2>3, <2>4 DEF Handle
<1>3. RestOk' /\ OpenInv'
  BY <1>1, <1>2 DEF BaseInv, RestOk, OpenInv
<1> QED BY <1>2, <1>3 DEF BaseInv

-----------------------------------------------------------------------------
(* The two ends.                                                           *)

\* An endpoint that is open, or was answered, sends or closes.
LEMMA NetEndpoint ==
  ASSUME BaseInv, NEW s \in Side, QueueOk', end' \in EndType, registry' = registry, handler' = handler,
         overtaken' = overtaken,
         \/ end[s].state = "open" \/ (end[s].state = "greeting" /\ inbox[s] # << >>)
         \/ end'[s].state = "closed" /\ handler[s][end[s].conn],
         end'[s].conn = end[s].conn, end'[s].state \in {"open", "closed"}, end'[Peer(s)] = end[Peer(s)],
         NoHello(wire[s][end[s].conn]) /\ HelloFirst(wire[s][end[s].conn]) =>
           NoHello(wire'[s][end[s].conn]) /\ HelloFirst(wire'[s][end[s].conn]),
         end'[s].state = "closed" /\ HelloFirst(wire[s][end[s].conn]) => HelloFirst(wire'[s][end[s].conn]),
         ~handler[s][end[s].conn] => wire'[s][end[s].conn] = wire[s][end[s].conn],
         \A t \in Side : \A d \in Conn : <<t, d>> # <<s, end[s].conn>> => wire'[t][d] = wire[t][d],
         inbox'[Peer(s)] = inbox[Peer(s)]
  PROVE  NetOk' /\ RegInv'
<1>1. NetOk'
  BY DEF NetOk, BaseInv
<1>2. SideInv(s)'
  <2>1. PICK e, r, hd, wr, ib, ov : /\ e = end[s] /\ r = registry[s] /\ hd = handler[s] /\ wr = wire[s]
                                    /\ ib = inbox[s] /\ ov = overtaken
    OBVIOUS
  <2>2. PICK e2, wr2, ib2 : e2 = end'[s] /\ wr2 = wire'[s] /\ ib2 = inbox'[s]
    OBVIOUS
  <2>3. /\ SideOk(s, e, r, hd, wr, ib, ov) /\ e \in EndpointType /\ wr \in Wires /\ hd \in [Conn -> BOOLEAN]
        /\ e.conn \in Conn /\ HelloFirst(wr[e.conn])
    BY <2>1, BaseFacts DEF SideInv, EndpointType, SideOk
  <2>4. e2 \in EndpointType /\ wr2 \in Wires
    BY <2>2 DEF EndType, EndpointType, QueueOk, Wires
  <2>5. /\ e2.conn = e.conn /\ e2.state \in {"open", "closed"}
        /\ NoHello(wr[e.conn]) /\ HelloFirst(wr[e.conn]) => NoHello(wr2[e.conn]) /\ HelloFirst(wr2[e.conn])
        /\ e2.state = "closed" => HelloFirst(wr2[e.conn])
        /\ ~hd[e.conn] => wr2[e.conn] = wr[e.conn]
        /\ \A d \in Conn : d # e.conn => wr2[d] = wr[d]
    BY <2>1, <2>2, <2>3
  <2>6. SideOk(s, e2, r, hd, wr2, ib2, ov)
    <3>1. CASE e.state = "open" \/ (e.state = "greeting" /\ ib # << >>)
      BY <2>3, <2>4, <2>5, <3>1, SideSend
    <3>2. CASE e2.state = "closed" /\ hd[e.conn]
      BY <2>3, <2>4, <2>5, <3>2, SideGivenUp
    <3> QED BY <2>1, <2>2, <3>1, <3>2
  <2> QED BY <2>1, <2>2, <2>6 DEF SideInv
<1>3. SideInv(Peer(s))'
  <2>1. \A d \in Conn : wire'[Peer(s)][d] = wire[Peer(s)][d]
    BY PeerFacts
  <2> QED BY <2>1, PeerFacts, SideOther
<1> QED BY <1>1, <1>2, <1>3, BothSides

\* The messages an endpoint adds are no hello of the relay.
LEMMA NoHelloSent ==
  ASSUME NEW s \in Side, NEW q \in Seq(Sent(s)), NEW m \in Sent(s), m.seq # 0 \/ m = Eof \/ m = Control("relay.register")
  PROVE  /\ Append(q, m) \in Seq(Sent(s))
         /\ NoHello(q) /\ HelloFirst(q) => NoHello(Append(q, m)) /\ HelloFirst(Append(q, m))
         /\ m = Eof /\ HelloFirst(q) => HelloFirst(Append(q, m))
<1>1. m.kind # Hello
  BY SentFacts DEF Eof, Control, Message, Hello, ControlKind
<1>2. q \in Seq(MessageType) /\ m \in MessageType
  BY SentSeq, SentFacts
<1>3. m = Eof => m.seq = 0
  BY DEF Eof, Control, Message
<1>4. HelloFirst(q) /\ (NoHello(q) \/ m.seq = 0) => HelloFirst(Append(q, m))
  BY <1>1, <1>2, HelloFirstAppend
<1>5. Append(q, m) \in Seq(Sent(s)) /\ (NoHello(q) => NoHello(Append(q, m)))
  BY <1>1, <1>2, NoHelloAppend, AppendFacts
<1> QED BY <1>3, <1>4, <1>5

LEMMA NetSends ==
  ASSUME BaseInv, NEW s \in Side, end[s].state = "open", NEW k \in FrameKind(s), NEW re \in Nat, Sends(s, k, re),
         inbox' \in [Side -> Seq(MessageType)], InboxOk', inbox'[Peer(s)] = inbox[Peer(s)],
         registry' = registry, handler' = handler, overtaken' = overtaken
  PROVE  NetOk' /\ RegInv' /\ end'[s].state = "open" /\ end'[Peer(s)] = end[Peer(s)]
<1>1. TypeInv /\ end[s].conn \in Conn /\ wire[s][end[s].conn] \in Seq(Sent(s)) /\ end[s] \in EndpointType
  BY BaseFacts DEF EndpointType
<1>2. /\ wire' \in [Side -> [Conn -> Seq(MessageType)]] /\ WireOk' /\ end' \in EndType
      /\ end'[s] = [end[s] EXCEPT !.seq = end[s].seq + 1] /\ end'[Peer(s)] = end[Peer(s)]
      /\ wire'[s][end[s].conn] = (IF Reaches(s, wire[s][end[s].conn])
                                  THEN Append(wire[s][end[s].conn], Sealed(s, k, re)) ELSE wire[s][end[s].conn])
      /\ \A t \in Side : \A d \in Conn : <<t, d>> # <<s, end[s].conn>> => wire'[t][d] = wire[t][d]
  BY <1>1, SendsEffect
<1>3. Sealed(s, k, re) \in Sent(s) /\ Sealed(s, k, re).seq # 0
  <2>1. Sealed(s, k, re) \in Frame(s) /\ Sealed(s, k, re) \in Sent(s)
    BY <1>1, SealedSent
  <2> QED BY <2>1 DEF Frame
<1>4. PICK q, q2, m : q = wire[s][end[s].conn] /\ q2 = wire'[s][end[s].conn] /\ m = Sealed(s, k, re)
  OBVIOUS
<1>5. q2 \in {q, Append(q, m)} /\ (~handler[s][end[s].conn] => q2 = q)
  BY <1>2, <1>4 DEF Reaches
<1>6. NoHello(q) /\ HelloFirst(q) => NoHello(q2) /\ HelloFirst(q2)
  BY <1>1, <1>3, <1>4, <1>5, NoHelloSent
<1>7. QueueOk'
  BY <1>2 DEF QueueOk
<1>8. end'[s].conn = end[s].conn /\ end'[s].state = "open"
  BY <1>1, <1>2 DEF EndpointType
<1> QED BY <1>2, <1>4, <1>5, <1>6, <1>7, <1>8, NetEndpoint

LEMMA NetCloses ==
  ASSUME BaseInv, NEW s \in Side,
         end[s].state = "open" \/ (end[s].state = "greeting" /\ (inbox[s] # << >> \/ handler[s][end[s].conn])),
         Closes(s), registry' = registry, handler' = handler, overtaken' = overtaken
  PROVE  NetOk' /\ RegInv' /\ end'[s].state = "closed" /\ end'[Peer(s)] = end[Peer(s)]
<1>1. TypeInv /\ end[s].conn \in Conn /\ wire[s][end[s].conn] \in Seq(Sent(s)) /\ end[s] \in EndpointType
  BY BaseFacts DEF EndpointType
<1>2. /\ QueueOk' /\ end' \in EndType
      /\ end'[s] = [end[s] EXCEPT !.state = "closed", !.seq = 0] /\ end'[Peer(s)] = end[Peer(s)]
      /\ wire'[s][end[s].conn] = (IF Reaches(s, wire[s][end[s].conn])
                                  THEN Append(wire[s][end[s].conn], Eof) ELSE wire[s][end[s].conn])
      /\ \A t \in Side : \A d \in Conn : <<t, d>> # <<s, end[s].conn>> => wire'[t][d] = wire[t][d]
      /\ inbox'[s] = << >> /\ inbox'[Peer(s)] = inbox[Peer(s)]
  BY <1>1, ClosesEffect
<1>3. Eof \in Sent(s)
  BY ControlSent DEF Eof, ControlKind
<1>4. PICK q, q2 : q = wire[s][end[s].conn] /\ q2 = wire'[s][end[s].conn]
  OBVIOUS
<1>5. q2 \in {q, Append(q, Eof)} /\ (~handler[s][end[s].conn] => q2 = q)
  BY <1>2, <1>4 DEF Reaches
<1>6. (NoHello(q) /\ HelloFirst(q) => NoHello(q2) /\ HelloFirst(q2)) /\ (HelloFirst(q) => HelloFirst(q2))
  BY <1>1, <1>3, <1>4, <1>5, NoHelloSent
<1>7. end'[s].conn = end[s].conn /\ end'[s].state = "closed"
  BY <1>1, <1>2 DEF EndpointType
<1> QED BY <1>2, <1>4, <1>5, <1>6, <1>7, NetEndpoint

\* An endpoint that is not being greeted reads its inbox.
LEMMA NetTakes ==
  ASSUME BaseInv, NEW s \in Side, end[s].state # "greeting", wire' = wire, end' = end, registry' = registry,
         handler' = handler, overtaken' = overtaken, inbox' \in [Side -> Seq(MessageType)], InboxOk', inbox'[Peer(s)] = inbox[Peer(s)]
  PROVE  NetOk' /\ RegInv'
<1>1. QueueOk' /\ NetOk'
  BY DEF BaseInv, NetOk, QueueOk, WireOk
<1>2. SideInv(s)' /\ SideInv(Peer(s))'
  BY <1>1, PeerFacts, SideOther
<1> QED BY <1>1, <1>2, BothSides

\* What reading leaves in the inbox.
LEMMA TakenEffect ==
  ASSUME BaseInv, NEW s \in Side, inbox[s] # << >>, inbox' = [inbox EXCEPT ![s] = Tail(inbox[s])]
  PROVE  /\ inbox' \in [Side -> Seq(MessageType)] /\ InboxOk'
         /\ inbox'[s] = Tail(inbox[s]) /\ inbox'[Peer(s)] = inbox[Peer(s)]
<1>1. QueueOk /\ inbox[s] \in Seq(Sent(Peer(s)))
  BY BaseFacts
<1>2. PICK q : q = Tail(inbox[s])
  OBVIOUS
<1>3. q \in Seq(Sent(Peer(s))) /\ inbox' = [inbox EXCEPT ![s] = q]
  BY <1>1, <1>2, TailFacts
<1> QED BY <1>1, <1>2, <1>3, InboxStep

\* What did not change in an inbox.
LEMMA InboxSame ==
  ASSUME BaseInv, inbox' = inbox
  PROVE  inbox' \in [Side -> Seq(MessageType)] /\ InboxOk'
BY DEF BaseInv, NetOk, QueueOk, InboxOk

\* Where the worker goes on is one of its places, and not off unless it is done.
LEMMA AfterType ==
  ASSUME w \in WorkerType, w.pc # "off", NEW m
  PROVE  After(m) \subseteq {"off", "hello", "lease", "ack", "prep", "poll", "run", "exec", "begin", "chunk", "final",
                             "terminal", "report", "result", "bye"}
<1>1. w.pc \in {"hello", "lease", "ack", "prep", "poll", "run", "exec", "begin", "chunk", "final",
                "terminal", "report", "result", "bye"}
  BY DEF WorkerType
<1>2. CASE w.ask = "model"
  BY <1>1, <1>2 DEF After
<1>3. CASE w.ask # "model"
  <2>1. After(m) \in SUBSET {"off", "hello", "lease", "ack", "prep", "poll", "run", "exec", "begin", "chunk", "final",
                             "terminal", "report", "result", "bye"}
    BY <1>1, <1>3 DEF After, AppliesDirective
  <2> QED BY <2>1
<1> QED BY <1>2, <1>3

LEMMA OffType == Off \in WorkerType /\ Off.pc = "off" /\ Away \in HostType /\ Away.pc = "off"
BY RelayAssumption DEF Off, Away, WorkerType, HostType, Request

\* The steps of one end leave the other, the router and the bounds alone.
LEMMA BaseWorker ==
  ASSUME BaseInv, NetOk', RegInv', KeepHost, w' \in WorkerType, misread' \subseteq Request,
         end'["host"] = end["host"], end'["worker"].state = "open" <=> w'.pc # "off"
  PROVE  BaseInv'
BY DEF BaseInv, RestOk, OpenInv, KeepHost, relay

LEMMA BaseHost ==
  ASSUME BaseInv, NetOk', RegInv', KeepWorker, h' \in HostType, recorded' \in BOOLEAN, faults' \in 0..MaxFaults,
         end'["worker"] = end["worker"], end'["host"].state = "open" <=> h'.pc # "off"
  PROVE  BaseInv'
BY DEF BaseInv, RestOk, OpenInv, KeepWorker, relay

LEMMA SideNames == "worker" \in Side /\ "host" \in Side /\ Peer("worker") = "host" /\ Peer("host") = "worker"
BY DEF Side, Peer

LEMMA BaseWorkerReady == ASSUME BaseInv, WorkerReady PROVE BaseInv'
<1>1. /\ end["worker"].state = "greeting" /\ inbox["worker"] # << >> /\ misread' = misread /\ KeepHost
      /\ registry' = registry /\ handler' = handler /\ overtaken' = overtaken /\ misread \subseteq Request
  BY DEF WorkerReady, KeepHost, relay, BaseInv, RestOk
<1>2. CASE /\ end' = [end EXCEPT !["worker"].state = "open"] /\ w' = [Off EXCEPT !.pc = "hello"]
           /\ inbox' = [inbox EXCEPT !["worker"] = Tail(@)] /\ UNCHANGED wire
  <2>1. /\ inbox' \in [Side -> Seq(MessageType)] /\ InboxOk' /\ inbox'["host"] = inbox["host"]
    BY <1>1, <1>2, TakenEffect, SideNames
  <2>2. /\ end' \in EndType /\ end'["worker"].conn = end["worker"].conn /\ end'["worker"].state = "open"
        /\ end'["host"] = end["host"]
    BY <1>2 DEF BaseInv, NetOk, EndType, Side
  <2>3. QueueOk'
    BY <1>2, <2>1 DEF BaseInv, NetOk, QueueOk, WireOk
  <2>4. NetOk' /\ RegInv'
    BY <1>1, <1>2, <2>1, <2>2, <2>3, NetEndpoint, SideNames
  <2>5. w' \in WorkerType /\ w'.pc # "off"
    BY <1>2, OffType DEF WorkerType
  <2> QED BY <1>1, <2>2, <2>4, <2>5, BaseWorker
<1>3. CASE Closes("worker") /\ w' = Off
  <2>1. NetOk' /\ RegInv' /\ end'["worker"].state = "closed" /\ end'["host"] = end["host"]
    BY <1>1, <1>3, NetCloses, SideNames
  <2> QED BY <1>1, <1>3, <2>1, BaseWorker, OffType
<1> QED BY <1>2, <1>3 DEF WorkerReady

LEMMA BaseAsk == ASSUME BaseInv, NEW k \in Request, Ask(k) PROVE BaseInv'
<1>1. /\ end["worker"].state = "open" /\ k \in Askable /\ Sends("worker", k, 0) /\ inbox' = inbox
      /\ misread' = misread /\ KeepHost /\ misread \subseteq Request
      /\ registry' = registry /\ handler' = handler /\ overtaken' = overtaken
  BY DEF Ask, Opened, KeepHost, relay, BaseInv, RestOk
<1>2. NetOk' /\ RegInv' /\ end'["worker"].state = "open" /\ end'["host"] = end["host"]
  <2>1. k \in FrameKind("worker") /\ 0 \in Nat
    BY DEF FrameKind
  <2> QED BY <1>1, <2>1, NetSends, InboxSame, SideNames
<1>3. w' \in WorkerType /\ w'.pc # "off"
  <2>1. w \in WorkerType /\ w.pc # "off" /\ limit \in Limits
    BY <1>1 DEF BaseInv, RestOk, OpenInv
  <2>2. /\ limit.beats \in Nat /\ limit.beats <= MaxBeats /\ limit.calls \in Nat /\ limit.calls <= MaxModelCalls
    BY <2>1, RelayAssumption DEF LimitType
  <2>3. k = "beat" /\ w.pc = "exec" => w.beats < limit.beats
    BY <1>1 DEF Askable, Heartbeats, ModelCalls
  <2>4. k = "model" => w.calls < limit.calls
    <3>1. k = "model" => k \in ModelCalls
      BY <1>1, <2>1 DEF Askable, Heartbeats, WorkerType
    <3> QED BY <3>1 DEF ModelCalls
  <2>5. end["worker"].seq + 1 \in Nat
    BY BaseFacts, SideNames DEF EndpointType
  <2>6. /\ w.beats + (IF k = "beat" /\ w.pc = "exec" THEN 1 ELSE 0) \in 0..MaxBeats
        /\ w.calls + (IF k = "model" THEN 1 ELSE 0) \in 0..MaxModelCalls
    <3>1. w.beats \in 0..MaxBeats /\ w.calls \in 0..MaxModelCalls
      BY <2>1 DEF WorkerType
    <3> QED BY <2>2, <2>3, <2>4, <3>1, RelayAssumption
  <2>7. w' = [w EXCEPT !.ask = k, !.seq = end["worker"].seq + 1,
                       !.beats = w.beats + (IF k = "beat" /\ w.pc = "exec" THEN 1 ELSE 0),
                       !.calls = w.calls + (IF k = "model" THEN 1 ELSE 0)]
    BY DEF Ask
  <2> QED BY <2>1, <2>5, <2>6, <2>7 DEF WorkerType
<1> QED BY <1>1, <1>2, <1>3, BaseWorker

\* A request that failed, whatever is done with the inbox.
LEMMA BaseFails ==
  ASSUME BaseInv, end["worker"].state = "open", w.ask # "none", Fails, KeepHost, misread' = misread,
         w'.pc # "off" => /\ inbox' \in [Side -> Seq(MessageType)] /\ InboxOk' /\ inbox'["host"] = inbox["host"]
  PROVE  BaseInv'
<1>1. /\ w \in WorkerType /\ w.pc # "off" /\ misread \subseteq Request
      /\ registry' = registry /\ handler' = handler /\ overtaken' = overtaken
  BY DEF BaseInv, RestOk, OpenInv, KeepHost, relay
<1>2. CASE w' \in {[w EXCEPT !.ask = "none"], [w EXCEPT !.ask = "none", !.doomed = TRUE]} /\ UNCHANGED <<end, wire>>
  <2>1. w' \in WorkerType /\ w'.pc # "off"
    BY <1>1, <1>2 DEF WorkerType
  <2>2. NetOk' /\ RegInv'
    BY <1>1, <1>2, <2>1, NetTakes, SideNames
  <2> QED BY <1>1, <1>2, <2>1, <2>2, BaseWorker
<1>3. CASE w' = Off /\ Closes("worker")
  <2>1. NetOk' /\ RegInv' /\ end'["worker"].state = "closed" /\ end'["host"] = end["host"]
    BY <1>1, <1>3, NetCloses, SideNames
  <2> QED BY <1>1, <1>3, <2>1, BaseWorker, OffType
<1> QED BY <1>2, <1>3 DEF Fails

\* What Hear leaves in the inbox.
LEMMA HearRest ==
  ASSUME BaseInv, inbox["worker"] # << >>, NEW m,
         inbox' = [inbox EXCEPT !["worker"] = IF m.kind = "eof" THEN @ ELSE Tail(@)]
  PROVE  /\ inbox' \in [Side -> Seq(MessageType)] /\ InboxOk' /\ inbox'["host"] = inbox["host"]
         /\ inbox'["worker"] = IF m.kind = "eof" THEN inbox["worker"] ELSE Tail(inbox["worker"])
<1>1. CASE m.kind = "eof"
  <2>1. inbox' = inbox
    BY <1>1 DEF BaseInv, NetOk, QueueOk
  <2> QED BY <1>1, <2>1, InboxSame
<1>2. CASE m.kind # "eof"
  <2>1. inbox' = [inbox EXCEPT !["worker"] = Tail(inbox["worker"])]
    BY <1>2
  <2> QED BY <1>2, <2>1, TakenEffect, SideNames
<1> QED BY <1>1, <1>2

LEMMA BaseHear == ASSUME BaseInv, Hear PROVE BaseInv'
<1>1. PICK m : m = Head(inbox["worker"])
  OBVIOUS
<1>2. /\ end["worker"].state = "open" /\ w.ask # "none" /\ inbox["worker"] # << >> /\ KeepHost
      /\ registry' = registry /\ handler' = handler /\ overtaken' = overtaken
  BY DEF Hear, Opened, KeepHost, relay
<1>3. w \in WorkerType /\ w.pc # "off" /\ misread \subseteq Request /\ w.ask \in Request
  BY <1>2 DEF BaseInv, RestOk, OpenInv, WorkerType
<1>4. CASE /\ Fails /\ misread' = misread
           /\ w'.pc # "off" => inbox' = [inbox EXCEPT !["worker"] = IF m.kind = "eof" THEN @ ELSE Tail(@)]
  BY <1>2, <1>4, HearRest, BaseFails
<1>5. CASE /\ misread' = misread \cup (IF m.re # w.seq THEN {w.ask} ELSE {})
           /\ \E pc \in After(m) :
                IF pc = "off" THEN w' = Off /\ Closes("worker")
                ELSE /\ w' = [w EXCEPT !.pc = pc, !.ask = "none", !.reported = @ \/ w.ask = "terminal"]
                     /\ inbox' = [inbox EXCEPT !["worker"] = IF m.kind = "eof" THEN @ ELSE Tail(@)]
                     /\ UNCHANGED <<end, wire>>
  <2>1. PICK pc \in After(m) :
          IF pc = "off" THEN w' = Off /\ Closes("worker")
          ELSE /\ w' = [w EXCEPT !.pc = pc, !.ask = "none", !.reported = @ \/ w.ask = "terminal"]
               /\ inbox' = [inbox EXCEPT !["worker"] = IF m.kind = "eof" THEN @ ELSE Tail(@)]
               /\ UNCHANGED <<end, wire>>
    BY <1>5
  <2>2. misread' \subseteq Request
    BY <1>3, <1>5
  <2>3. CASE pc = "off"
    <3>1. NetOk' /\ RegInv' /\ end'["worker"].state = "closed" /\ end'["host"] = end["host"]
      BY <1>2, <2>1, <2>3, NetCloses, SideNames
    <3> QED BY <1>2, <2>1, <2>2, <2>3, <3>1, BaseWorker, OffType
  <2>4. CASE pc # "off"
    <3>1. w' \in WorkerType /\ w'.pc # "off"
      <4>1. pc \in {"off", "hello", "lease", "ack", "prep", "poll", "run", "exec", "begin", "chunk", "final",
                    "terminal", "report", "result", "bye"}
        BY <1>3, <2>1, AfterType
      <4>2. PICK b : b = (w.reported \/ w.ask = "terminal")
        OBVIOUS
      <4>3. b \in BOOLEAN /\ w' = [w EXCEPT !.pc = pc, !.ask = "none", !.reported = b]
        BY <2>1, <2>4, <4>2
      <4> QED BY <1>3, <2>4, <4>1, <4>3 DEF WorkerType
    <3>2. inbox' \in [Side -> Seq(MessageType)] /\ InboxOk' /\ inbox'["host"] = inbox["host"]
      BY <1>2, <2>1, <2>4, HearRest
    <3>3. NetOk' /\ RegInv'
      BY <1>2, <2>1, <2>4, <3>2, NetTakes, SideNames
    <3> QED BY <1>2, <2>1, <2>2, <2>4, <3>1, <3>3, BaseWorker
  <2> QED BY <2>3, <2>4
<1> QED BY <1>1, <1>4, <1>5 DEF Hear

LEMMA BaseWorkerTimesOut == ASSUME BaseInv, WorkerTimesOut PROVE BaseInv'
<1>1. /\ end["worker"].state = "open" /\ w.ask # "none" /\ KeepHost /\ Fails /\ misread' = misread
      /\ w'.pc # "off" => inbox' = inbox
  BY DEF WorkerTimesOut, Opened
<1> QED BY <1>1, InboxSame, BaseFails

LEMMA BaseNeverStarts == ASSUME BaseInv, NeverStarts PROVE BaseInv'
<1>1. /\ w.pc = "run" /\ w \in WorkerType /\ KeepHost /\ misread' = misread /\ misread \subseteq Request
      /\ end["worker"].state = "open" /\ registry' = registry /\ handler' = handler /\ overtaken' = overtaken
  BY DEF NeverStarts, BaseInv, RestOk, OpenInv, KeepHost, relay
<1>2. CASE w' = Off /\ Closes("worker")
  <2>1. NetOk' /\ RegInv' /\ end'["worker"].state = "closed" /\ end'["host"] = end["host"]
    BY <1>1, <1>2, NetCloses, SideNames
  <2> QED BY <1>1, <1>2, <2>1, BaseWorker, OffType
<1>3. CASE w' = [w EXCEPT !.pc = "terminal"] /\ UNCHANGED <<end, wire, inbox>>
  <2>1. w' \in WorkerType /\ w'.pc # "off"
    BY <1>1, <1>3 DEF WorkerType
  <2>2. NetOk' /\ RegInv'
    BY <1>1, <1>3, NetTakes, SideNames, InboxSame
  <2> QED BY <1>1, <1>3, <2>1, <2>2, BaseWorker
<1> QED BY <1>2, <1>3 DEF NeverStarts

LEMMA BaseExecutionEnds == ASSUME BaseInv, ExecutionEnds PROVE BaseInv'
<1>1. /\ w.pc = "exec" /\ w \in WorkerType /\ KeepHost /\ misread' = misread /\ misread \subseteq Request
      /\ end["worker"].state = "open" /\ registry' = registry /\ handler' = handler /\ overtaken' = overtaken
  BY DEF ExecutionEnds, BaseInv, RestOk, OpenInv, KeepHost, relay
<1>2. CASE w' = Off /\ Closes("worker")
  <2>1. NetOk' /\ RegInv' /\ end'["worker"].state = "closed" /\ end'["host"] = end["host"]
    BY <1>1, <1>2, NetCloses, SideNames
  <2> QED BY <1>1, <1>2, <2>1, BaseWorker, OffType
<1>3. CASE \E pc \in {"begin", "terminal"} : w' = [w EXCEPT !.pc = pc] /\ UNCHANGED <<end, wire, inbox>>
  <2>1. w' \in WorkerType /\ w'.pc # "off"
    BY <1>1, <1>3 DEF WorkerType
  <2>2. NetOk' /\ RegInv'
    BY <1>1, <1>3, NetTakes, SideNames, InboxSame
  <2> QED BY <1>1, <1>3, <2>1, <2>2, BaseWorker
<1> QED BY <1>2, <1>3 DEF ExecutionEnds

-----------------------------------------------------------------------------

LEMMA BaseHostEnds ==
  ASSUME BaseInv, HostEnds, end["host"].state = "open" \/ (end["host"].state = "greeting" /\ inbox["host"] # << >>),
         KeepWorker, recorded' \in BOOLEAN, faults' \in 0..MaxFaults
  PROVE  BaseInv'
<1>1. registry' = registry /\ handler' = handler /\ overtaken' = overtaken /\ h' = Away /\ Closes("host")
  BY DEF KeepWorker, relay, HostEnds
<1>2. NetOk' /\ RegInv' /\ end'["host"].state = "closed" /\ end'["worker"] = end["worker"]
  BY <1>1, NetCloses, SideNames
<1> QED BY <1>1, <1>2, BaseHost, OffType

LEMMA FaultType == ASSUME BaseInv, Fault PROVE faults' \in 0..MaxFaults
<1>1. faults \in 0..MaxFaults /\ limit.faults \in 0..MaxFaults
  BY RelayAssumption DEF BaseInv, RestOk, LimitType
<1> QED BY <1>1, RelayAssumption DEF Fault

LEMMA BaseHostReady == ASSUME BaseInv, HostReady PROVE BaseInv'
<1>1. /\ inbox["host"] # << >> /\ KeepWorker /\ registry' = registry /\ handler' = handler /\ overtaken' = overtaken
      /\ recorded' \in BOOLEAN /\ faults' \in 0..MaxFaults
  BY DEF HostReady, KeepWorker, relay, BaseInv, RestOk
<1>2. PICK c : c = end["host"].conn
  OBVIOUS
<1>3. CASE /\ end["host"].state = "greeting"
           /\ end' = [end EXCEPT !["host"].state = "open"] /\ h' = [Away EXCEPT !.pc = "registering"]
           /\ Writes("host", Control("relay.register")) /\ Taken
  <2>1. /\ inbox' \in [Side -> Seq(MessageType)] /\ InboxOk' /\ inbox'["worker"] = inbox["worker"]
    BY <1>1, <1>3, TakenEffect, SideNames DEF Taken
  <2>2. /\ end' \in EndType /\ end'["host"].conn = end["host"].conn /\ end'["host"].state = "open"
        /\ end'["worker"] = end["worker"]
    BY <1>3 DEF BaseInv, NetOk, EndType, Side
  <2>3. PICK q : q = IF Reaches("host", wire["host"][c])
                     THEN Append(wire["host"][c], Control("relay.register")) ELSE wire["host"][c]
    OBVIOUS
  <2>4. c \in Conn /\ wire["host"][c] \in Seq(Sent("host")) /\ QueueOk
    BY <1>2, BaseFacts, SideNames DEF EndpointType
  <2>5. q \in Seq(Sent("host")) /\
          (NoHello(wire["host"][c]) /\ HelloFirst(wire["host"][c]) => NoHello(q) /\ HelloFirst(q))
    <3>1. Control("relay.register") \in Sent("host")
      BY SideNames, ControlSent DEF ControlKind
    <3> QED BY <2>3, <2>4, <3>1, NoHelloSent, SideNames
  <2>6. wire' = [wire EXCEPT !["host"][c] = q]
    BY <1>2, <1>3, <2>3 DEF Writes
  <2>7. /\ wire' \in [Side -> [Conn -> Seq(MessageType)]] /\ WireOk' /\ wire'["host"][c] = q
        /\ \A t \in Side : \A d \in Conn : <<t, d>> # <<"host", c>> => wire'[t][d] = wire[t][d]
    <3>1. "host" \in Side /\ c \in Conn /\ QueueOk /\ q \in Seq(Sent("host"))
      BY <2>4, <2>5, SideNames
    <3>2. OneWire("host", c, q)
      BY <2>6, <3>1, WireStep
    <3> QED BY <3>2 DEF OneWire
  <2>8. QueueOk'
    BY <2>1, <2>7 DEF QueueOk
  <2>9. NetOk' /\ RegInv'
    <3>1. ~handler["host"][end["host"].conn] => wire'["host"][end["host"].conn] = wire["host"][end["host"].conn]
      BY <1>2, <2>3, <2>7 DEF Reaches
    <3>2. /\ NoHello(wire["host"][end["host"].conn]) /\ HelloFirst(wire["host"][end["host"].conn]) =>
               NoHello(wire'["host"][end["host"].conn]) /\ HelloFirst(wire'["host"][end["host"].conn])
          /\ \A t \in Side : \A d \in Conn : <<t, d>> # <<"host", end["host"].conn>> => wire'[t][d] = wire[t][d]
      BY <1>2, <2>5, <2>7
    <3>3. end["host"].state = "greeting"
      BY <1>3
    <3> QED BY <1>1, <2>1, <2>2, <2>8, <3>1, <3>2, <3>3, NetEndpoint, SideNames
  <2>10. h' \in HostType /\ h'.pc # "off"
    BY <1>3, OffType DEF HostType
  <2> QED BY <1>1, <2>2, <2>9, <2>10, BaseHost
<1>4. CASE h.pc = "registering" /\ h' = [h EXCEPT !.pc = "hello"] /\ Taken /\ UNCHANGED <<end, wire>>
  <2>1. h' \in HostType /\ h'.pc # "off" /\ end["host"].state = "open"
    BY <1>4 DEF BaseInv, RestOk, HostType, OpenInv
  <2>2. /\ inbox' \in [Side -> Seq(MessageType)] /\ InboxOk' /\ inbox'["worker"] = inbox["worker"]
    BY <1>1, <1>4, TakenEffect, SideNames DEF Taken
  <2>3. NetOk' /\ RegInv'
    BY <1>1, <1>4, <2>1, <2>2, NetTakes, SideNames
  <2> QED BY <1>1, <1>4, <2>1, <2>3, BaseHost
<1>5. CASE (end["host"].state = "greeting" \/ h.pc = "registering") /\ HostEnds
  <2>1. end["host"].state = "open" \/ end["host"].state = "greeting"
    BY <1>5 DEF BaseInv, OpenInv
  <2> QED BY <1>1, <1>5, <2>1, BaseHostEnds
<1> QED BY <1>2, <1>3, <1>4, <1>5 DEF HostReady

\* The host's side takes a message and answers, or ends.
LEMMA BaseServe == ASSUME BaseInv, Serve PROVE BaseInv'
<1>1. PICK m : m = Head(inbox["host"])
  OBVIOUS
<1>2. /\ h.pc \in {"hello", "serving"} /\ inbox["host"] # << >> /\ KeepWorker
      /\ registry' = registry /\ handler' = handler /\ overtaken' = overtaken
  BY DEF Serve, KeepWorker, relay
<1>3. /\ h \in HostType /\ end["host"].state = "open" /\ recorded \in BOOLEAN /\ faults \in 0..MaxFaults
      /\ inbox["host"] \in Seq(Sent("worker")) /\ TypeInv
  BY <1>2, BaseFacts, SideNames DEF BaseInv, RestOk, OpenInv
<1>4. m \in Sent("worker") /\ m \in MessageType
  BY <1>1, <1>2, <1>3, TailFacts, SentFacts, SideNames
<1>5. m.seq \in Nat /\ m.conn \in 0..2 /\ (Opens(m) => m.kind \in Request)
  <2>1. m.seq # 0 => m.kind \in FrameKind("worker")
    BY <1>4, SentFacts, SideNames
  <2> QED BY <1>4, <2>1 DEF MessageType, Opens, FrameKind
<1>6. PICK o : o = (h.ordered /\ (h.pc = "serving" => m.conn = h.from /\ m.seq = h.next + 1))
  OBVIOUS
<1>7. PICK heard : heard = [h EXCEPT !.from = m.conn, !.next = m.seq, !.ordered = o]
  OBVIOUS
<1>8. heard \in HostType
  <2>1. o \in BOOLEAN
    BY <1>6
  <2> QED BY <1>3, <1>5, <1>7, <2>1 DEF HostType
<1>9. Taken => /\ inbox' \in [Side -> Seq(MessageType)] /\ InboxOk' /\ inbox'["worker"] = inbox["worker"]
  BY <1>2, TakenEffect, SideNames DEF Taken
<1>10. CASE HostEnds /\ recorded' = recorded /\ (faults' = faults \/ Fault)
  <2>1. recorded' \in BOOLEAN /\ faults' \in 0..MaxFaults
    BY <1>3, <1>10, FaultType
  <2> QED BY <1>2, <1>3, <1>10, <2>1, BaseHostEnds
<1>11. CASE /\ h' = [heard EXCEPT !.pc = "calling", !.call = m.seq] /\ Taken
            /\ UNCHANGED <<end, wire, recorded, faults>>
  <2>1. h' \in HostType /\ h'.pc # "off"
    BY <1>5, <1>8, <1>11 DEF HostType
  <2>2. NetOk' /\ RegInv'
    BY <1>2, <1>3, <1>9, <1>11, NetTakes, SideNames
  <2> QED BY <1>2, <1>3, <1>11, <2>1, <2>2, BaseHost
<1>12. CASE /\ Opens(m)
            /\ \E a \in Answers(m.kind) : Sends("host", a, m.seq)
            /\ h' = [heard EXCEPT !.pc = "serving"] /\ Taken
            /\ recorded' = (recorded \/ (m.kind = "terminal" /\ m.conn = end["worker"].conn))
            /\ UNCHANGED faults
  <2>1. PICK a \in Answers(m.kind) : Sends("host", a, m.seq)
    BY <1>12
  <2>2. a \in FrameKind("host")
    BY <1>5, <1>12, <2>1, AnswersType DEF FrameKind
  <2>3. NetOk' /\ RegInv' /\ end'["host"].state = "open" /\ end'["worker"] = end["worker"]
    BY <1>2, <1>3, <1>5, <1>9, <1>12, <2>1, <2>2, NetSends, SideNames
  <2>4. h' \in HostType /\ h'.pc # "off"
    BY <1>8, <1>12 DEF HostType
  <2>5. recorded' \in BOOLEAN /\ faults' \in 0..MaxFaults
    BY <1>3, <1>12
  <2> QED BY <1>2, <2>3, <2>4, <2>5, BaseHost
<1>13. CASE /\ h' = Away /\ GivenUp("host")
            /\ wire' = [wire EXCEPT !["host"][end["host"].conn] =
                 IF Reaches("host", @) THEN Append(Append(@, Sealed("host", "goodbye", m.seq)), Eof) ELSE @]
            /\ UNCHANGED <<recorded, faults>>
  <2>1. PICK c : c = end["host"].conn
    OBVIOUS
  <2>2. PICK g : g = Sealed("host", "goodbye", m.seq)
    OBVIOUS
  <2>3. PICK q : q = IF Reaches("host", wire["host"][c])
                     THEN Append(Append(wire["host"][c], g), Eof) ELSE wire["host"][c]
    OBVIOUS
  <2>4. c \in Conn /\ wire["host"][c] \in Seq(Sent("host")) /\ QueueOk
    BY <2>1, BaseFacts, SideNames DEF EndpointType
  <2>5. g \in Sent("host") /\ g.seq # 0 /\ Eof \in Sent("host")
    <3>1. "goodbye" \in FrameKind("host")
      BY AnswerKinds DEF FrameKind
    <3>2. g \in Frame("host") /\ g \in Sent("host")
      BY <1>3, <1>5, <2>2, <3>1, SealedSent, SideNames
    <3> QED BY <3>2, SideNames, ControlSent DEF Eof, ControlKind, Frame
  <2>6. /\ q \in Seq(Sent("host"))
        /\ NoHello(wire["host"][c]) /\ HelloFirst(wire["host"][c]) => NoHello(q) /\ HelloFirst(q)
    <3>1. /\ Append(wire["host"][c], g) \in Seq(Sent("host"))
          /\ NoHello(wire["host"][c]) /\ HelloFirst(wire["host"][c]) =>
               NoHello(Append(wire["host"][c], g)) /\ HelloFirst(Append(wire["host"][c], g))
      BY <2>4, <2>5, NoHelloSent, SideNames
    <3>2. PICK q1 : q1 = Append(wire["host"][c], g)
      OBVIOUS
    <3>3. /\ Append(q1, Eof) \in Seq(Sent("host"))
          /\ NoHello(q1) /\ HelloFirst(q1) => NoHello(Append(q1, Eof)) /\ HelloFirst(Append(q1, Eof))
      BY <2>5, <3>1, <3>2, NoHelloSent, SideNames
    <3> QED BY <2>3, <2>4, <3>1, <3>2, <3>3
  <2>7. wire' = [wire EXCEPT !["host"][c] = q]
    BY <1>13, <2>1, <2>2, <2>3
  <2>8. /\ wire' \in [Side -> [Conn -> Seq(MessageType)]] /\ WireOk' /\ wire'["host"][c] = q
        /\ \A t \in Side : \A d \in Conn : <<t, d>> # <<"host", c>> => wire'[t][d] = wire[t][d]
    <3>1. "host" \in Side /\ c \in Conn /\ QueueOk /\ q \in Seq(Sent("host"))
      BY <2>4, <2>6, SideNames
    <3>2. OneWire("host", c, q)
      BY <2>7, <3>1, WireStep
    <3> QED BY <3>2 DEF OneWire
  <2>9. /\ inbox' \in [Side -> Seq(MessageType)] /\ InboxOk' /\ inbox'["worker"] = inbox["worker"]
    <3>1. << >> \in Seq(Sent(Peer("host"))) /\ QueueOk
      BY <2>4
    <3> QED BY <1>13, <3>1, InboxStep, SideNames DEF GivenUp
  <2>10. /\ end' \in EndType /\ end'["host"].conn = end["host"].conn /\ end'["host"].state = "closed"
         /\ end'["worker"] = end["worker"]
    BY <1>13 DEF BaseInv, NetOk, EndType, Side, GivenUp
  <2>11. NetOk' /\ RegInv'
    <3>1. ~handler["host"][end["host"].conn] => wire'["host"][end["host"].conn] = wire["host"][end["host"].conn]
      BY <2>1, <2>3, <2>8 DEF Reaches
    <3>2. /\ NoHello(wire["host"][end["host"].conn]) /\ HelloFirst(wire["host"][end["host"].conn]) =>
               NoHello(wire'["host"][end["host"].conn]) /\ HelloFirst(wire'["host"][end["host"].conn])
          /\ \A t \in Side : \A d \in Conn : <<t, d>> # <<"host", end["host"].conn>> => wire'[t][d] = wire[t][d]
      BY <2>1, <2>6, <2>8
    <3>3. QueueOk'
      BY <2>8, <2>9 DEF QueueOk
    <3>4. NoHello(wire["host"][end["host"].conn])
      <4>1. SideOk("host", end["host"], registry["host"], handler["host"], wire["host"], inbox["host"], overtaken)
        BY BaseFacts, SideNames DEF SideInv
      <4> QED BY <1>3, <2>1, <2>4, <4>1 DEF SideOk
    <3> QED BY <1>2, <1>3, <2>9, <2>10, <3>1, <3>2, <3>3, <3>4, NetEndpoint, SideNames
  <2> QED BY <1>2, <1>3, <1>13, <2>10, <2>11, BaseHost, OffType
<1> QED
  <2>1. heard = [h EXCEPT !.from = m.conn, !.next = m.seq,
                          !.ordered = @ /\ (h.pc = "serving" => m.conn = h.from /\ m.seq = h.next + 1)]
    BY <1>6, <1>7
  <2> QED BY <1>1, <1>10, <1>11, <1>12, <1>13, <2>1 DEF Serve

LEMMA BaseModelAnswers == ASSUME BaseInv, ModelAnswers PROVE BaseInv'
<1>1. /\ h.pc = "calling" /\ KeepWorker /\ registry' = registry /\ handler' = handler /\ overtaken' = overtaken
      /\ recorded' \in BOOLEAN /\ faults' \in 0..MaxFaults
  BY DEF ModelAnswers, KeepWorker, relay, BaseInv, RestOk
<1>2. h \in HostType /\ end["host"].state = "open" /\ h.call \in Nat
  BY <1>1 DEF BaseInv, RestOk, OpenInv, HostType
<1>3. CASE Sends("host", "result", h.call) /\ h' = [h EXCEPT !.pc = "serving", !.call = 0] /\ UNCHANGED inbox
  <2>1. "result" \in FrameKind("host")
    BY AnswerKinds DEF FrameKind
  <2>2. NetOk' /\ RegInv' /\ end'["host"].state = "open" /\ end'["worker"] = end["worker"]
    BY <1>1, <1>2, <1>3, <2>1, NetSends, SideNames, InboxSame
  <2>3. h' \in HostType /\ h'.pc # "off"
    BY <1>2, <1>3 DEF HostType
  <2> QED BY <1>1, <2>2, <2>3, BaseHost
<1>4. CASE HostEnds
  BY <1>1, <1>2, <1>4, BaseHostEnds
<1> QED BY <1>3, <1>4 DEF ModelAnswers

LEMMA BaseHostTimesOut == ASSUME BaseInv, HostTimesOut PROVE BaseInv'
<1>1. /\ h.pc \in {"hello", "serving"} /\ KeepWorker /\ recorded' \in BOOLEAN /\ faults' \in 0..MaxFaults /\ HostEnds
  BY DEF HostTimesOut, BaseInv, RestOk
<1>2. end["host"].state = "open"
  BY <1>1 DEF BaseInv, OpenInv
<1> QED BY <1>1, <1>2, BaseHostEnds

-----------------------------------------------------------------------------

\* An open endpoint's connection breaks.
LEMMA CutOpened ==
  ASSUME BaseInv, NEW s \in Side, Cut(s), Opened(s)
  PROVE  /\ QueueOk' /\ end' = end
         /\ wire'[s][end[s].conn] = IF Reaches(s, wire[s][end[s].conn])
                                    THEN Append(wire[s][end[s].conn], Eof) ELSE wire[s][end[s].conn]
         /\ \A t \in Side : \A d \in Conn : <<t, d>> # <<s, end[s].conn>> => wire'[t][d] = wire[t][d]
         /\ inbox'[s] = Append(inbox[s], Eof) /\ inbox'[Peer(s)] = inbox[Peer(s)]
<1>1. PICK c : c = end[s].conn
  OBVIOUS
<1>2. /\ c \in Conn /\ QueueOk /\ wire[s][c] \in Seq(Sent(s)) /\ inbox[s] \in Seq(Sent(Peer(s)))
  BY <1>1, BaseFacts DEF EndpointType
<1>3. Eof \in Sent(s) /\ Eof \in Sent(Peer(s))
  BY PeerFacts, ControlSent DEF Eof, ControlKind
<1>4. PICK q : q = IF Reaches(s, wire[s][c]) THEN Append(wire[s][c], Eof) ELSE wire[s][c]
  OBVIOUS
<1>5. q \in Seq(Sent(s)) /\ wire' = [wire EXCEPT ![s][c] = q]
  BY <1>1, <1>2, <1>3, <1>4, AppendFacts DEF Cut, Writes
<1>6. /\ wire' \in [Side -> [Conn -> Seq(MessageType)]] /\ WireOk' /\ wire'[s][c] = q
      /\ \A t \in Side : \A d \in Conn : <<t, d>> # <<s, c>> => wire'[t][d] = wire[t][d]
  <2>1. OneWire(s, c, q)
    BY <1>2, <1>5, WireStep
  <2> QED BY <2>1 DEF OneWire
<1>7. PICK ib : ib = Append(inbox[s], Eof)
  OBVIOUS
<1>8. ib \in Seq(Sent(Peer(s))) /\ inbox' = [inbox EXCEPT ![s] = ib] /\ end' = end
  BY <1>2, <1>3, <1>7, AppendFacts DEF Cut
<1>9. /\ inbox' \in [Side -> Seq(MessageType)] /\ InboxOk' /\ inbox'[s] = ib /\ inbox'[Peer(s)] = inbox[Peer(s)]
  BY <1>2, <1>8, InboxStep
<1> QED BY <1>1, <1>4, <1>6, <1>7, <1>8, <1>9 DEF QueueOk

LEMMA BaseCut == ASSUME BaseInv, NEW s \in Side, Cut(s) PROVE BaseInv'
<1>1. /\ end[s].state # "closed" /\ handler[s][end[s].conn] /\ registry' = registry /\ handler' = handler
      /\ overtaken' = overtaken /\ router' = router /\ w' = w /\ h' = h /\ limit' = limit /\ recorded' = recorded
      /\ misread' = misread /\ reset' = reset /\ Fault
  BY DEF Cut, relay, ghosts
<1>2. NetOk' /\ RegInv' /\ OpenInv'
  <2>1. CASE Opened(s)
    <3>1. /\ end' = end /\ QueueOk' /\ inbox'[Peer(s)] = inbox[Peer(s)]
          /\ wire'[s][end[s].conn] = (IF Reaches(s, wire[s][end[s].conn])
                                      THEN Append(wire[s][end[s].conn], Eof) ELSE wire[s][end[s].conn])
          /\ \A t \in Side : \A d \in Conn : <<t, d>> # <<s, end[s].conn>> => wire'[t][d] = wire[t][d]
      BY <2>1, CutOpened
    <3>2. Eof \in Sent(s) /\ wire[s][end[s].conn] \in Seq(Sent(s))
      BY BaseFacts, ControlSent DEF Eof, ControlKind, EndpointType
    <3>3. PICK q, q2 : q = wire[s][end[s].conn] /\ q2 = wire'[s][end[s].conn]
      OBVIOUS
    <3>4. NoHello(q) /\ HelloFirst(q) => NoHello(q2) /\ HelloFirst(q2)
      BY <3>1, <3>2, <3>3, NoHelloSent
    <3>5. end' \in EndType /\ end'[s].conn = end[s].conn /\ end'[s].state = "open" /\ end'[Peer(s)] = end[Peer(s)]
      BY <2>1, <3>1 DEF BaseInv, NetOk, Opened
    <3>6. ~handler[s][end[s].conn] => wire'[s][end[s].conn] = wire[s][end[s].conn]
      BY <1>1
    <3>7. NetOk' /\ RegInv'
      BY <1>1, <2>1, <3>1, <3>3, <3>4, <3>5, <3>6, NetEndpoint DEF Opened
    <3> QED BY <1>1, <3>1, <3>7 DEF BaseInv, OpenInv
  <2>2. CASE ~Opened(s)
    <3>1. Closes(s) /\ end[s].state = "greeting"
      <4>1. end[s].state \in {"closed", "greeting", "open"}
        BY BaseFacts DEF EndpointType
      <4> QED BY <1>1, <2>2, <4>1 DEF Cut, Closes, Opened
    <3>2. NetOk' /\ RegInv' /\ end'[s].state = "closed" /\ end'[Peer(s)] = end[Peer(s)]
      BY <1>1, <3>1, NetCloses
    <3>3. \A t \in Side : end'[t].state = "open" <=> end[t].state = "open"
      BY <3>1, <3>2 DEF Side, Peer
    <3> QED BY <1>1, <3>2, <3>3, SideNames DEF BaseInv, OpenInv
  <2> QED BY <2>1, <2>2
<1>3. RestOk'
  BY <1>1, FaultType DEF BaseInv, RestOk
<1> QED BY <1>2, <1>3 DEF BaseInv

LEMMA ForgottenType == ASSUME NEW live \in BOOLEAN PROVE Forgotten(live) \in RouterType
BY DEF Forgotten, RouterType

LEMMA BasePrune == ASSUME BaseInv, Prune PROVE BaseInv'
<1>1. /\ router' = Forgotten(FALSE) /\ reset' = TRUE /\ Fault
      /\ UNCHANGED <<registry, handler, overtaken, wire, inbox, end, w, h, limit, recorded, misread>>
  BY DEF Prune, revoke_session, ghosts
<1>2. RestOk'
  BY <1>1, FaultType, ForgottenType DEF BaseInv, RestOk
<1>3. NetOk' /\ RegInv' /\ OpenInv'
  BY <1>1 DEF BaseInv, NetOk, RegInv, OpenInv, QueueOk, WireOk, InboxOk, SideInv
<1> QED BY <1>2, <1>3 DEF BaseInv

LEMMA BaseRestart == ASSUME BaseInv, Restart PROVE BaseInv'
<1>1. /\ reset' = TRUE /\ Fault /\ (\E live \in BOOLEAN : router' = Forgotten(live))
      /\ registry' = [s \in Side |-> 0] /\ handler' = [s \in Side |-> [c \in Conn |-> FALSE]]
      /\ wire' = [s \in Side |-> [c \in Conn |-> << >>]]
      /\ inbox' = [s \in Side |-> IF end[s].state = "closed" THEN << >> ELSE Append(inbox[s], Eof)]
      /\ UNCHANGED <<end, w, h, limit, recorded, misread, overtaken>>
  BY DEF Restart, Reloaded, ghosts
<1>2. RestOk'
  BY <1>1, FaultType, ForgottenType DEF BaseInv, RestOk
<1>3. ASSUME NEW s \in Side PROVE inbox'[s] \in Seq(Sent(Peer(s))) /\ inbox'[s] \in Seq(MessageType)
  <2>1. inbox[s] \in Seq(Sent(Peer(s))) /\ Eof \in Sent(Peer(s))
    BY BaseFacts, PeerFacts, ControlSent DEF Eof, ControlKind
  <2>2. inbox'[s] \in Seq(Sent(Peer(s)))
    <3>1. Append(inbox[s], Eof) \in Seq(Sent(Peer(s)))
      BY <2>1, AppendFacts
    <3> QED BY <1>1, <3>1
  <2> QED BY <2>2, SentSeq, PeerFacts
<1>4. NetOk'
  <2>1. inbox' \in [Side -> Seq(MessageType)] /\ InboxOk'
    BY <1>1, <1>3 DEF InboxOk
  <2>2. wire' \in [Side -> [Conn -> Seq(MessageType)]] /\ WireOk'
    BY <1>1 DEF WireOk
  <2>3. registry' \in [Side -> 0..2] /\ handler' \in [Side -> [Conn -> BOOLEAN]]
    BY <1>1
  <2> QED BY <1>1, <2>1, <2>2, <2>3 DEF BaseInv, NetOk, QueueOk
<1>5. ASSUME NEW s \in Side PROVE SideInv(s)'
  <2>1. PICK e, r, hd, wr, ib, ov : /\ e = end[s] /\ r = registry[s] /\ hd = handler[s] /\ wr = wire[s]
                                    /\ ib = inbox[s] /\ ov = overtaken
    OBVIOUS
  <2>2. SideOk(s, e, r, hd, wr, ib, ov) /\ e \in EndpointType
    BY <2>1, BaseFacts DEF SideInv
  <2>3. PICK hd2, wr2, ib2 : hd2 = handler'[s] /\ wr2 = wire'[s] /\ ib2 = inbox'[s]
    OBVIOUS
  <2>4. (\A c \in Conn : ~hd2[c]) /\ (\A c \in Conn : wr2[c] = << >>)
    BY <1>1, <2>3
  <2>5. SideOk(s, e, 0, hd2, wr2, ib2, ov)
    BY <2>2, <2>4, SideRestart
  <2> QED BY <1>1, <2>1, <2>3, <2>5 DEF SideInv
<1>6. OpenInv'
  BY <1>1 DEF BaseInv, OpenInv
<1> QED BY <1>2, <1>4, <1>5, <1>6 DEF BaseInv, RegInv

\* Every step of either side, of the relay and of its surroundings.
LEMMA BaseStep == ASSUME BaseInv, [RelayNext]_relayVars PROVE BaseInv'
<1>1. CASE UNCHANGED relayVars
  BY <1>1 DEF relayVars, BaseInv, RestOk, NetOk, QueueOk, WireOk, InboxOk, RegInv, SideInv, OpenInv
<1>2. CASE WorkerStep
  BY <1>2, BaseConnect, BaseWorkerReady, BaseAsk, BaseHear, BaseWorkerTimesOut, BaseNeverStarts,
     BaseExecutionEnds, SideNames
     DEF WorkerStep
<1>3. CASE HostStep
  BY <1>3, BaseConnect, BaseHostReady, BaseServe, BaseModelAnswers, BaseHostTimesOut, SideNames DEF HostStep
<1>4. ASSUME NEW s \in Side, Cut(s) \/ \E c \in Conn : Handle(s, c) PROVE BaseInv'
  BY <1>4, BaseCut, BaseHandle
<1> QED BY <1>1, <1>2, <1>3, <1>4, BasePrune, BaseRestart DEF RelayNext

LEMMA BaseInit == RelayInit => BaseInv
<1> SUFFICES ASSUME RelayInit PROVE BaseInv
  OBVIOUS
<1>1. RestOk
  <2>1. router \in RouterType
    BY DEF RelayInit, RouterType
  <2>2. w \in WorkerType /\ h \in HostType
    BY OffType DEF RelayInit
  <2>3. faults \in 0..MaxFaults
    BY RelayAssumption DEF RelayInit
  <2>4. limit \in Limits /\ recorded \in BOOLEAN /\ misread \subseteq Request /\ reset \in BOOLEAN
    BY DEF RelayInit
  <2> QED BY <2>1, <2>2, <2>3, <2>4 DEF RestOk
<1>2. NetOk
  <2>1. wire \in [Side -> [Conn -> Seq(MessageType)]] /\ WireOk
    BY DEF RelayInit, WireOk
  <2>2. inbox \in [Side -> Seq(MessageType)] /\ InboxOk
    BY DEF RelayInit, InboxOk
  <2>3. end \in EndType
    BY DEF RelayInit, EndType, Conn
  <2>4. registry \in [Side -> 0..2] /\ handler \in [Side -> [Conn -> BOOLEAN]] /\ overtaken \subseteq Side
    BY DEF RelayInit
  <2> QED BY <2>1, <2>2, <2>3, <2>4 DEF NetOk, QueueOk
<1>3. ASSUME NEW s \in Side PROVE SideInv(s)
  <2>1. /\ end[s] = [conn |-> 1, seq |-> 0, state |-> "closed"] /\ registry[s] = 0
        /\ \A c \in Conn : wire[s][c] = << >>
    BY DEF RelayInit
  <2> QED BY <2>1, HelloFirstEmpty DEF SideInv, SideOk
<1>4. OpenInv
  BY OffType, SideNames DEF RelayInit, OpenInv
<1> QED BY <1>1, <1>2, <1>3, <1>4 DEF BaseInv, RegInv

LEMMA BaseNewest == BaseInv => NewestDelivers
<1> SUFFICES ASSUME BaseInv PROVE NewestDelivers
  OBVIOUS
<1>1. RelayTypeOK
  BY TypeParts DEF BaseInv, TypeInv
<1>2. ASSUME NEW s \in Side
      PROVE  /\ registry[s] # 0 => handler[s][registry[s]]
             /\ Opened(s) /\ handler[s][end[s].conn] /\ s \notin overtaken => registry[s] = end[s].conn
  <2>1. SideOk(s, end[s], registry[s], handler[s], wire[s], inbox[s], overtaken)
    BY BaseFacts DEF SideInv
  <2> QED BY <2>1 DEF SideOk, Opened
<1> QED BY <1>1, <1>2 DEF NewestDelivers

\* The relay's server delivers to the newest connection of either side, unless the
\* hello of an older one came after it, and never to a connection whose handler
\* has ended, for any number of reconnections, faults and restarts; its records
\* keep their types.
THEOREM NewestCorrect == RelaySpec => []NewestDelivers
<1>1. RelayInit => BaseInv
  BY BaseInit
<1>2. BaseInv /\ [RelayNext]_relayVars => BaseInv'
  BY BaseStep
<1>3. BaseInv => NewestDelivers
  BY BaseNewest
<1> QED BY <1>1, <1>2, <1>3, PTL DEF RelaySpec

-----------------------------------------------------------------------------
(* One conversation.  What the worker sends is counted without a gap, the   *)
(* router lets no number through twice, and so at most one connection can   *)
(* go on beyond its first frame: the one whose frames the host is reading.  *)

\* Frames that follow each other are numbered one after the other and of one
\* connection.
Linked(q) ==
  \A i \in 1..(Len(q) - 1) :
    q[i].seq # 0 /\ q[i + 1].seq # 0 => q[i + 1].seq = q[i].seq + 1 /\ q[i + 1].conn = q[i].conn

\* The worker's connections: frames in order, of that connection, up to the
\* last one sent.
LaneOk(e, hd, wr) ==
  /\ \A c \in Conn : Linked(wr[c]) /\ (wr[c] # << >> => hd[c])
  /\ \A c \in Conn : \A i \in 1..Len(wr[c]) :
       IF wr[c][i].seq # 0 THEN wr[c][i].conn = c ELSE wr[c][i].kind \in {Hello, "eof"}
  /\ e.state = "open" /\ wr[e.conn] # << >> /\ wr[e.conn][Len(wr[e.conn])].seq # 0
       => wr[e.conn][Len(wr[e.conn])].seq = e.seq

\* The number of the next frame that the relay can read from connection c; 0
\* if none will come, or something else comes first.
First(e, hd, wr, c) ==
  IF ~hd[c] THEN 0
  ELSE IF wr[c] # << >> THEN wr[c][1].seq
  ELSE IF c = e.conn /\ e.state = "open" THEN e.seq + 1 ELSE 0

LEMMA LinkedAppend ==
  ASSUME NEW q \in Seq(MessageType), Linked(q), NEW m \in MessageType,
         q # << >> /\ q[Len(q)].seq # 0 /\ m.seq # 0 => m.seq = q[Len(q)].seq + 1 /\ m.conn = q[Len(q)].conn
  PROVE  Linked(Append(q, m))
<1>1. PICK r : r = Append(q, m)
  OBVIOUS
<1>2. Len(q) \in Nat /\ Len(r) = Len(q) + 1 /\ (\A i \in 1..Len(q) : r[i] = q[i]) /\ r[Len(q) + 1] = m
      /\ (q = << >> <=> Len(q) = 0)
  BY <1>1, AppendFacts, QueueFacts
<1>3. ASSUME NEW i \in 1..Len(q), r[i].seq # 0, r[i + 1].seq # 0
      PROVE  r[i + 1].seq = r[i].seq + 1 /\ r[i + 1].conn = r[i].conn
  <2>1. CASE i = Len(q)
    BY <1>2, <1>3, <2>1
  <2>2. CASE i # Len(q)
    BY <1>2, <1>3, <2>2 DEF Linked
  <2> QED BY <2>1, <2>2
<1> QED BY <1>1, <1>2, <1>3 DEF Linked

LEMMA LinkedTail ==
  ASSUME NEW q \in Seq(MessageType), q # << >>, Linked(q)
  PROVE  /\ Linked(Tail(q))
         /\ Tail(q) # << >> => Tail(q)[Len(Tail(q))] = q[Len(q)]
         /\ Tail(q) # << >> /\ q[1].seq # 0 /\ Tail(q)[1].seq # 0 =>
              Tail(q)[1].seq = q[1].seq + 1 /\ Tail(q)[1].conn = q[1].conn
<1>1. PICK r : r = Tail(q)
  OBVIOUS
<1>2. Len(q) \in Nat \ {0} /\ Len(r) = Len(q) - 1 /\ (\A i \in 1..(Len(q) - 1) : r[i] = q[i + 1])
      /\ (r = << >> <=> Len(q) = 1)
  BY <1>1, TailFacts
<1>3. Linked(r)
  BY <1>2 DEF Linked
<1>4. r # << >> => r[Len(r)] = q[Len(q)]
  BY <1>2
<1>5. r # << >> => r[1] = q[2] /\ Len(q) >= 2
  BY <1>2
<1>6. r # << >> /\ q[1].seq # 0 /\ r[1].seq # 0 => r[1].seq = q[1].seq + 1 /\ r[1].conn = q[1].conn
  BY <1>2, <1>5 DEF Linked
<1> QED BY <1>1, <1>3, <1>4, <1>6

LEMMA LinkedShort == Linked(<< >>) /\ \A m : Linked(<<m>>)
BY DEF Linked

\* A frame is sent on the open endpoint, or the end of the stream on any.
LEMMA LaneAppend ==
  ASSUME NEW e \in EndpointType, NEW hd \in [Conn -> BOOLEAN], NEW wr \in Wires, LaneOk(e, hd, wr),
         NEW e2 \in EndpointType, e2.conn = e.conn, NEW wr2 \in Wires, NEW m \in MessageType,
         NEW go, go => hd[e.conn],
         ~go => ~hd[e.conn] \/ (wr[e.conn] # << >> /\ wr[e.conn][Len(wr[e.conn])].seq = 0),
         wr2[e.conn] = IF go THEN Append(wr[e.conn], m) ELSE wr[e.conn],
         \A d \in Conn : d # e.conn => wr2[d] = wr[d],
         \/ m.seq = e.seq + 1 /\ m.conn = e.conn /\ e.state = "open" /\ e2.state = "open" /\ e2.seq = e.seq + 1
         \/ m.seq = 0 /\ m.kind = "eof" /\ (e2.state = "closed" \/ (e2.state = e.state /\ e2.seq = e.seq))
  PROVE  LaneOk(e2, hd, wr2) /\ \A c \in Conn : First(e2, hd, wr2, c) \in {First(e, hd, wr, c), 0}
<1>1. PICK c : c = e.conn
  OBVIOUS
<1>2. PICK q : q = wr[c]
  OBVIOUS
<1>3. c \in Conn /\ q \in Seq(MessageType) /\ e.seq \in Nat
  BY <1>1, <1>2 DEF EndpointType, Wires
<1>4. CASE ~hd[c]
  <2>1. q = << >> /\ wr2[c] = << >>
    BY <1>1, <1>2, <1>3, <1>4 DEF LaneOk
  <2>2. \A d \in Conn : wr2[d] = wr[d]
    BY <1>1, <1>2, <2>1
  <2> QED BY <1>1, <1>3, <1>4, <2>1, <2>2 DEF LaneOk, First
<1>6. CASE hd[c] /\ ~go
  <2>1. q # << >> /\ q[Len(q)].seq = 0 /\ \A d \in Conn : wr2[d] = wr[d]
    BY <1>1, <1>2, <1>6
  <2> QED BY <1>1, <1>2, <1>3, <1>6, <2>1 DEF LaneOk, First
<1>5. CASE hd[c] /\ go
  <2>1. PICK r : r = Append(q, m)
    OBVIOUS
  <2>2. wr2[c] = r /\ r # << >> /\ Len(q) \in Nat /\ Len(r) = Len(q) + 1 /\ (\A i \in 1..Len(q) : r[i] = q[i])
        /\ r[Len(q) + 1] = m /\ (q = << >> <=> Len(q) = 0)
    BY <1>1, <1>2, <1>3, <1>5, <2>1, AppendFacts, QueueFacts
  <2>3. q # << >> /\ q[Len(q)].seq # 0 /\ m.seq # 0 => m.seq = q[Len(q)].seq + 1 /\ m.conn = q[Len(q)].conn
    BY <1>1, <1>2, <1>3, <2>2 DEF LaneOk
  <2>4. Linked(q)
    BY <1>2, <1>3 DEF LaneOk
  <2>5. Linked(r)
    BY <1>3, <2>1, <2>3, <2>4, LinkedAppend
  <2>6. \A i \in 1..Len(q) : IF q[i].seq # 0 THEN q[i].conn = c ELSE q[i].kind \in {Hello, "eof"}
    BY <1>2, <1>3 DEF LaneOk
  <2>7. \A i \in 1..Len(r) : IF r[i].seq # 0 THEN r[i].conn = c ELSE r[i].kind \in {Hello, "eof"}
    BY <1>1, <1>3, <2>2, <2>6
  <2>8. LaneOk(e2, hd, wr2)
    <3>1. \A d \in Conn : Linked(wr2[d]) /\ (wr2[d] # << >> => hd[d])
      BY <1>1, <1>5, <2>2, <2>5 DEF LaneOk
    <3>2. \A d \in Conn : \A i \in 1..Len(wr2[d]) :
            IF wr2[d][i].seq # 0 THEN wr2[d][i].conn = d ELSE wr2[d][i].kind \in {Hello, "eof"}
      BY <1>1, <2>2, <2>7 DEF LaneOk
    <3>3. r[Len(r)] = m
      BY <2>2
    <3>4. e2.state = "open" /\ m.seq # 0 => m.seq = e2.seq
      OBVIOUS
    <3> QED BY <1>1, <2>2, <3>1, <3>2, <3>3, <3>4 DEF LaneOk
  <2>9. First(e2, hd, wr2, c) \in {First(e, hd, wr, c), 0}
    <3>1. First(e2, hd, wr2, c) = r[1].seq
      BY <1>5, <2>2 DEF First
    <3>2. CASE q # << >>
      BY <1>2, <1>5, <2>2, <3>1, <3>2 DEF First
    <3>3. CASE q = << >>
      BY <1>1, <1>2, <1>5, <2>2, <3>1, <3>3 DEF First
    <3> QED BY <3>2, <3>3
  <2>10. \A d \in Conn : d # c => First(e2, hd, wr2, d) = First(e, hd, wr, d)
    BY <1>1 DEF First
  <2> QED BY <2>8, <2>9, <2>10
<1> QED BY <1>3, <1>4, <1>5, <1>6 DEF EndpointType

\* The endpoint is ready.
LEMMA LaneOpen ==
  ASSUME NEW e \in EndpointType, NEW hd \in [Conn -> BOOLEAN], NEW wr \in Wires, LaneOk(e, hd, wr),
         NEW e2 \in EndpointType, e2.conn = e.conn, e2.seq = 0, wr[e.conn] = << >>,
         e.state = "greeting"
  PROVE  LaneOk(e2, hd, wr) /\ \A c \in Conn : First(e2, hd, wr, c) \in {First(e, hd, wr, c), 0, 1}
BY DEF LaneOk, First

\* A new endpoint.
LEMMA LaneConnect ==
  ASSUME NEW e \in EndpointType, NEW hd \in [Conn -> BOOLEAN], NEW wr \in Wires, LaneOk(e, hd, wr),
         e.state = "closed", NEW c \in Conn, c # e.conn,
         NEW e2 \in EndpointType, e2.state = "greeting",
         NEW hd2 \in [Conn -> BOOLEAN], hd2[c], \A d \in Conn : d # c => hd2[d] = hd[d],
         NEW wr2 \in Wires, NEW r, r = <<Control(Hello)>>, wr2[c] = r, \A d \in Conn : d # c => wr2[d] = wr[d]
  PROVE  LaneOk(e2, hd2, wr2) /\ \A d \in Conn : First(e2, hd2, wr2, d) \in {First(e, hd, wr, d), 0}
<1>1. Control(Hello).seq = 0 /\ Control(Hello).kind = Hello
  BY ControlSent, SideNames DEF Hello, ControlKind
<1>2. wr2[c] = r
  OBVIOUS
<1>3. Len(r) = 1 /\ r[1] = Control(Hello) /\ Linked(r) /\ r # << >>
  BY LinkedShort
<1>4. hd2[c] /\ \A d \in Conn : d # c => hd2[d] = hd[d]
  OBVIOUS
<1>5. \A d \in Conn : Linked(wr2[d]) /\ (wr2[d] # << >> => hd2[d])
  BY <1>2, <1>3, <1>4 DEF LaneOk
<1>6. ASSUME NEW d \in Conn, NEW i \in 1..Len(wr2[d])
      PROVE  IF wr2[d][i].seq # 0 THEN wr2[d][i].conn = d ELSE wr2[d][i].kind \in {Hello, "eof"}
  <2>1. CASE d = c
    <3>1. wr2[d] = r
      BY <1>2, <2>1
    <3>2. i \in 1..1
      BY <1>3, <3>1
    <3>3. i = 1
      BY <3>2
    <3> QED BY <1>1, <1>3, <3>1, <3>3
  <2>2. CASE d # c
    BY <2>2 DEF LaneOk
  <2> QED BY <2>1, <2>2
<1>7. LaneOk(e2, hd2, wr2)
  BY <1>5, <1>6 DEF LaneOk
<1>8. First(e2, hd2, wr2, c) = 0
  BY <1>1, <1>2, <1>3, <1>4 DEF First
<1>9. \A d \in Conn : d # c => First(e2, hd2, wr2, d) \in {First(e, hd, wr, d), 0}
  BY <1>4 DEF First
<1> QED BY <1>7, <1>8, <1>9

\* A hello was read, of a connection that carries no frame.
LEMMA LaneHello ==
  ASSUME NEW e \in EndpointType, NEW hd \in [Conn -> BOOLEAN], NEW wr \in Wires, LaneOk(e, hd, wr),
         NEW c \in Conn, wr[c] # << >>, \A i \in 1..Len(wr[c]) : wr[c][i].seq = 0,
         NEW wr2 \in Wires, wr2[c] = Tail(wr[c]), \A d \in Conn : d # c => wr2[d] = wr[d],
         c = e.conn => e.state # "open"
  PROVE  /\ LaneOk(e, hd, wr2) /\ First(e, hd, wr2, c) = 0
         /\ \A d \in Conn : d # c => First(e, hd, wr2, d) = First(e, hd, wr, d)
<1>1. PICK q, r : q = wr[c] /\ r = Tail(q)
  OBVIOUS
<1>2. q \in Seq(MessageType) /\ q # << >> /\ wr2[c] = r
  BY <1>1 DEF Wires
<1>3. Len(q) \in Nat \ {0} /\ Len(r) = Len(q) - 1 /\ (\A i \in 1..(Len(q) - 1) : r[i] = q[i + 1])
      /\ (r = << >> <=> Len(q) = 1)
  BY <1>1, <1>2, TailFacts
<1>4. Linked(q) /\ hd[c]
  BY <1>1, <1>2 DEF LaneOk
<1>5. Linked(r)
  BY <1>1, <1>2, <1>4, LinkedTail
<1>6. \A i \in 1..Len(q) : q[i].seq = 0 /\ q[i].kind \in {Hello, "eof"}
  BY <1>1 DEF LaneOk
<1>7. \A i \in 1..Len(r) : r[i].seq = 0 /\ r[i].kind \in {Hello, "eof"}
  BY <1>3, <1>6
<1>8. e.conn \in Conn
  BY DEF EndpointType
<1>9. LaneOk(e, hd, wr2)
  <2>1. \A d \in Conn : Linked(wr2[d]) /\ (wr2[d] # << >> => hd[d])
    BY <1>2, <1>4, <1>5 DEF LaneOk
  <2>2. \A d \in Conn : \A i \in 1..Len(wr2[d]) :
          IF wr2[d][i].seq # 0 THEN wr2[d][i].conn = d ELSE wr2[d][i].kind \in {Hello, "eof"}
    BY <1>2, <1>7 DEF LaneOk
  <2>3. e.state = "open" => wr2[e.conn] = wr[e.conn]
    BY <1>8
  <2> QED BY <1>8, <2>1, <2>2, <2>3 DEF LaneOk
<1>10. First(e, hd, wr2, c) = 0
  <2>1. r # << >> => 1 \in 1..Len(r)
    BY <1>3
  <2> QED BY <1>2, <1>4, <1>7, <2>1 DEF First
<1> QED BY <1>9, <1>10 DEF First

\* The connection is over.
LEMMA LaneEnd ==
  ASSUME NEW e \in EndpointType, NEW hd \in [Conn -> BOOLEAN], NEW wr \in Wires, LaneOk(e, hd, wr),
         NEW c \in Conn, NEW hd2 \in [Conn -> BOOLEAN], NEW wr2 \in Wires,
         wr2[c] = << >>, \A d \in Conn : d # c => wr2[d] = wr[d] /\ hd2[d] = hd[d], ~hd2[c]
  PROVE  /\ LaneOk(e, hd2, wr2) /\ First(e, hd2, wr2, c) = 0
         /\ \A d \in Conn : d # c => First(e, hd2, wr2, d) = First(e, hd, wr, d)
<1>1. Linked(<< >>) /\ Len(<< >>) = 0
  BY LinkedShort
<1>2. \A d \in Conn : Linked(wr2[d]) /\ (wr2[d] # << >> => hd2[d])
  BY <1>1 DEF LaneOk
<1>3. ASSUME NEW d \in Conn, NEW i \in 1..Len(wr2[d])
      PROVE  IF wr2[d][i].seq # 0 THEN wr2[d][i].conn = d ELSE wr2[d][i].kind \in {Hello, "eof"}
  <2>1. d # c
    BY <1>1, <1>3
  <2> QED BY <2>1 DEF LaneOk
<1>4. e.conn \in Conn
  BY DEF EndpointType
<1>5. LaneOk(e, hd2, wr2)
  BY <1>2, <1>3, <1>4 DEF LaneOk
<1> QED BY <1>5 DEF First

\* A frame was read.
LEMMA LaneRead ==
  ASSUME NEW e \in EndpointType, NEW hd \in [Conn -> BOOLEAN], NEW wr \in Wires, LaneOk(e, hd, wr),
         NEW c \in Conn, wr[c] # << >>, wr[c][1].seq # 0, NEW wr2 \in Wires,
         wr2[c] = Tail(wr[c]), \A d \in Conn : d # c => wr2[d] = wr[d]
  PROVE  /\ LaneOk(e, hd, wr2) /\ First(e, hd, wr2, c) \in {0, wr[c][1].seq + 1}
         /\ First(e, hd, wr, c) = wr[c][1].seq /\ wr[c][1].conn = c
         /\ \A d \in Conn : d # c => First(e, hd, wr2, d) = First(e, hd, wr, d)
<1>1. PICK q : q = wr[c]
  OBVIOUS
<1>2. PICK r : r = Tail(q)
  OBVIOUS
<1>3. q \in Seq(MessageType) /\ q # << >> /\ wr2[c] = r
  BY <1>1, <1>2 DEF Wires
<1>4. Len(q) \in Nat \ {0} /\ Len(r) = Len(q) - 1 /\ (\A i \in 1..(Len(q) - 1) : r[i] = q[i + 1])
      /\ (r = << >> <=> Len(q) = 1)
  BY <1>2, <1>3, TailFacts
<1>5. Linked(q) /\ hd[c]
  BY <1>1, <1>3 DEF LaneOk
<1>6. Linked(r) /\ (r # << >> => r[Len(r)] = q[Len(q)])
      /\ (r # << >> /\ q[1].seq # 0 /\ r[1].seq # 0 => r[1].seq = q[1].seq + 1)
  BY <1>2, <1>3, <1>5, LinkedTail
<1>7. \A i \in 1..Len(q) : IF q[i].seq # 0 THEN q[i].conn = c ELSE q[i].kind \in {Hello, "eof"}
  BY <1>1 DEF LaneOk
<1>8. \A i \in 1..Len(r) : IF r[i].seq # 0 THEN r[i].conn = c ELSE r[i].kind \in {Hello, "eof"}
  BY <1>4, <1>7
<1>9. e.state = "open" /\ e.conn = c /\ q[Len(q)].seq # 0 => q[Len(q)].seq = e.seq
  BY <1>1, <1>3 DEF LaneOk
<1>10. LaneOk(e, hd, wr2)
  <2>1. \A d \in Conn : Linked(wr2[d]) /\ (wr2[d] # << >> => hd[d])
    BY <1>3, <1>5, <1>6 DEF LaneOk
  <2>2. \A d \in Conn : \A i \in 1..Len(wr2[d]) :
          IF wr2[d][i].seq # 0 THEN wr2[d][i].conn = d ELSE wr2[d][i].kind \in {Hello, "eof"}
    BY <1>3, <1>8 DEF LaneOk
  <2>3. e.conn \in Conn
    BY DEF EndpointType
  <2>4. CASE e.conn = c
    BY <1>3, <1>6, <1>9, <2>1, <2>2, <2>4 DEF LaneOk
  <2>5. CASE e.conn # c
    BY <2>1, <2>2, <2>3, <2>5 DEF LaneOk
  <2> QED BY <2>4, <2>5
<1>11. q[1].seq # 0 /\ q[1].conn = c
  BY <1>1, <1>4, <1>7
<1>12. First(e, hd, wr2, c) \in {0, q[1].seq + 1}
  <2>1. CASE r # << >>
    BY <1>3, <1>5, <1>6, <1>11, <2>1 DEF First
  <2>2. CASE r = << >>
    BY <1>3, <1>4, <1>5, <1>9, <1>11, <2>2 DEF First
  <2> QED BY <2>1, <2>2
<1>13. First(e, hd, wr, c) = q[1].seq
  BY <1>1, <1>3, <1>5 DEF First
<1>14. \A d \in Conn : d # c => First(e, hd, wr2, d) = First(e, hd, wr, d)
  BY DEF First
<1> QED BY <1>1, <1>10, <1>11, <1>12, <1>13, <1>14

\* What joins the router's count, the worker's connections and the host: n is
\* the next frame of each connection, reg whether the relay delivers to the
\* host's endpoint, q its inbox and s the host's session.
Serves(s) == s.pc \in {"serving", "calling"}
TalkOk(n, last, reg, q, s) ==
  /\ \A c \in Conn : n[c] \in {0, 1, last + 1}
  /\ \A c, d \in Conn : n[c] > 1 /\ n[d] > 1 => c = d
  /\ Linked(q)
  /\ Serves(s) => s.next # 0 /\ (q # << >> /\ q[1].seq # 0 => q[1].seq = s.next + 1 /\ q[1].conn = s.from)
  /\ reg /\ q # << >> /\ q[Len(q)].seq # 0 =>
       q[Len(q)].seq = last /\ \A c \in Conn : n[c] > 1 => c = q[Len(q)].conn
  /\ reg /\ q = << >> /\ Serves(s) => s.next = last /\ \A c \in Conn : n[c] > 1 => c = s.from
  /\ s.ordered

\* Connections start anew or end; the host's registration may end.
LEMMA TalkLanes ==
  ASSUME NEW n \in [Conn -> Nat], NEW last \in Nat, NEW reg, NEW q, NEW s, TalkOk(n, last, reg, q, s),
         NEW n2 \in [Conn -> Nat], \A c \in Conn : n2[c] \in {n[c], 0, 1}, NEW reg2, reg2 => reg
  PROVE  TalkOk(n2, last, reg2, q, s)
<1>1. \A c \in Conn : n2[c] > 1 => n2[c] = n[c]
  OBVIOUS
<1> QED BY <1>1 DEF TalkOk

\* The relay says something itself.
LEMMA TalkControl ==
  ASSUME NEW n, NEW last, NEW reg, NEW q \in Seq(MessageType), NEW s, TalkOk(n, last, reg, q, s),
         NEW m \in MessageType, m.seq = 0, NEW reg2
  PROVE  TalkOk(n, last, reg2, Append(q, m), s)
<1>1. PICK r : r = Append(q, m)
  OBVIOUS
<1>2. Len(q) \in Nat /\ Len(r) = Len(q) + 1 /\ (\A i \in 1..Len(q) : r[i] = q[i]) /\ r[Len(q) + 1] = m
      /\ (q = << >> <=> Len(q) = 0) /\ r # << >>
  BY <1>1, AppendFacts, QueueFacts
<1>3. Linked(q)
  BY DEF TalkOk
<1>4. Linked(r)
  BY <1>1, <1>3, LinkedAppend
<1>5. r[Len(r)].seq = 0
  BY <1>2
<1>6. r[1] = IF q = << >> THEN m ELSE q[1]
  BY <1>2
<1> QED BY <1>1, <1>2, <1>4, <1>5, <1>6 DEF TalkOk

\* The host has no session, and nothing or a word of the relay in its inbox.
LEMMA TalkIdle ==
  ASSUME NEW n, NEW last, NEW reg, NEW q, NEW s, TalkOk(n, last, reg, q, s),
         NEW q2, q2 = << >> \/ (\E m : m.seq = 0 /\ q2 = <<m>>), NEW reg2, NEW s2, ~Serves(s2), s2.ordered
  PROVE  TalkOk(n, last, reg2, q2, s2)
<1>1. CASE q2 = << >>
  BY <1>1, LinkedShort DEF TalkOk
<1>2. CASE q2 # << >>
  <2>1. PICK m : m.seq = 0 /\ q2 = <<m>>
    BY <1>2
  <2>2. Len(q2) = 1 /\ q2[1] = m /\ Linked(q2)
    BY <2>1, LinkedShort
  <2> QED BY <2>1, <2>2 DEF TalkOk
<1> QED BY <1>1, <1>2

\* The host's session begins or gets ready: it takes a word of the relay.
LEMMA TalkTakes ==
  ASSUME NEW n, NEW last, NEW reg, NEW q \in Seq(MessageType), NEW s, TalkOk(n, last, reg, q, s),
         q # << >>, NEW s2, ~Serves(s2), s2.ordered
  PROVE  TalkOk(n, last, reg, Tail(q), s2)
<1>1. PICK r : r = Tail(q)
  OBVIOUS
<1>2. Linked(q)
  BY DEF TalkOk
<1>3. Linked(r) /\ (r # << >> => r[Len(r)] = q[Len(q)])
  BY <1>1, <1>2, LinkedTail
<1> QED BY <1>1, <1>3 DEF TalkOk

\* The host handles a frame.
LEMMA TalkServes ==
  ASSUME NEW n, NEW last \in Nat, NEW reg, NEW q \in Seq(MessageType), NEW s, TalkOk(n, last, reg, q, s),
         q # << >>, q[1].seq # 0, s.pc \in {"hello", "serving"},
         NEW s2, s2.next = q[1].seq, s2.from = q[1].conn,
         s2.ordered = (s.ordered /\ (s.pc = "serving" => q[1].conn = s.from /\ q[1].seq = s.next + 1))
  PROVE  TalkOk(n, last, reg, Tail(q), s2)
<1>1. PICK r : r = Tail(q)
  OBVIOUS
<1>2. Linked(q)
  BY DEF TalkOk
<1>3. Linked(r) /\ (r # << >> => r[Len(r)] = q[Len(q)])
      /\ (r # << >> /\ q[1].seq # 0 /\ r[1].seq # 0 => r[1].seq = q[1].seq + 1 /\ r[1].conn = q[1].conn)
  BY <1>1, <1>2, LinkedTail
<1>4. Len(q) \in Nat /\ (r = << >> <=> Len(q) = 1)
  BY <1>1, TailFacts
<1>5. s2.ordered
  BY DEF TalkOk, Serves
<1>6. r = << >> /\ reg => q[1].seq = last /\ \A c \in Conn : n[c] > 1 => c = q[1].conn
  BY <1>4 DEF TalkOk
<1> QED BY <1>1, <1>3, <1>5, <1>6 DEF TalkOk

\* The session of the host goes on without reading.
LEMMA TalkGoesOn ==
  ASSUME NEW n, NEW last, NEW reg, NEW q, NEW s, TalkOk(n, last, reg, q, s), Serves(s),
         NEW s2, s2.next = s.next, s2.from = s.from, s2.ordered = s.ordered
  PROVE  TalkOk(n, last, reg, q, s2)
BY DEF TalkOk

\* The router passes a frame on: the host gets it if it is registered.
Passing(n, last, reg, q, s, c, m, n2, q2) ==
  /\ n \in [Conn -> Nat] /\ last \in Nat /\ q \in Seq(MessageType) /\ TalkOk(n, last, reg, q, s)
  /\ c \in Conn /\ m \in MessageType /\ m.seq = n[c] /\ m.conn = c /\ m.seq > last
  /\ n2 \in [Conn -> Nat] /\ n2[c] \in {0, m.seq + 1} /\ \A d \in Conn : d # c => n2[d] = n[d]
  /\ q2 = IF reg THEN Append(q, m) ELSE q

LEMMA TalkFrame ==
  ASSUME NEW n, NEW last, NEW reg, NEW q, NEW s, NEW c, NEW m, NEW n2, NEW q2, Passing(n, last, reg, q, s, c, m, n2, q2)
  PROVE  TalkOk(n2, m.seq, reg, q2, s)
<1> USE DEF Passing
<1>1. m.seq = last + 1
  BY DEF TalkOk
<1>2. ASSUME NEW d \in Conn, d # c
      PROVE  n2[d] \in {0, 1}
  <2>1. n2[d] = n[d] /\ n[d] \in {0, 1, last + 1} /\ (n[c] > 1 /\ n[d] > 1 => c = d)
    BY <1>2 DEF TalkOk
  <2>2. CASE last = 0
    BY <2>1, <2>2
  <2>3. CASE last # 0
    BY <1>1, <1>2, <2>1, <2>3
  <2> QED BY <2>2, <2>3
<1>3. \A d \in Conn : n2[d] > 1 => d = c
  BY <1>2
<1>4. \A d \in Conn : n2[d] \in {0, 1, m.seq + 1}
  BY <1>2
<1>5. Linked(q)
  BY DEF TalkOk
<1>6. CASE ~reg
  BY <1>3, <1>4, <1>6 DEF TalkOk
<1>7. CASE reg
  <2>1. PICK r : r = Append(q, m)
    OBVIOUS
  <2>2. Len(q) \in Nat /\ Len(r) = Len(q) + 1 /\ (\A i \in 1..Len(q) : r[i] = q[i]) /\ r[Len(q) + 1] = m
        /\ (q = << >> <=> Len(q) = 0) /\ r # << >>
    BY <2>1, AppendFacts, QueueFacts
  <2>3. q # << >> /\ q[Len(q)].seq # 0 => q[Len(q)].seq = last /\ q[Len(q)].conn = c
    <3>1. ASSUME q # << >>, q[Len(q)].seq # 0
          PROVE  q[Len(q)].seq = last /\ q[Len(q)].conn = c
      <4>1. q[Len(q)].seq = last /\ (\A d \in Conn : n[d] > 1 => d = q[Len(q)].conn)
        BY <1>7, <3>1 DEF TalkOk
      <4>2. last # 0
        BY <3>1, <4>1
      <4>3. n[c] > 1
        BY <1>1, <4>2
      <4> QED BY <4>1, <4>3
    <3> QED BY <3>1
  <2>4. Linked(r)
    BY <1>1, <1>5, <2>1, <2>3, LinkedAppend
  <2>5. r[Len(r)] = m /\ r[1] = IF q = << >> THEN m ELSE q[1]
    BY <2>2
  <2>6. ASSUME Serves(s)
        PROVE  s.next # 0 /\ (r[1].seq # 0 => r[1].seq = s.next + 1 /\ r[1].conn = s.from)
    <3>1. CASE q # << >>
      BY <2>5, <2>6, <3>1 DEF TalkOk
    <3>2. CASE q = << >>
      <4>1. s.next # 0 /\ s.next = last /\ (\A d \in Conn : n[d] > 1 => d = s.from)
        BY <1>7, <2>6, <3>2 DEF TalkOk
      <4>2. n[c] > 1
        BY <1>1, <4>1
      <4> QED BY <1>1, <2>5, <3>2, <4>1, <4>2
    <3> QED BY <3>1, <3>2
  <2>7. s.ordered
    BY DEF TalkOk
  <2> QED BY <1>3, <1>4, <1>7, <2>1, <2>2, <2>4, <2>5, <2>6, <2>7 DEF TalkOk
<1> QED BY <1>6, <1>7

-----------------------------------------------------------------------------
(* Answers.  From the worker's inbox back to its connection, through the    *)
(* host, the requests and answers under way are numbered upwards: nothing   *)
(* is behind the answer to the request that the worker waits for, and what  *)
(* is before it can only be an answer that came too late.                   *)

\* The frames of a queue.
Items(q) == {q[i] : i \in {j \in 1..Len(q) : q[j].seq # 0}}

\* The number of the request that a frame of side s is about, and a queue of
\* side s with rising numbers.
Number(s, m) == IF s = "worker" THEN m.seq ELSE m.re
Rising(s, q) ==
  \A i, j \in 1..Len(q) : i < j /\ q[i].seq # 0 /\ q[j].seq # 0 => Number(s, q[i]) < Number(s, q[j])

LEMMA ItemsFacts ==
  ASSUME NEW S, NEW q \in Seq(S)
  PROVE  /\ Items(q) \subseteq S /\ \A y \in Items(q) : y.seq # 0
         /\ Items(<< >>) = {}
         /\ q # << >> /\ q[1].seq # 0 => q[1] \in Items(q)
         /\ \A y \in Items(q) : \E i \in 1..Len(q) : y = q[i]
BY DEF Items

LEMMA ItemsAppend ==
  ASSUME NEW S, NEW q \in Seq(S), NEW m \in S
  PROVE  Items(Append(q, m)) = Items(q) \cup (IF m.seq # 0 THEN {m} ELSE {})
<1>1. PICK r : r = Append(q, m)
  OBVIOUS
<1>2. Len(q) \in Nat /\ Len(r) = Len(q) + 1 /\ (\A i \in 1..Len(q) : r[i] = q[i]) /\ r[Len(q) + 1] = m
  BY <1>1, AppendFacts
<1>3. ASSUME NEW y \in Items(r)
      PROVE  y \in Items(q) \cup (IF m.seq # 0 THEN {m} ELSE {})
  <2>1. PICK i \in 1..Len(r) : r[i].seq # 0 /\ y = r[i]
    BY DEF Items
  <2>2. CASE i = Len(q) + 1
    BY <1>2, <2>1, <2>2
  <2>3. CASE i # Len(q) + 1
    <3>1. i \in 1..Len(q)
      BY <1>2, <2>3
    <3> QED BY <1>2, <2>1, <3>1 DEF Items
  <2> QED BY <2>2, <2>3
<1>4. ASSUME NEW y \in Items(q)
      PROVE  y \in Items(r)
  <2>1. PICK i \in 1..Len(q) : q[i].seq # 0 /\ y = q[i]
    BY DEF Items
  <2>2. i \in 1..Len(r) /\ r[i] = y
    BY <1>2, <2>1
  <2> QED BY <2>1, <2>2 DEF Items
<1>5. m.seq # 0 => m \in Items(r)
  <2>1. Len(q) + 1 \in 1..Len(r)
    BY <1>2
  <2> QED BY <1>2, <2>1 DEF Items
<1> QED BY <1>1, <1>3, <1>4, <1>5

LEMMA RisingAppend ==
  ASSUME NEW S, NEW q \in Seq(S), NEW m \in S, NEW s, Rising(s, q),
         m.seq # 0 => \A y \in Items(q) : Number(s, y) < Number(s, m)
  PROVE  Rising(s, Append(q, m))
<1>1. PICK r : r = Append(q, m)
  OBVIOUS
<1>2. Len(q) \in Nat /\ Len(r) = Len(q) + 1 /\ (\A i \in 1..Len(q) : r[i] = q[i]) /\ r[Len(q) + 1] = m
  BY <1>1, AppendFacts
<1>3. ASSUME NEW i \in 1..Len(r), NEW j \in 1..Len(r), i < j, r[i].seq # 0, r[j].seq # 0
      PROVE  Number(s, r[i]) < Number(s, r[j])
  <2>1. i \in 1..Len(q) /\ r[i] = q[i]
    BY <1>2, <1>3
  <2>2. CASE j = Len(q) + 1
    <3>1. q[i] \in Items(q)
      BY <1>3, <2>1 DEF Items
    <3> QED BY <1>2, <1>3, <2>1, <2>2, <3>1
  <2>3. CASE j # Len(q) + 1
    <3>1. j \in 1..Len(q) /\ r[j] = q[j]
      BY <1>2, <2>3
    <3> QED BY <1>3, <2>1, <3>1 DEF Rising
  <2> QED BY <2>2, <2>3
<1> QED BY <1>1, <1>3 DEF Rising

\* What is left after the head, and how it compares with a frame read.
LEMMA ItemsTail ==
  ASSUME NEW S, NEW q \in Seq(S), q # << >>, NEW s, Rising(s, q)
  PROVE  /\ Items(Tail(q)) \subseteq Items(q) /\ Rising(s, Tail(q))
         /\ q[1].seq # 0 => \A y \in Items(Tail(q)) : Number(s, q[1]) < Number(s, y)
<1>1. PICK r : r = Tail(q)
  OBVIOUS
<1>2. Len(q) \in Nat \ {0} /\ Len(r) = Len(q) - 1 /\ (\A i \in 1..(Len(q) - 1) : r[i] = q[i + 1])
  BY <1>1, TailFacts
<1>3. ASSUME NEW y \in Items(r)
      PROVE  y \in Items(q) /\ (q[1].seq # 0 => Number(s, q[1]) < Number(s, y))
  <2>1. PICK i \in 1..Len(r) : r[i].seq # 0 /\ y = r[i]
    BY DEF Items
  <2>2. i + 1 \in 1..Len(q) /\ 1 \in 1..Len(q) /\ 1 < i + 1 /\ r[i] = q[i + 1]
    BY <1>2
  <2>3. y \in Items(q)
    BY <2>1, <2>2 DEF Items
  <2>4. q[1].seq # 0 => Number(s, q[1]) < Number(s, q[i + 1])
    BY <2>1, <2>2 DEF Rising
  <2> QED BY <2>1, <2>2, <2>3, <2>4
<1>4. Rising(s, r)
  <2>1. ASSUME NEW i \in 1..Len(r), NEW j \in 1..Len(r), i < j, r[i].seq # 0, r[j].seq # 0
        PROVE  Number(s, r[i]) < Number(s, r[j])
    <3>1. i + 1 \in 1..Len(q) /\ j + 1 \in 1..Len(q) /\ i + 1 < j + 1 /\ r[i] = q[i + 1] /\ r[j] = q[j + 1]
      BY <1>2, <2>1
    <3> QED BY <2>1, <3>1 DEF Rising
  <2> QED BY <2>1 DEF Rising
<1> QED BY <1>1, <1>3, <1>4

LEMMA RisingShort == \A s : Rising(s, << >>) /\ \A m : Rising(s, <<m>>)
<1>1. ASSUME NEW s, NEW m PROVE Rising(s, <<m>>)
  <2>1. Len(<<m>>) = 1
    OBVIOUS
  <2>2. ASSUME NEW i \in 1..1, NEW j \in 1..1 PROVE ~(i < j)
    OBVIOUS
  <2> QED BY <2>1, <2>2 DEF Rising
<1> QED BY <1>1 DEF Rising

\* The worker's session has begun.
Started(x) == x.pc \notin {"off", "hello"}

\* Requests that a worker in this place may have stopped waiting for.
Late(x) ==
  CASE x.pc \in {"off", "hello"} -> Request
    [] x.pc \in {"run", "terminal", "begin"} -> {"model"}
    [] x.pc = "exec" -> IF x.doomed THEN Request \ {"hello"} ELSE {"model"}
    [] x.pc = "chunk" -> {"model", "begin"}
    [] x.pc = "final" -> {"model", "begin", "chunk"}
    [] x.pc \in {"lease", "ack", "prep", "poll", "report", "result", "bye"} -> {}

\* A request of this number and kind is the one waited for, or a late one.
Fits(x, n, k) == IF x.ask # "none" /\ n = x.seq THEN k = x.ask ELSE k \in Late(x)
FitsAnswer(x, n, a) == \E k \in Request : a \in Answers(k) /\ Fits(x, n, k)

\* What is under way: the worker's inbox (a), the host's connections (b), the
\* model call (k), the host's inbox (i) and the worker's connection that goes
\* on (o); last is the router's count, x the worker, e its endpoint and rec
\* whether the terminal event is recorded.
All(a, b, i, o) == a \cup b[1] \cup b[2] \cup i \cup o
Back(a, b) == a \cup b[1] \cup b[2]

Numbered(a, b, k, i, o, last) ==
  /\ \A y \in a : \A c \in Conn : \A z \in b[c] : y.re < z.re
  /\ \A y \in Back(a, b) :
       y.re # 0 /\ y.re <= last /\ (\A n \in k : y.re < n) /\ (\A m \in i : y.re < m.seq)
  /\ \A n \in k : n # 0 /\ n <= last /\ \A m \in i : n < m.seq
  /\ (\A m \in i : m.seq <= last) /\ (\A m \in o : last < m.seq)
  /\ \A c, d \in Conn : b[c] # {} /\ b[d] # {} => c = d

\* A greeting travels alone.
Alone(a, b, k, i, o, x) ==
  /\ \A y \in All(a, b, i, o) :
       y.kind \in {"hello", "ready"} => k = {} /\ ~Started(x) /\ \A z \in All(a, b, i, o) : z = y
  /\ \A y \in Back(a, b) : y.kind = "ready" => y.re = 1
  /\ \A m \in i : m.kind = "hello" => m.seq = 1
  /\ \A m \in o : m.kind # "hello"

Fitting(a, b, k, i, o, x, e, rec) ==
  /\ \A m \in i \cup o : m.seq <= e.seq /\ m.conn = e.conn /\ Fits(x, m.seq, m.kind)
  /\ \A n \in k : n <= e.seq /\ Fits(x, n, "model")
  /\ \A y \in Back(a, b) :
       /\ y.re <= e.seq /\ FitsAnswer(x, y.re, y.kind)
       /\ x.ask = "terminal" /\ y.re = x.seq => rec

PipeOk(a, b, k, i, o, last, x, e, rec) ==
  /\ Numbered(a, b, k, i, o, last) /\ Alone(a, b, k, i, o, x)
  /\ Started(x) => last # 0 /\ Fitting(a, b, k, i, o, x, e, rec)

Requests == SUBSET Frame("worker")
Replies == SUBSET Frame("host")

\* Frames are lost, or the terminal event is recorded.
LEMMA PipeLess ==
  ASSUME NEW a, NEW b, NEW k, NEW i, NEW o, NEW last, NEW x, NEW e, NEW rec, PipeOk(a, b, k, i, o, last, x, e, rec),
         NEW a2, NEW b2, NEW k2, NEW i2, NEW o2, NEW rec2,
         a2 \subseteq a, \A c \in Conn : b2[c] \subseteq b[c], k2 \subseteq k, i2 \subseteq i, o2 \subseteq o,
         rec => rec2
  PROVE  PipeOk(a2, b2, k2, i2, o2, last, x, e, rec2)
<1>1. All(a2, b2, i2, o2) \subseteq All(a, b, i, o) /\ Back(a2, b2) \subseteq Back(a, b)
  BY DEF All, Back, Conn
<1>2. Numbered(a2, b2, k2, i2, o2, last)
  <2>1. Numbered(a, b, k, i, o, last)
    BY DEF PipeOk
  <2>2. \A c, d \in Conn : b2[c] # {} /\ b2[d] # {} => c = d
    BY <2>1 DEF Numbered
  <2>3. \A y \in a2 : \A c \in Conn : \A z \in b2[c] : y.re < z.re
    BY <2>1 DEF Numbered
  <2> QED BY <1>1, <2>1, <2>2, <2>3 DEF Numbered
<1>3. Alone(a2, b2, k2, i2, o2, x)
  BY <1>1 DEF PipeOk, Alone
<1>4. Started(x) => last # 0 /\ Fitting(a2, b2, k2, i2, o2, x, e, rec2)
  BY <1>1 DEF PipeOk, Fitting
<1> QED BY <1>2, <1>3, <1>4 DEF PipeOk

\* The router counts a frame of the worker and may pass it on: the next of the
\* connection that goes on, or the first of all.
LEMMA PipeRoute ==
  ASSUME NEW a \in Replies, NEW b \in [Conn -> Replies], NEW k \in SUBSET Nat, NEW i \in Requests, NEW o \in Requests,
         NEW last \in Nat, NEW x, NEW e, NEW rec, PipeOk(a, b, k, i, o, last, x, e, rec),
         NEW m \in Frame("worker"), m.seq > last, m.kind = "hello" => m.seq = 1,
         NEW i2, i2 \subseteq i \cup {m}, NEW o2 \in Requests, \A y \in o2 : m.seq < y.seq,
         (m \in o /\ o2 \subseteq o) \/ (last = 0 /\ m.seq = 1 /\ o2 = {})
  PROVE  PipeOk(a, b, k, i2, o2, m.seq, x, e, rec)
<1>1. /\ m.seq \in Nat /\ (\A y \in i \cup o \cup o2 : y.seq \in Nat)
      /\ (\A y \in Back(a, b) : y.re \in Nat) /\ (\A n \in k : n \in Nat)
  BY DEF Requests, Replies, Frame, Back, Conn
<1>2. Numbered(a, b, k, i, o, last)
  BY DEF PipeOk
<1>3. Numbered(a, b, k, i2, o2, m.seq)
  <2>1. \A y \in Back(a, b) : y.re # 0 /\ y.re <= m.seq /\ (\A n \in k : y.re < n) /\ (\A z \in i2 : y.re < z.seq)
    BY <1>1, <1>2 DEF Numbered
  <2>2. \A n \in k : n # 0 /\ n <= m.seq /\ \A z \in i2 : n < z.seq
    BY <1>1, <1>2 DEF Numbered
  <2>3. (\A z \in i2 : z.seq <= m.seq) /\ (\A z \in o2 : m.seq < z.seq)
    BY <1>1, <1>2 DEF Numbered
  <2> QED BY <1>2, <2>1, <2>2, <2>3 DEF Numbered
<1>4. CASE m \in o /\ o2 \subseteq o
  <2>1. All(a, b, i2, o2) \subseteq All(a, b, i, o)
    BY <1>4 DEF All
  <2>2. m.kind # "hello"
    BY <1>4 DEF PipeOk, Alone
  <2>3. Alone(a, b, k, i2, o2, x)
    BY <1>4, <2>1, <2>2 DEF PipeOk, Alone
  <2>4. Started(x) => m.seq # 0 /\ Fitting(a, b, k, i2, o2, x, e, rec)
    BY <1>1, <1>4 DEF PipeOk, Fitting
  <2> QED BY <1>3, <2>3, <2>4 DEF PipeOk
<1>5. CASE last = 0 /\ m.seq = 1 /\ o2 = {}
  <2>1. Back(a, b) = {} /\ k = {} /\ i = {}
    BY <1>1, <1>2, <1>5 DEF Numbered, Requests, Frame
  <2>2. ~Started(x)
    BY <1>5 DEF PipeOk
  <2>3. \A y \in All(a, b, i2, o2) : y = m
    BY <1>5, <2>1 DEF All, Back
  <2>4. Alone(a, b, k, i2, o2, x)
    BY <1>5, <2>1, <2>2, <2>3 DEF Alone
  <2> QED BY <1>3, <2>2, <2>4 DEF PipeOk
<1> QED BY <1>4, <1>5

\* The host takes a model call.
LEMMA PipeCalls ==
  ASSUME NEW a \in Replies, NEW b \in [Conn -> Replies], NEW i \in Requests, NEW o, NEW last \in Nat,
         NEW x, NEW e, NEW rec, PipeOk(a, b, {}, i, o, last, x, e, rec),
         NEW m \in i, m.kind = "model", NEW i2, i2 \subseteq i, \A y \in i2 : m.seq < y.seq
  PROVE  PipeOk(a, b, {m.seq}, i2, o, last, x, e, rec)
<1>1. /\ m.seq \in Nat \ {0}
  BY DEF Requests, Frame
<1>2. Numbered(a, b, {m.seq}, i2, o, last)
  BY <1>1 DEF PipeOk, Numbered
<1>3. Alone(a, b, {m.seq}, i2, o, x)
  <2>1. \A y \in All(a, b, i, o) : y.kind \in {"hello", "ready"} => m = y
    BY DEF PipeOk, Alone, All
  <2>2. \A y \in All(a, b, i2, o) : y.kind \notin {"hello", "ready"}
    BY <2>1 DEF All
  <2>3. i2 \subseteq i
    OBVIOUS
  <2> QED BY <2>2, <2>3 DEF PipeOk, Alone
<1>4. Started(x) => last # 0 /\ Fitting(a, b, {m.seq}, i2, o, x, e, rec)
  BY <1>1 DEF PipeOk, Fitting
<1> QED BY <1>2, <1>3, <1>4 DEF PipeOk

\* Only a hello is answered by a ready, and no answer is a hello.
LEMMA ReadyAnswers ==
  ASSUME NEW k \in Request, NEW y \in Answers(k)
  PROVE  (y = "ready" <=> k = "hello") /\ y # "hello"
BY DEF Request, Answers

\* The host answers frame m, which it reads, with y on its connection h0.
Answering(a, b, i, o, last, x, e, rec, m, i2, y, h0, b2, rec2) ==
  /\ a \in Replies /\ b \in [Conn -> Replies] /\ i \in Requests /\ last \in Nat
  /\ PipeOk(a, b, {}, i, o, last, x, e, rec)
  /\ m \in i /\ i2 \subseteq i /\ \A z \in i2 : m.seq < z.seq
  /\ y \in Frame("host") /\ y.re = m.seq /\ y.kind \in Answers(m.kind)
  /\ h0 \in Conn /\ (m.kind # "hello" => \A c \in Conn : b[c] # {} => c = h0)
  /\ b2[h0] \subseteq b[h0] \cup {y} /\ \A c \in Conn : c # h0 => b2[c] \subseteq b[c]
  /\ rec => rec2
  /\ m.kind = "terminal" /\ m.conn = e.conn => rec2

LEMMA PipeAnswers ==
  ASSUME NEW a, NEW b, NEW i, NEW o, NEW last, NEW x, NEW e, NEW rec, NEW m, NEW i2, NEW y, NEW h0, NEW b2, NEW rec2,
         Answering(a, b, i, o, last, x, e, rec, m, i2, y, h0, b2, rec2)
  PROVE  PipeOk(a, b2, {}, i2, o, last, x, e, rec2)
<1> USE DEF Answering
<1>1. /\ m.seq \in Nat \ {0} /\ m.kind \in Request /\ (\A z \in i : z.seq \in Nat)
      /\ \A z \in Back(a, b) : z.re \in Nat
  BY DEF Requests, Replies, Frame, FrameKind, Back, Conn
<1>2. Numbered(a, b, {}, i, o, last)
  BY DEF PipeOk
<1>3. m \notin i2
  BY <1>1
<1>4. All(a, b2, i2, o) \subseteq All(a, b, i2, o) \cup {y} /\ Back(a, b2) \subseteq Back(a, b) \cup {y}
  BY DEF All, Back, Conn
<1>5. m.kind = "hello" => All(a, b, i2, o) = {}
  <2>1. m.kind = "hello" => \A z \in All(a, b, i, o) : z = m
    BY DEF PipeOk, Alone, All
  <2>2. m.kind = "hello" => m \notin Back(a, b) /\ m \notin o
    <3>1. m \in Back(a, b) => m.re < m.seq /\ m.re # 0 /\ m.kind \in Answer
      BY <1>2 DEF Numbered, Replies, Frame, FrameKind, Back, Conn
    <3>2. "hello" \notin Answer
      BY AnswerKinds
    <3>3. m \in o => m.kind # "hello"
      BY DEF PipeOk, Alone
    <3> QED BY <3>1, <3>2, <3>3
  <2> QED BY <1>3, <2>1, <2>2 DEF All, Back
<1>6. m.kind # "hello" => \A z \in All(a, b, i, o) : z.kind \notin {"hello", "ready"}
  <2>1. \A z \in All(a, b, i, o) : z.kind \in {"hello", "ready"} => m = z
    BY DEF PipeOk, Alone, All
  <2>2. m.kind # "ready"
    BY <1>1 DEF Request
  <2> QED BY <2>1, <2>2
<1>7. Numbered(a, b2, {}, i2, o, last)
  <2>1. \A z \in Back(a, b2) : z.re # 0 /\ z.re <= last /\ (\A u \in i2 : z.re < u.seq)
    BY <1>1, <1>2, <1>4 DEF Numbered
  <2>2. \A z \in a : \A c \in Conn : \A u \in b2[c] : z.re < u.re
    BY <1>1, <1>2 DEF Numbered, Back
  <2>3. \A c, d \in Conn : b2[c] # {} /\ b2[d] # {} => c = d
    <3>1. \A c \in Conn : b[c] # {} => c = h0
      <4>1. m.kind = "hello" => \A c \in Conn : b[c] = {}
        BY <1>5 DEF All, Conn
      <4> QED BY <4>1
    <3> QED BY <3>1
  <2> QED BY <1>2, <2>1, <2>2, <2>3 DEF Numbered
<1>8. y.kind = "ready" <=> m.kind = "hello"
  BY <1>1, ReadyAnswers
<1>9. y.kind # "hello"
  BY <1>1, ReadyAnswers
<1>10. Alone(a, b2, {}, i2, o, x)
  <2>1. CASE m.kind = "hello"
    <3>1. \A z \in All(a, b2, i2, o) : z = y
      BY <1>4, <1>5, <2>1
    <3>2. ~Started(x) /\ y.re = 1
      BY <2>1 DEF PipeOk, Alone, All
    <3>3. i2 = {} /\ o = {} /\ \A z \in Back(a, b2) : z = y
      BY <1>4, <1>5, <2>1 DEF All, Back
    <3> QED BY <3>1, <3>2, <3>3 DEF Alone
  <2>2. CASE m.kind # "hello"
    <3>1. \A z \in All(a, b2, i2, o) : z.kind \notin {"hello", "ready"}
      <4>1. All(a, b, i2, o) \subseteq All(a, b, i, o)
        BY DEF All
      <4> QED BY <1>4, <1>6, <1>8, <1>9, <2>2, <4>1
    <3>2. Back(a, b2) \subseteq All(a, b2, i2, o) /\ i2 \subseteq All(a, b2, i2, o) /\ o \subseteq All(a, b2, i2, o)
      BY DEF All, Back
    <3> QED BY <3>1, <3>2 DEF Alone
  <2> QED BY <2>1, <2>2
<1>11. ASSUME Started(x)
       PROVE  last # 0 /\ Fitting(a, b2, {}, i2, o, x, e, rec2)
  <2>1. last # 0 /\ Fitting(a, b, {}, i, o, x, e, rec)
    BY <1>11 DEF PipeOk
  <2>2. y.re <= e.seq /\ FitsAnswer(x, y.re, y.kind)
    BY <1>1, <2>1 DEF Fitting, FitsAnswer
  <2>3. x.ask = "terminal" /\ y.re = x.seq => rec2
    BY <2>1 DEF Fitting, Fits
  <2>4. \A z \in Back(a, b2) : z.re <= e.seq /\ FitsAnswer(x, z.re, z.kind) /\ (x.ask = "terminal" /\ z.re = x.seq => rec2)
    BY <1>4, <2>1, <2>2, <2>3 DEF Fitting
  <2> QED BY <2>1, <2>4 DEF Fitting
<1> QED BY <1>7, <1>10, <1>11 DEF PipeOk

\* The model call is answered.
LEMMA PipeResult ==
  ASSUME NEW a \in Replies, NEW b \in [Conn -> Replies], NEW i \in Requests, NEW o, NEW last \in Nat, NEW n \in Nat,
         NEW x, NEW e, NEW rec, PipeOk(a, b, {n}, i, o, last, x, e, rec),
         NEW y \in Frame("host"), y.re = n, y.kind = "result",
         NEW h0 \in Conn, \A c \in Conn : b[c] # {} => c = h0,
         NEW b2, b2[h0] \subseteq b[h0] \cup {y}, \A c \in Conn : c # h0 => b2[c] \subseteq b[c]
  PROVE  PipeOk(a, b2, {}, i, o, last, x, e, rec)
<1>1. Numbered(a, b, {n}, i, o, last)
  BY DEF PipeOk
<1>2. All(a, b2, i, o) \subseteq All(a, b, i, o) \cup {y} /\ Back(a, b2) \subseteq Back(a, b) \cup {y}
  BY DEF All, Back, Conn
<1>3. Numbered(a, b2, {}, i, o, last)
  <2>1. \A z \in Back(a, b2) : z.re # 0 /\ z.re <= last /\ (\A u \in i : z.re < u.seq)
    BY <1>1, <1>2 DEF Numbered
  <2>2. \A z \in a : \A c \in Conn : \A u \in b2[c] : z.re < u.re
    BY <1>1 DEF Numbered, Back
  <2> QED BY <1>1, <2>1, <2>2 DEF Numbered
<1>4. \A z \in All(a, b2, i, o) : z.kind \notin {"hello", "ready"}
  BY <1>2 DEF PipeOk, Alone
<1>5. Alone(a, b2, {}, i, o, x)
  <2>1. Back(a, b2) \subseteq All(a, b2, i, o) /\ i \subseteq All(a, b2, i, o) /\ o \subseteq All(a, b2, i, o)
    BY DEF All, Back
  <2> QED BY <1>4, <2>1 DEF Alone
<1>6. ASSUME Started(x)
      PROVE  last # 0 /\ Fitting(a, b2, {}, i, o, x, e, rec)
  <2>1. last # 0 /\ Fitting(a, b, {n}, i, o, x, e, rec)
    BY <1>6 DEF PipeOk
  <2>2. "model" \in Request /\ "result" \in Answers("model")
    BY DEF Request, Answers
  <2>3. y.re <= e.seq /\ FitsAnswer(x, y.re, y.kind)
    BY <2>1, <2>2 DEF Fitting, FitsAnswer
  <2>4. ~(x.ask = "terminal" /\ y.re = x.seq)
    BY <2>1 DEF Fitting, Fits
  <2>5. \A z \in Back(a, b2) : z.re <= e.seq /\ FitsAnswer(x, z.re, z.kind) /\ (x.ask = "terminal" /\ z.re = x.seq => rec)
    BY <1>2, <2>1, <2>3, <2>4 DEF Fitting
  <2> QED BY <2>1, <2>5 DEF Fitting
<1> QED BY <1>3, <1>5, <1>6 DEF PipeOk

\* The router counts a frame of the host and may pass it on.
LEMMA PipeReturn ==
  ASSUME NEW a \in Replies, NEW b \in [Conn -> Replies], NEW k, NEW i, NEW o, NEW last,
         NEW x, NEW e, NEW rec, PipeOk(a, b, k, i, o, last, x, e, rec),
         NEW c \in Conn, NEW y \in b[c], NEW a2, a2 \subseteq a \cup {y},
         NEW b2, \A d \in Conn : b2[d] \subseteq b[d], \A z \in b2[c] : y.re < z.re
  PROVE  PipeOk(a2, b2, k, i, o, last, x, e, rec)
<1>1. Numbered(a, b, k, i, o, last)
  BY DEF PipeOk
<1>2. y \in Back(a, b)
  BY DEF Back, Conn
<1>3. All(a2, b2, i, o) \subseteq All(a, b, i, o) /\ Back(a2, b2) \subseteq Back(a, b)
  BY <1>2 DEF All, Back, Conn
<1>4. Numbered(a2, b2, k, i, o, last)
  <2>1. \A d \in Conn : d # c => b2[d] = {}
    BY <1>1 DEF Numbered
  <2>2. \A u \in a2 : \A d \in Conn : \A z \in b2[d] : u.re < z.re
    BY <1>1, <2>1 DEF Numbered
  <2>3. \A d, f \in Conn : b2[d] # {} /\ b2[f] # {} => d = f
    BY <2>1
  <2> QED BY <1>1, <1>3, <2>2, <2>3 DEF Numbered
<1>5. Alone(a2, b2, k, i, o, x)
  BY <1>3 DEF PipeOk, Alone
<1>6. Started(x) => last # 0 /\ Fitting(a2, b2, k, i, o, x, e, rec)
  BY <1>3 DEF PipeOk, Fitting
<1> QED BY <1>4, <1>5, <1>6 DEF PipeOk

\* The worker has no session, or only begins one.
LEMMA PipeStops ==
  ASSUME NEW a, NEW b, NEW k, NEW i, NEW o, NEW last, NEW x, NEW e, NEW rec, PipeOk(a, b, k, i, o, last, x, e, rec),
         NEW a2, NEW o2, a2 \subseteq a, o2 \subseteq o, NEW x2, ~Started(x2), NEW e2, NEW rec2
  PROVE  PipeOk(a2, b, k, i, o2, last, x2, e2, rec2)
<1>1. All(a2, b, i, o2) \subseteq All(a, b, i, o) /\ Back(a2, b) \subseteq Back(a, b)
  BY DEF All, Back
<1>2. Numbered(a2, b, k, i, o2, last)
  BY <1>1 DEF PipeOk, Numbered
<1>3. Alone(a2, b, k, i, o2, x2)
  BY <1>1 DEF PipeOk, Alone
<1> QED BY <1>2, <1>3 DEF PipeOk

\* The worker sends a request on a connection that goes on, or no frame of it
\* will be read.
LEMMA PipeAsks ==
  ASSUME NEW a \in Replies, NEW b \in [Conn -> Replies], NEW k \in SUBSET Nat, NEW i \in Requests, NEW o \in Requests,
         NEW last \in Nat, NEW x, NEW e \in EndpointType, NEW rec, PipeOk(a, b, k, i, o, last, x, e, rec),
         NEW m \in Frame("worker"), m.seq = e.seq + 1, m.conn = e.conn,
         NEW o2, o2 \subseteq o \/ (Started(x) /\ last < m.seq /\ o2 \subseteq o \cup {m}),
         Started(x) => m.kind # "hello",
         x.ask = "none", NEW x2, x2.ask = m.kind, x2.seq = m.seq, x2.pc = x.pc, x2.doomed = x.doomed,
         NEW e2, e2.seq = m.seq, e2.conn = e.conn
  PROVE  PipeOk(a, b, k, i, o2, last, x2, e2, rec)
<1>1. /\ e.seq \in Nat /\ (\A z \in i \cup o : z.seq \in Nat) /\ (\A z \in Back(a, b) : z.re \in Nat)
      /\ m.kind \in Request /\ m.seq \in Nat
  BY DEF EndpointType, Requests, Replies, Frame, FrameKind, Back, Conn
<1>2. Numbered(a, b, k, i, o2, last)
  BY DEF PipeOk, Numbered
<1>3. (Started(x2) <=> Started(x)) /\ Late(x2) = Late(x)
  BY DEF Started, Late
<1>4. Alone(a, b, k, i, o2, x2)
  <2>1. CASE o2 \subseteq o
    <3>1. All(a, b, i, o2) \subseteq All(a, b, i, o)
      BY <2>1 DEF All
    <3> QED BY <1>3, <2>1, <3>1 DEF PipeOk, Alone
  <2>2. CASE Started(x) /\ last < m.seq /\ o2 \subseteq o \cup {m}
    <3>1. All(a, b, i, o2) \subseteq All(a, b, i, o) \cup {m}
      BY <2>2 DEF All
    <3>2. m.kind \notin {"hello", "ready"}
      BY <1>1, <2>2 DEF Request
    <3>3. \A z \in All(a, b, i, o) : z.kind \notin {"hello", "ready"}
      BY <2>2 DEF PipeOk, Alone
    <3>4. \A z \in All(a, b, i, o2) : z.kind \notin {"hello", "ready"}
      BY <3>1, <3>2, <3>3
    <3>5. Back(a, b) \subseteq All(a, b, i, o2) /\ i \subseteq All(a, b, i, o2) /\ o2 \subseteq All(a, b, i, o2)
      BY DEF All, Back
    <3> QED BY <3>4, <3>5 DEF Alone
  <2> QED BY <2>1, <2>2
<1>5. ASSUME Started(x)
      PROVE  last # 0 /\ Fitting(a, b, k, i, o2, x2, e2, rec)
  <2>1. last # 0 /\ Fitting(a, b, k, i, o, x, e, rec)
    BY <1>5 DEF PipeOk
  <2>2. \A n \in Nat : \A j : n <= e.seq /\ Fits(x, n, j) => n <= e2.seq /\ Fits(x2, n, j) /\ n # x2.seq
    <3>1. \A n \in Nat : n <= e.seq => n # m.seq /\ n <= m.seq
      BY <1>1
    <3> QED BY <1>1, <1>3, <3>1 DEF Fits
  <2>3. m.seq <= e2.seq /\ m.conn = e2.conn /\ Fits(x2, m.seq, m.kind)
    BY <1>1 DEF Fits, Request
  <2>4. \A z \in i \cup o2 : z.seq <= e2.seq /\ z.conn = e2.conn /\ Fits(x2, z.seq, z.kind)
    <3>1. \A z \in i \cup o : z.seq <= e2.seq /\ z.conn = e2.conn /\ Fits(x2, z.seq, z.kind)
      BY <1>1, <2>1, <2>2 DEF Fitting
    <3> QED BY <2>3, <3>1
  <2>5. \A n \in k : n <= e2.seq /\ Fits(x2, n, "model")
    BY <2>1, <2>2 DEF Fitting
  <2>6. \A z \in Back(a, b) : z.re <= e2.seq /\ FitsAnswer(x2, z.re, z.kind) /\ z.re # x2.seq
    BY <1>1, <2>1, <2>2 DEF Fitting, FitsAnswer
  <2> QED BY <2>1, <2>4, <2>5, <2>6 DEF Fitting
<1> QED BY <1>2, <1>3, <1>4, <1>5 DEF PipeOk

\* The worker hears the answer that it waits for: nothing else is under way.
LEMMA PipeNow ==
  ASSUME NEW a \in Replies, NEW b \in [Conn -> Replies], NEW k \in SUBSET Nat, NEW i \in Requests, NEW o \in Requests,
         NEW last \in Nat, NEW x, NEW e \in EndpointType, NEW rec, PipeOk(a, b, k, i, o, last, x, e, rec),
         NEW y \in a, (Started(x) /\ y.re = e.seq) \/ y.kind = "ready",
         NEW a2, a2 \subseteq a, \A z \in a2 : y.re < z.re,
         NEW x2, NEW e2, NEW rec2
  PROVE  last # 0 /\ PipeOk(a2, b, k, i, o, last, x2, e2, rec2)
<1>1. /\ e.seq \in Nat /\ (\A z \in i \cup o : z.seq \in Nat) /\ (\A z \in Back(a, b) : z.re \in Nat)
      /\ \A n \in k : n \in Nat
  BY DEF EndpointType, Requests, Replies, Frame, Back, Conn
<1>2. Numbered(a, b, k, i, o, last)
  BY DEF PipeOk
<1>3. y \in Back(a, b) /\ y.re \in Nat /\ y.re # 0 /\ y.re <= last /\ y \in All(a, b, i, o)
  BY <1>1, <1>2 DEF Numbered, Back, All
<1>4. a2 = {} /\ b[1] = {} /\ b[2] = {} /\ k = {} /\ i = {} /\ o = {}
  <2>1. CASE Started(x) /\ y.re = e.seq
    <3>1. Fitting(a, b, k, i, o, x, e, rec)
      BY <2>1 DEF PipeOk
    <3>2. a2 = {}
      BY <1>1, <2>1, <3>1 DEF Fitting, Back
    <3>3. b[1] = {} /\ b[2] = {}
      <4>1. \A c \in Conn : b[c] \subseteq Back(a, b)
        BY DEF Back, Conn
      <4>2. \A c \in Conn : \A z \in b[c] : y.re < z.re /\ z.re <= e.seq /\ z.re \in Nat
        BY <1>1, <1>2, <3>1, <4>1 DEF Fitting, Numbered
      <4> QED BY <1>1, <2>1, <4>2 DEF Conn
    <3>4. k = {}
      BY <1>1, <1>2, <1>3, <2>1, <3>1 DEF Fitting, Numbered
    <3>5. i = {}
      BY <1>1, <1>2, <1>3, <2>1, <3>1 DEF Fitting, Numbered
    <3>6. o = {}
      <4>1. \A m \in o : last < m.seq /\ m.seq <= e.seq
        BY <1>2, <3>1 DEF Fitting, Numbered
      <4> QED BY <1>1, <1>3, <2>1, <4>1
    <3> QED BY <3>2, <3>3, <3>4, <3>5, <3>6
  <2>2. CASE y.kind = "ready"
    <3>1. k = {} /\ \A z \in All(a, b, i, o) : z = y
      BY <1>3, <2>2 DEF PipeOk, Alone
    <3>2. a2 = {}
      BY <1>1, <1>3, <3>1 DEF All
    <3>3. y \notin b[1] /\ y \notin b[2]
      BY <1>2, <1>3 DEF Numbered, Conn
    <3>4. y.kind \in Answer
      BY DEF Replies, Frame, FrameKind
    <3>5. y \notin i /\ y \notin o
      BY <2>2 DEF Requests, Frame, FrameKind, Request
    <3> QED BY <3>1, <3>2, <3>3, <3>5 DEF All
  <2> QED BY <2>1, <2>2
<1>5. All(a2, b, i, o) = {} /\ Back(a2, b) = {} /\ \A c \in Conn : b[c] = {}
  BY <1>4 DEF All, Back, Conn
<1>6. last # 0
  BY <1>3
<1>7. Numbered(a2, b, k, i, o, last)
  BY <1>4, <1>5 DEF Numbered
<1>8. Alone(a2, b, k, i, o, x2)
  BY <1>4, <1>5 DEF Alone
<1>9. Fitting(a2, b, k, i, o, x2, e2, rec2)
  BY <1>4, <1>5 DEF Fitting
<1> QED BY <1>6, <1>7, <1>8, <1>9 DEF PipeOk

\* The worker goes on, and what it no longer waits for can still come.
LEMMA PipeGoesOn ==
  ASSUME NEW a, NEW b, NEW k, NEW i, NEW o, NEW last, NEW x, NEW e, NEW rec, PipeOk(a, b, k, i, o, last, x, e, rec),
         NEW a2, a2 \subseteq a, NEW x2, Started(x), x2.ask # "terminal", \A n, j : Fits(x, n, j) => Fits(x2, n, j)
  PROVE  PipeOk(a2, b, k, i, o, last, x2, e, rec)
<1>1. All(a2, b, i, o) \subseteq All(a, b, i, o) /\ Back(a2, b) \subseteq Back(a, b)
  BY DEF All, Back
<1>2. Numbered(a2, b, k, i, o, last)
  BY <1>1 DEF PipeOk, Numbered
<1>3. \A y \in All(a2, b, i, o) : y.kind \notin {"hello", "ready"}
  BY <1>1 DEF PipeOk, Alone
<1>4. Alone(a2, b, k, i, o, x2)
  <2>1. Back(a2, b) \subseteq All(a2, b, i, o) /\ i \subseteq All(a2, b, i, o) /\ o \subseteq All(a2, b, i, o)
    BY DEF All, Back
  <2> QED BY <1>3, <2>1 DEF Alone
<1>5. last # 0 /\ Fitting(a, b, k, i, o, x, e, rec)
  BY DEF PipeOk
<1>6. Fitting(a2, b, k, i, o, x2, e, rec)
  <2>1. \A n, j : FitsAnswer(x, n, j) => FitsAnswer(x2, n, j)
    BY DEF FitsAnswer
  <2> QED BY <1>1, <1>5, <2>1 DEF Fitting
<1> QED BY <1>2, <1>4, <1>5, <1>6 DEF PipeOk

-----------------------------------------------------------------------------
(* The invariant of a session.                                             *)

\* A queue loses frames at most.
Thins(s, q2, q) == Items(q2) \subseteq Items(q) /\ (Rising(s, q) => Rising(s, q2))

LEMMA ThinControl ==
  ASSUME NEW S, NEW q \in Seq(S), NEW m \in S, m.seq = 0, NEW s
  PROVE  Thins(s, Append(q, m), q)
BY ItemsAppend, RisingAppend DEF Thins

LEMMA ThinTail ==
  ASSUME NEW S, NEW q \in Seq(S), q # << >>, NEW s
  PROVE  Thins(s, Tail(q), q)
<1>1. ASSUME Rising(s, q) PROVE Rising(s, Tail(q))
  BY <1>1, ItemsTail
<1>2. Items(Tail(q)) \subseteq Items(q)
  <2>1. PICK r : r = Tail(q)
    OBVIOUS
  <2>2. Len(q) \in Nat \ {0} /\ Len(r) = Len(q) - 1 /\ (\A i \in 1..(Len(q) - 1) : r[i] = q[i + 1])
    BY <2>1, TailFacts
  <2>3. ASSUME NEW i \in 1..Len(r) PROVE i + 1 \in 1..Len(q) /\ r[i] = q[i + 1]
    BY <2>2
  <2> QED BY <2>1, <2>3 DEF Items
<1> QED BY <1>1, <1>2 DEF Thins

LEMMA ThinShort ==
  ASSUME NEW q, NEW s, NEW q2, q2 = << >> \/ \E m : m.seq = 0 /\ q2 = <<m>>
  PROVE  Items(q2) = {} /\ Thins(s, q2, q)
<1>1. Items(q2) = {}
  BY DEF Items
<1>2. Rising(s, q2)
  BY RisingShort
<1> QED BY <1>1, <1>2 DEF Thins

LEMMA ThinSame == \A s, q : Thins(s, q, q)
BY DEF Thins

\* The worker's connections: rising numbers, none beyond the endpoint's.
LaneRise(e, wr) ==
  /\ \A c \in Conn : Rising("worker", wr[c])
  /\ e.state = "open" => \A m \in Items(wr[e.conn]) : m.seq <= e.seq
  /\ \A c \in Conn : \A m \in Items(wr[c]) : m.kind = "hello" => m.seq = 1

\* The frames of the worker that the relay can still pass on, but for a first.
Going(e, hd, wr) == UNION {Items(wr[c]) : c \in {d \in Conn : First(e, hd, wr, d) > 1}}

LastOfWorker == router.last["worker"]
NextFrame == [c \in Conn |-> First(end["worker"], handler["worker"], wire["worker"], c)]
Registered == registry["host"] = end["host"].conn /\ end["host"].state # "closed"
HostWires == [c \in Conn |-> Items(wire["host"][c])]
Pending == IF h.pc = "calling" THEN {h.call} ELSE {}
UnderWay == Going(end["worker"], handler["worker"], wire["worker"])

LaneInv == LaneOk(end["worker"], handler["worker"], wire["worker"]) /\ LaneRise(end["worker"], wire["worker"])
TalkInv == TalkOk(NextFrame, LastOfWorker, Registered, inbox["host"], h)
RiseInv ==
  Rising("worker", inbox["host"]) /\ Rising("host", inbox["worker"]) /\ \A c \in Conn : Rising("host", wire["host"][c])
HomeInv == Serves(h) => \A c \in Conn : Items(wire["host"][c]) # {} => c = end["host"].conn
FreshInv == LastOfWorker = 0 => \A c \in Conn : \A m \in Items(wire["worker"][c]) : m.seq = 1
PipeInv ==
  PipeOk(Items(inbox["worker"]), HostWires, Pending, Items(inbox["host"]), UnderWay, LastOfWorker, w,
         end["worker"], recorded)

\* The worker asks what belongs to its place.
AskOf(x) ==
  CASE x.pc \in {"prep", "run"} -> "event"
    [] x.pc = "result" -> "report"
    [] x.pc \in {"poll", "exec"} -> "beat"
    [] x.pc \notin {"prep", "run", "result", "poll", "exec"} -> x.pc
WorkerOk(x, e) ==
  /\ x.pc = "off" => x = Off
  /\ x.ask # "none" => x.seq = e.seq
  /\ x.pc = "hello" => (x.ask = "none" /\ e.seq = 0) \/ (x.ask = "hello" /\ e.seq = 1)
  /\ x.ask = "model" => x.pc \in {"run", "exec", "begin", "terminal"}
  /\ x.ask \notin {"none", "model"} => x.ask = AskOf(x)
  /\ x.doomed => x.pc = "exec" /\ x.ask \in {"none", "model"}
  /\ x.reported => x.pc = "bye"
Heard == misread \subseteq {"model", "begin", "chunk"} /\ (w.reported => recorded)

FlowInv == LaneInv /\ TalkInv /\ RiseInv /\ HomeInv /\ FreshInv /\ PipeInv /\ WorkerOk(w, end["worker"]) /\ Heard
SessionInv == BaseInv /\ (reset \/ FlowInv)

LEMMA FirstType ==
  ASSUME NEW e \in EndpointType, NEW hd, NEW wr \in Wires, NEW c \in Conn
  PROVE  First(e, hd, wr, c) \in Nat
<1>1. wr[c] \in Seq(MessageType) /\ e.seq + 1 \in Nat
  BY DEF EndpointType, Wires
<1>2. wr[c] # << >> => wr[c][1] \in MessageType
  BY <1>1, QueueFacts
<1> QED BY <1>1, <1>2 DEF First, MessageType

LEMMA FlowFacts ==
  ASSUME BaseInv
  PROVE  /\ NextFrame \in [Conn -> Nat] /\ LastOfWorker \in Nat
         /\ \A c \in Conn : NextFrame[c] = First(end["worker"], handler["worker"], wire["worker"], c)
         /\ Items(inbox["worker"]) \in Replies /\ Items(inbox["host"]) \in Requests /\ UnderWay \in Requests
         /\ HostWires \in [Conn -> Replies] /\ Pending \in SUBSET Nat
         /\ \A c \in Conn : HostWires[c] = Items(wire["host"][c]) /\ Items(wire["worker"][c]) \in Requests
<1>1. \A c \in Conn : First(end["worker"], handler["worker"], wire["worker"], c) \in Nat
  BY FirstType, BaseFacts, SideNames
<1>2. LastOfWorker \in Nat
  BY SideNames DEF LastOfWorker, BaseInv, RestOk, RouterType
<1>3. ASSUME NEW s \in Side, NEW q \in Seq(Sent(s))
      PROVE  Items(q) \subseteq Frame(s)
  <2>1. Items(q) \subseteq Sent(s) /\ \A y \in Items(q) : y.seq # 0
    BY ItemsFacts
  <2> QED BY <2>1, SentFacts
<1>4. Items(inbox["worker"]) \in Replies /\ Items(inbox["host"]) \in Requests
  BY <1>3, BaseFacts, SideNames DEF Replies, Requests
<1>5. \A c \in Conn : Items(wire["host"][c]) \in Replies /\ Items(wire["worker"][c]) \in Requests
  BY <1>3, BaseFacts, SideNames DEF Replies, Requests
<1>6. UnderWay \in Requests
  BY <1>5 DEF UnderWay, Going, Requests
<1>7. Pending \in SUBSET Nat
  BY DEF Pending, BaseInv, RestOk, HostType
<1> QED BY <1>1, <1>2, <1>4, <1>5, <1>6, <1>7 DEF NextFrame, HostWires

\* The worker's connections lose frames at most.
LEMMA LaneThins ==
  ASSUME NEW e \in EndpointType, NEW wr, LaneRise(e, wr), NEW e2 \in EndpointType, NEW wr2,
         \A c \in Conn : Thins("worker", wr2[c], wr[c]),
         e2.state = "open" => (e.state = "open" /\ e2.conn = e.conn /\ e2.seq = e.seq) \/ Items(wr2[e2.conn]) = {}
  PROVE  LaneRise(e2, wr2)
<1>1. e2.conn \in Conn
  BY DEF EndpointType
<1> QED BY <1>1 DEF LaneRise, Thins

LEMMA GoingLess ==
  ASSUME NEW e, NEW hd, NEW wr, NEW e2, NEW hd2, NEW wr2,
         \A c \in Conn : Items(wr2[c]) \subseteq Items(wr[c]),
         \A c \in Conn : First(e2, hd2, wr2, c) \in {First(e, hd, wr, c), 0, 1}
  PROVE  Going(e2, hd2, wr2) \subseteq Going(e, hd, wr)
<1>1. \A c \in Conn : First(e2, hd2, wr2, c) > 1 => First(e, hd, wr, c) > 1
  OBVIOUS
<1> QED BY <1>1 DEF Going

LEMMA GoingIn ==
  ASSUME NEW e, NEW hd, NEW wr, NEW y
  PROVE  y \in Going(e, hd, wr) <=> \E c \in Conn : First(e, hd, wr, c) > 1 /\ y \in Items(wr[c])
BY DEF Going

\* Request m is sent on the endpoint e.
Asking(e, hd, wr, e2, wr2, m) ==
  /\ e \in EndpointType /\ hd \in [Conn -> BOOLEAN] /\ wr \in Wires /\ LaneOk(e, hd, wr) /\ LaneRise(e, wr)
  /\ \A c \in Conn : wr[c] \in Seq(Sent("worker"))
  /\ e2 \in EndpointType /\ e2.conn = e.conn /\ wr2 \in Wires /\ m \in Frame("worker")
  /\ wr2[e.conn] \in {wr[e.conn], Append(wr[e.conn], m)}
  /\ \A d \in Conn : d # e.conn => wr2[d] = wr[d]
  /\ m.seq = e.seq + 1 /\ e.state = "open" /\ e2.seq = e.seq + 1 /\ (m.kind = "hello" => m.seq = 1)
  /\ \A c \in Conn : First(e2, hd, wr2, c) \in {First(e, hd, wr, c), 0}

\* A request is sent: the relay can pass it on if the connection goes on.
LEMMA LaneAsks ==
  ASSUME NEW e, NEW hd, NEW wr, NEW e2, NEW wr2, NEW m, Asking(e, hd, wr, e2, wr2, m)
  PROVE  /\ LaneRise(e2, wr2)
         /\ \A c \in Conn : Items(wr2[c]) \subseteq Items(wr[c]) \cup {m}
         /\ \/ Going(e2, hd, wr2) \subseteq Going(e, hd, wr)
            \/ /\ First(e, hd, wr, e.conn) > 1 /\ First(e, hd, wr, e.conn) <= m.seq
               /\ Going(e2, hd, wr2) \subseteq Going(e, hd, wr) \cup {m}
<1> USE DEF Asking
<1>1. PICK c : c = e.conn
  OBVIOUS
<1>2. c \in Conn /\ e.seq \in Nat /\ m.seq \in Nat /\ m.seq # 0 /\ m \in Sent("worker")
  BY <1>1 DEF EndpointType, Frame, Sent
<1>3. PICK q : q = wr[c]
  OBVIOUS
<1>4. q \in Seq(Sent("worker"))
  BY <1>2, <1>3
<1>5. \A y \in Items(q) : y.seq <= e.seq /\ y.seq \in Nat
  <2>1. \A y \in Items(q) : y.seq <= e.seq
    BY <1>1, <1>3 DEF LaneRise
  <2>2. \A y \in Items(q) : y \in Sent("worker")
    BY <1>4, ItemsFacts
  <2>3. \A y \in Sent("worker") : y.seq \in Nat
    BY SentFacts, SideNames DEF MessageType
  <2> QED BY <2>1, <2>2, <2>3
<1>6. wr2[c] \in {q, Append(q, m)}
  BY <1>1, <1>3
<1>7. Items(wr2[c]) \subseteq Items(q) \cup {m}
  <2>1. Items(Append(q, m)) = Items(q) \cup {m}
    BY <1>2, <1>4, ItemsAppend
  <2> QED BY <1>6, <2>1
<1>8. \A d \in Conn : Items(wr2[d]) \subseteq Items(wr[d]) \cup {m}
  BY <1>1, <1>3, <1>7
<1>9. Rising("worker", wr2[c])
  <2>1. Rising("worker", q)
    BY <1>2, <1>3 DEF LaneRise
  <2>2. \A y \in Items(q) : Number("worker", y) < Number("worker", m)
    BY <1>2, <1>5 DEF Number
  <2>3. Rising("worker", Append(q, m))
    BY <1>2, <1>4, <2>1, <2>2, RisingAppend
  <2> QED BY <1>6, <2>1, <2>3
<1>10. LaneRise(e2, wr2)
  <2>1. \A d \in Conn : Rising("worker", wr2[d])
    BY <1>1, <1>9 DEF LaneRise
  <2>2. \A y \in Items(wr2[c]) : y.seq <= e2.seq
    BY <1>2, <1>5, <1>7
  <2>3. \A d \in Conn : \A y \in Items(wr2[d]) : y.kind = "hello" => y.seq = 1
    BY <1>8 DEF LaneRise
  <2> QED BY <1>1, <2>1, <2>2, <2>3 DEF LaneRise
<1>11. \A d \in Conn : First(e2, hd, wr2, d) > 1 => First(e, hd, wr, d) > 1
  BY <1>2
<1>12. CASE ~(First(e, hd, wr, c) > 1)
  <2>1. \A d \in Conn : First(e2, hd, wr2, d) > 1 => First(e, hd, wr, d) > 1 /\ wr2[d] = wr[d]
    BY <1>1, <1>11, <1>12
  <2>2. ASSUME NEW y \in Going(e2, hd, wr2)
        PROVE  y \in Going(e, hd, wr)
    <3>1. PICK d \in Conn : First(e2, hd, wr2, d) > 1 /\ y \in Items(wr2[d])
      BY GoingIn
    <3> QED BY <2>1, <3>1, GoingIn
  <2> QED BY <1>8, <1>10, <2>2
<1>13. CASE First(e, hd, wr, c) > 1
  <2>1. Going(e2, hd, wr2) \subseteq Going(e, hd, wr) \cup {m}
    <3>1. ASSUME NEW y \in Going(e2, hd, wr2)
          PROVE  y \in Going(e, hd, wr) \cup {m}
      <4>1. PICK d \in Conn : First(e2, hd, wr2, d) > 1 /\ y \in Items(wr2[d])
        BY GoingIn
      <4> QED BY <1>8, <1>11, <4>1, GoingIn
    <3> QED BY <3>1
  <2>2. First(e, hd, wr, c) <= m.seq
    <3>1. CASE q = << >>
      BY <1>1, <1>2, <1>3, <1>13, <3>1 DEF First
    <3>2. CASE q # << >>
      <4>1. First(e, hd, wr, c) = q[1].seq
        BY <1>3, <1>13, <3>2 DEF First
      <4>2. q[1] \in Items(q)
        BY <1>4, <1>13, <3>2, <4>1, ItemsFacts
      <4> QED BY <1>2, <1>5, <4>1, <4>2
    <3> QED BY <3>1, <3>2
  <2> QED BY <1>1, <1>8, <1>10, <1>13, <2>1, <2>2
<1> QED BY <1>12, <1>13

\* What a step of one side leaves alone.
HostStays ==
  /\ end'["host"] = end["host"] /\ registry'["host"] = registry["host"] /\ h' = h /\ inbox'["host"] = inbox["host"]
  /\ router' = router /\ \A c \in Conn : wire'["host"][c] = wire["host"][c]
WorkerStays ==
  /\ end'["worker"] = end["worker"] /\ handler'["worker"] = handler["worker"] /\ w' = w /\ misread' = misread
  /\ \A c \in Conn : wire'["worker"][c] = wire["worker"][c]

LEMMA HostKept ==
  ASSUME BaseInv, HostStays
  PROVE  HostWires' = HostWires /\ Pending' = Pending /\ LastOfWorker' = LastOfWorker /\ Registered' = Registered
BY DEF HostStays, HostWires, Pending, LastOfWorker, Registered

\* A step of the worker: its connections lose frames, a request apart, and
\* begin anew or end.
LEMMA FlowWorker ==
  ASSUME BaseInv, BaseInv', FlowInv, HostStays, LaneInv', PipeInv', WorkerOk(w, end["worker"])', Heard',
         \A c \in Conn : First(end["worker"], handler["worker"], wire["worker"], c)' \in
                           {First(end["worker"], handler["worker"], wire["worker"], c), 0, 1},
         Thins("host", inbox'["worker"], inbox["worker"]),
         LastOfWorker = 0 => \A c \in Conn : \A m \in Items(wire'["worker"][c]) :
                               m \in Items(wire["worker"][c]) \/ m.seq = 1
  PROVE  FlowInv'
<1>1. TalkInv'
  <2>1. /\ NextFrame \in [Conn -> Nat] /\ LastOfWorker \in Nat /\ NextFrame' \in [Conn -> Nat]
        /\ \A c \in Conn : NextFrame'[c] \in {NextFrame[c], 0, 1}
    <3>1. \A c \in Conn : NextFrame'[c] = First(end["worker"], handler["worker"], wire["worker"], c)'
      BY DEF NextFrame
    <3>2. NextFrame' \in [Conn -> Nat]
      <4>1. end'["worker"] \in EndpointType /\ wire'["worker"] \in Wires
        BY SideNames DEF BaseInv, NetOk, EndType, EndpointType, QueueOk, Wires
      <4>2. \A c \in Conn : First(end'["worker"], handler'["worker"], wire'["worker"], c) \in Nat
        BY <4>1, FirstType
      <4> QED BY <4>2 DEF NextFrame
    <3> QED BY <3>1, <3>2, FlowFacts
  <2>2. TalkOk(NextFrame, LastOfWorker, Registered, inbox["host"], h)
    BY DEF FlowInv, TalkInv
  <2>3. TalkOk(NextFrame', LastOfWorker, Registered', inbox["host"], h)
    BY <2>1, <2>2, HostKept, TalkLanes
  <2> QED BY <2>3, HostKept DEF TalkInv, HostStays
<1>2. RiseInv' /\ HomeInv'
  BY DEF FlowInv, RiseInv, HomeInv, HostStays, Thins
<1>3. FreshInv'
  BY HostKept DEF FlowInv, FreshInv
<1> QED BY <1>1, <1>2, <1>3 DEF FlowInv

\* A step of the host, or of the relay on its behalf.
LEMMA FlowHost ==
  ASSUME BaseInv, BaseInv', FlowInv, WorkerStays, LastOfWorker' = LastOfWorker, recorded => recorded',
         TalkOk(NextFrame, LastOfWorker, Registered', inbox'["host"], h'), RiseInv', HomeInv',
         PipeOk(Items(inbox'["worker"]), HostWires', Pending', Items(inbox'["host"]), UnderWay, LastOfWorker, w,
                end["worker"], recorded')
  PROVE  FlowInv'
<1>1. \A c \in Conn : First(end'["worker"], handler'["worker"], wire'["worker"], c)
                        = First(end["worker"], handler["worker"], wire["worker"], c)
  BY DEF WorkerStays, First
<1>2. NextFrame' = NextFrame
  BY <1>1 DEF NextFrame
<1>3. UnderWay' = UnderWay
  <2>1. \A y : y \in Going(end'["worker"], handler'["worker"], wire'["worker"])
                 <=> y \in Going(end["worker"], handler["worker"], wire["worker"])
    BY <1>1, GoingIn DEF WorkerStays
  <2> QED BY <2>1 DEF UnderWay
<1>4. end["worker"].conn \in Conn
  BY BaseFacts, SideNames DEF EndpointType
<1>5. LaneInv'
  BY <1>4 DEF FlowInv, LaneInv, LaneOk, LaneRise, WorkerStays
<1>6. TalkInv' /\ PipeInv'
  BY <1>2, <1>3 DEF TalkInv, PipeInv, WorkerStays
<1>7. FreshInv'
  BY DEF FlowInv, FreshInv, WorkerStays
<1>8. WorkerOk(w, end["worker"])' /\ Heard'
  BY DEF FlowInv, Heard, WorkerStays
<1> QED BY <1>5, <1>6, <1>7, <1>8 DEF FlowInv

\* Frames of the host get lost at most, and its session does not begin to serve.
LEMMA FlowThins ==
  ASSUME BaseInv, BaseInv', FlowInv, WorkerStays, LastOfWorker' = LastOfWorker, recorded => recorded',
         TalkOk(NextFrame, LastOfWorker, Registered', inbox'["host"], h'),
         Thins("worker", inbox'["host"], inbox["host"]), Thins("host", inbox'["worker"], inbox["worker"]),
         \A c \in Conn : Thins("host", wire'["host"][c], wire["host"][c]),
         Serves(h') => Serves(h) /\ end'["host"].conn = end["host"].conn,
         h'.pc = "calling" => h.pc = "calling" /\ h'.call = h.call
  PROVE  FlowInv'
<1>1. RiseInv'
  BY DEF FlowInv, RiseInv, Thins
<1>2. HomeInv'
  BY DEF FlowInv, HomeInv, Thins
<1>3. PipeOk(Items(inbox["worker"]), HostWires, Pending, Items(inbox["host"]), UnderWay, LastOfWorker, w,
             end["worker"], recorded)
  BY DEF FlowInv, PipeInv
<1>4. /\ Items(inbox'["worker"]) \subseteq Items(inbox["worker"]) /\ Pending' \subseteq Pending
      /\ Items(inbox'["host"]) \subseteq Items(inbox["host"]) /\ \A c \in Conn : HostWires'[c] \subseteq HostWires[c]
  BY DEF Thins, Pending, HostWires
<1>5. PipeOk(Items(inbox'["worker"]), HostWires', Pending', Items(inbox'["host"]), UnderWay, LastOfWorker, w,
             end["worker"], recorded')
  BY <1>3, <1>4, PipeLess
<1> QED BY <1>1, <1>2, <1>5, FlowHost

\* A control, or none, is appended.
LEMMA ThinMaybe ==
  ASSUME NEW S, NEW q \in Seq(S), NEW m \in S, m.seq = 0, NEW s, NEW b, NEW q2, q2 = IF b THEN Append(q, m) ELSE q
  PROVE  Thins(s, q2, q)
BY ThinControl, ThinSame

LEMMA EofSent == ASSUME NEW s \in Side PROVE Eof \in Sent(s) /\ Eof.seq = 0 /\ Eof.kind = "eof" /\ Eof \in MessageType
BY ControlSent, SentFacts DEF Eof, ControlKind

\* What does not reach the relay: nobody reads there, or the stream has ended.
LEMMA ReachesFacts ==
  ASSUME NEW s, NEW q, NEW go, go = Reaches(s, q)
  PROVE  (go => handler[s][end[s].conn]) /\ (~go => ~handler[s][end[s].conn] \/ (q # << >> /\ q[Len(q)].seq = 0))
<1>1. Eof.seq = 0
  BY DEF Eof, Control, Message
<1>2. PICK l : l = q[Len(q)]
  OBVIOUS
<1>3. Reaches(s, q) <=> handler[s][end[s].conn] /\ (q = << >> \/ l # Eof)
  BY <1>2 DEF Reaches
<1>4. l = Eof => l.seq = 0
  BY <1>1
<1> QED BY <1>2, <1>3, <1>4

\* The host's session ends.
LEMMA FlowHostGone ==
  ASSUME BaseInv, BaseInv', FlowInv, Closes("host"), ~Serves(h'), h'.ordered, KeepWorker, recorded' = recorded
  PROVE  FlowInv'
<1>1. /\ end'["host"] = [end["host"] EXCEPT !.state = "closed", !.seq = 0] /\ end'["worker"] = end["worker"]
      /\ wire'["host"][end["host"].conn] = IF Reaches("host", wire["host"][end["host"].conn])
                                 THEN Append(wire["host"][end["host"].conn], Eof) ELSE wire["host"][end["host"].conn]
      /\ \A t \in Side : \A d \in Conn : <<t, d>> # <<"host", end["host"].conn>> => wire'[t][d] = wire[t][d]
      /\ inbox'["host"] = << >> /\ inbox'["worker"] = inbox["worker"]
  BY ClosesEffect, BaseFacts, SideNames
<1>2. WorkerStays /\ LastOfWorker' = LastOfWorker
  BY <1>1, SideNames DEF WorkerStays, KeepWorker, relay, LastOfWorker
<1>3. \A c \in Conn : Thins("host", wire'["host"][c], wire["host"][c])
  <2>1. PICK c : c = end["host"].conn
    OBVIOUS
  <2>2. c \in Conn /\ wire["host"][c] \in Seq(Sent("host"))
    BY <2>1, BaseFacts, SideNames DEF EndpointType
  <2>3. Thins("host", wire'["host"][c], wire["host"][c])
    <3>1. PICK q : q = wire["host"][c]
      OBVIOUS
    <3>2. PICK q2 : q2 = wire'["host"][c]
      OBVIOUS
    <3>3. q \in Seq(Sent("host")) /\ Eof \in Sent("host") /\ Eof.seq = 0 /\ q2 \in {q, Append(q, Eof)}
      BY <1>1, <2>1, <2>2, <3>1, <3>2, EofSent, SideNames
    <3>4. Thins("host", q2, q)
      BY <3>3, ThinControl, ThinSame
    <3> QED BY <3>1, <3>2, <3>4
  <2>4. \A d \in Conn : d # c => wire'["host"][d] = wire["host"][d]
    BY <1>1, <2>1, SideNames
  <2> QED BY <2>3, <2>4, ThinSame
<1>4. h'.pc # "calling"
  BY DEF Serves
<1>5. TalkOk(NextFrame, LastOfWorker, Registered', inbox'["host"], h')
  <2>1. TalkOk(NextFrame, LastOfWorker, Registered, inbox["host"], h)
    BY DEF FlowInv, TalkInv
  <2> QED BY <1>1, <1>4, <2>1, TalkIdle
<1>6. Thins("worker", inbox'["host"], inbox["host"]) /\ Thins("host", inbox'["worker"], inbox["worker"])
  BY <1>1, ThinShort, ThinSame
<1> QED BY <1>2, <1>3, <1>4, <1>5, <1>6, FlowThins

LEMMA FlowHostEnds ==
  ASSUME BaseInv, BaseInv', FlowInv, HostEnds, KeepWorker, recorded' = recorded
  PROVE  FlowInv'
<1>1. Closes("host") /\ ~Serves(h') /\ h'.ordered
  BY DEF HostEnds, Away, Serves
<1> QED BY <1>1, FlowHostGone

LEMMA FlowConnectHost == ASSUME BaseInv, BaseInv', FlowInv, Connect("host") PROVE FlowInv'
<1>1. PICK c : c = 3 - end["host"].conn
  OBVIOUS
<1>2. /\ end'["worker"] = end["worker"] /\ handler'["worker"] = handler["worker"]
      /\ end'["host"] = [conn |-> c, seq |-> 0, state |-> "greeting"]
      /\ wire'["host"][c] = <<Control(Hello)>>
      /\ \A t \in Side : \A d \in Conn : <<t, d>> # <<"host", c>> => wire'[t][d] = wire[t][d]
      /\ inbox'["host"] = << >> /\ inbox'["worker"] = inbox["worker"]
  BY <1>1, BaseConnect, SideNames
<1>3. /\ end["host"].state = "closed" /\ router' = router /\ w' = w /\ h' = h /\ misread' = misread
      /\ recorded' = recorded
  <2>1. recorded' = (recorded /\ "host" # "worker") /\ recorded \in BOOLEAN
    BY DEF Connect, BaseInv, RestOk
  <2> QED BY <2>1 DEF Connect
<1>4. h.pc = "off" /\ ~Serves(h')
  BY <1>3 DEF BaseInv, OpenInv, Serves
<1>5. WorkerStays /\ LastOfWorker' = LastOfWorker
  BY <1>2, <1>3, SideNames DEF WorkerStays, LastOfWorker
<1>6. TalkOk(NextFrame, LastOfWorker, Registered', inbox'["host"], h')
  <2>1. TalkOk(NextFrame, LastOfWorker, Registered, inbox["host"], h) /\ h.ordered
    BY DEF FlowInv, TalkInv, TalkOk
  <2> QED BY <1>2, <1>3, <1>4, <2>1, TalkIdle
<1>7. \A d \in Conn : Thins("host", wire'["host"][d], wire["host"][d])
  <2>1. Control(Hello).seq = 0
    BY ControlSent, SideNames DEF Hello, ControlKind
  <2>2. Thins("host", wire'["host"][c], wire["host"][c])
    BY <1>2, <2>1, ThinShort
  <2>3. \A d \in Conn : d # c => wire'["host"][d] = wire["host"][d]
    BY <1>2, SideNames
  <2> QED BY <2>2, <2>3, ThinSame
<1>8. Thins("worker", inbox'["host"], inbox["host"]) /\ Thins("host", inbox'["worker"], inbox["worker"])
  BY <1>2, ThinShort, ThinSame
<1> QED BY <1>3, <1>4, <1>5, <1>6, <1>7, <1>8, FlowThins

LEMMA FlowHostReady == ASSUME BaseInv, BaseInv', FlowInv, HostReady PROVE FlowInv'
<1>1. /\ inbox["host"] # << >> /\ KeepWorker /\ registry' = registry /\ handler' = handler
      /\ router' = router /\ w' = w /\ misread' = misread /\ recorded' = recorded
  BY DEF HostReady, KeepWorker, relay
<1>2. PICK c : c = end["host"].conn
  OBVIOUS
<1>3. c \in Conn /\ inbox["host"] \in Seq(Sent("worker")) /\ inbox["host"] \in Seq(MessageType)
      /\ \A d \in Conn : wire["host"][d] \in Seq(Sent("host"))
  BY <1>2, BaseFacts, SideNames DEF EndpointType
<1>4. TalkOk(NextFrame, LastOfWorker, Registered, inbox["host"], h) /\ h.ordered
  BY DEF FlowInv, TalkInv, TalkOk
<1>5. Taken => /\ inbox'["host"] = Tail(inbox["host"]) /\ inbox'["worker"] = inbox["worker"]
               /\ Thins("worker", inbox'["host"], inbox["host"]) /\ Thins("host", inbox'["worker"], inbox["worker"])
  <2>1. Taken => inbox'["host"] = Tail(inbox["host"]) /\ inbox'["worker"] = inbox["worker"]
    BY <1>1, TakenEffect, SideNames DEF Taken
  <2> QED BY <1>1, <1>3, <2>1, ThinTail, ThinSame
<1>6. CASE /\ end["host"].state = "greeting"
           /\ end' = [end EXCEPT !["host"].state = "open"] /\ h' = [Away EXCEPT !.pc = "registering"]
           /\ Writes("host", Control("relay.register")) /\ Taken
  <2>1. end'["host"] = [end["host"] EXCEPT !.state = "open"] /\ end'["worker"] = end["worker"]
    BY <1>6 DEF BaseInv, NetOk, EndType, Side
  <2>2. Control("relay.register") \in Sent("host") /\ Control("relay.register").seq = 0
    BY ControlSent, SideNames DEF ControlKind
  <2>3. /\ wire'["host"][c] = IF Reaches("host", wire["host"][c])
                              THEN Append(wire["host"][c], Control("relay.register")) ELSE wire["host"][c]
        /\ \A t \in Side : \A d \in Conn : <<t, d>> # <<"host", c>> => wire'[t][d] = wire[t][d]
    <3>1. wire \in [Side -> [Conn -> Seq(MessageType)]]
      BY DEF BaseInv, NetOk, QueueOk
    <3> QED BY <1>2, <1>3, <1>6, <3>1, SideNames DEF Writes
  <2>4. \A d \in Conn : Thins("host", wire'["host"][d], wire["host"][d])
    <3>1. Thins("host", wire'["host"][c], wire["host"][c])
      BY <1>3, <2>2, <2>3, ThinMaybe
    <3>2. \A d \in Conn : d # c => wire'["host"][d] = wire["host"][d]
      BY <2>3, SideNames
    <3> QED BY <3>1, <3>2, ThinSame
  <2>5. WorkerStays /\ LastOfWorker' = LastOfWorker
    BY <1>1, <2>1, <2>3, SideNames DEF WorkerStays, LastOfWorker
  <2>6. h'.pc = "registering" /\ ~Serves(h') /\ h'.ordered
    BY <1>6 DEF Away, Serves
  <2>7. TalkOk(NextFrame, LastOfWorker, Registered', inbox'["host"], h')
    <3>1. Registered' = Registered
      BY <1>1, <1>3, <1>6, <2>1, BaseFacts, SideNames DEF Registered, EndpointType
    <3> QED BY <1>1, <1>3, <1>4, <1>5, <1>6, <2>6, <3>1, TalkTakes
  <2> QED BY <1>1, <1>5, <1>6, <2>4, <2>5, <2>6, <2>7, FlowThins
<1>7. CASE h.pc = "registering" /\ h' = [h EXCEPT !.pc = "hello"] /\ Taken /\ UNCHANGED <<end, wire>>
  <2>1. h'.pc = "hello" /\ ~Serves(h') /\ h'.ordered
    BY <1>4, <1>7 DEF Serves, BaseInv, RestOk, HostType
  <2>2. WorkerStays /\ LastOfWorker' = LastOfWorker /\ Registered' = Registered
    BY <1>1, <1>7 DEF WorkerStays, LastOfWorker, Registered
  <2>3. TalkOk(NextFrame, LastOfWorker, Registered', inbox'["host"], h')
    BY <1>1, <1>3, <1>4, <1>5, <1>7, <2>1, <2>2, TalkTakes
  <2>4. \A d \in Conn : Thins("host", wire'["host"][d], wire["host"][d])
    BY <1>7, ThinSame
  <2> QED BY <1>1, <1>5, <1>7, <2>1, <2>2, <2>3, <2>4, FlowThins
<1>8. CASE HostEnds
  BY <1>1, <1>8, FlowHostEnds
<1> QED BY <1>2, <1>6, <1>7, <1>8 DEF HostReady

LEMMA FlowHostTimesOut == ASSUME BaseInv, BaseInv', FlowInv, HostTimesOut PROVE FlowInv'
BY FlowHostEnds DEF HostTimesOut

\* The gateway's answer is sent.
LEMMA FlowModelAnswers == ASSUME BaseInv, BaseInv', FlowInv, ModelAnswers PROVE FlowInv'
<1>1. /\ h.pc = "calling" /\ KeepWorker /\ recorded' = recorded /\ router' = router /\ registry' = registry
      /\ handler' = handler /\ w' = w /\ misread' = misread
  BY DEF ModelAnswers, KeepWorker, relay
<1>2. CASE Sends("host", "result", h.call) /\ h' = [h EXCEPT !.pc = "serving", !.call = 0] /\ UNCHANGED inbox
  <2>1. h \in HostType /\ h.call \in Nat /\ "result" \in FrameKind("host") /\ TypeInv
    BY BaseFacts, SideNames, AnswerKinds DEF BaseInv, RestOk, HostType, FrameKind
  <2>2. PICK y : y = Sealed("host", "result", h.call)
    OBVIOUS
  <2>3. y \in Frame("host") /\ y \in Sent("host") /\ y.kind = "result" /\ y.re = h.call /\ y.seq # 0
    <3>1. y \in Frame("host") /\ y \in Sent("host") /\ y.kind = "result" /\ y.re = h.call
      BY <2>1, <2>2, SealedSent, SideNames
    <3> QED BY <3>1 DEF Frame
  <2>4. PICK c : c = end["host"].conn
    OBVIOUS
  <2>5. /\ end'["host"] = [end["host"] EXCEPT !.seq = end["host"].seq + 1] /\ end'["worker"] = end["worker"]
        /\ wire'["host"][c] = IF Reaches("host", wire["host"][c]) THEN Append(wire["host"][c], y) ELSE wire["host"][c]
        /\ \A t \in Side : \A d \in Conn : <<t, d>> # <<"host", c>> => wire'[t][d] = wire[t][d]
    BY <1>2, <2>1, <2>2, <2>4, SendsEffect, SideNames
  <2>6. c \in Conn /\ \A d \in Conn : wire["host"][d] \in Seq(Sent("host"))
    BY <2>4, BaseFacts, SideNames DEF EndpointType
  <2>7. WorkerStays /\ LastOfWorker' = LastOfWorker /\ Registered' = Registered
    <3>1. end'["host"].conn = end["host"].conn /\ end'["host"].state = end["host"].state
      BY <2>5, BaseFacts, SideNames DEF EndpointType
    <3> QED BY <1>1, <2>5, <3>1, SideNames DEF WorkerStays, LastOfWorker, Registered
  <2>8. /\ h'.next = h.next /\ h'.from = h.from /\ h'.ordered = h.ordered /\ h'.pc = "serving" /\ Serves(h)
    BY <1>1, <1>2, <2>1 DEF HostType, Serves
  <2>9. TalkOk(NextFrame, LastOfWorker, Registered', inbox'["host"], h')
    BY <1>2, <2>7, <2>8, TalkGoesOn DEF FlowInv, TalkInv
  <2>10. PipeOk(Items(inbox["worker"]), HostWires, {h.call}, Items(inbox["host"]), UnderWay, LastOfWorker, w,
                end["worker"], recorded)
    BY <1>1 DEF FlowInv, PipeInv, Pending
  <2>11. \A d \in Conn : HostWires[d] # {} => d = c
    BY <2>4, <2>8 DEF FlowInv, HomeInv, HostWires
  <2>12. HostWires'[c] \subseteq HostWires[c] \cup {y} /\ \A d \in Conn : d # c => HostWires'[d] = HostWires[d]
    BY <2>3, <2>5, <2>6, ItemsAppend, SideNames DEF HostWires
  <2>13. PipeOk(Items(inbox["worker"]), HostWires', {}, Items(inbox["host"]), UnderWay, LastOfWorker, w,
                end["worker"], recorded)
    <3>1. PICK b2 : b2 = HostWires'
      OBVIOUS
    <3>2. /\ Items(inbox["worker"]) \in Replies /\ HostWires \in [Conn -> Replies]
          /\ Items(inbox["host"]) \in Requests /\ LastOfWorker \in Nat
      BY FlowFacts
    <3> QED BY <2>1, <2>3, <2>6, <2>10, <2>11, <2>12, <3>1, <3>2, PipeResult
  <2>14. HomeInv'
    <3>1. end'["host"].conn = c
      BY <2>4, <2>5, BaseFacts, SideNames DEF EndpointType
    <3> QED BY <2>11, <2>12, <3>1 DEF HomeInv, HostWires
  <2>15. RiseInv'
    <3>1. \A z \in Items(wire["host"][c]) : Number("host", z) < Number("host", y)
      BY <2>3, <2>6, <2>10 DEF PipeOk, Numbered, Back, HostWires, Conn, Number
    <3>2. Rising("host", wire["host"][c])
      BY <2>6 DEF FlowInv, RiseInv
    <3>3. Rising("host", Append(wire["host"][c], y))
      BY <2>3, <2>6, <3>1, <3>2, RisingAppend
    <3> QED BY <1>2, <2>5, <3>2, <3>3, SideNames DEF FlowInv, RiseInv
  <2>16. Pending' = {}
    BY <2>8 DEF Pending
  <2> QED BY <1>1, <1>2, <2>7, <2>9, <2>13, <2>14, <2>15, <2>16, FlowHost
<1>3. CASE HostEnds
  BY <1>1, <1>3, FlowHostEnds
<1> QED BY <1>2, <1>3 DEF ModelAnswers

\* While a hello is under way nothing comes back.
LEMMA PipeHello ==
  ASSUME NEW a \in Replies, NEW b \in [Conn -> Replies], NEW k, NEW i \in Requests, NEW o, NEW last, NEW x, NEW e,
         NEW rec, PipeOk(a, b, k, i, o, last, x, e, rec), NEW m \in i, m.kind = "hello"
  PROVE  \A c \in Conn : b[c] = {}
<1>1. \A y \in All(a, b, i, o) : y = m
  BY DEF PipeOk, Alone, All
<1>2. \A c \in Conn : \A y \in b[c] : y \in All(a, b, i, o) /\ y.kind \in Answer
  BY DEF All, Conn, Replies, Frame, FrameKind
<1>3. "hello" \notin Answer
  BY AnswerKinds
<1> QED BY <1>1, <1>2, <1>3

\* The host handles the message at the head of its inbox.
LEMMA FlowServe == ASSUME BaseInv, BaseInv', FlowInv, Serve PROVE FlowInv'
<1>1. PICK q : q = inbox["host"]
  OBVIOUS
<1>2. PICK m : m = Head(q)
  OBVIOUS
<1>3. /\ h.pc \in {"hello", "serving"} /\ q # << >> /\ KeepWorker /\ router' = router /\ registry' = registry
      /\ handler' = handler /\ w' = w /\ misread' = misread
  BY <1>1 DEF Serve, KeepWorker, relay
<1>4. /\ q \in Seq(Sent("worker")) /\ q \in Seq(MessageType) /\ h \in HostType /\ TypeInv
      /\ \A d \in Conn : wire["host"][d] \in Seq(Sent("host"))
  BY <1>1, BaseFacts, SideNames DEF BaseInv, RestOk
<1>5. m = q[1] /\ m \in Sent("worker")
  BY <1>2, <1>3, <1>4, QueueFacts
<1>6. m.seq # 0 => m \in Items(q) /\ m \in Frame("worker") /\ m.kind \in Request /\ m.seq \in Nat \ {0}
  <2>1. m.seq # 0 => m \in Frame("worker")
    BY <1>5, SentFacts, SideNames
  <2> QED BY <1>3, <1>4, <1>5, <2>1, ItemsFacts DEF Frame, FrameKind
<1>7. PICK i2 : i2 = Items(Tail(q))
  OBVIOUS
<1>8. /\ i2 \subseteq Items(q) /\ Rising("worker", Tail(q))
      /\ m.seq # 0 => \A z \in i2 : m.seq < z.seq
  <2>1. Rising("worker", q)
    BY <1>1 DEF FlowInv, RiseInv
  <2> QED BY <1>3, <1>4, <1>5, <1>7, <2>1, ItemsTail DEF Number
<1>9. PICK heard : heard = [h EXCEPT !.from = m.conn, !.next = m.seq,
                          !.ordered = @ /\ (h.pc = "serving" => m.conn = h.from /\ m.seq = h.next + 1)]
  OBVIOUS
<1>10. /\ heard.from = m.conn /\ heard.next = m.seq
       /\ heard.ordered = (h.ordered /\ (h.pc = "serving" => m.conn = h.from /\ m.seq = h.next + 1))
       /\ \A p : [heard EXCEPT !.pc = p].from = m.conn /\ [heard EXCEPT !.pc = p].next = m.seq
                 /\ [heard EXCEPT !.pc = p].ordered = heard.ordered /\ [heard EXCEPT !.pc = p].pc = p
       /\ \A p, n : [heard EXCEPT !.pc = p, !.call = n].from = m.conn /\ [heard EXCEPT !.pc = p, !.call = n].next = m.seq
                 /\ [heard EXCEPT !.pc = p, !.call = n].ordered = heard.ordered
                 /\ [heard EXCEPT !.pc = p, !.call = n].pc = p /\ [heard EXCEPT !.pc = p, !.call = n].call = n
  BY <1>4, <1>9 DEF HostType
<1>11. Taken => inbox'["host"] = Tail(q) /\ inbox'["worker"] = inbox["worker"]
  BY <1>1, <1>3, TakenEffect, SideNames DEF Taken
<1>12. /\ Items(inbox["worker"]) \in Replies /\ HostWires \in [Conn -> Replies]
       /\ Items(q) \in Requests /\ LastOfWorker \in Nat
  BY <1>1, FlowFacts
<1>13. PipeOk(Items(inbox["worker"]), HostWires, {}, Items(q), UnderWay, LastOfWorker, w, end["worker"], recorded)
  BY <1>1, <1>3 DEF FlowInv, PipeInv, Pending
<1>14. ASSUME m.seq # 0, NEW s, s.next = m.seq, s.from = m.conn, s.ordered = heard.ordered
       PROVE  TalkOk(NextFrame, LastOfWorker, Registered, Tail(q), s)
  <2>1. TalkOk(NextFrame, LastOfWorker, Registered, q, h)
    BY <1>1 DEF FlowInv, TalkInv
  <2>2. q[1].seq # 0 /\ s.next = q[1].seq /\ s.from = q[1].conn
        /\ s.ordered = (h.ordered /\ (h.pc = "serving" => q[1].conn = h.from /\ q[1].seq = h.next + 1))
    BY <1>5, <1>10, <1>14
  <2> QED BY <1>3, <1>4, <1>12, <2>1, <2>2, TalkServes
<1>15. (m.kind = "hello" <=> h.pc = "hello") /\ m.seq # 0 =>
         /\ m.kind # "hello" => Serves(h)
         /\ \A d \in Conn : HostWires[d] # {} => d = end["host"].conn
  <2>1. m.seq # 0 /\ m.kind = "hello" => \A d \in Conn : HostWires[d] = {}
    BY <1>6, <1>12, <1>13, PipeHello
  <2> QED BY <1>3, <2>1 DEF Serves, FlowInv, HomeInv, HostWires
<1>16. CASE HostEnds /\ recorded' = recorded
  BY <1>3, <1>16, FlowHostEnds
<1>17. CASE /\ m.seq # 0 /\ (m.kind = "hello" <=> h.pc = "hello") /\ m.kind = "model"
            /\ h' = [heard EXCEPT !.pc = "calling", !.call = m.seq] /\ Taken
            /\ UNCHANGED <<end, wire, recorded>>
  <2>1. WorkerStays /\ LastOfWorker' = LastOfWorker /\ Registered' = Registered /\ HostWires' = HostWires
    BY <1>3, <1>17 DEF WorkerStays, LastOfWorker, Registered, HostWires
  <2>2. h'.next = m.seq /\ h'.from = m.conn /\ h'.ordered = heard.ordered /\ h'.pc = "calling" /\ h'.call = m.seq
    BY <1>10, <1>17
  <2>3. TalkOk(NextFrame, LastOfWorker, Registered', inbox'["host"], h')
    BY <1>11, <1>14, <1>17, <2>1, <2>2
  <2>4. PipeOk(Items(inbox["worker"]), HostWires, {m.seq}, i2, UnderWay, LastOfWorker, w, end["worker"], recorded)
    BY <1>6, <1>8, <1>12, <1>13, <1>17, PipeCalls
  <2>5. Pending' = {m.seq}
    BY <2>2 DEF Pending
  <2>6. PipeOk(Items(inbox'["worker"]), HostWires', Pending', Items(inbox'["host"]), UnderWay, LastOfWorker, w,
               end["worker"], recorded')
    BY <1>7, <1>11, <1>17, <2>1, <2>4, <2>5
  <2>7. RiseInv'
    BY <1>8, <1>11, <1>17 DEF FlowInv, RiseInv
  <2>8. HomeInv'
    BY <1>15, <1>17 DEF HomeInv, HostWires
  <2> QED BY <1>17, <2>1, <2>3, <2>6, <2>7, <2>8, FlowHost
<1>18. ASSUME m.seq # 0, m.kind = "hello" <=> h.pc = "hello", NEW y \in Frame("host"), y.re = m.seq,
              y.kind \in Answers(m.kind), NEW b2, NEW c \in Conn, c = end["host"].conn,
              b2[c] \subseteq HostWires[c] \cup {y}, \A d \in Conn : d # c => b2[d] \subseteq HostWires[d],
              NEW i3, i3 \subseteq i2, recorded => recorded', m.kind = "terminal" /\ m.conn = end["worker"].conn => recorded'
       PROVE  PipeOk(Items(inbox["worker"]), b2, {}, i3, UnderWay, LastOfWorker, w, end["worker"], recorded')
  <2>1. m.kind # "hello" => \A d \in Conn : HostWires[d] # {} => d = c
    BY <1>15, <1>18
  <2>2. m \in Items(q) /\ i3 \subseteq Items(q) /\ \A z \in i3 : m.seq < z.seq
    BY <1>6, <1>8, <1>18
  <2>5. PICK a : a = Items(inbox["worker"])
    OBVIOUS
  <2>6. PICK b : b = HostWires
    OBVIOUS
  <2>7. PICK i : i = Items(q)
    OBVIOUS
  <2>8. /\ a \in Replies /\ b \in [Conn -> Replies] /\ i \in Requests /\ LastOfWorker \in Nat /\ m \in i
        /\ i3 \subseteq i /\ PipeOk(a, b, {}, i, UnderWay, LastOfWorker, w, end["worker"], recorded)
        /\ b2[c] \subseteq b[c] \cup {y} /\ \A d \in Conn : d # c => b2[d] \subseteq b[d]
        /\ m.kind # "hello" => \A d \in Conn : b[d] # {} => d = c
    BY <1>12, <1>13, <1>18, <2>1, <2>2, <2>5, <2>6, <2>7
  <2>3. Answering(a, b, i, UnderWay, LastOfWorker, w, end["worker"], recorded, m, i3, y, c, b2, recorded')
    BY <1>18, <2>2, <2>8 DEF Answering
  <2>9. PipeOk(a, b2, {}, i3, UnderWay, LastOfWorker, w, end["worker"], recorded')
    BY <2>3, PipeAnswers
  <2> QED BY <2>5, <2>9
<1>19. ASSUME m.seq # 0, NEW y \in Frame("host"), y.re = m.seq, NEW c \in Conn
       PROVE  Rising("host", Append(wire["host"][c], y))
  <2>1. \A z \in Items(wire["host"][c]) : Number("host", z) < Number("host", y)
    BY <1>6, <1>13, <1>19 DEF PipeOk, Numbered, Back, HostWires, Conn, Number
  <2>2. Rising("host", wire["host"][c])
    BY DEF FlowInv, RiseInv
  <2>3. y \in Sent("host")
    BY DEF Sent
  <2> QED BY <1>4, <2>1, <2>2, <2>3, RisingAppend
<1>20. CASE /\ m.seq # 0 /\ (m.kind = "hello" <=> h.pc = "hello")
            /\ \E y \in Answers(m.kind) : Sends("host", y, m.seq)
            /\ h' = [heard EXCEPT !.pc = "serving"] /\ Taken
            /\ recorded' = (recorded \/ (m.kind = "terminal" /\ m.conn = end["worker"].conn))
  <2>1. PICK k \in Answers(m.kind) : Sends("host", k, m.seq)
    BY <1>20
  <2>2. k \in FrameKind("host")
    BY <1>6, <1>20, <2>1, AnswersType DEF FrameKind
  <2>3. PICK y : y = Sealed("host", k, m.seq)
    OBVIOUS
  <2>4. y \in Frame("host") /\ y.kind = k /\ y.re = m.seq /\ y \in Sent("host") /\ y.seq # 0
    <3>1. y \in Frame("host") /\ y.kind = k /\ y.re = m.seq /\ y \in Sent("host")
      BY <1>4, <1>6, <1>20, <2>2, <2>3, SealedSent, SideNames
    <3> QED BY <3>1 DEF Frame
  <2>5. PICK c : c = end["host"].conn
    OBVIOUS
  <2>6. c \in Conn
    BY <2>5, BaseFacts, SideNames DEF EndpointType
  <2>7. /\ end'["host"] = [end["host"] EXCEPT !.seq = end["host"].seq + 1] /\ end'["worker"] = end["worker"]
        /\ wire'["host"][c] = IF Reaches("host", wire["host"][c]) THEN Append(wire["host"][c], y) ELSE wire["host"][c]
        /\ \A t \in Side : \A d \in Conn : <<t, d>> # <<"host", c>> => wire'[t][d] = wire[t][d]
    BY <1>4, <1>6, <1>20, <2>1, <2>2, <2>3, <2>5, SendsEffect, SideNames
  <2>8. end'["host"].conn = c /\ end'["host"].state = end["host"].state
    BY <2>5, <2>7, BaseFacts, SideNames DEF EndpointType
  <2>9. WorkerStays /\ LastOfWorker' = LastOfWorker /\ Registered' = Registered
    BY <1>3, <2>5, <2>7, <2>8, SideNames DEF WorkerStays, LastOfWorker, Registered
  <2>10. h'.next = m.seq /\ h'.from = m.conn /\ h'.ordered = heard.ordered /\ h'.pc = "serving"
    BY <1>10, <1>20
  <2>11. TalkOk(NextFrame, LastOfWorker, Registered', inbox'["host"], h')
    BY <1>11, <1>14, <1>20, <2>9, <2>10
  <2>12. HostWires'[c] \subseteq HostWires[c] \cup {y} /\ \A d \in Conn : d # c => HostWires'[d] = HostWires[d]
    BY <1>4, <2>4, <2>6, <2>7, ItemsAppend, SideNames DEF HostWires
  <2>13. PICK b2 : b2 = HostWires'
    OBVIOUS
  <2>14. (recorded => recorded') /\ (m.kind = "terminal" /\ m.conn = end["worker"].conn => recorded')
    BY <1>20
  <2>15. PipeOk(Items(inbox["worker"]), b2, {}, i2, UnderWay, LastOfWorker, w, end["worker"], recorded')
    <3>1. b2[c] \subseteq HostWires[c] \cup {y} /\ \A d \in Conn : d # c => b2[d] \subseteq HostWires[d]
      BY <2>12, <2>13
    <3> QED BY <1>18, <1>20, <2>4, <2>5, <2>6, <2>14, <3>1
  <2>16. Pending' = {}
    BY <2>10 DEF Pending
  <2>17. PipeOk(Items(inbox'["worker"]), HostWires', Pending', Items(inbox'["host"]), UnderWay, LastOfWorker, w,
                end["worker"], recorded')
    BY <1>7, <1>11, <1>20, <2>13, <2>15, <2>16
  <2>18. RiseInv'
    <3>1. Rising("host", Append(wire["host"][c], y))
      BY <1>19, <1>20, <2>4, <2>6
    <3> QED BY <1>8, <1>11, <1>20, <2>7, <3>1, SideNames DEF FlowInv, RiseInv
  <2>19. HomeInv'
    BY <1>15, <1>20, <2>5, <2>8, <2>12 DEF HomeInv, HostWires
  <2> QED BY <2>9, <2>11, <2>14, <2>16, <2>17, <2>18, <2>19, FlowHost
<1>21. CASE /\ m.seq # 0 /\ (m.kind = "hello" <=> h.pc = "hello") /\ m.kind = "bye"
            /\ h' = Away /\ GivenUp("host")
            /\ wire' = [wire EXCEPT !["host"][end["host"].conn] =
                 IF Reaches("host", @) THEN Append(Append(@, Sealed("host", "goodbye", m.seq)), Eof) ELSE @]
            /\ recorded' = recorded
  <2>1. "goodbye" \in FrameKind("host") /\ "goodbye" \in Answers(m.kind)
    BY <1>21, AnswerKinds DEF FrameKind, Answers
  <2>2. PICK y : y = Sealed("host", "goodbye", m.seq)
    OBVIOUS
  <2>3. y \in Frame("host") /\ y.kind = "goodbye" /\ y.re = m.seq /\ y \in Sent("host") /\ y.seq # 0
    <3>1. y \in Frame("host") /\ y.kind = "goodbye" /\ y.re = m.seq /\ y \in Sent("host")
      BY <1>4, <1>6, <1>21, <2>1, <2>2, SealedSent, SideNames
    <3> QED BY <3>1 DEF Frame
  <2>4. PICK c : c = end["host"].conn
    OBVIOUS
  <2>5. c \in Conn
    BY <2>4, BaseFacts, SideNames DEF EndpointType
  <2>6. PICK r : r = Append(wire["host"][c], y)
    OBVIOUS
  <2>7. r \in Seq(Sent("host")) /\ Items(r) = Items(wire["host"][c]) \cup {y} /\ Rising("host", r)
    BY <1>4, <1>19, <1>21, <2>3, <2>5, <2>6, AppendFacts, ItemsAppend
  <2>8. Thins("host", Append(r, Eof), r)
    BY <2>7, ThinControl, EofSent, SideNames
  <2>9. /\ inbox'["host"] = << >> /\ inbox'["worker"] = inbox["worker"] /\ end'["worker"] = end["worker"]
        /\ wire'["host"][c] = IF Reaches("host", wire["host"][c]) THEN Append(r, Eof) ELSE wire["host"][c]
        /\ \A t \in Side : \A d \in Conn : <<t, d>> # <<"host", c>> => wire'[t][d] = wire[t][d]
    <3>1. wire' = [wire EXCEPT !["host"][c] =
                    IF Reaches("host", wire["host"][c]) THEN Append(r, Eof) ELSE wire["host"][c]]
      BY <1>21, <2>2, <2>4, <2>6
    <3>2. wire \in [Side -> [Conn -> Seq(MessageType)]] /\ inbox \in [Side -> Seq(MessageType)] /\ end \in EndType
      BY DEF BaseInv, NetOk, QueueOk
    <3>3. /\ wire'["host"][c] = IF Reaches("host", wire["host"][c]) THEN Append(r, Eof) ELSE wire["host"][c]
          /\ \A t \in Side : \A d \in Conn : <<t, d>> # <<"host", c>> => wire'[t][d] = wire[t][d]
      BY <2>5, <3>1, <3>2, SideNames
    <3>4. inbox'["host"] = << >> /\ inbox'["worker"] = inbox["worker"]
      BY <1>21, <3>2, SideNames DEF GivenUp
    <3>5. end'["worker"] = end["worker"]
      BY <1>21, <3>2, SideNames DEF EndType, GivenUp
    <3> QED BY <3>3, <3>4, <3>5
  <2>10. WorkerStays /\ LastOfWorker' = LastOfWorker
    BY <1>3, <2>9, SideNames DEF WorkerStays, LastOfWorker
  <2>11. ~Serves(h') /\ h'.ordered /\ Pending' = {}
    BY <1>21 DEF Serves, Away, Pending
  <2>12. TalkOk(NextFrame, LastOfWorker, Registered', inbox'["host"], h')
    <3>1. TalkOk(NextFrame, LastOfWorker, Registered, inbox["host"], h)
      BY DEF FlowInv, TalkInv
    <3> QED BY <2>9, <2>11, <3>1, TalkIdle
  <2>13. PICK b2 : b2 = HostWires'
    OBVIOUS
  <2>14. b2[c] \subseteq HostWires[c] \cup {y} /\ \A d \in Conn : d # c => b2[d] \subseteq HostWires[d]
    BY <2>5, <2>7, <2>8, <2>9, <2>13, SideNames DEF HostWires, Thins
  <2>15. (recorded => recorded') /\ (m.kind = "terminal" /\ m.conn = end["worker"].conn => recorded')
    BY <1>21
  <2>16. PipeOk(Items(inbox["worker"]), b2, {}, {}, UnderWay, LastOfWorker, w, end["worker"], recorded')
    <3>1. {} \subseteq i2
      OBVIOUS
    <3> QED BY <1>18, <1>21, <2>1, <2>3, <2>4, <2>5, <2>14, <2>15, <3>1
  <2>17. Items(inbox'["host"]) = {}
    BY <2>9, ThinShort
  <2>18. PipeOk(Items(inbox'["worker"]), HostWires', Pending', Items(inbox'["host"]), UnderWay, LastOfWorker, w,
                end["worker"], recorded')
    BY <2>9, <2>11, <2>13, <2>16, <2>17
  <2>19. RiseInv'
    BY <2>7, <2>8, <2>9, SideNames, RisingShort DEF FlowInv, RiseInv, Thins
  <2>20. HomeInv'
    BY <2>11 DEF HomeInv
  <2> QED BY <1>21, <2>10, <2>12, <2>18, <2>19, <2>20, FlowHost
<1> QED
  BY <1>1, <1>2, <1>9, <1>16, <1>17, <1>20, <1>21 DEF Serve, Opens

\* The worker ends or begins a session.
LEMMA FlowStops ==
  ASSUME BaseInv, BaseInv', FlowInv, HostStays, LaneInv', WorkerOk(w, end["worker"])', Heard', ~Started(w'),
         \A c \in Conn : First(end["worker"], handler["worker"], wire["worker"], c)' \in
                           {First(end["worker"], handler["worker"], wire["worker"], c), 0, 1},
         \A c \in Conn : Items(wire'["worker"][c]) \subseteq Items(wire["worker"][c]),
         Thins("host", inbox'["worker"], inbox["worker"])
  PROVE  FlowInv'
<1>1. PipeOk(Items(inbox["worker"]), HostWires, Pending, Items(inbox["host"]), UnderWay, LastOfWorker, w,
             end["worker"], recorded)
  BY DEF FlowInv, PipeInv
<1>2. UnderWay' \subseteq UnderWay
  <2>1. \A c \in Conn : First(end'["worker"], handler'["worker"], wire'["worker"], c) \in
                           {First(end["worker"], handler["worker"], wire["worker"], c), 0, 1}
    OBVIOUS
  <2> QED BY <2>1, GoingLess DEF UnderWay
<1>3. Items(inbox'["worker"]) \subseteq Items(inbox["worker"])
  BY DEF Thins
<1>4. PipeOk(Items(inbox'["worker"]), HostWires, Pending, Items(inbox["host"]), UnderWay', LastOfWorker, w',
             end'["worker"], recorded')
  BY <1>1, <1>2, <1>3, PipeStops
<1>5. PipeInv'
  BY <1>4, HostKept DEF PipeInv, HostStays
<1> QED BY <1>5, FlowWorker

LEMMA OffOk == \A e : WorkerOk(Off, e) /\ ~Started(Off) /\ ~Off.reported
BY DEF WorkerOk, Off, Started

LEMMA FlowGivenUp ==
  ASSUME BaseInv, BaseInv', FlowInv, Closes("worker"), w' = Off, UNCHANGED <<relay, h, recorded>>,
         misread' \subseteq {"model", "begin", "chunk"}
  PROVE  FlowInv'
<1>1. /\ end'["worker"] = [end["worker"] EXCEPT !.state = "closed", !.seq = 0] /\ end'["host"] = end["host"]
      /\ wire'["worker"][end["worker"].conn] = IF Reaches("worker", wire["worker"][end["worker"].conn])
                                 THEN Append(wire["worker"][end["worker"].conn], Eof) ELSE wire["worker"][end["worker"].conn]
      /\ \A t \in Side : \A d \in Conn : <<t, d>> # <<"worker", end["worker"].conn>> => wire'[t][d] = wire[t][d]
      /\ inbox'["worker"] = << >> /\ inbox'["host"] = inbox["host"]
  BY ClosesEffect, BaseFacts, SideNames
<1>2. HostStays /\ handler' = handler
  BY <1>1, SideNames DEF HostStays, relay
<1>3. PICK e : e = end["worker"]
  OBVIOUS
<1>4. PICK wr : wr = wire["worker"]
  OBVIOUS
<1>5. PICK wr2 : wr2 = wire'["worker"]
  OBVIOUS
<1>6. PICK e2 : e2 = end'["worker"]
  OBVIOUS
<1>7. /\ e \in EndpointType /\ wr \in Wires /\ handler["worker"] \in [Conn -> BOOLEAN] /\ wr2 \in Wires
      /\ e2 \in EndpointType /\ e.conn \in Conn /\ wr[e.conn] \in Seq(Sent("worker"))
  <2>1. end'["worker"] \in EndpointType /\ wire'["worker"] \in Wires
    BY SideNames DEF BaseInv, NetOk, EndType, EndpointType, QueueOk, Wires
  <2> QED BY <1>3, <1>4, <1>5, <1>6, <2>1, BaseFacts, SideNames DEF EndpointType
<1>18. PICK go : go = Reaches("worker", wr[e.conn])
  OBVIOUS
<1>8. /\ wr2[e.conn] = IF go THEN Append(wr[e.conn], Eof) ELSE wr[e.conn]
      /\ \A d \in Conn : d # e.conn => wr2[d] = wr[d]
      /\ e2.conn = e.conn /\ e2.state = "closed"
      /\ go => handler["worker"][e.conn]
      /\ ~go => ~handler["worker"][e.conn] \/ (wr[e.conn] # << >> /\ wr[e.conn][Len(wr[e.conn])].seq = 0)
  BY <1>1, <1>3, <1>4, <1>5, <1>6, <1>7, <1>18, SideNames, ReachesFacts DEF EndpointType
<1>9. LaneOk(e, handler["worker"], wr) /\ LaneRise(e, wr)
  BY <1>3, <1>4 DEF FlowInv, LaneInv
<1>10. LaneOk(e2, handler["worker"], wr2) /\ \A c \in Conn : First(e2, handler["worker"], wr2, c) \in {First(e, handler["worker"], wr, c), 0}
  BY <1>7, <1>8, <1>9, EofSent, LaneAppend, SideNames
<1>11. \A c \in Conn : Thins("worker", wr2[c], wr[c])
  <2>1. Thins("worker", wr2[e.conn], wr[e.conn])
    <3>1. PICK q : q = wr[e.conn]
      OBVIOUS
    <3>2. PICK q2 : q2 = wr2[e.conn]
      OBVIOUS
    <3>3. q \in Seq(Sent("worker")) /\ Eof \in Sent("worker") /\ Eof.seq = 0 /\ q2 \in {q, Append(q, Eof)}
      BY <1>7, <1>8, <3>1, <3>2, EofSent, SideNames
    <3>4. Thins("worker", q2, q)
      BY <3>3, ThinControl, ThinSame
    <3> QED BY <3>1, <3>2, <3>4
  <2> QED BY <1>8, <2>1, ThinSame
<1>12. LaneRise(e2, wr2)
  BY <1>7, <1>8, <1>9, <1>11, LaneThins
<1>13. LaneInv'
  BY <1>2, <1>5, <1>6, <1>10, <1>12 DEF LaneInv
<1>14. \A c \in Conn : First(end["worker"], handler["worker"], wire["worker"], c)' \in
                           {First(end["worker"], handler["worker"], wire["worker"], c), 0, 1}
  BY <1>2, <1>3, <1>4, <1>5, <1>6, <1>10
<1>15. \A c \in Conn : Items(wire'["worker"][c]) \subseteq Items(wire["worker"][c])
  BY <1>4, <1>5, <1>11 DEF Thins
<1>16. Thins("host", inbox'["worker"], inbox["worker"])
  BY <1>1, ThinShort
<1>17. WorkerOk(w, end["worker"])' /\ Heard' /\ ~Started(w')
  BY OffOk DEF Heard
<1> QED BY <1>2, <1>13, <1>14, <1>15, <1>16, <1>17, FlowStops

LEMMA FlowWorkerCloses ==
  ASSUME BaseInv, BaseInv', FlowInv, Closes("worker"), w' = Off, KeepHost, misread' \subseteq {"model", "begin", "chunk"}
  PROVE  FlowInv'
BY FlowGivenUp DEF KeepHost

LEMMA FlowConnectWorker == ASSUME BaseInv, BaseInv', FlowInv, Connect("worker") PROVE FlowInv'
<1>1. PICK c : c = 3 - end["worker"].conn
  OBVIOUS
<1>2. PICK e : e = end["worker"]
  OBVIOUS
<1>3. PICK wr : wr = wire["worker"]
  OBVIOUS
<1>4. PICK wr2 : wr2 = wire'["worker"]
  OBVIOUS
<1>5. PICK e2 : e2 = end'["worker"]
  OBVIOUS
<1>6. PICK hd2 : hd2 = handler'["worker"]
  OBVIOUS
<1>7. /\ e2 = [conn |-> c, seq |-> 0, state |-> "greeting"] /\ end'["host"] = end["host"]
      /\ hd2 = [handler["worker"] EXCEPT ![c] = TRUE] /\ handler'["host"] = handler["host"]
      /\ wr2[c] = <<Control(Hello)>>
      /\ \A t \in Side : \A d \in Conn : <<t, d>> # <<"worker", c>> => wire'[t][d] = wire[t][d]
      /\ inbox'["worker"] = << >> /\ inbox'["host"] = inbox["host"]
  BY <1>1, <1>4, <1>5, <1>6, BaseConnect, SideNames
<1>8. /\ e.state = "closed" /\ router' = router /\ registry' = registry /\ w' = w /\ h' = h /\ misread' = misread
  BY <1>2 DEF Connect
<1>9. HostStays
  BY <1>7, <1>8, SideNames DEF HostStays
<1>10. w = Off /\ w' = Off
  BY <1>2, <1>8 DEF BaseInv, OpenInv, FlowInv, WorkerOk
<1>11. /\ e \in EndpointType /\ wr \in Wires /\ handler["worker"] \in [Conn -> BOOLEAN] /\ wr2 \in Wires
       /\ e2 \in EndpointType /\ hd2 \in [Conn -> BOOLEAN] /\ c \in Conn /\ c # e.conn
  <2>1. end'["worker"] \in EndpointType /\ wire'["worker"] \in Wires /\ handler'["worker"] \in [Conn -> BOOLEAN]
    BY SideNames DEF BaseInv, NetOk, EndType, EndpointType, QueueOk, Wires
  <2>2. e \in EndpointType /\ e.conn \in Conn
    BY <1>2, BaseFacts, SideNames DEF EndpointType
  <2>3. c \in Conn /\ c # e.conn
    BY <1>1, <1>2, <2>2 DEF Conn
  <2> QED BY <1>3, <1>4, <1>5, <1>6, <2>1, <2>2, <2>3, BaseFacts, SideNames
<1>12. \A d \in Conn : d # c => wr2[d] = wr[d]
  BY <1>3, <1>4, <1>7, SideNames
<1>13. LaneOk(e, handler["worker"], wr) /\ LaneRise(e, wr)
  BY <1>2, <1>3 DEF FlowInv, LaneInv
<1>14. LaneOk(e2, hd2, wr2) /\ \A d \in Conn : First(e2, hd2, wr2, d) \in {First(e, handler["worker"], wr, d), 0}
  <2>1. PICK hd : hd = handler["worker"]
    OBVIOUS
  <2>2. e2.state = "greeting"
    BY <1>7
  <2>3. hd \in [Conn -> BOOLEAN] /\ LaneOk(e, hd, wr) /\ hd2[c] /\ \A d \in Conn : d # c => hd2[d] = hd[d]
    BY <1>7, <1>11, <1>13, <2>1
  <2>4. PICK r : r = <<Control(Hello)>>
    OBVIOUS
  <2>5. wr2[c] = r
    BY <1>7, <2>4
  <2>6. LaneOk(e2, hd2, wr2) /\ \A d \in Conn : First(e2, hd2, wr2, d) \in {First(e, hd, wr, d), 0}
    BY <1>8, <1>11, <1>12, <2>2, <2>3, <2>4, <2>5, LaneConnect
  <2> QED BY <2>1, <2>6
<1>15. \A d \in Conn : Thins("worker", wr2[d], wr[d])
  <2>1. Control(Hello).seq = 0
    BY ControlSent, SideNames DEF Hello, ControlKind
  <2>2. Thins("worker", wr2[c], wr[c])
    BY <1>7, <2>1, ThinShort
  <2> QED BY <1>12, <2>2, ThinSame
<1>16. LaneRise(e2, wr2)
  BY <1>7, <1>11, <1>13, <1>15, LaneThins
<1>17. LaneInv'
  BY <1>4, <1>5, <1>6, <1>14, <1>16 DEF LaneInv
<1>18. \A d \in Conn : First(end["worker"], handler["worker"], wire["worker"], d)' \in
                           {First(end["worker"], handler["worker"], wire["worker"], d), 0, 1}
  BY <1>2, <1>3, <1>4, <1>5, <1>6, <1>14
<1>19. \A d \in Conn : Items(wire'["worker"][d]) \subseteq Items(wire["worker"][d])
  BY <1>3, <1>4, <1>15 DEF Thins
<1>20. Thins("host", inbox'["worker"], inbox["worker"])
  BY <1>7, ThinShort
<1>21. WorkerOk(w, end["worker"])' /\ Heard' /\ ~Started(w')
  BY <1>8, <1>10, OffOk DEF Heard, FlowInv
<1> QED BY <1>9, <1>17, <1>18, <1>19, <1>20, <1>21, FlowStops

LEMMA BeginOk ==
  \A x : x = [Off EXCEPT !.pc = "hello"] => ~Started(x) /\ ~x.reported /\ \A e : e.seq = 0 => WorkerOk(x, e)
BY DEF WorkerOk, Off, Started

LEMMA FlowWorkerReady == ASSUME BaseInv, BaseInv', FlowInv, WorkerReady PROVE FlowInv'
<1>1. end["worker"].state = "greeting" /\ inbox["worker"] # << >> /\ misread' = misread /\ KeepHost
  BY DEF WorkerReady
<1>2. CASE /\ end' = [end EXCEPT !["worker"].state = "open"] /\ w' = [Off EXCEPT !.pc = "hello"]
           /\ inbox' = [inbox EXCEPT !["worker"] = Tail(@)] /\ UNCHANGED wire
  <2>1. inbox' = [inbox EXCEPT !["worker"] = Tail(inbox["worker"])]
    BY <1>2
  <2>2. inbox'["worker"] = Tail(inbox["worker"]) /\ inbox'["host"] = inbox["host"]
    BY <1>1, <2>1, TakenEffect, SideNames
  <2>3. PICK e : e = end["worker"]
    OBVIOUS
  <2>4. PICK e2 : e2 = end'["worker"]
    OBVIOUS
  <2>5. PICK wr : wr = wire["worker"]
    OBVIOUS
  <2>6. PICK hd : hd = handler["worker"]
    OBVIOUS
  <2>7. /\ e \in EndpointType /\ wr \in Wires /\ hd \in [Conn -> BOOLEAN] /\ e2 \in EndpointType
        /\ e2.conn = e.conn /\ e2.seq = e.seq /\ e2.state = "open" /\ e.state = "greeting" /\ end'["host"] = end["host"]
    BY <1>1, <1>2, <2>3, <2>4, <2>5, <2>6, BaseFacts, SideNames DEF BaseInv, NetOk, EndType, EndpointType
  <2>8. wr[e.conn] = << >> /\ e.seq = 0
    <3>1. SideOk("worker", e, registry["worker"], hd, wr, inbox["worker"], overtaken) /\ e.conn \in Conn
      BY <2>3, <2>5, <2>6, <2>7, BaseFacts, SideNames DEF SideInv, EndpointType
    <3>2. NoHello(wr[e.conn])
      BY <1>1, <2>7, <3>1 DEF SideOk
    <3> QED BY <2>7, <3>1, <3>2 DEF SideOk
  <2>9. LaneOk(e, hd, wr) /\ LaneRise(e, wr)
    BY <2>3, <2>5, <2>6 DEF FlowInv, LaneInv
  <2>10. LaneOk(e2, hd, wr) /\ \A c \in Conn : First(e2, hd, wr, c) \in {First(e, hd, wr, c), 0, 1}
    BY <2>7, <2>8, <2>9, LaneOpen
  <2>11. LaneRise(e2, wr)
    <3>1. Items(wr[e2.conn]) = {}
      BY <2>7, <2>8, ThinShort
    <3> QED BY <2>7, <2>9, <3>1, ThinSame, LaneThins
  <2>12. wire' = wire /\ handler' = handler
    BY <1>1, <1>2 DEF KeepHost, relay
  <2>13. LaneInv'
    BY <2>4, <2>5, <2>6, <2>10, <2>11, <2>12 DEF LaneInv
  <2>14. HostStays
    BY <1>1, <2>2, <2>7, <2>12 DEF HostStays, KeepHost, relay
  <2>15. \A c \in Conn : First(end["worker"], handler["worker"], wire["worker"], c)' \in
                           {First(end["worker"], handler["worker"], wire["worker"], c), 0, 1}
    BY <2>3, <2>4, <2>5, <2>6, <2>10, <2>12
  <2>16. Thins("host", inbox'["worker"], inbox["worker"])
    BY <1>1, <2>2, ThinTail, BaseFacts, SideNames
  <2>17. WorkerOk(w, end["worker"])' /\ Heard' /\ ~Started(w')
    BY <1>1, <1>2, <2>4, <2>7, <2>8, BeginOk DEF Heard, FlowInv
  <2> QED BY <2>12, <2>13, <2>14, <2>15, <2>16, <2>17, FlowStops
<1>3. CASE Closes("worker") /\ w' = Off
  BY <1>1, <1>3, FlowWorkerCloses DEF FlowInv, Heard
<1> QED BY <1>2, <1>3 DEF WorkerReady

\* What the worker may ask next.
LEMMA AskableFacts ==
  ASSUME w \in WorkerType, w.pc # "off", NEW k \in Askable
  PROVE  /\ k = "model" => w.pc \in {"run", "exec"}
         /\ k # "model" => k = AskOf(w) /\ ~(w.pc = "exec" /\ w.doomed)
         /\ k = "hello" => w.pc = "hello"
         /\ w.pc = "hello" => k = "hello"
<1>1. w.pc \in {"hello", "lease", "ack", "prep", "poll", "run", "exec", "begin", "chunk", "final",
                "terminal", "report", "result", "bye"}
  BY DEF WorkerType
<1>2. CASE k \in ModelCalls
  BY <1>1, <1>2 DEF ModelCalls
<1>3. CASE w.pc \in {"prep", "run"} /\ k = "event"
  BY <1>1, <1>3 DEF AskOf
<1>4. CASE w.pc = "result" /\ k = "report"
  BY <1>1, <1>4 DEF AskOf
<1>5. CASE w.pc = "poll" /\ k = "beat"
  BY <1>1, <1>5 DEF AskOf
<1>6. CASE w.pc = "exec" /\ k \in Heartbeats
  BY <1>1, <1>6 DEF AskOf, Heartbeats
<1>7. CASE w.pc \notin {"prep", "run", "result", "poll", "exec"} /\ k = w.pc
  BY <1>1, <1>7 DEF AskOf
<1> QED BY <1>1, <1>2, <1>3, <1>4, <1>5, <1>6, <1>7 DEF Askable

\* The number of a connection that goes on is the next the router lets through.
LEMMA GoesOn ==
  ASSUME BaseInv, FlowInv, NEW c \in Conn, First(end["worker"], handler["worker"], wire["worker"], c) > 1
  PROVE  First(end["worker"], handler["worker"], wire["worker"], c) = LastOfWorker + 1
<1>1. NextFrame[c] = First(end["worker"], handler["worker"], wire["worker"], c) /\ LastOfWorker \in Nat
  BY FlowFacts
<1>2. NextFrame[c] \in {0, 1, LastOfWorker + 1}
  BY DEF FlowInv, TalkInv, TalkOk
<1> QED BY <1>1, <1>2

\* The worker's place after it sent a request.
LEMMA AskOk ==
  ASSUME NEW x \in WorkerType, NEW e \in EndpointType, WorkerOk(x, e), x.ask = "none", x.pc # "off", NEW k \in Request,
         k = "model" => x.pc \in {"run", "exec"}, k # "model" => k = AskOf(x) /\ ~(x.pc = "exec" /\ x.doomed),
         x.pc = "hello" => k = "hello",
         NEW x2, x2.pc = x.pc, x2.ask = k, x2.seq = e.seq + 1, x2.doomed = x.doomed, x2.reported = x.reported,
         NEW e2, e2.seq = e.seq + 1
  PROVE  WorkerOk(x2, e2)
<1>1. AskOf(x2) = AskOf(x)
  BY DEF AskOf
<1>2. k # "none"
  BY DEF Request
<1>3. x2.pc # "off" /\ x2.ask # "none" /\ x2.seq = e2.seq
  BY <1>2
<1>4. x2.pc = "hello" => x2.ask = "hello" /\ e2.seq = 1
  BY DEF WorkerOk
<1>5. x2.ask = "model" => x2.pc \in {"run", "exec", "begin", "terminal"}
  OBVIOUS
<1>6. x2.doomed => x2.pc = "exec" /\ x2.ask \in {"none", "model"}
  BY DEF WorkerOk
<1>7. x2.reported => x2.pc = "bye"
  BY DEF WorkerOk
<1> QED BY <1>1, <1>3, <1>4, <1>5, <1>6, <1>7 DEF WorkerOk

LEMMA FlowAsk == ASSUME BaseInv, BaseInv', FlowInv, NEW k \in Request, Ask(k) PROVE FlowInv'
<1>1. /\ end["worker"].state = "open" /\ w.ask = "none" /\ k \in Askable /\ Sends("worker", k, 0)
      /\ inbox' = inbox /\ misread' = misread /\ KeepHost
  BY DEF Ask, Opened
<1>2. w \in WorkerType /\ w.pc # "off"
  BY <1>1 DEF BaseInv, RestOk, OpenInv
<1>3. PICK m : m = Sealed("worker", k, 0)
  OBVIOUS
<1>4. /\ m.seq = end["worker"].seq + 1 /\ m.conn = end["worker"].conn /\ m.kind = k
  BY <1>3 DEF Sealed, Message
<1>5. m \in Frame("worker") /\ m \in Sent("worker")
  <2>1. end["worker"].seq + 1 \in Nat \ {0} /\ end["worker"].conn \in Conn
    BY BaseFacts, SideNames DEF EndpointType
  <2> QED BY <1>3, <2>1 DEF Sealed, Message, Frame, FrameKind, Sent
<1>6. /\ end'["worker"] = [end["worker"] EXCEPT !.seq = end["worker"].seq + 1] /\ end'["host"] = end["host"]
      /\ wire'["worker"][end["worker"].conn] = IF Reaches("worker", wire["worker"][end["worker"].conn])
                    THEN Append(wire["worker"][end["worker"].conn], m) ELSE wire["worker"][end["worker"].conn]
      /\ \A t \in Side : \A d \in Conn : <<t, d>> # <<"worker", end["worker"].conn>> => wire'[t][d] = wire[t][d]
  <2>1. k \in FrameKind("worker") /\ 0 \in Nat /\ TypeInv
    BY BaseFacts, SideNames DEF FrameKind
  <2> QED BY <1>1, <1>3, <2>1, SendsEffect, SideNames
<1>7. PICK e : e = end["worker"]
  OBVIOUS
<1>8. PICK e2 : e2 = end'["worker"]
  OBVIOUS
<1>9. PICK wr : wr = wire["worker"]
  OBVIOUS
<1>10. PICK wr2 : wr2 = wire'["worker"]
  OBVIOUS
<1>11. PICK hd : hd = handler["worker"]
  OBVIOUS
<1>12. /\ e \in EndpointType /\ wr \in Wires /\ hd \in [Conn -> BOOLEAN] /\ wr2 \in Wires /\ e2 \in EndpointType
       /\ \A c \in Conn : wr[c] \in Seq(Sent("worker"))
  <2>1. end'["worker"] \in EndpointType /\ wire'["worker"] \in Wires
    BY SideNames DEF BaseInv, NetOk, EndType, EndpointType, QueueOk, Wires
  <2> QED BY <1>7, <1>8, <1>9, <1>10, <1>11, <2>1, BaseFacts, SideNames
<1>13. e2.conn = e.conn /\ e2.state = "open" /\ e.state = "open" /\ e2.seq = e.seq + 1 /\ e.seq \in Nat /\ e.conn \in Conn
  BY <1>1, <1>6, <1>7, <1>8, <1>12 DEF EndpointType
<1>34. PICK go : go = Reaches("worker", wr[e.conn])
  OBVIOUS
<1>14. /\ wr2[e.conn] = IF go THEN Append(wr[e.conn], m) ELSE wr[e.conn]
       /\ \A d \in Conn : d # e.conn => wr2[d] = wr[d]
       /\ go => hd[e.conn]
       /\ ~go => ~hd[e.conn] \/ (wr[e.conn] # << >> /\ wr[e.conn][Len(wr[e.conn])].seq = 0)
  BY <1>6, <1>7, <1>9, <1>10, <1>11, <1>13, <1>34, SideNames, ReachesFacts
<1>15. LaneOk(e, hd, wr) /\ LaneRise(e, wr) /\ WorkerOk(w, e)
  BY <1>7, <1>9, <1>11 DEF FlowInv, LaneInv
<1>16. w.pc = "hello" => e.seq = 0
  BY <1>1, <1>15 DEF WorkerOk
<1>17. (k = "hello" => w.pc = "hello") /\ (w.pc = "hello" => k = "hello")
       /\ (k = "model" => w.pc \in {"run", "exec"}) /\ (k # "model" => k = AskOf(w) /\ ~(w.pc = "exec" /\ w.doomed))
  BY <1>1, <1>2, AskableFacts
<1>18. m.seq = e.seq + 1 /\ m.conn = e.conn /\ m \in MessageType /\ m.seq # 0
  <2>1. m \in MessageType
    BY <1>5, SentFacts, SideNames
  <2> QED BY <1>4, <1>7, <1>13, <2>1
<1>19. LaneOk(e2, hd, wr2) /\ \A c \in Conn : First(e2, hd, wr2, c) \in {First(e, hd, wr, c), 0}
  BY <1>12, <1>13, <1>14, <1>15, <1>18, LaneAppend
<1>20. /\ LaneRise(e2, wr2) /\ \A c \in Conn : Items(wr2[c]) \subseteq Items(wr[c]) \cup {m}
       /\ \/ Going(e2, hd, wr2) \subseteq Going(e, hd, wr)
          \/ /\ First(e, hd, wr, e.conn) > 1 /\ First(e, hd, wr, e.conn) <= m.seq
             /\ Going(e2, hd, wr2) \subseteq Going(e, hd, wr) \cup {m}
  <2>1. m.kind = "hello" => m.seq = 1
    BY <1>4, <1>16, <1>17, <1>18
  <2>2. \A c \in Conn : First(e2, hd, wr2, c) \in {First(e, hd, wr, c), 0}
    BY <1>19
  <2>3. e2.conn = e.conn /\ e.state = "open" /\ e2.seq = e.seq + 1 /\ m.seq = e.seq + 1
    BY <1>13, <1>18
  <2>4. LaneOk(e, hd, wr) /\ LaneRise(e, wr)
    BY <1>15
  <2>5. Asking(e, hd, wr, e2, wr2, m)
    BY <1>5, <1>12, <1>14, <2>1, <2>2, <2>3, <2>4 DEF Asking
  <2> QED BY <2>5, LaneAsks
<1>21. handler' = handler /\ HostStays
  BY <1>1, <1>6, <1>13, <1>7, SideNames DEF HostStays, KeepHost, relay
<1>22. LaneInv'
  BY <1>8, <1>10, <1>11, <1>19, <1>20, <1>21 DEF LaneInv
<1>23. /\ w'.ask = k /\ w'.seq = e.seq + 1 /\ w'.pc = w.pc /\ w'.doomed = w.doomed /\ w'.reported = w.reported
  BY <1>2, <1>7 DEF Ask, WorkerType
<1>24. WorkerOk(w', e2)
  BY <1>1, <1>2, <1>12, <1>13, <1>15, <1>17, <1>23, AskOk
<1>25. ~Started(w) => m.seq = 1
  BY <1>2, <1>16, <1>18 DEF Started
<1>26. PipeOk(Items(inbox["worker"]), HostWires, Pending, Items(inbox["host"]), UnderWay, LastOfWorker, w, e, recorded)
  BY <1>7 DEF FlowInv, PipeInv
<1>27. UnderWay' \subseteq UnderWay \/ (Started(w) /\ LastOfWorker < m.seq /\ UnderWay' \subseteq UnderWay \cup {m})
  <2>1. UnderWay = Going(e, hd, wr) /\ UnderWay' = Going(e2, hd, wr2)
    BY <1>7, <1>8, <1>9, <1>10, <1>11, <1>21 DEF UnderWay
  <2>2. ASSUME First(e, hd, wr, e.conn) > 1, First(e, hd, wr, e.conn) <= m.seq
        PROVE  Started(w) /\ LastOfWorker < m.seq
    <3>1. First(e, hd, wr, e.conn) = LastOfWorker + 1 /\ LastOfWorker \in Nat
      BY <1>7, <1>9, <1>11, <1>13, <2>2, GoesOn, FlowFacts
    <3>2. m.seq > 1
      BY <1>13, <1>18, <2>2, <3>1
    <3> QED BY <1>13, <1>18, <1>25, <2>2, <3>1, <3>2
  <2> QED BY <1>20, <2>1, <2>2
<1>28. PipeOk(Items(inbox["worker"]), HostWires, Pending, Items(inbox["host"]), UnderWay', LastOfWorker, w', e2, recorded)
  <2>1. PICK a : a = Items(inbox["worker"])
    OBVIOUS
  <2>2. PICK b : b = HostWires
    OBVIOUS
  <2>3. PICK n : n = Pending
    OBVIOUS
  <2>4. PICK i : i = Items(inbox["host"])
    OBVIOUS
  <2>5. PICK o : o = UnderWay
    OBVIOUS
  <2>6. PICK o2 : o2 = UnderWay'
    OBVIOUS
  <2>7. PICK last : last = LastOfWorker
    OBVIOUS
  <2>8. PICK x2 : x2 = w'
    OBVIOUS
  <2>9. /\ a \in Replies /\ b \in [Conn -> Replies] /\ n \in SUBSET Nat /\ i \in Requests /\ o \in Requests /\ last \in Nat
    BY <2>1, <2>2, <2>3, <2>4, <2>5, <2>7, FlowFacts
  <2>10. PipeOk(a, b, n, i, o, last, w, e, recorded)
    BY <1>26, <2>1, <2>2, <2>3, <2>4, <2>5, <2>7
  <2>11. o2 \subseteq o \/ (Started(w) /\ last < m.seq /\ o2 \subseteq o \cup {m})
    BY <1>27, <2>5, <2>6, <2>7
  <2>12. Started(w) => m.kind # "hello"
    BY <1>4, <1>17 DEF Started
  <2>13. x2.ask = m.kind /\ x2.seq = m.seq /\ x2.pc = w.pc /\ x2.doomed = w.doomed
    BY <1>4, <1>18, <1>23, <2>8
  <2>14. PipeOk(a, b, n, i, o2, last, x2, e2, recorded)
    BY <1>1, <1>5, <1>12, <1>13, <1>18, <2>9, <2>10, <2>11, <2>12, <2>13, PipeAsks
  <2> QED BY <2>1, <2>2, <2>3, <2>4, <2>6, <2>7, <2>8, <2>14
<1>29. PipeInv'
  BY <1>1, <1>8, <1>21, <1>28, HostKept DEF PipeInv, HostStays, KeepHost
<1>30. WorkerOk(w, end["worker"])' /\ Heard'
  BY <1>1, <1>8, <1>23, <1>24 DEF Heard, FlowInv, KeepHost
<1>31. \A c \in Conn : First(end["worker"], handler["worker"], wire["worker"], c)' \in
                           {First(end["worker"], handler["worker"], wire["worker"], c), 0, 1}
  BY <1>7, <1>8, <1>9, <1>10, <1>11, <1>19, <1>21
<1>32. Thins("host", inbox'["worker"], inbox["worker"])
  BY <1>1, ThinSame
<1>33. LastOfWorker = 0 => \A c \in Conn : \A y \in Items(wire'["worker"][c]) : y \in Items(wire["worker"][c]) \/ y.seq = 1
  <2>1. LastOfWorker = 0 => m.seq = 1
    BY <1>25, <1>26 DEF PipeOk
  <2> QED BY <1>9, <1>10, <1>20, <2>1
<1> QED BY <1>21, <1>22, <1>29, <1>30, <1>31, <1>32, <1>33, FlowWorker

\* A step of the worker that sends nothing.
LEMMA FlowRests ==
  ASSUME BaseInv, BaseInv', FlowInv, KeepHost, end' = end, wire' = wire, inbox'["host"] = inbox["host"],
         Thins("host", inbox'["worker"], inbox["worker"]), WorkerOk(w', end["worker"]),
         misread' \subseteq {"model", "begin", "chunk"}, w'.reported => recorded,
         PipeOk(Items(inbox'["worker"]), HostWires, Pending, Items(inbox["host"]), UnderWay, LastOfWorker, w',
                end["worker"], recorded)
  PROVE  FlowInv'
<1>1. HostStays /\ handler' = handler /\ recorded' = recorded
  BY DEF HostStays, KeepHost, relay
<1>2. LaneInv'
  BY <1>1 DEF LaneInv, FlowInv
<1>3. \A c \in Conn : First(end["worker"], handler["worker"], wire["worker"], c)' \in
                          {First(end["worker"], handler["worker"], wire["worker"], c), 0, 1}
  BY <1>1
<1>4. UnderWay' = UnderWay
  BY <1>1 DEF UnderWay
<1>5. PipeInv'
  BY <1>1, <1>4, HostKept DEF PipeInv
<1>6. WorkerOk(w, end["worker"])' /\ Heard'
  BY <1>1 DEF Heard
<1> QED BY <1>1, <1>2, <1>3, <1>5, <1>6, FlowWorker

LEMMA PlacesOfWorker ==
  ASSUME NEW x \in WorkerType
  PROVE  /\ x.pc \in {"off", "hello", "lease", "ack", "prep", "poll", "run", "exec", "begin", "chunk", "final",
                      "terminal", "report", "result", "bye"}
         /\ x.ask \in Request \cup {"none"} /\ x.doomed \in BOOLEAN /\ x.reported \in BOOLEAN
BY DEF WorkerType

\* What a refused model call or a lost heartbeat leaves can still come.
LEMMA FailOk ==
  ASSUME NEW x \in WorkerType, NEW e, WorkerOk(x, e), x.pc # "off",
         NEW x2, \/ x.ask = "model" /\ x2 = [x EXCEPT !.ask = "none"]
                 \/ x.ask = "beat" /\ x.pc = "exec" /\ x2 = [x EXCEPT !.ask = "none", !.doomed = TRUE]
  PROVE  /\ Started(x) /\ x2.ask = "none" /\ x2.pc = x.pc /\ x2.reported = x.reported /\ WorkerOk(x2, e)
         /\ \A n, j : Fits(x, n, j) => Fits(x2, n, j)
<1>1. /\ x2.ask = "none" /\ x2.pc = x.pc /\ x2.reported = x.reported
      /\ x2.doomed = (x.doomed \/ x.ask = "beat")
  BY DEF WorkerType
<1>2. Started(x) /\ (x.ask = "model" => x.pc \in {"run", "exec", "begin", "terminal"}) /\ (x.ask = "beat" => x.pc = "exec")
  BY PlacesOfWorker DEF WorkerOk, Started
<1>3. WorkerOk(x2, e)
  <2>1. x2.doomed => x2.pc = "exec"
    BY <1>1, <1>2 DEF WorkerOk
  <2>2. x2.pc # "off" /\ x2.pc # "hello"
    BY <1>1, <1>2 DEF Started
  <2>3. x2.reported => x2.pc = "bye"
    BY <1>1 DEF WorkerOk
  <2> QED BY <1>1, <2>1, <2>2, <2>3 DEF WorkerOk
<1>4. x.ask \in Late(x2)
  <2>1. CASE x.ask = "model"
    BY <1>1, <1>2, <2>1 DEF Late, Request
  <2>2. CASE x.ask = "beat"
    BY <1>1, <1>2, <2>2 DEF Late, Request
  <2> QED BY <2>1, <2>2
<1>5. Late(x) \subseteq Late(x2)
  <2>1. CASE x.ask = "model"
    BY <1>1, <1>2, <2>1 DEF Late
  <2>2. CASE x.ask = "beat"
    <3>1. x.pc = "exec" /\ x2.pc = "exec" /\ x2.doomed
      BY <1>1, <1>2, <2>2
    <3>2. Late(x2) = Request \ {"hello"} /\ Late(x) \subseteq Request \ {"hello"}
      BY <3>1 DEF Late, Request
    <3> QED BY <3>2
  <2> QED BY <2>1, <2>2
<1> QED BY <1>1, <1>2, <1>3, <1>4, <1>5 DEF Fits

LEMMA FlowFails ==
  ASSUME BaseInv, BaseInv', FlowInv, Opened("worker"), Fails, KeepHost, misread' = misread,
         w'.pc # "off" => inbox'["host"] = inbox["host"] /\ Thins("host", inbox'["worker"], inbox["worker"])
  PROVE  FlowInv'
<1>1. w \in WorkerType /\ w.pc # "off" /\ WorkerOk(w, end["worker"])
  BY DEF BaseInv, RestOk, OpenInv, FlowInv, Opened
<1>2. misread' \subseteq {"model", "begin", "chunk"}
  BY DEF FlowInv, Heard
<1>3. CASE /\ \/ w.ask = "model" /\ w' = [w EXCEPT !.ask = "none"]
              \/ w.ask = "beat" /\ w.pc = "exec" /\ w' = [w EXCEPT !.ask = "none", !.doomed = TRUE]
           /\ end' = end /\ wire' = wire
  <2>1. /\ Started(w) /\ w'.ask = "none" /\ w'.pc = w.pc /\ w'.reported = w.reported /\ WorkerOk(w', end["worker"])
        /\ \A n, j : Fits(w, n, j) => Fits(w', n, j)
    BY <1>1, <1>3, FailOk
  <2>2. PipeOk(Items(inbox["worker"]), HostWires, Pending, Items(inbox["host"]), UnderWay, LastOfWorker, w,
               end["worker"], recorded)
    BY DEF FlowInv, PipeInv
  <2>3. Items(inbox'["worker"]) \subseteq Items(inbox["worker"])
    BY <1>1, <2>1 DEF Thins
  <2>4. PipeOk(Items(inbox'["worker"]), HostWires, Pending, Items(inbox["host"]), UnderWay, LastOfWorker, w',
               end["worker"], recorded)
    BY <2>1, <2>2, <2>3, PipeGoesOn
  <2>5. w'.reported => recorded
    BY <2>1 DEF FlowInv, Heard
  <2> QED BY <1>1, <1>2, <1>3, <2>1, <2>4, <2>5, FlowRests
<1>4. CASE w' = Off /\ Closes("worker")
  BY <1>2, <1>4, FlowWorkerCloses
<1> QED BY <1>3, <1>4 DEF Fails

LEMMA FlowWorkerTimesOut == ASSUME BaseInv, BaseInv', FlowInv, WorkerTimesOut PROVE FlowInv'
<1>1. /\ Opened("worker") /\ Fails /\ KeepHost /\ misread' = misread /\ (w'.pc # "off" => inbox' = inbox)
  BY DEF WorkerTimesOut
<1>2. w'.pc # "off" => inbox'["host"] = inbox["host"] /\ Thins("host", inbox'["worker"], inbox["worker"])
  BY <1>1, ThinSame
<1> QED BY <1>1, <1>2, FlowFails

LEMMA FlowExecutionEnds == ASSUME BaseInv, BaseInv', FlowInv, ExecutionEnds PROVE FlowInv'
<1>1. w.pc = "exec" /\ w.ask \in {"none", "model"} /\ misread' = misread /\ KeepHost
  BY DEF ExecutionEnds
<1>2. misread' \subseteq {"model", "begin", "chunk"} /\ WorkerOk(w, end["worker"]) /\ w \in WorkerType
  BY <1>1 DEF FlowInv, Heard, BaseInv, RestOk
<1>3. CASE w' = Off /\ Closes("worker")
  BY <1>1, <1>2, <1>3, FlowWorkerCloses
<1>4. CASE ~w.doomed /\ (\E pc \in {"begin", "terminal"} : w' = [w EXCEPT !.pc = pc]) /\ UNCHANGED <<end, wire, inbox>>
  <2>1. w'.pc \in {"begin", "terminal"} /\ w'.ask = w.ask /\ w'.seq = w.seq /\ w'.doomed = w.doomed /\ w'.reported = w.reported
    BY <1>2, <1>4 DEF WorkerType
  <2>2. ~w.reported /\ Started(w)
    BY <1>1, <1>2 DEF WorkerOk, Started
  <2>3. WorkerOk(w', end["worker"])
    BY <1>1, <1>2, <1>4, <2>1, <2>2 DEF WorkerOk
  <2>4. Late(w) = {"model"} /\ Late(w') = {"model"}
    BY <1>1, <1>4, <2>1 DEF Late
  <2>5. \A n, j : Fits(w, n, j) => Fits(w', n, j)
    BY <2>1, <2>4 DEF Fits
  <2>6. PipeOk(Items(inbox["worker"]), HostWires, Pending, Items(inbox["host"]), UnderWay, LastOfWorker, w,
               end["worker"], recorded)
    BY DEF FlowInv, PipeInv
  <2>7. Items(inbox'["worker"]) \subseteq Items(inbox["worker"]) /\ w'.ask # "terminal"
    BY <1>1, <1>4, <2>1
  <2>8. PipeOk(Items(inbox'["worker"]), HostWires, Pending, Items(inbox["host"]), UnderWay, LastOfWorker, w',
               end["worker"], recorded)
    BY <2>2, <2>5, <2>6, <2>7, PipeGoesOn
  <2>9. Thins("host", inbox'["worker"], inbox["worker"])
    BY <1>4, ThinSame
  <2> QED BY <1>1, <1>2, <1>4, <2>1, <2>2, <2>3, <2>8, <2>9, FlowRests
<1> QED BY <1>3, <1>4 DEF ExecutionEnds

\* The worker waits for this answer, or it came late and could be taken for it.
LEMMA HeardOk ==
  ASSUME NEW x \in WorkerType, NEW e, WorkerOk(x, e), Started(x), x.ask # "none",
         NEW n, n # x.seq, NEW y, FitsAnswer(x, n, y), x.ask \in Checked => y \in Answers(x.ask)
  PROVE  x.ask \in {"model", "begin", "chunk"}
<1>1. PICK k \in Request : y \in Answers(k) /\ k \in Late(x)
  BY DEF FitsAnswer, Fits
<1>2. CASE x.ask = "model"
  BY <1>2
<1>3. CASE x.ask # "model"
  <2>1. x.ask = AskOf(x) /\ ~x.doomed
    BY <1>3 DEF WorkerOk
  <2>2. x.pc \in {"run", "terminal", "begin", "exec", "chunk", "final"}
    BY <1>1, PlacesOfWorker DEF Late, Started
  <2>3. CASE x.pc \in {"begin", "chunk"}
    BY <2>1, <2>3 DEF AskOf
  <2>4. CASE x.pc \in {"run", "terminal", "exec"}
    <3>1. y = "result"
      BY <1>1, <2>1, <2>4 DEF Late, Answers
    <3>2. x.ask \in {"event", "terminal", "beat"}
      BY <2>1, <2>4 DEF AskOf
    <3> QED BY <3>1, <3>2 DEF Checked, Answers
  <2>5. CASE x.pc = "final"
    <3>1. y \in {"result", "begun", "stored"}
      BY <1>1, <2>1, <2>5 DEF Late, Answers
    <3>2. x.ask = "final"
      BY <2>1, <2>5 DEF AskOf
    <3> QED BY <3>1, <3>2 DEF Checked, Answers
  <2> QED BY <2>2, <2>3, <2>4, <2>5
<1> QED BY <1>2, <1>3

\* Where the worker goes on after the answer.
LEMMA AfterOk ==
  ASSUME w.pc # "off", w \in WorkerType, NEW e, WorkerOk(w, e), w.ask # "none", NEW m, NEW pc \in After(m), pc # "off",
         NEW x2, x2 = [w EXCEPT !.pc = pc, !.ask = "none", !.reported = @ \/ w.ask = "terminal"]
  PROVE  /\ WorkerOk(x2, e) /\ x2.ask = "none" /\ (x2.reported => w.ask = "terminal")
         /\ w.ask \in {"model", "begin", "chunk"} => Started(w) /\ \A n, j : Fits(w, n, j) => Fits(x2, n, j)
<1>1. /\ x2.pc = pc /\ x2.ask = "none" /\ x2.doomed = w.doomed /\ x2.reported = (w.reported \/ w.ask = "terminal")
  BY DEF WorkerType
<1>2. /\ w.pc \in {"hello", "lease", "ack", "prep", "poll", "run", "exec", "begin", "chunk", "final",
                   "terminal", "report", "result", "bye"}
      /\ w.ask \in Request /\ w.doomed \in BOOLEAN /\ w.reported \in BOOLEAN
  BY PlacesOfWorker
<1>3. CASE w.ask = "model"
  <2>1. pc = w.pc /\ w.pc \in {"run", "exec", "begin", "terminal"} /\ ~w.reported
    BY <1>3 DEF After, WorkerOk
  <2>2. WorkerOk(x2, e)
    BY <1>1, <1>3, <2>1 DEF WorkerOk
  <2>3. Late(x2) = Late(w) /\ "model" \in Late(w)
    BY <1>1, <2>1 DEF Late, Request
  <2>4. Started(w)
    BY <2>1 DEF Started
  <2> QED BY <1>1, <1>3, <2>1, <2>2, <2>3, <2>4 DEF Fits
<1>4. CASE w.ask # "model"
  <2>1. w.ask = AskOf(w) /\ ~w.doomed
    BY <1>4 DEF WorkerOk
  <2>2. pc # "hello"
    BY <1>2, <1>4 DEF After, AppliesDirective
  <2>3. ~w.reported
    <3>1. w.pc = "bye" => pc = "off"
      BY <1>4 DEF After
    <3> QED BY <3>1 DEF WorkerOk
  <2>4. w.ask = "terminal" => pc = "bye"
    <3>1. w.ask = "terminal" => w.pc = "terminal"
      BY <1>2, <2>1 DEF AskOf
    <3> QED BY <1>4, <3>1 DEF After
  <2>5. WorkerOk(x2, e)
    BY <1>1, <2>1, <2>2, <2>3, <2>4 DEF WorkerOk
  <2>6. CASE w.ask = "begin"
    <3>1. w.pc = "begin" /\ pc = "chunk"
      BY <1>2, <1>4, <2>1, <2>6 DEF AskOf, After
    <3>2. Late(w) = {"model"} /\ Late(x2) = {"model", "begin"} /\ Started(w)
      BY <1>1, <3>1 DEF Late, Started
    <3> QED BY <1>1, <2>3, <2>5, <2>6, <3>2 DEF Fits
  <2>7. CASE w.ask = "chunk"
    <3>1. w.pc = "chunk" /\ pc = "final"
      BY <1>2, <1>4, <2>1, <2>7 DEF AskOf, After
    <3>2. Late(w) = {"model", "begin"} /\ Late(x2) = {"model", "begin", "chunk"} /\ Started(w)
      BY <1>1, <3>1 DEF Late, Started
    <3> QED BY <1>1, <2>3, <2>5, <2>7, <3>2 DEF Fits
  <2>8. CASE w.ask \notin {"model", "begin", "chunk"}
    BY <1>1, <2>3, <2>5, <2>8
  <2> QED BY <1>4, <2>6, <2>7, <2>8
<1> QED BY <1>3, <1>4

LEMMA FlowHear == ASSUME BaseInv, BaseInv', FlowInv, Hear PROVE FlowInv'
<1>1. PICK m : m = Head(inbox["worker"])
  OBVIOUS
<1>2. /\ Opened("worker") /\ w.ask # "none" /\ inbox["worker"] # << >> /\ KeepHost
  BY DEF Hear
<1>3. w \in WorkerType /\ w.pc # "off" /\ WorkerOk(w, end["worker"]) /\ Heard
  BY <1>2 DEF BaseInv, RestOk, OpenInv, FlowInv, Opened
<1>4. PICK q : q = inbox["worker"]
  OBVIOUS
<1>5. q \in Seq(Sent("host")) /\ q # << >> /\ m = q[1] /\ m \in Sent("host")
  <2>1. q \in Seq(Sent("host"))
    BY <1>4, BaseFacts, SideNames
  <2> QED BY <1>1, <1>2, <1>4, <2>1, QueueFacts
<1>6. CASE /\ Fails /\ misread' = misread
           /\ w'.pc # "off" => inbox' = [inbox EXCEPT !["worker"] = IF m.kind = "eof" THEN @ ELSE Tail(@)]
  <2>1. ASSUME w'.pc # "off"
        PROVE  inbox'["host"] = inbox["host"] /\ Thins("host", inbox'["worker"], inbox["worker"])
    <3>1. inbox'["host"] = inbox["host"] /\ inbox'["worker"] = IF m.kind = "eof" THEN inbox["worker"] ELSE Tail(inbox["worker"])
      BY <1>2, <1>6, <2>1, HearRest
    <3>2. Thins("host", Tail(q), q)
      BY <1>5, ThinTail
    <3> QED BY <1>4, <3>1, <3>2, ThinSame
  <2> QED BY <1>2, <1>6, <2>1, FlowFails
<1>7. ASSUME m.seq # 0, w.ask \in Checked => m.kind \in Answers(w.ask),
             misread' = misread \cup (IF m.re # w.seq THEN {w.ask} ELSE {}),
             NEW pc \in After(m),
             IF pc = "off" THEN w' = Off /\ Closes("worker")
             ELSE /\ w' = [w EXCEPT !.pc = pc, !.ask = "none", !.reported = @ \/ w.ask = "terminal"]
                  /\ inbox' = [inbox EXCEPT !["worker"] = IF m.kind = "eof" THEN @ ELSE Tail(@)]
                  /\ UNCHANGED <<end, wire>>
      PROVE  FlowInv'
  <2>1. m \in Frame("host") /\ m \in Items(q) /\ m.kind # "eof"
    <3>1. m \in Frame("host") /\ m \in Items(q)
      BY <1>5, <1>7, SentFacts, ItemsFacts, SideNames
    <3>2. m.kind \in Answer
      BY <3>1 DEF Frame, FrameKind
    <3> QED BY <3>1, <3>2, AnswerKinds
  <2>2. PipeOk(Items(q), HostWires, Pending, Items(inbox["host"]), UnderWay, LastOfWorker, w, end["worker"], recorded)
    BY <1>4 DEF FlowInv, PipeInv
  <2>3. m \in Back(Items(q), HostWires) /\ m \in All(Items(q), HostWires, Items(inbox["host"]), UnderWay)
    BY <2>1 DEF Back, All
  <2>4. /\ misread' \subseteq {"model", "begin", "chunk"} /\ (w.ask = "terminal" => recorded)
        /\ m.re # w.seq => Started(w) /\ w.ask \in {"model", "begin", "chunk"}
        /\ m.re = w.seq => (Started(w) /\ m.re = end["worker"].seq) \/ m.kind = "ready"
    <3>1. CASE Started(w)
      <4>1. Fitting(Items(q), HostWires, Pending, Items(inbox["host"]), UnderWay, w, end["worker"], recorded)
        BY <2>2, <3>1 DEF PipeOk
      <4>2. FitsAnswer(w, m.re, m.kind) /\ (w.ask = "terminal" /\ m.re = w.seq => recorded)
        BY <2>3, <4>1 DEF Fitting
      <4>3. m.re # w.seq => w.ask \in {"model", "begin", "chunk"}
        BY <1>2, <1>3, <1>7, <3>1, <4>2, HeardOk
      <4>4. misread' \subseteq {"model", "begin", "chunk"} /\ (w.ask = "terminal" => recorded)
        BY <1>3, <1>7, <4>2, <4>3 DEF Heard
      <4>5. m.re = w.seq => m.re = end["worker"].seq
        BY <1>2, <1>3 DEF WorkerOk
      <4> QED BY <3>1, <4>3, <4>4, <4>5
    <3>2. CASE ~Started(w)
      <4>1. w.pc = "hello" /\ w.ask = "hello" /\ w.seq = 1
        BY <1>2, <1>3, <3>2 DEF WorkerOk, Started
      <4>2. m.kind = "ready"
        BY <1>7, <4>1 DEF Checked, Answers
      <4>3. m.re = 1
        BY <2>2, <2>3, <4>2 DEF PipeOk, Alone
      <4> QED BY <1>3, <1>7, <4>1, <4>2, <4>3 DEF Heard
    <3> QED BY <3>1, <3>2
  <2>5. CASE pc = "off"
    BY <1>2, <1>7, <2>4, <2>5, FlowWorkerCloses
  <2>6. CASE pc # "off"
    <3>1. w' = [w EXCEPT !.pc = pc, !.ask = "none", !.reported = @ \/ w.ask = "terminal"] /\ end' = end /\ wire' = wire
      BY <1>7, <2>6
    <3>2. inbox'["host"] = inbox["host"] /\ inbox'["worker"] = Tail(q)
      <4>1. inbox' = [inbox EXCEPT !["worker"] = IF m.kind = "eof" THEN @ ELSE Tail(@)]
        BY <1>7, <2>6
      <4> QED BY <1>2, <1>4, <2>1, <4>1, HearRest
    <3>3. PICK r : r = Tail(q)
      OBVIOUS
    <3>4. Rising("host", q)
      BY <1>4 DEF FlowInv, RiseInv
    <3>5. Thins("host", r, q) /\ Items(r) \subseteq Items(q) /\ \A z \in Items(r) : m.re < z.re
      <4>1. Thins("host", r, q)
        BY <1>5, <3>3, ThinTail
      <4>2. \A z \in Items(r) : Number("host", m) < Number("host", z)
        BY <1>5, <1>7, <3>3, <3>4, ItemsTail
      <4> QED BY <4>1, <4>2 DEF Thins, Number
    <3>6. /\ WorkerOk(w', end["worker"]) /\ w'.ask = "none" /\ (w'.reported => w.ask = "terminal")
          /\ w.ask \in {"model", "begin", "chunk"} => \A n, j : Fits(w, n, j) => Fits(w', n, j)
      BY <1>2, <1>3, <1>7, <2>6, <3>1, AfterOk
    <3>7. PipeOk(Items(r), HostWires, Pending, Items(inbox["host"]), UnderWay, LastOfWorker, w',
                 end["worker"], recorded)
      <4>1. CASE m.re # w.seq
        BY <2>2, <2>4, <3>5, <3>6, <4>1, PipeGoesOn
      <4>2. CASE m.re = w.seq
        <5>1. (Started(w) /\ m.re = end["worker"].seq) \/ m.kind = "ready"
          BY <2>4, <4>2
        <5>2. Items(q) \in Replies /\ end["worker"] \in EndpointType
          BY <1>4, FlowFacts, BaseFacts, SideNames
        <5> QED BY <2>1, <2>2, <3>5, <5>1, <5>2, FlowFacts, PipeNow
      <4> QED BY <4>1, <4>2
    <3> QED BY <1>2, <2>4, <3>1, <3>2, <3>3, <3>5, <3>6, <3>7, <1>4, FlowRests
  <2> QED BY <2>5, <2>6
<1>8. CASE /\ m.seq # 0 /\ (w.ask \in Checked => m.kind \in Answers(w.ask))
           /\ misread' = misread \cup (IF m.re # w.seq THEN {w.ask} ELSE {})
           /\ \E pc \in After(m) :
                IF pc = "off" THEN w' = Off /\ Closes("worker")
                ELSE /\ w' = [w EXCEPT !.pc = pc, !.ask = "none", !.reported = @ \/ w.ask = "terminal"]
                     /\ inbox' = [inbox EXCEPT !["worker"] = IF m.kind = "eof" THEN @ ELSE Tail(@)]
                     /\ UNCHANGED <<end, wire>>
  BY <1>7, <1>8
<1> QED BY <1>1, <1>6, <1>8 DEF Hear, Opens

\* A job that is over before its process was started.
LEMMA FlowNeverStarts == ASSUME BaseInv, BaseInv', FlowInv, NeverStarts PROVE FlowInv'
<1>1. w.pc = "run" /\ w.ask = "none" /\ misread' = misread /\ KeepHost
  BY DEF NeverStarts
<1>2. misread' \subseteq {"model", "begin", "chunk"} /\ WorkerOk(w, end["worker"]) /\ w \in WorkerType
  BY <1>1 DEF FlowInv, Heard, BaseInv, RestOk
<1>3. CASE w' = Off /\ Closes("worker")
  BY <1>1, <1>2, <1>3, FlowWorkerCloses
<1>4. CASE w' = [w EXCEPT !.pc = "terminal"] /\ UNCHANGED <<end, wire, inbox>>
  <2>1. w'.pc = "terminal" /\ w'.ask = "none" /\ w'.seq = w.seq /\ w'.doomed = w.doomed /\ w'.reported = w.reported
    BY <1>1, <1>2, <1>4 DEF WorkerType
  <2>2. ~w.reported /\ ~w.doomed /\ Started(w)
    BY <1>1, <1>2 DEF WorkerOk, Started
  <2>3. WorkerOk(w', end["worker"])
    BY <1>1, <1>2, <2>1, <2>2 DEF WorkerOk
  <2>4. Late(w) = {"model"} /\ Late(w') = {"model"}
    BY <1>1, <2>1 DEF Late
  <2>5. \A n, j : Fits(w, n, j) => Fits(w', n, j)
    BY <1>1, <2>1, <2>4 DEF Fits
  <2>6. PipeOk(Items(inbox["worker"]), HostWires, Pending, Items(inbox["host"]), UnderWay, LastOfWorker, w,
               end["worker"], recorded)
    BY DEF FlowInv, PipeInv
  <2>7. Items(inbox'["worker"]) \subseteq Items(inbox["worker"]) /\ w'.ask # "terminal"
    BY <1>4, <2>1
  <2>8. PipeOk(Items(inbox'["worker"]), HostWires, Pending, Items(inbox["host"]), UnderWay, LastOfWorker, w',
               end["worker"], recorded)
    BY <2>2, <2>5, <2>6, <2>7, PipeGoesOn
  <2>9. Thins("host", inbox'["worker"], inbox["worker"])
    BY <1>4, ThinSame
  <2> QED BY <1>1, <1>2, <1>4, <2>1, <2>2, <2>3, <2>8, <2>9, FlowRests
<1> QED BY <1>3, <1>4 DEF NeverStarts

\* The worker's connections lose frames or end.
LEMMA FlowLanes ==
  ASSUME BaseInv, BaseInv', FlowInv, HostStays, end' = end, w' = w, misread' = misread, recorded' = recorded,
         LaneOk(end["worker"], handler'["worker"], wire'["worker"]),
         \A c \in Conn : First(end["worker"], handler'["worker"], wire'["worker"], c) \in
                           {First(end["worker"], handler["worker"], wire["worker"], c), 0, 1},
         \A c \in Conn : Thins("worker", wire'["worker"][c], wire["worker"][c]),
         Thins("host", inbox'["worker"], inbox["worker"])
  PROVE  FlowInv'
<1>1. LaneRise(end["worker"], wire'["worker"])
  <2>1. LaneRise(end["worker"], wire["worker"]) /\ end["worker"] \in EndpointType
    BY BaseFacts, SideNames DEF FlowInv, LaneInv
  <2>2. PICK e : e = end["worker"]
    OBVIOUS
  <2>3. PICK wr : wr = wire["worker"]
    OBVIOUS
  <2>4. PICK wr2 : wr2 = wire'["worker"]
    OBVIOUS
  <2>5. LaneRise(e, wr2)
    <3>1. \A c \in Conn : Thins("worker", wr2[c], wr[c])
      BY <2>3, <2>4
    <3> QED BY <2>1, <2>2, <2>3, <3>1, LaneThins
  <2> QED BY <2>2, <2>4, <2>5
<1>2. LaneInv'
  BY <1>1 DEF LaneInv
<1>3. \A c \in Conn : Items(wire'["worker"][c]) \subseteq Items(wire["worker"][c])
  BY DEF Thins
<1>4. UnderWay' \subseteq UnderWay
  BY <1>3, GoingLess DEF UnderWay
<1>5. PipeOk(Items(inbox["worker"]), HostWires, Pending, Items(inbox["host"]), UnderWay, LastOfWorker, w,
             end["worker"], recorded)
  BY DEF FlowInv, PipeInv
<1>6. PipeOk(Items(inbox'["worker"]), HostWires, Pending, Items(inbox["host"]), UnderWay', LastOfWorker, w,
             end["worker"], recorded)
  <2>1. Items(inbox'["worker"]) \subseteq Items(inbox["worker"])
    BY DEF Thins
  <2> QED BY <1>4, <1>5, <2>1, PipeLess
<1>7. PipeInv'
  BY <1>6, HostKept DEF PipeInv, HostStays
<1>8. WorkerOk(w, end["worker"])' /\ Heard'
  BY DEF FlowInv, Heard
<1>9. \A c \in Conn : First(end["worker"], handler["worker"], wire["worker"], c)' \in
                           {First(end["worker"], handler["worker"], wire["worker"], c), 0, 1}
  OBVIOUS
<1> QED BY <1>2, <1>3, <1>7, <1>8, <1>9, FlowWorker

\* The relay reads a word of the host, or its connection ends.
LEMMA FlowHears ==
  ASSUME BaseInv, BaseInv', FlowInv, WorkerStays, LastOfWorker' = LastOfWorker, recorded' = recorded, end' = end, h' = h,
         Registered' => Registered, inbox'["worker"] = inbox["worker"],
         NEW m \in MessageType, m.seq = 0, inbox'["host"] \in {inbox["host"], Append(inbox["host"], m)},
         \A c \in Conn : Thins("host", wire'["host"][c], wire["host"][c])
  PROVE  FlowInv'
<1>1. TalkOk(NextFrame, LastOfWorker, Registered, inbox["host"], h)
  BY DEF FlowInv, TalkInv
<1>2. PICK q : q = inbox["host"]
  OBVIOUS
<1>3. PICK n : n = NextFrame
  OBVIOUS
<1>4. PICK q2 : q2 = inbox'["host"]
  OBVIOUS
<1>5. PICK reg : reg = Registered
  OBVIOUS
<1>6. PICK reg2 : reg2 = Registered'
  OBVIOUS
<1>7. q \in Seq(MessageType) /\ n \in [Conn -> Nat] /\ q2 \in {q, Append(q, m)} /\ LastOfWorker \in Nat
      /\ (reg2 => reg) /\ TalkOk(n, LastOfWorker, reg, q, h)
  BY <1>1, <1>2, <1>3, <1>4, <1>5, <1>6, FlowFacts, BaseFacts, SideNames
<1>8. TalkOk(n, LastOfWorker, reg2, q, h)
  BY <1>7, TalkLanes
<1>9. TalkOk(n, LastOfWorker, reg2, Append(q, m), h)
  BY <1>7, <1>8, TalkControl
<1>10. TalkOk(NextFrame, LastOfWorker, Registered', inbox'["host"], h')
  BY <1>3, <1>4, <1>6, <1>7, <1>8, <1>9
<1>11. Thins("worker", q2, q)
  BY <1>7, ThinControl, ThinSame
<1>12. Thins("host", inbox'["worker"], inbox["worker"])
  BY ThinSame
<1> QED BY <1>2, <1>4, <1>10, <1>11, <1>12, FlowThins

LEMMA FlowCut == ASSUME BaseInv, BaseInv', FlowInv, NEW s \in Side, Cut(s) PROVE FlowInv'
<1>1. PICK c : c = end[s].conn
  OBVIOUS
<1>2. c \in Conn /\ wire[s][c] \in Seq(Sent(s)) /\ inbox[s] \in Seq(Sent(Peer(s)))
  BY <1>1, BaseFacts DEF EndpointType
<1>3. Eof \in Sent(s) /\ Eof \in Sent(Peer(s)) /\ Eof.seq = 0 /\ Eof.kind = "eof" /\ Eof \in MessageType
  BY EofSent, PeerFacts
<1>4. UNCHANGED <<relay, w, h, misread, recorded>> /\ KeepWorker
  BY DEF Cut, ghosts, KeepWorker
<1>5. PICK q : q = wire[s][c]
  OBVIOUS
<1>6. PICK go : go = Reaches(s, q)
  OBVIOUS
<1>7. PICK q2 : q2 = wire'[s][c]
  OBVIOUS
<1>8. CASE Opened(s)
  <2>1. /\ q2 = (IF go THEN Append(q, Eof) ELSE q) /\ end' = end
        /\ \A t \in Side : \A d \in Conn : <<t, d>> # <<s, c>> => wire'[t][d] = wire[t][d]
        /\ inbox'[s] = Append(inbox[s], Eof) /\ inbox'[Peer(s)] = inbox[Peer(s)]
    BY <1>1, <1>5, <1>6, <1>7, <1>8, CutOpened
  <2>2. Thins(s, q2, q) /\ \A t : Thins(t, inbox'[s], inbox[s])
    BY <1>2, <1>3, <1>5, <2>1, ThinControl, ThinSame
  <2>3. CASE s = "worker"
    <3>1. PICK e : e = end["worker"]
      OBVIOUS
    <3>2. PICK wr : wr = wire["worker"]
      OBVIOUS
    <3>3. PICK wr2 : wr2 = wire'["worker"]
      OBVIOUS
    <3>4. PICK hd : hd = handler["worker"]
      OBVIOUS
    <3>5. /\ e \in EndpointType /\ wr \in Wires /\ hd \in [Conn -> BOOLEAN] /\ wr2 \in Wires
      <4>1. wire'["worker"] \in Wires
        BY SideNames DEF BaseInv, NetOk, EndType, EndpointType, QueueOk, Wires
      <4> QED BY <3>1, <3>2, <3>3, <3>4, <4>1, BaseFacts, SideNames
    <3>6. c = e.conn /\ q = wr[e.conn] /\ q2 = wr2[e.conn]
      BY <1>1, <1>5, <1>7, <2>3, <3>1, <3>2, <3>3
    <3>7. (go => hd[e.conn]) /\ (~go => ~hd[e.conn] \/ (q # << >> /\ q[Len(q)].seq = 0))
      BY <1>1, <1>6, <2>3, <3>1, <3>4, <3>6, ReachesFacts
    <3>8. \A d \in Conn : d # e.conn => wr2[d] = wr[d]
      BY <2>1, <2>3, <3>2, <3>3, <3>6
    <3>9. LaneOk(e, hd, wr)
      BY <3>1, <3>2, <3>4 DEF FlowInv, LaneInv
    <3>10. LaneOk(e, hd, wr2) /\ \A d \in Conn : First(e, hd, wr2, d) \in {First(e, hd, wr, d), 0}
      <4>1. wr2[e.conn] = IF go THEN Append(wr[e.conn], Eof) ELSE wr[e.conn]
        BY <2>1, <3>6
      <4>2. (go => hd[e.conn]) /\ (~go => ~hd[e.conn] \/ (wr[e.conn] # << >> /\ wr[e.conn][Len(wr[e.conn])].seq = 0))
        BY <3>6, <3>7
      <4>3. Eof \in MessageType /\ Eof.seq = 0 /\ Eof.kind = "eof"
        BY <1>3
      <4> QED BY <3>5, <3>8, <3>9, <4>1, <4>2, <4>3, LaneAppend
    <3>11. \A d \in Conn : Thins("worker", wire'["worker"][d], wire["worker"][d])
      <4>1. Thins("worker", wr2[e.conn], wr[e.conn])
        BY <2>2, <2>3, <3>6
      <4> QED BY <3>2, <3>3, <3>8, <4>1, ThinSame
    <3>12. HostStays /\ handler' = handler /\ w' = w /\ misread' = misread /\ recorded' = recorded
      BY <1>4, <2>1, <2>3, SideNames DEF HostStays, relay
    <3>13. LaneOk(end["worker"], handler'["worker"], wire'["worker"])
      BY <3>1, <3>3, <3>4, <3>10, <3>12
    <3>14. \A d \in Conn : First(end["worker"], handler'["worker"], wire'["worker"], d) \in
                             {First(end["worker"], handler["worker"], wire["worker"], d), 0, 1}
      BY <3>1, <3>2, <3>3, <3>4, <3>10, <3>12
    <3> QED BY <2>1, <2>2, <2>3, <3>11, <3>12, <3>13, <3>14, FlowLanes
  <2>4. CASE s = "host"
    <3>1. WorkerStays /\ LastOfWorker' = LastOfWorker /\ recorded' = recorded /\ h' = h /\ (Registered' => Registered)
      BY <1>4, <2>1, <2>4, SideNames DEF WorkerStays, LastOfWorker, Registered, relay
    <3>2. inbox'["worker"] = inbox["worker"] /\ inbox'["host"] = Append(inbox["host"], Eof)
      BY <2>1, <2>4, SideNames
    <3>3. \A d \in Conn : Thins("host", wire'["host"][d], wire["host"][d])
      BY <1>5, <1>7, <2>1, <2>2, <2>4, ThinSame
    <3> QED BY <1>3, <2>1, <3>1, <3>2, <3>3, FlowHears
  <2> QED BY <2>3, <2>4 DEF Side
<1>9. CASE ~Opened(s)
  <2>1. Closes(s) /\ end[s].state # "open"
    BY <1>9 DEF Cut, Closes, Opened
  <2>2. CASE s = "worker"
    <3>1. w' = Off
      BY <1>4, <2>1, <2>2 DEF BaseInv, OpenInv, FlowInv, WorkerOk
    <3>2. misread' \subseteq {"model", "begin", "chunk"}
      BY <1>4 DEF FlowInv, Heard
    <3> QED BY <1>4, <2>1, <2>2, <3>1, <3>2, FlowGivenUp
  <2>3. CASE s = "host"
    <3>1. ~Serves(h')
      BY <1>4, <2>1, <2>3 DEF BaseInv, OpenInv, Serves
    <3>2. h'.ordered
      BY <1>4 DEF FlowInv, TalkInv, TalkOk
    <3> QED BY <1>4, <2>1, <2>3, <3>1, <3>2, FlowHostGone
  <2> QED BY <2>2, <2>3 DEF Side
<1> QED BY <1>8, <1>9

Others == UNCHANGED <<end, w, h, ghosts, faults, reset>>

\* The handler of a connection ends, with the frames that it did not read.
LEMMA FlowWorkerHandlerEnds ==
  ASSUME BaseInv, BaseInv', FlowInv, NEW c \in Conn, HandlerEnds("worker", c), router' = router, Others
  PROVE  FlowInv'
<1>1. /\ registry'["host"] = registry["host"]
      /\ handler'["worker"] = [handler["worker"] EXCEPT ![c] = FALSE]
      /\ wire'["worker"][c] = << >>
      /\ \A t \in Side : \A d \in Conn : <<t, d>> # <<"worker", c>> => wire'[t][d] = wire[t][d]
      /\ inbox'["worker"] = (IF Present("worker", c) THEN Append(inbox["worker"], Eof) ELSE inbox["worker"])
      /\ inbox'["host"] = inbox["host"]
  BY BaseFacts, HandlerEndsEffect, SideNames
<1>2. end' = end /\ w' = w /\ h' = h /\ misread' = misread /\ recorded' = recorded
  BY DEF Others, ghosts
<1>3. PICK e : e = end["worker"]
  OBVIOUS
<1>4. PICK wr : wr = wire["worker"]
  OBVIOUS
<1>5. PICK wr2 : wr2 = wire'["worker"]
  OBVIOUS
<1>6. PICK hd : hd = handler["worker"]
  OBVIOUS
<1>7. PICK hd2 : hd2 = handler'["worker"]
  OBVIOUS
<1>8. /\ e \in EndpointType /\ wr \in Wires /\ hd \in [Conn -> BOOLEAN] /\ wr2 \in Wires /\ hd2 \in [Conn -> BOOLEAN]
  <2>1. wire'["worker"] \in Wires /\ handler'["worker"] \in [Conn -> BOOLEAN]
    BY SideNames DEF BaseInv, NetOk, EndType, EndpointType, QueueOk, Wires
  <2> QED BY <1>3, <1>4, <1>5, <1>6, <1>7, <2>1, BaseFacts, SideNames
<1>9. wr2[c] = << >> /\ (\A d \in Conn : d # c => wr2[d] = wr[d] /\ hd2[d] = hd[d]) /\ ~hd2[c]
  BY <1>1, <1>4, <1>5, <1>6, <1>7, <1>8, SideNames
<1>10. LaneOk(e, hd, wr)
  BY <1>3, <1>4, <1>6 DEF FlowInv, LaneInv
<1>11. LaneOk(e, hd2, wr2) /\ \A d \in Conn : First(e, hd2, wr2, d) \in {First(e, hd, wr, d), 0, 1}
  BY <1>8, <1>9, <1>10, LaneEnd
<1>12. \A d \in Conn : Thins("worker", wr2[d], wr[d])
  BY <1>9, ThinShort, ThinSame
<1>13. Thins("host", inbox'["worker"], inbox["worker"])
  BY <1>1, EofSent, ThinControl, ThinSame, BaseFacts, SideNames
<1>14. HostStays
  BY <1>1, <1>2, SideNames DEF HostStays
<1>15. /\ LaneOk(end["worker"], handler'["worker"], wire'["worker"])
       /\ \A d \in Conn : First(end["worker"], handler'["worker"], wire'["worker"], d) \in
                           {First(end["worker"], handler["worker"], wire["worker"], d), 0, 1}
       /\ \A d \in Conn : Thins("worker", wire'["worker"][d], wire["worker"][d])
  BY <1>3, <1>4, <1>5, <1>6, <1>7, <1>11, <1>12
<1> QED BY <1>2, <1>13, <1>14, <1>15, FlowLanes

LEMMA FlowHostHandlerEnds ==
  ASSUME BaseInv, BaseInv', FlowInv, NEW c \in Conn, HandlerEnds("host", c), router'.last["worker"] = router.last["worker"],
         Others
  PROVE  FlowInv'
<1>1. /\ registry'["host"] = (IF registry["host"] = c THEN 0 ELSE registry["host"])
      /\ handler'["worker"] = handler["worker"]
      /\ wire'["host"][c] = << >>
      /\ \A t \in Side : \A d \in Conn : <<t, d>> # <<"host", c>> => wire'[t][d] = wire[t][d]
      /\ inbox'["host"] = (IF Present("host", c) THEN Append(inbox["host"], Eof) ELSE inbox["host"])
      /\ inbox'["worker"] = inbox["worker"]
  <2>1. TypeInv
    BY BaseFacts, SideNames
  <2>2. PICK s \in Side : s = "host"
    BY SideNames
  <2>3. HandlerEnds(s, c) /\ Peer(s) = "worker"
    BY <2>2, SideNames
  <2>4. /\ registry'[s] = (IF registry[s] = c THEN 0 ELSE registry[s]) /\ handler'[Peer(s)] = handler[Peer(s)]
        /\ wire'[s][c] = << >> /\ \A t \in Side : \A d \in Conn : <<t, d>> # <<s, c>> => wire'[t][d] = wire[t][d]
        /\ inbox'[s] = (IF Present(s, c) THEN Append(inbox[s], Eof) ELSE inbox[s])
        /\ inbox'[Peer(s)] = inbox[Peer(s)]
    BY <2>1, <2>3, HandlerEndsEffect
  <2> QED BY <2>2, <2>3, <2>4
<1>2. end' = end /\ w' = w /\ h' = h /\ misread' = misread /\ recorded' = recorded
  BY DEF Others, ghosts
<1>3. WorkerStays /\ LastOfWorker' = LastOfWorker
  BY <1>1, <1>2, SideNames DEF WorkerStays, LastOfWorker
<1>4. Registered' => Registered
  <2>1. end["host"].conn # 0
    BY BaseFacts, SideNames DEF EndpointType, Conn
  <2> QED BY <1>1, <1>2, <2>1 DEF Registered
<1>5. \A d \in Conn : Thins("host", wire'["host"][d], wire["host"][d])
  BY <1>1, ThinShort, ThinSame, SideNames
<1>6. PICK m : m = Eof
  OBVIOUS
<1>7. inbox'["host"] \in {inbox["host"], Append(inbox["host"], m)} /\ m \in MessageType /\ m.seq = 0
  BY <1>1, <1>6, EofSent, SideNames
<1>8. inbox'["worker"] = inbox["worker"]
  BY <1>1
<1> QED BY <1>2, <1>3, <1>4, <1>5, <1>7, <1>8, FlowHears

\* The server reads the hello of a connection of the worker.
LEMMA FlowWorkerHello ==
  ASSUME BaseInv, BaseInv', FlowInv, NEW c \in Conn, wire["worker"][c] # << >>, HandleHello("worker", c), Others
  PROVE  FlowInv'
<1>1. end' = end /\ w' = w /\ h' = h /\ misread' = misread /\ recorded' = recorded
  BY DEF Others, ghosts
<1>2. PICK m : m = Control("relay.ready")
  OBVIOUS
<1>3. m \in Sent("host") /\ m.seq = 0
  BY <1>2, ControlSent, SideNames DEF ControlKind
<1>4. /\ c = end["worker"].conn => end["worker"].state # "open"
      /\ \A i \in 1..Len(wire["worker"][c]) : wire["worker"][c][i].seq = 0
      /\ registry'["host"] = registry["host"]
      /\ wire'["worker"][c] = Tail(wire["worker"][c])
      /\ \A t \in Side : \A d \in Conn : <<t, d>> # <<"worker", c>> => wire'[t][d] = wire[t][d]
      /\ inbox'["worker"] \in {<<m>>, inbox["worker"]} /\ inbox'["host"] = inbox["host"]
  BY <1>1, <1>2, BaseHello, SideNames
<1>5. router' = router /\ handler' = handler
  BY DEF HandleHello
<1>6. PICK e : e = end["worker"]
  OBVIOUS
<1>7. PICK wr : wr = wire["worker"]
  OBVIOUS
<1>8. PICK wr2 : wr2 = wire'["worker"]
  OBVIOUS
<1>9. PICK hd : hd = handler["worker"]
  OBVIOUS
<1>10. /\ e \in EndpointType /\ wr \in Wires /\ hd \in [Conn -> BOOLEAN] /\ wr2 \in Wires /\ wr[c] \in Seq(Sent("worker"))
  <2>1. wire'["worker"] \in Wires
    BY SideNames DEF BaseInv, NetOk, EndType, EndpointType, QueueOk, Wires
  <2> QED BY <1>6, <1>7, <1>8, <1>9, <2>1, BaseFacts, SideNames
<1>11. /\ wr[c] # << >> /\ (\A i \in 1..Len(wr[c]) : wr[c][i].seq = 0) /\ (c = e.conn => e.state # "open")
       /\ wr2[c] = Tail(wr[c]) /\ \A d \in Conn : d # c => wr2[d] = wr[d]
  BY <1>4, <1>6, <1>7, <1>8, SideNames
<1>12. LaneOk(e, hd, wr)
  BY <1>6, <1>7, <1>9 DEF FlowInv, LaneInv
<1>13. LaneOk(e, hd, wr2) /\ \A d \in Conn : First(e, hd, wr2, d) \in {First(e, hd, wr, d), 0}
  BY <1>10, <1>11, <1>12, LaneHello
<1>14. \A d \in Conn : Thins("worker", wr2[d], wr[d])
  <2>1. Thins("worker", wr2[c], wr[c])
    BY <1>10, <1>11, ThinTail
  <2> QED BY <1>11, <2>1, ThinSame
<1>15. Thins("host", inbox'["worker"], inbox["worker"])
  BY <1>3, <1>4, ThinShort, ThinSame
<1>16. HostStays
  BY <1>1, <1>4, <1>5, SideNames DEF HostStays
<1>17. /\ LaneOk(end["worker"], handler'["worker"], wire'["worker"])
       /\ \A d \in Conn : First(end["worker"], handler'["worker"], wire'["worker"], d) \in
                           {First(end["worker"], handler["worker"], wire["worker"], d), 0, 1}
       /\ \A d \in Conn : Thins("worker", wire'["worker"][d], wire["worker"][d])
  BY <1>5, <1>6, <1>7, <1>8, <1>9, <1>13, <1>14
<1> QED BY <1>1, <1>15, <1>16, <1>17, FlowLanes

\* The server reads the hello of a connection of the host: of the present one,
\* which has no session yet, or of one given up, and then it delivers to nobody.
LEMMA FlowHostHello ==
  ASSUME BaseInv, BaseInv', FlowInv, NEW c \in Conn, wire["host"][c] # << >>, HandleHello("host", c), Others
  PROVE  FlowInv'
<1>1. end' = end /\ w' = w /\ h' = h /\ misread' = misread /\ recorded' = recorded
  BY DEF Others, ghosts
<1>2. PICK m : m = Control("relay.ready")
  OBVIOUS
<1>3. m \in Sent("worker") /\ m.seq = 0 /\ m \in MessageType
  BY <1>2, ControlSent, SentFacts, SideNames DEF ControlKind
<1>4. /\ c = end["host"].conn => end["host"].state # "open"
      /\ registry'["host"] = c
      /\ wire'["host"][c] = Tail(wire["host"][c])
      /\ \A t \in Side : \A d \in Conn : <<t, d>> # <<"host", c>> => wire'[t][d] = wire[t][d]
      /\ inbox'["host"] = (IF Present("host", c) THEN <<m>> ELSE inbox["host"]) /\ inbox'["worker"] = inbox["worker"]
  BY <1>1, <1>2, BaseHello, SideNames
<1>5. router' = router /\ handler' = handler
  BY DEF HandleHello
<1>6. WorkerStays /\ LastOfWorker' = LastOfWorker
  BY <1>1, <1>4, <1>5, SideNames DEF WorkerStays, LastOfWorker
<1>7. \A d \in Conn : Thins("host", wire'["host"][d], wire["host"][d])
  <2>1. PICK q : q = wire["host"][c]
    OBVIOUS
  <2>2. q \in Seq(Sent("host")) /\ q # << >>
    BY <2>1, BaseFacts, SideNames
  <2>3. Thins("host", Tail(q), q)
    BY <2>2, ThinTail
  <2> QED BY <1>4, <2>1, <2>3, ThinSame, SideNames
<1>8. CASE Present("host", c)
  <2>1. inbox'["host"] = <<m>> /\ end["host"].state # "open"
    BY <1>4, <1>8 DEF Present
  <2>2. ~Serves(h) /\ h.ordered /\ TalkOk(NextFrame, LastOfWorker, Registered, inbox["host"], h)
    BY <2>1 DEF BaseInv, OpenInv, Serves, FlowInv, TalkInv, TalkOk
  <2>3. TalkOk(NextFrame, LastOfWorker, Registered', inbox'["host"], h')
    <3>1. PICK q2 : q2 = inbox'["host"]
      OBVIOUS
    <3>2. \E y : y.seq = 0 /\ q2 = <<y>>
      BY <1>3, <2>1, <3>1
    <3>3. TalkOk(NextFrame, LastOfWorker, Registered', q2, h)
      BY <2>2, <3>2, TalkIdle
    <3> QED BY <1>1, <3>1, <3>3
  <2>4. Thins("worker", inbox'["host"], inbox["host"]) /\ Thins("host", inbox'["worker"], inbox["worker"])
    BY <1>3, <1>4, <2>1, ThinShort, ThinSame
  <2> QED BY <1>1, <1>6, <1>7, <2>2, <2>3, <2>4, FlowThins
<1>9. CASE ~Present("host", c)
  <2>1. ~Registered'
    BY <1>1, <1>4, <1>9 DEF Present, Registered
  <2>2. inbox'["host"] \in {inbox["host"], Append(inbox["host"], m)}
    BY <1>4, <1>9
  <2> QED BY <1>1, <1>3, <1>4, <1>6, <1>7, <2>1, <2>2, FlowHears
<1> QED BY <1>8, <1>9

\* Only the host registers the session.
LEMMA FlowRegister ==
  ASSUME BaseInv, BaseInv', FlowInv, NEW s \in Side, NEW c \in Conn, wire[s][c] # << >>, HandleRegister(s, c), Others
  PROVE  FlowInv'
<1>1. PICK q : q = wire[s][c]
  OBVIOUS
<1>2. q \in Seq(Sent(s)) /\ q \in Seq(MessageType) /\ q # << >> /\ q[1].kind = "relay.register" /\ q[1].seq = 0
  <2>1. q \in Seq(MessageType) /\ q \in Seq(Sent(s))
    BY <1>1, BaseFacts DEF Wires
  <2>2. q[1] = Head(q) /\ q # << >> /\ q[1] \in Sent(s)
    BY <1>1, <2>1, QueueFacts
  <2>3. q[1].kind = "relay.register"
    BY <1>1, <2>2 DEF HandleRegister
  <2>4. q[1].seq # 0 => q[1].kind \notin ControlKind
    BY <2>2, SentFacts
  <2> QED BY <2>1, <2>2, <2>3, <2>4 DEF ControlKind
<1>3. s = "host"
  <2>1. CASE s = "worker"
    <3>1. \A i \in 1..Len(q) : q[i].seq = 0 => q[i].kind \in {Hello, "eof"}
      BY <1>1, <2>1 DEF FlowInv, LaneInv, LaneOk
    <3>2. 1 \in 1..Len(q)
      BY <1>2, TailFacts
    <3> QED BY <1>2, <3>1, <3>2 DEF Hello
  <2> QED BY <2>1 DEF Side
<1>4. Reads("host", c) /\ UNCHANGED <<registry, handler>> /\ inbox' = Delivered("host", c, Control("relay.registered"))
      /\ router' = [router EXCEPT !.live = TRUE]
  BY <1>3 DEF HandleRegister
<1>5. /\ wire'["host"][c] = Tail(q)
      /\ \A t \in Side : \A d \in Conn : <<t, d>> # <<"host", c>> => wire'[t][d] = wire[t][d]
  BY <1>1, <1>3, <1>4, BaseFacts, ReadsEffect, SideNames
<1>6. PICK m : m = Control("relay.registered")
  OBVIOUS
<1>7. m \in Sent("worker") /\ m.seq = 0 /\ m \in MessageType
  BY <1>6, ControlSent, SentFacts, SideNames DEF ControlKind
<1>8. /\ inbox'["host"] = (IF Present("host", c) THEN Append(inbox["host"], m) ELSE inbox["host"])
      /\ inbox'["worker"] = inbox["worker"]
  BY <1>4, <1>6, <1>7, BaseFacts, DeliveredEffect, SideNames
<1>9. end' = end /\ w' = w /\ h' = h /\ misread' = misread /\ recorded' = recorded
  BY DEF Others, ghosts
<1>10. WorkerStays /\ LastOfWorker' = LastOfWorker /\ Registered' = Registered
  <2>1. router'.last = router.last
    BY <1>4 DEF BaseInv, RestOk, RouterType
  <2> QED BY <1>4, <1>5, <1>8, <1>9, <2>1, SideNames DEF WorkerStays, LastOfWorker, Registered
<1>11. \A d \in Conn : Thins("host", wire'["host"][d], wire["host"][d])
  <2>1. Thins("host", Tail(q), q)
    BY <1>2, <1>3, ThinTail
  <2> QED BY <1>1, <1>3, <1>5, <2>1, ThinSame, SideNames
<1>12. inbox'["host"] \in {inbox["host"], Append(inbox["host"], m)} /\ inbox'["worker"] = inbox["worker"]
  BY <1>8
<1> QED BY <1>7, <1>9, <1>10, <1>11, <1>12, FlowHears

\* A frame of the host is passed on to the worker.
LEMMA FlowReturns ==
  ASSUME BaseInv, BaseInv', FlowInv, NEW c \in Conn, wire["host"][c] # << >>, wire["host"][c][1].seq # 0,
         router'.last["worker"] = router.last["worker"], UNCHANGED <<registry, handler>>, Others,
         Reads("host", c), NEW t, inbox' = Delivered("worker", t, wire["host"][c][1])
  PROVE  FlowInv'
<1>1. PICK q : q = wire["host"][c]
  OBVIOUS
<1>2. q \in Seq(Sent("host")) /\ q # << >> /\ q[1].seq # 0 /\ q[1] \in Sent("host")
  <2>1. q \in Seq(Sent("host")) /\ q # << >>
    BY <1>1, BaseFacts, SideNames
  <2> QED BY <1>1, <2>1, QueueFacts
<1>3. PICK m : m = q[1]
  OBVIOUS
<1>4. m \in Items(q) /\ m \in Sent("host") /\ m \in MessageType
  BY <1>2, <1>3, ItemsFacts, SentFacts, SideNames
<1>5. /\ wire'["host"][c] = Tail(q)
      /\ \A u \in Side : \A d \in Conn : <<u, d>> # <<"host", c>> => wire'[u][d] = wire[u][d]
  BY <1>1, BaseFacts, ReadsEffect, SideNames
<1>6. /\ inbox'["worker"] = (IF Present("worker", t) THEN Append(inbox["worker"], m) ELSE inbox["worker"])
      /\ inbox'["host"] = inbox["host"]
  BY <1>1, <1>3, <1>4, BaseFacts, DeliveredEffect, SideNames
<1>7. end' = end /\ w' = w /\ h' = h /\ misread' = misread /\ recorded' = recorded
  BY DEF Others, ghosts
<1>8. WorkerStays /\ LastOfWorker' = LastOfWorker /\ Registered' = Registered /\ Pending' = Pending
  BY <1>5, <1>6, <1>7, SideNames DEF WorkerStays, LastOfWorker, Registered, Pending
<1>9. PICK a : a = Items(inbox["worker"])
  OBVIOUS
<1>10. PICK b : b = HostWires
  OBVIOUS
<1>11. PICK b2 : b2 = HostWires'
  OBVIOUS
<1>12. PICK a2 : a2 = Items(inbox'["worker"])
  OBVIOUS
<1>13. /\ a \in Replies /\ b \in [Conn -> Replies] /\ b[c] = Items(q) /\ \A d \in Conn : b[d] = Items(wire["host"][d])
       /\ \A d \in Conn : b2[d] = Items(wire'["host"][d])
  BY <1>1, <1>9, <1>10, <1>11, FlowFacts DEF HostWires
<1>14. PipeOk(a, b, Pending, Items(inbox["host"]), UnderWay, LastOfWorker, w, end["worker"], recorded)
  BY <1>9, <1>10 DEF FlowInv, PipeInv
<1>15. Rising("host", q) /\ Rising("host", inbox["worker"])
  BY <1>1 DEF FlowInv, RiseInv
<1>16. a2 \subseteq a \cup {m} /\ Rising("host", inbox'["worker"])
  <2>1. inbox["worker"] \in Seq(MessageType)
    BY BaseFacts, SideNames
  <2>2. Items(Append(inbox["worker"], m)) \subseteq a \cup {m}
    BY <1>4, <1>9, <2>1, ItemsAppend
  <2>3. \A y \in Items(inbox["worker"]) : Number("host", y) < Number("host", m)
    BY <1>4, <1>9, <1>13, <1>14 DEF PipeOk, Numbered, Number
  <2>4. Rising("host", Append(inbox["worker"], m))
    BY <1>4, <1>15, <2>1, <2>3, RisingAppend
  <2> QED BY <1>6, <1>9, <1>12, <1>15, <2>2, <2>4
<1>17. /\ \A d \in Conn : b2[d] \subseteq b[d]
       /\ \A z \in b2[c] : m.re < z.re
       /\ \A d \in Conn : Rising("host", wire'["host"][d])
  <2>1. Items(Tail(q)) \subseteq Items(q) /\ Rising("host", Tail(q)) /\ \A z \in Items(Tail(q)) : Number("host", m) < Number("host", z)
    BY <1>2, <1>3, <1>15, ItemsTail
  <2>2. \A d \in Conn : d # c => wire'["host"][d] = wire["host"][d]
    BY <1>5, SideNames
  <2>3. \A d \in Conn : Rising("host", wire["host"][d])
    BY DEF FlowInv, RiseInv
  <2>4. \A d \in Conn : Rising("host", wire'["host"][d])
    <3>1. PICK r : r = Tail(q)
      OBVIOUS
    <3>2. Rising("host", r) /\ wire'["host"][c] = r
      BY <1>5, <2>1, <3>1
    <3>3. ASSUME NEW d \in Conn PROVE Rising("host", wire'["host"][d])
      <4>1. CASE d = c
        BY <3>2, <4>1
      <4>2. CASE d # c
        BY <2>2, <2>3, <4>2
      <4> QED BY <4>1, <4>2
    <3> QED BY <3>3
  <2>5. b2[c] = Items(Tail(q)) /\ \A d \in Conn : d # c => b2[d] = b[d]
    <3>1. \A d \in Conn : b[d] = Items(wire["host"][d]) /\ b2[d] = Items(wire'["host"][d])
      BY <1>13
    <3>2. b2[c] = Items(Tail(q))
      <4>1. wire'["host"][c] = Tail(q)
        BY <1>5
      <4> QED BY <3>1, <4>1
    <3> QED BY <2>2, <3>1, <3>2
  <2>6. \A d \in Conn : b2[d] \subseteq b[d]
    BY <1>13, <2>1, <2>5
  <2>7. \A z \in b2[c] : m.re < z.re
    BY <2>1, <2>5 DEF Number
  <2> QED BY <2>4, <2>6, <2>7
<1>18. PipeOk(a2, b2, Pending, Items(inbox["host"]), UnderWay, LastOfWorker, w, end["worker"], recorded)
  BY <1>4, <1>13, <1>14, <1>16, <1>17, PipeReturn
<1>19. RiseInv' /\ HomeInv'
  <2>1. \A d \in Conn : Items(wire'["host"][d]) \subseteq Items(wire["host"][d])
    BY <1>13, <1>17
  <2> QED BY <1>6, <1>7, <1>16, <1>17, <2>1 DEF RiseInv, HomeInv, FlowInv
<1>20. TalkOk(NextFrame, LastOfWorker, Registered', inbox'["host"], h')
  BY <1>6, <1>7, <1>8 DEF FlowInv, TalkInv
<1> QED BY <1>6, <1>7, <1>8, <1>11, <1>12, <1>18, <1>19, <1>20, FlowHost

\* A frame of the worker is counted, and passed on to a registered host.
Routing(c, m) ==
  /\ c \in Conn /\ wire["worker"][c] # << >> /\ m = wire["worker"][c][1] /\ m.seq # 0 /\ m.seq > LastOfWorker
  /\ router'.last["worker"] = m.seq /\ registry'["host"] = registry["host"] /\ Others
  /\ \A d \in Conn : wire'["host"][d] = wire["host"][d]
  /\ \A d \in Conn : d # c => wire'["worker"][d] = wire["worker"][d] /\ handler'["worker"][d] = handler["worker"][d]
  /\ \/ wire'["worker"][c] = Tail(wire["worker"][c]) /\ handler'["worker"][c] = handler["worker"][c]
     \/ wire'["worker"][c] = << >> /\ ~handler'["worker"][c]
  /\ inbox'["host"] = IF Registered THEN Append(inbox["host"], m) ELSE inbox["host"]
  /\ Thins("host", inbox'["worker"], inbox["worker"])

\* What becomes of the connection that the frame was read from.
LEMMA RoutedLane ==
  ASSUME BaseInv, BaseInv', FlowInv, NEW c, NEW m, Routing(c, m),
         NEW e, e = end["worker"], NEW hd, hd = handler["worker"], NEW wr, wr = wire["worker"],
         NEW hd2, hd2 = handler'["worker"], NEW wr2, wr2 = wire'["worker"]
  PROVE  /\ LaneOk(e, hd2, wr2) /\ m.seq = First(e, hd, wr, c) /\ m.conn = c /\ m \in Frame("worker")
         /\ First(e, hd2, wr2, c) \in {0, m.seq + 1}
         /\ \A d \in Conn : d # c => First(e, hd2, wr2, d) = First(e, hd, wr, d)
         /\ \A d \in Conn : Thins("worker", wr2[d], wr[d])
         /\ m \in Items(wr[c]) /\ \A y \in Items(wr2[c]) : m.seq < y.seq
<1>1. /\ e \in EndpointType /\ wr \in Wires /\ hd \in [Conn -> BOOLEAN] /\ wr2 \in Wires /\ hd2 \in [Conn -> BOOLEAN]
  <2>1. wire'["worker"] \in Wires /\ handler'["worker"] \in [Conn -> BOOLEAN]
    BY SideNames DEF BaseInv, NetOk, EndType, EndpointType, QueueOk, Wires
  <2> QED BY <2>1, BaseFacts, SideNames
<1>2. /\ c \in Conn /\ wr[c] # << >> /\ m = wr[c][1] /\ m.seq # 0
      /\ \A d \in Conn : d # c => wr2[d] = wr[d] /\ hd2[d] = hd[d]
      /\ (wr2[c] = Tail(wr[c]) /\ hd2[c] = hd[c]) \/ (wr2[c] = << >> /\ ~hd2[c])
  BY DEF Routing
<1>3. LaneOk(e, hd, wr) /\ LaneRise(e, wr)
  BY DEF FlowInv, LaneInv
<1>4. PICK q : q = wr[c]
  OBVIOUS
<1>5. q \in Seq(Sent("worker")) /\ q # << >> /\ q[1] = m
  BY <1>2, <1>4, BaseFacts, SideNames
<1>6. m \in Frame("worker") /\ m \in Items(q)
  <2>1. q[1] \in Sent("worker")
    BY <1>5, QueueFacts
  <2> QED BY <1>2, <1>5, <2>1, ItemsFacts, SentFacts, SideNames
<1>7. Rising("worker", q)
  BY <1>2, <1>3, <1>4 DEF LaneRise
<1>8. Thins("worker", Tail(q), q) /\ \A y \in Items(Tail(q)) : m.seq < y.seq
  <2>1. \A y \in Items(Tail(q)) : Number("worker", m) < Number("worker", y)
    BY <1>2, <1>5, <1>7, ItemsTail
  <2>2. Thins("worker", Tail(q), q)
    BY <1>5, ThinTail
  <2> QED BY <2>1, <2>2 DEF Number
<1>9. CASE wr2[c] = Tail(wr[c]) /\ hd2[c] = hd[c]
  <2>1. hd2 = hd
    BY <1>1, <1>2, <1>9
  <2>2. \A d \in Conn : d # c => wr2[d] = wr[d]
    BY <1>2
  <2>3. /\ LaneOk(e, hd, wr2) /\ First(e, hd, wr2, c) \in {0, wr[c][1].seq + 1}
        /\ First(e, hd, wr, c) = wr[c][1].seq /\ wr[c][1].conn = c
        /\ \A d \in Conn : d # c => First(e, hd, wr2, d) = First(e, hd, wr, d)
    BY <1>1, <1>2, <1>3, <1>9, <2>2, LaneRead
  <2>4. \A d \in Conn : Thins("worker", wr2[d], wr[d])
    BY <1>2, <1>4, <1>8, <1>9, ThinSame
  <2> QED BY <1>2, <1>4, <1>6, <1>8, <1>9, <2>1, <2>3, <2>4
<1>10. CASE wr2[c] = << >> /\ ~hd2[c]
  <2>1. /\ LaneOk(e, hd2, wr2) /\ First(e, hd2, wr2, c) = 0
        /\ \A d \in Conn : d # c => First(e, hd2, wr2, d) = First(e, hd, wr, d)
    BY <1>1, <1>2, <1>3, <1>10, LaneEnd
  <2>2. First(e, hd, wr, c) = m.seq
    BY <1>2, <1>3, <1>1 DEF First, LaneOk
  <2>3. m.conn = c
    <3>1. 1 \in 1..Len(q)
      BY <1>5, TailFacts
    <3> QED BY <1>2, <1>3, <1>4, <1>5, <3>1 DEF LaneOk
  <2>4. \A d \in Conn : Thins("worker", wr2[d], wr[d])
    BY <1>2, <1>10, ThinShort, ThinSame
  <2>5. Items(wr2[c]) = {}
    BY <1>10, ThinShort
  <2> QED BY <1>4, <1>6, <2>1, <2>2, <2>3, <2>4, <2>5
<1> QED BY <1>2, <1>9, <1>10

LEMMA FlowRouted == ASSUME BaseInv, BaseInv', FlowInv, NEW c, NEW m, Routing(c, m) PROVE FlowInv'
<1>1. PICK e : e = end["worker"]
  OBVIOUS
<1>2. PICK hd : hd = handler["worker"]
  OBVIOUS
<1>3. PICK wr : wr = wire["worker"]
  OBVIOUS
<1>4. PICK hd2 : hd2 = handler'["worker"]
  OBVIOUS
<1>5. PICK wr2 : wr2 = wire'["worker"]
  OBVIOUS
<1>6. /\ LaneOk(e, hd2, wr2) /\ m.seq = First(e, hd, wr, c) /\ m.conn = c /\ m \in Frame("worker")
      /\ First(e, hd2, wr2, c) \in {0, m.seq + 1}
      /\ \A d \in Conn : d # c => First(e, hd2, wr2, d) = First(e, hd, wr, d)
      /\ \A d \in Conn : Thins("worker", wr2[d], wr[d])
      /\ m \in Items(wr[c]) /\ \A y \in Items(wr2[c]) : m.seq < y.seq
  BY <1>1, <1>2, <1>3, <1>4, <1>5, RoutedLane
<1>7. /\ c \in Conn /\ m.seq > LastOfWorker /\ LastOfWorker' = m.seq /\ m.seq \in Nat \ {0} /\ LastOfWorker \in Nat
  BY <1>6, FlowFacts DEF Routing, LastOfWorker, Frame
<1>8. end' = end /\ w' = w /\ h' = h /\ misread' = misread /\ recorded' = recorded
  BY DEF Routing, Others, ghosts
<1>9. Registered' = Registered /\ Pending' = Pending /\ HostWires' = HostWires
  BY <1>8 DEF Routing, Registered, Pending, HostWires
<1>10. LaneInv'
  <2>1. LaneRise(e, wr) /\ e \in EndpointType
    BY <1>1, <1>3, BaseFacts, SideNames DEF FlowInv, LaneInv
  <2>2. LaneRise(e, wr2)
    BY <1>6, <2>1, LaneThins
  <2> QED BY <1>1, <1>4, <1>5, <1>6, <1>8, <2>2 DEF LaneInv
<1>11. PICK n : n = NextFrame
  OBVIOUS
<1>12. PICK n2 : n2 = NextFrame'
  OBVIOUS
<1>13. /\ n \in [Conn -> Nat] /\ n2 \in [Conn -> Nat] /\ m.seq = n[c] /\ n2[c] \in {0, m.seq + 1}
       /\ \A d \in Conn : d # c => n2[d] = n[d]
       /\ \A d \in Conn : n[d] = First(e, hd, wr, d) /\ n2[d] = First(e, hd2, wr2, d)
  <2>1. \A d \in Conn : n[d] = First(e, hd, wr, d)
    BY <1>1, <1>2, <1>3, <1>11 DEF NextFrame
  <2>2. \A d \in Conn : n2[d] = First(e, hd2, wr2, d)
    BY <1>1, <1>4, <1>5, <1>8, <1>12 DEF NextFrame
  <2>3. \A d \in Conn : First(e, hd2, wr2, d) \in Nat
    <3>1. e \in EndpointType /\ wr2 \in Wires
      BY <1>1, <1>5, BaseFacts, SideNames DEF BaseInv, NetOk, QueueOk, Wires
    <3> QED BY <3>1, FirstType
  <2>4. n2 \in [Conn -> Nat]
    BY <1>12, <2>2, <2>3 DEF NextFrame
  <2>5. n \in [Conn -> Nat]
    BY <1>11, FlowFacts
  <2> QED BY <1>6, <1>7, <2>1, <2>2, <2>4, <2>5
<1>14. PICK q : q = inbox["host"]
  OBVIOUS
<1>15. PICK q2 : q2 = inbox'["host"]
  OBVIOUS
<1>16. PICK reg : reg = Registered
  OBVIOUS
<1>17. q \in Seq(MessageType) /\ q \in Seq(Sent("worker")) /\ m \in MessageType /\ m \in Sent("worker")
       /\ q2 = IF reg THEN Append(q, m) ELSE q
  <2>1. m \in Sent("worker")
    BY <1>6 DEF Sent
  <2> QED BY <1>14, <1>15, <1>16, <2>1, BaseFacts, SentFacts, SideNames DEF Routing
<1>18. TalkOk(n, LastOfWorker, reg, q, h)
  BY <1>11, <1>14, <1>16 DEF FlowInv, TalkInv
<1>19. TalkOk(n2, m.seq, reg, q2, h)
  <2>1. PICK last : last = LastOfWorker
    OBVIOUS
  <2>2. last \in Nat /\ m.seq > last /\ TalkOk(n, last, reg, q, h)
    BY <1>7, <1>18, <2>1
  <2>3. q \in Seq(MessageType) /\ m \in MessageType /\ q2 = IF reg THEN Append(q, m) ELSE q
    BY <1>17
  <2>4. Passing(n, last, reg, q, h, c, m, n2, q2)
    BY <1>6, <1>7, <1>13, <2>2, <2>3 DEF Passing
  <2> QED BY <2>4, TalkFrame
<1>20. TalkInv'
  BY <1>7, <1>8, <1>9, <1>12, <1>15, <1>16, <1>19 DEF TalkInv
<1>21. n[c] = LastOfWorker + 1 /\ \A d \in Conn : d # c => ~(n[d] > 1)
  <2>1. n[c] = LastOfWorker + 1
    BY <1>7, <1>13, <1>18 DEF TalkOk
  <2>2. ASSUME NEW d \in Conn, d # c PROVE ~(n[d] > 1)
    <3>1. n[d] \in {0, 1, LastOfWorker + 1} /\ (n[c] > 1 /\ n[d] > 1 => c = d)
      BY <1>7, <1>18 DEF TalkOk
    <3>2. CASE LastOfWorker = 0
      BY <3>1, <3>2
    <3>3. CASE LastOfWorker # 0
      BY <1>7, <2>1, <2>2, <3>1, <3>3
    <3> QED BY <3>2, <3>3
  <2> QED BY <2>1, <2>2
<1>22. PICK o : o = UnderWay
  OBVIOUS
<1>23. PICK o2 : o2 = UnderWay'
  OBVIOUS
<1>24. o = Going(e, hd, wr) /\ o2 = Going(e, hd2, wr2)
  BY <1>1, <1>2, <1>3, <1>4, <1>5, <1>8, <1>22, <1>23 DEF UnderWay
<1>25. o2 \subseteq Items(wr2[c])
  <2>1. ASSUME NEW y \in o2 PROVE y \in Items(wr2[c])
    <3>1. PICK d \in Conn : First(e, hd2, wr2, d) > 1 /\ y \in Items(wr2[d])
      BY <1>24, GoingIn
    <3>2. d = c
      BY <1>13, <1>21, <3>1
    <3> QED BY <3>1, <3>2
  <2> QED BY <2>1
<1>26. Items(wr2[c]) \subseteq Items(wr[c])
  BY <1>6, <1>7 DEF Thins
<1>27. (m \in o /\ o2 \subseteq o) \/ (LastOfWorker = 0 /\ m.seq = 1 /\ o2 = {})
  <2>1. CASE LastOfWorker # 0
    <3>1. First(e, hd, wr, c) > 1
      BY <1>7, <1>13, <1>21, <2>1
    <3>2. Items(wr[c]) \subseteq o
      BY <1>7, <1>24, <3>1, GoingIn
    <3> QED BY <1>6, <1>25, <1>26, <3>2
  <2>2. CASE LastOfWorker = 0
    <3>1. m.seq = 1
      BY <1>7, <1>13, <1>21, <2>2
    <3>2. \A y \in Items(wr[c]) : y.seq = 1
      BY <1>3, <1>7, <2>2 DEF FlowInv, FreshInv
    <3>3. o2 = {}
      BY <1>6, <1>25, <1>26, <3>1, <3>2
    <3> QED BY <2>2, <3>1, <3>3
  <2> QED BY <2>1, <2>2
<1>28. PipeOk(Items(inbox["worker"]), HostWires, Pending, Items(q), o, LastOfWorker, w, e, recorded)
  BY <1>1, <1>14, <1>22 DEF FlowInv, PipeInv
<1>29. Items(q2) \subseteq Items(q) \cup {m} /\ Rising("worker", q2)
  <2>1. Rising("worker", q)
    BY <1>14 DEF FlowInv, RiseInv
  <2>2. \A y \in Items(q) : y.seq < m.seq
    <3>1. \A y \in Items(q) : y.seq <= LastOfWorker /\ y.seq \in Nat
      BY <1>14, <1>28, FlowFacts DEF PipeOk, Numbered, Requests, Frame
    <3> QED BY <1>7, <3>1
  <2>3. Rising("worker", Append(q, m))
    BY <1>17, <2>1, <2>2, RisingAppend DEF Number
  <2>4. Items(Append(q, m)) \subseteq Items(q) \cup {m}
    BY <1>17, ItemsAppend
  <2> QED BY <1>17, <2>1, <2>3, <2>4
<1>30. PipeOk(Items(inbox["worker"]), HostWires, Pending, Items(q2), o2, m.seq, w, e, recorded)
  <2>1. PICK a : a = Items(inbox["worker"])
    OBVIOUS
  <2>2. PICK b : b = HostWires
    OBVIOUS
  <2>3. PICK k : k = Pending
    OBVIOUS
  <2>4. PICK i : i = Items(q)
    OBVIOUS
  <2>5. PICK i2 : i2 = Items(q2)
    OBVIOUS
  <2>6. /\ a \in Replies /\ b \in [Conn -> Replies] /\ k \in SUBSET Nat /\ i \in Requests /\ o \in Requests
    BY <1>14, <1>22, <2>1, <2>2, <2>3, <2>4, FlowFacts
  <2>7. o2 \in Requests /\ \A y \in o2 : m.seq < y.seq
    <3>1. o2 \in Requests
      BY <1>27, <2>6 DEF Requests
    <3> QED BY <1>6, <1>25, <3>1
  <2>8. m.kind = "hello" => m.seq = 1
    BY <1>3, <1>6, <1>7 DEF FlowInv, LaneInv, LaneRise
  <2>9. PipeOk(a, b, k, i, o, LastOfWorker, w, e, recorded)
    BY <1>28, <2>1, <2>2, <2>3, <2>4
  <2>10. i2 \subseteq i \cup {m}
    BY <1>29, <2>4, <2>5
  <2>11. PICK last : last = LastOfWorker
    OBVIOUS
  <2>12. last \in Nat /\ m.seq > last /\ ((m \in o /\ o2 \subseteq o) \/ (last = 0 /\ m.seq = 1 /\ o2 = {}))
         /\ PipeOk(a, b, k, i, o, last, w, e, recorded)
    BY <1>7, <1>27, <2>9, <2>11
  <2>13. PipeOk(a, b, k, i2, o2, m.seq, w, e, recorded)
    BY <1>6, <2>6, <2>7, <2>8, <2>10, <2>12, PipeRoute
  <2> QED BY <2>1, <2>2, <2>3, <2>5, <2>13
<1>31. PipeInv'
  <2>1. Items(inbox'["worker"]) \subseteq Items(inbox["worker"])
    BY DEF Routing, Thins
  <2>2. PipeOk(Items(inbox'["worker"]), HostWires, Pending, Items(q2), o2, m.seq, w, e, recorded)
    BY <1>30, <2>1, PipeLess
  <2> QED BY <1>1, <1>7, <1>8, <1>9, <1>15, <1>23, <2>2 DEF PipeInv
<1>32. RiseInv' /\ HomeInv'
  <2>1. Rising("host", inbox'["worker"])
    BY DEF Routing, Thins, FlowInv, RiseInv
  <2>2. \A d \in Conn : wire'["host"][d] = wire["host"][d]
    BY DEF Routing
  <2> QED BY <1>8, <1>15, <1>29, <2>1, <2>2 DEF RiseInv, HomeInv, FlowInv
<1>33. FreshInv'
  BY <1>7 DEF FreshInv
<1>34. WorkerOk(w, end["worker"])' /\ Heard'
  BY <1>8 DEF FlowInv, Heard
<1> QED BY <1>10, <1>20, <1>31, <1>32, <1>33, <1>34 DEF FlowInv

LEMMA FlowWorkerFrame ==
  ASSUME BaseInv, BaseInv', FlowInv, NEW c \in Conn, wire["worker"][c] # << >>, HandleFrame("worker", c), Others
  PROVE  FlowInv'
<1>1. PICK m : m = Head(wire["worker"][c])
  OBVIOUS
<1>2. PICK t : t = registry["host"]
  OBVIOUS
<1>3. m.seq # 0 /\ m = wire["worker"][c][1] /\ m \in Sent("worker")
  <2>1. wire["worker"][c] \in Seq(Sent("worker"))
    BY BaseFacts, SideNames
  <2> QED BY <1>1, <2>1, QueueFacts DEF HandleFrame
<1>4. CASE HandlerEnds("worker", c) /\ router' = router
  BY <1>4, FlowWorkerHandlerEnds
<1>5. CASE /\ Routable("worker", m) /\ router' = [router EXCEPT !.last["worker"] = m.seq]
           /\ \/ t = 0 /\ inbox' = Delivered("worker", c, Control("relay.unavailable"))
                 /\ Reads("worker", c) /\ UNCHANGED <<registry, handler>>
              \/ t # 0 /\ inbox' = Delivered("host", t, m) /\ Reads("worker", c) /\ UNCHANGED <<registry, handler>>
              \/ t # 0 /\ (end["host"].conn # t \/ end["host"].state = "closed") /\ HandlerEnds("worker", c)
  <2>1. /\ router' = [router EXCEPT !.last["worker"] = m.seq] /\ m.seq > LastOfWorker
        /\ \/ t = 0 /\ inbox' = Delivered("worker", c, Control("relay.unavailable"))
              /\ Reads("worker", c) /\ UNCHANGED <<registry, handler>>
           \/ t # 0 /\ inbox' = Delivered("host", t, m) /\ Reads("worker", c) /\ UNCHANGED <<registry, handler>>
           \/ t # 0 /\ (end["host"].conn # t \/ end["host"].state = "closed") /\ HandlerEnds("worker", c)
    BY <1>5 DEF Routable, LastOfWorker
  <2>2. router'.last["worker"] = m.seq
    BY <2>1, SideNames DEF BaseInv, RestOk, RouterType
  <2>3. Registered <=> t # 0 /\ Present("host", t)
    <3>1. end["host"].conn # 0
      BY BaseFacts, SideNames DEF EndpointType, Conn
    <3> QED BY <1>2, <3>1 DEF Registered, Present
  <2>4. CASE t = 0 /\ inbox' = Delivered("worker", c, Control("relay.unavailable"))
             /\ Reads("worker", c) /\ UNCHANGED <<registry, handler>>
    <3>1. PICK y : y = Control("relay.unavailable")
      OBVIOUS
    <3>2. y \in Sent("host") /\ y.seq = 0
      BY <3>1, ControlSent, SideNames DEF ControlKind
    <3>3. /\ inbox'["worker"] = (IF Present("worker", c) THEN Append(inbox["worker"], y) ELSE inbox["worker"])
          /\ inbox'["host"] = inbox["host"]
      BY <2>4, <3>1, <3>2, BaseFacts, DeliveredEffect, SideNames
    <3>4. Thins("host", inbox'["worker"], inbox["worker"])
      BY <3>2, <3>3, ThinControl, ThinSame, BaseFacts, SideNames
    <3>5. /\ wire'["worker"][c] = Tail(wire["worker"][c])
          /\ \A s \in Side : \A d \in Conn : <<s, d>> # <<"worker", c>> => wire'[s][d] = wire[s][d]
      BY <2>4, BaseFacts, ReadsEffect, SideNames
    <3>6. Routing(c, m)
      BY <1>3, <2>1, <2>2, <2>3, <2>4, <3>3, <3>4, <3>5, SideNames DEF Routing
    <3> QED BY <3>6, FlowRouted
  <2>5. CASE t # 0 /\ inbox' = Delivered("host", t, m) /\ Reads("worker", c) /\ UNCHANGED <<registry, handler>>
    <3>1. /\ inbox'["host"] = (IF Present("host", t) THEN Append(inbox["host"], m) ELSE inbox["host"])
          /\ inbox'["worker"] = inbox["worker"]
      BY <1>3, <2>5, BaseFacts, DeliveredEffect, SideNames
    <3>2. /\ wire'["worker"][c] = Tail(wire["worker"][c])
          /\ \A s \in Side : \A d \in Conn : <<s, d>> # <<"worker", c>> => wire'[s][d] = wire[s][d]
      BY <2>5, BaseFacts, ReadsEffect, SideNames
    <3>3. Routing(c, m)
      BY <1>3, <2>1, <2>2, <2>3, <2>5, <3>1, <3>2, ThinSame, SideNames DEF Routing
    <3> QED BY <3>3, FlowRouted
  <2>6. CASE t # 0 /\ (end["host"].conn # t \/ end["host"].state = "closed") /\ HandlerEnds("worker", c)
    <3>1. PICK s \in Side : s = "worker"
      BY SideNames
    <3>2. HandlerEnds(s, c) /\ Peer(s) = "host" /\ TypeInv
      BY <2>6, <3>1, BaseFacts, SideNames
    <3>3. /\ registry'[Peer(s)] = registry[Peer(s)] /\ handler'[s] = [handler[s] EXCEPT ![c] = FALSE]
          /\ wire'[s][c] = << >> /\ \A u \in Side : \A d \in Conn : <<u, d>> # <<s, c>> => wire'[u][d] = wire[u][d]
          /\ inbox'[s] = (IF Present(s, c) THEN Append(inbox[s], Eof) ELSE inbox[s])
          /\ inbox'[Peer(s)] = inbox[Peer(s)]
      BY <3>2, HandlerEndsEffect
    <3>4. Thins("host", inbox'["worker"], inbox["worker"])
      BY <3>1, <3>3, EofSent, ThinControl, ThinSame, BaseFacts, SideNames
    <3>5. ~Registered
      BY <2>3, <2>6 DEF Present
    <3>6. handler["worker"] \in [Conn -> BOOLEAN]
      BY BaseFacts, SideNames
    <3>7. ~handler'["worker"][c] /\ \A d \in Conn : d # c => handler'["worker"][d] = handler["worker"][d]
      BY <3>1, <3>3, <3>6
    <3>8. /\ wire'["worker"][c] = << >> /\ registry'["host"] = registry["host"] /\ inbox'["host"] = inbox["host"]
          /\ \A d \in Conn : wire'["host"][d] = wire["host"][d]
          /\ \A d \in Conn : d # c => wire'["worker"][d] = wire["worker"][d]
      BY <3>1, <3>2, <3>3, SideNames
    <3>9. Routing(c, m)
      BY <1>3, <2>1, <2>2, <3>4, <3>5, <3>7, <3>8 DEF Routing
    <3> QED BY <3>9, FlowRouted
  <2> QED BY <2>1, <2>4, <2>5, <2>6
<1> QED BY <1>1, <1>2, <1>4, <1>5, SideNames DEF HandleFrame

LEMMA FlowHostFrame ==
  ASSUME BaseInv, BaseInv', FlowInv, NEW c \in Conn, wire["host"][c] # << >>, HandleFrame("host", c), Others
  PROVE  FlowInv'
<1>1. PICK m : m = Head(wire["host"][c])
  OBVIOUS
<1>2. PICK t : t = registry["worker"]
  OBVIOUS
<1>3. PICK q : q = wire["host"][c]
  OBVIOUS
<1>4. m.seq # 0 /\ m = q[1] /\ q \in Seq(Sent("host")) /\ q # << >>
  <2>1. q \in Seq(Sent("host")) /\ q # << >>
    BY <1>3, BaseFacts, SideNames
  <2> QED BY <1>1, <1>3, <2>1, QueueFacts DEF HandleFrame
<1>5. CASE HandlerEnds("host", c) /\ router' = router
  BY <1>5, FlowHostHandlerEnds
<1>6. CASE /\ router' = [router EXCEPT !.last["host"] = m.seq]
           /\ \/ t = 0 /\ inbox' = Delivered("host", c, Control("relay.unavailable"))
                 /\ Reads("host", c) /\ UNCHANGED <<registry, handler>>
              \/ t # 0 /\ inbox' = Delivered("worker", t, m) /\ Reads("host", c) /\ UNCHANGED <<registry, handler>>
              \/ t # 0 /\ HandlerEnds("host", c)
  <2>2. router'.last["worker"] = router.last["worker"]
    BY <1>6, SideNames DEF BaseInv, RestOk, RouterType
  <2>3. CASE t = 0 /\ inbox' = Delivered("host", c, Control("relay.unavailable"))
             /\ Reads("host", c) /\ UNCHANGED <<registry, handler>>
    <3>1. PICK y : y = Control("relay.unavailable")
      OBVIOUS
    <3>2. y \in Sent("worker") /\ y.seq = 0 /\ y \in MessageType
      BY <3>1, ControlSent, SentFacts, SideNames DEF ControlKind
    <3>3. /\ inbox'["host"] = (IF Present("host", c) THEN Append(inbox["host"], y) ELSE inbox["host"])
          /\ inbox'["worker"] = inbox["worker"]
      BY <2>3, <3>1, <3>2, BaseFacts, DeliveredEffect, SideNames
    <3>4. /\ wire'["host"][c] = Tail(q)
          /\ \A s \in Side : \A d \in Conn : <<s, d>> # <<"host", c>> => wire'[s][d] = wire[s][d]
      BY <1>3, <2>3, BaseFacts, ReadsEffect, SideNames
    <3>5. end' = end /\ w' = w /\ h' = h /\ misread' = misread /\ recorded' = recorded
      BY DEF Others, ghosts
    <3>6. WorkerStays /\ LastOfWorker' = LastOfWorker /\ Registered' = Registered
      BY <2>2, <2>3, <3>3, <3>4, <3>5, SideNames DEF WorkerStays, LastOfWorker, Registered
    <3>7. \A d \in Conn : Thins("host", wire'["host"][d], wire["host"][d])
      <4>1. Thins("host", Tail(q), q)
        BY <1>4, ThinTail
      <4> QED BY <1>3, <3>4, <4>1, ThinSame, SideNames
    <3>8. inbox'["host"] \in {inbox["host"], Append(inbox["host"], y)} /\ inbox'["worker"] = inbox["worker"]
      BY <3>3
    <3> QED BY <3>2, <3>5, <3>6, <3>7, <3>8, FlowHears
  <2>4. CASE t # 0 /\ inbox' = Delivered("worker", t, m) /\ Reads("host", c) /\ UNCHANGED <<registry, handler>>
    <3>1. inbox' = Delivered("worker", t, wire["host"][c][1]) /\ wire["host"][c][1].seq # 0
      BY <1>3, <1>4, <2>4
    <3> QED BY <2>2, <2>4, <3>1, FlowReturns
  <2>5. CASE HandlerEnds("host", c)
    BY <2>2, <2>5, FlowHostHandlerEnds
  <2> QED BY <1>6, <2>3, <2>4, <2>5
<1> QED BY <1>1, <1>2, <1>5, <1>6, SideNames DEF HandleFrame

LEMMA FlowHandle ==
  ASSUME BaseInv, BaseInv', FlowInv, NEW s \in Side, NEW c \in Conn, Handle(s, c)
  PROVE  FlowInv'
<1>1. Others /\ wire[s][c] # << >>
  BY DEF Handle, Others
<1>2. CASE HandleHello(s, c)
  BY <1>1, <1>2, FlowWorkerHello, FlowHostHello DEF Side
<1>3. CASE HandleRegister(s, c)
  BY <1>1, <1>3, FlowRegister
<1>4. CASE HandleFrame(s, c)
  BY <1>1, <1>4, FlowWorkerFrame, FlowHostFrame DEF Side
<1>5. CASE HandleEof(s, c)
  <2>1. HandlerEnds(s, c) /\ router' = router
    BY <1>5 DEF HandleEof
  <2> QED BY <1>1, <2>1, FlowWorkerHandlerEnds, FlowHostHandlerEnds DEF Side
<1> QED BY <1>2, <1>3, <1>4, <1>5 DEF Handle

-----------------------------------------------------------------------------
(* A session from its first step on.                                       *)

LEMMA FlowStep == ASSUME BaseInv, BaseInv', FlowInv, RelayNext PROVE FlowInv' \/ reset'
<1>1. CASE Connect("worker")
  BY <1>1, FlowConnectWorker
<1>2. CASE WorkerReady
  BY <1>2, FlowWorkerReady
<1>3. ASSUME NEW k \in Request, Ask(k) PROVE FlowInv'
  BY <1>3, FlowAsk
<1>4. CASE Hear
  BY <1>4, FlowHear
<1>5. CASE WorkerTimesOut
  BY <1>5, FlowWorkerTimesOut
<1>6. CASE ExecutionEnds
  BY <1>6, FlowExecutionEnds
<1>7. CASE Connect("host")
  BY <1>7, FlowConnectHost
<1>8. CASE HostReady
  BY <1>8, FlowHostReady
<1>9. CASE Serve
  BY <1>9, FlowServe
<1>10. CASE ModelAnswers
  BY <1>10, FlowModelAnswers
<1>11. CASE HostTimesOut
  BY <1>11, FlowHostTimesOut
<1>12. ASSUME NEW s \in Side, Cut(s) PROVE FlowInv'
  BY <1>12, FlowCut
<1>13. ASSUME NEW s \in Side, NEW c \in Conn, Handle(s, c) PROVE FlowInv'
  BY <1>13, FlowHandle
<1>14. CASE Prune \/ Restart
  BY <1>14 DEF Prune, Restart
<1>15. CASE NeverStarts
  BY <1>15, FlowNeverStarts
<1> QED BY <1>1, <1>2, <1>3, <1>4, <1>5, <1>6, <1>7, <1>8, <1>9, <1>10, <1>11, <1>12, <1>13, <1>14, <1>15
        DEF RelayNext, WorkerStep, HostStep

\* A relay that forgot the sequences has forgotten them for good.
LEMMA ResetStays == ASSUME RelayNext, reset PROVE reset'
BY DEF RelayNext, WorkerStep, HostStep, Connect, WorkerReady, Ask, Hear, WorkerTimesOut, NeverStarts, ExecutionEnds,
       HostReady, Serve, ModelAnswers, HostTimesOut, Cut, Handle, Prune, Restart, KeepHost, KeepWorker

LEMMA FlowStutters == ASSUME FlowInv, UNCHANGED relayVars PROVE FlowInv'
BY DEF relayVars, FlowInv, LaneInv, TalkInv, RiseInv, HomeInv, FreshInv, PipeInv, Heard, NextFrame, LastOfWorker,
       Registered, HostWires, Pending, UnderWay

LEMMA SessionStep == ASSUME SessionInv, [RelayNext]_relayVars PROVE SessionInv'
<1>1. BaseInv /\ BaseInv'
  BY BaseStep DEF SessionInv
<1>2. CASE RelayNext
  BY <1>1, <1>2, FlowStep, ResetStays DEF SessionInv
<1>3. CASE UNCHANGED relayVars
  <2>1. reset' = reset
    BY <1>3 DEF relayVars
  <2> QED BY <1>1, <1>3, <2>1, FlowStutters DEF SessionInv
<1> QED BY <1>2, <1>3

\* Nothing is under way at first.
LEMMA PipeEmpty == \A x, e, rec, last : ~Started(x) =>
  PipeOk({}, [c \in Conn |-> {}], {}, {}, {}, last, x, e, rec)
<1>1. \A c \in Conn : [d \in Conn |-> {}][c] = {}
  OBVIOUS
<1>2. 1 \in Conn /\ 2 \in Conn
  BY DEF Conn
<1> QED BY <1>1, <1>2 DEF PipeOk, Numbered, Alone, All, Back

LEMMA SessionInit == ASSUME RelayInit PROVE SessionInv
<1>1. BaseInv
  BY BaseInit
<1>2. /\ LastOfWorker = 0 /\ \A s \in Side : end[s] = [conn |-> 1, seq |-> 0, state |-> "closed"] /\ inbox[s] = << >>
      /\ \A s \in Side : \A c \in Conn : wire[s][c] = << >> /\ ~handler[s][c]
      /\ w = Off /\ h = Away /\ misread = {}
  BY SideNames DEF RelayInit, LastOfWorker
<1>3. Items(<< >>) = {} /\ Linked(<< >>) /\ (\A s : Rising(s, << >>)) /\ Len(<< >>) = 0
  BY ThinShort, LinkedShort, RisingShort
<1>4. \A c \in Conn : First(end["worker"], handler["worker"], wire["worker"], c) = 0
  BY <1>2, SideNames DEF First
<1>5. LaneInv
  <2>1. LaneOk(end["worker"], handler["worker"], wire["worker"])
    BY <1>2, <1>3, SideNames DEF LaneOk
  <2> QED BY <1>2, <1>3, <2>1, SideNames DEF LaneInv, LaneRise
<1>6. TalkInv
  <2>1. \A c \in Conn : NextFrame[c] = 0
    BY <1>4 DEF NextFrame
  <2>2. ~Registered /\ ~Serves(h) /\ h.ordered
    BY <1>2, SideNames DEF Registered, Serves, Away
  <2>3. inbox["host"] = << >>
    BY <1>2, SideNames
  <2> QED BY <1>3, <2>1, <2>2, <2>3 DEF TalkInv, TalkOk
<1>7. RiseInv /\ FreshInv
  BY <1>2, <1>3, SideNames DEF RiseInv, FreshInv
<1>8. HomeInv /\ Pending = {} /\ UnderWay = {} /\ ~Started(w)
  BY <1>2, <1>3, <1>4, SideNames DEF HomeInv, Serves, Away, Pending, UnderWay, Going, Off, Started
<1>9. HostWires = [c \in Conn |-> {}]
  BY <1>2, <1>3, SideNames DEF HostWires
<1>10. PipeInv
  BY <1>2, <1>3, <1>8, <1>9, PipeEmpty, SideNames DEF PipeInv
<1>11. WorkerOk(w, end["worker"]) /\ Heard
  BY <1>2, OffOk DEF Heard
<1> QED BY <1>1, <1>5, <1>6, <1>7, <1>8, <1>10, <1>11 DEF SessionInv, FlowInv

\* What a host session handles comes from one endpoint of the worker, each
\* message once and in the order sent (worker_transport.py, run_once of the
\* host, over relay.py, route), as long as the relay keeps the sequences.
THEOREM ConversationCorrect == RelaySpec => []OneConversation
<1>1. RelayInit => SessionInv
  BY SessionInit
<1>2. SessionInv /\ [RelayNext]_relayVars => SessionInv'
  BY SessionStep
<1>3. SessionInv => OneConversation
  BY DEF SessionInv, FlowInv, TalkInv, TalkOk, OneConversation
<1> QED BY <1>1, <1>2, <1>3, PTL DEF RelaySpec

\* An answer whose type the client looks at is the answer to its own request
\* (worker_transport.py, _request), whatever came too late for an earlier one,
\* and a worker that reports its result as delivered was heard.
THEOREM AnswersMatchCorrect == RelaySpec => []AnswersMatch
<1>1. RelayInit => SessionInv
  BY SessionInit
<1>2. SessionInv /\ [RelayNext]_relayVars => SessionInv'
  BY SessionStep
<1>3. SessionInv => AnswersMatch
  BY DEF SessionInv, FlowInv, Heard, AnswersMatch
<1> QED BY <1>1, <1>2, <1>3, PTL DEF RelaySpec
=============================================================================
