---------------------------- MODULE ModelGrants ----------------------------
(***************************************************************************)
(* One model grant of a job and the processes that use it: begin, finish   *)
(* and consume read, change and write the grant record under its flock;    *)
(* revoke_model_grant and revoke_node do the same without it.  A step is   *)
(* one access to the store; the process decides what it will write when it *)
(* reads.                                                                  *)
(*                                                                         *)
(* The binding (run, job, node, audience, scope, purpose) is taken to      *)
(* match.  Cost is an amount like tokens with a limit of its own, so a     *)
(* call may exceed it at will.  Refusals change nothing and are no steps.  *)
(***************************************************************************)
EXTENDS Naturals, FiniteSets, Functions

CONSTANTS
  Process,         \* processes with a coordinator on this store
  Call,            \* the call ids that may be given out
  Amount,          \* token amounts requested and reported
  Revokers,        \* the unlocked revocations that may happen
  MaxCalls, MaxTokens, MaxConcurrency,   \* the limits of the grant
  None             \* no process

ASSUME LimitsAssumption ==
  /\ MaxCalls \in Nat /\ MaxTokens \in Nat /\ MaxConcurrency \in Nat
  /\ Amount \subseteq Nat
ASSUME GrantNamesAssumption ==
  /\ IsFiniteSet(Call) /\ None \notin Process
  /\ Revokers \subseteq {"revoke_model_grant", "revoke_node"}

\* reserved: the tokens each open call has reserved, 0 when it is not open.
\* keyed: the record has the field "reservations", which stays once a call has
\* begun.  marked: it has "active_calls", which revoke_node adds.
GrantType ==
  [calls : Nat, tokens : Nat, reserved : [Call -> Nat],
   keyed : BOOLEAN, marked : BOOLEAN, revoked : BOOLEAN]

VARIABLES
  grant,    \* the record in "grants"
  expired,  \* the clock has passed expires_at
  lock,     \* holder of the flock grant-<id>
  next,     \* the record a process is about to write
  doing,    \* and what it is doing
  begun,    \* the calls that were allowed to begin
  refused,  \* the calls whose final usage was refused
  spent,    \* the calls consume has charged
  ended     \* whether a revocation has returned

vars == <<grant, expired, lock, next, doing, begun, refused, spent, ended>>

NoGrant ==
  [calls |-> 0, tokens |-> 0, reserved |-> [c \in Call |-> 0],
   keyed |-> FALSE, marked |-> FALSE, revoked |-> FALSE]

Doing == [op : {"idle", "consume"} \cup Revokers]
           \cup [op : {"begin", "finish", "overrun"}, call : Call]
Idle == [op |-> "idle"]

TypeOK ==
  /\ grant \in GrantType
  /\ expired \in BOOLEAN
  /\ lock \in Process \cup {None}
  /\ next \in [Process -> GrantType]
  /\ doing \in [Process -> Doing]
  /\ begun \subseteq Call
  /\ refused \subseteq Call
  /\ spent \in Nat
  /\ ended \in BOOLEAN

\* issue_model_grant has written the grant.
Init ==
  /\ grant = NoGrant
  /\ expired = FALSE
  /\ lock = None
  /\ next = [p \in Process |-> NoGrant]
  /\ doing = [p \in Process |-> Idle]
  /\ begun = {}
  /\ refused = {}
  /\ spent = 0
  /\ ended = FALSE

-----------------------------------------------------------------------------
Open(g) == {c \in Call : g.reserved[c] > 0}
ReservedTokens(g) == FoldFunction(LAMBDA a, b : a + b, 0, g.reserved)

\* ModelGrant(**values) and authorize: a record with an unexpected field cannot
\* be read back, an expired or revoked grant authorizes nothing.
Readable(g) == ~g.marked
Authorizes(g) == ~g.revoked /\ ~expired

\* A process reads the grant and goes on with what it will write.
Decide(p, what, record) ==
  /\ doing[p] = Idle
  /\ doing' = [doing EXCEPT ![p] = what]
  /\ next' = [next EXCEPT ![p] = record]
  /\ UNCHANGED <<grant, expired, begun, refused, spent, ended>>

Locked(p) == lock = None /\ lock' = p

\* Fault: open calls are not counted.
CallsLeft_settled(g) == g.calls + 1 <= MaxCalls

CallsLeft(g) == g.calls + Cardinality(Open(g)) + 1 <= MaxCalls

begin_model_grant_call(p, c, t) ==
  /\ c \notin begun /\ \A q \in Process : doing[q] # [op |-> "begin", call |-> c]
  /\ t > 0
  /\ Readable(grant) /\ Authorizes(grant)
  /\ Cardinality(Open(grant)) < MaxConcurrency
  /\ CallsLeft(grant)
  /\ grant.tokens + ReservedTokens(grant) + t <= MaxTokens
  /\ Locked(p)
  /\ Decide(p, [op |-> "begin", call |-> c],
            [grant EXCEPT !.reserved[c] = t, !.keyed = TRUE])

\* Faults: a finished call stays reserved; its tokens are taken off.
Charge_kept(c, t) == [grant EXCEPT !.calls = @ + 1, !.tokens = @ + t]
Charge(c, t) == [grant EXCEPT !.calls = @ + 1, !.tokens = @ + t, !.reserved[c] = 0]

\* Neither expiry nor revocation keeps a call from being settled.  Usage over
\* the budget is refused and not charged, but its reservation is dropped.
finish_model_grant_call(p, c, t, overCost) ==
  LET within == grant.calls + 1 <= MaxCalls /\ grant.tokens + t <= MaxTokens /\ ~overCost
  IN /\ Readable(grant) /\ c \in Open(grant)
     /\ Locked(p)
     /\ \/ within /\ Decide(p, [op |-> "finish", call |-> c], Charge(c, t))
        \/ ~within /\ Decide(p, [op |-> "overrun", call |-> c],
                             [grant EXCEPT !.reserved[c] = 0])

\* Its reader does not expect "reservations" either.
consume_model_grant(p, t) ==
  /\ Readable(grant) /\ ~grant.keyed /\ Authorizes(grant)
  /\ grant.calls + 1 <= MaxCalls /\ grant.tokens + t <= MaxTokens
  /\ Locked(p)
  /\ Decide(p, [op |-> "consume"], [grant EXCEPT !.calls = @ + 1, !.tokens = @ + t])

revoke_model_grant(p) ==
  /\ "revoke_model_grant" \in Revokers
  /\ Decide(p, [op |-> "revoke_model_grant"], [grant EXCEPT !.revoked = TRUE])
  /\ UNCHANGED lock

revoke_node(p) ==
  /\ "revoke_node" \in Revokers
  /\ ~grant.revoked
  /\ Decide(p, [op |-> "revoke_node"], [grant EXCEPT !.revoked = TRUE, !.marked = TRUE])
  /\ UNCHANGED lock

-----------------------------------------------------------------------------
\* The write, the end of the handler and its answer.
Put(p) ==
  LET did == doing[p]
  IN /\ did # Idle
     /\ grant' = next[p]
     /\ doing' = [doing EXCEPT ![p] = Idle]
     /\ next' = [next EXCEPT ![p] = NoGrant]
     /\ lock' = IF lock = p THEN None ELSE lock
     /\ begun' = IF did.op = "begin" THEN begun \cup {did.call} ELSE begun
     /\ refused' = IF did.op = "overrun" THEN refused \cup {did.call} ELSE refused
     /\ spent' = IF did.op = "consume" THEN spent + 1 ELSE spent
     /\ ended' = (ended \/ did.op \in Revokers)
     /\ UNCHANGED expired

\* The process dies before it writes; its flock goes with it.
Crash(p) ==
  /\ doing[p] # Idle
  /\ doing' = [doing EXCEPT ![p] = Idle]
  /\ next' = [next EXCEPT ![p] = NoGrant]
  /\ lock' = IF lock = p THEN None ELSE lock
  /\ UNCHANGED <<grant, expired, begun, refused, spent, ended>>

Expire ==
  /\ ~expired
  /\ expired' = TRUE
  /\ UNCHANGED <<grant, lock, next, doing, begun, refused, spent, ended>>

Next ==
  \/ \E p \in Process, c \in Call, t \in Amount : begin_model_grant_call(p, c, t)
  \/ \E p \in Process, c \in Call, t \in Amount, overCost \in BOOLEAN :
       finish_model_grant_call(p, c, t, overCost)
  \/ \E p \in Process, t \in Amount : consume_model_grant(p, t)
  \/ \E p \in Process : revoke_model_grant(p) \/ revoke_node(p) \/ Put(p) \/ Crash(p)
  \/ Expire

Spec == Init /\ [][Next]_vars

-----------------------------------------------------------------------------
(* Properties.                                                             *)

\* The grant never promises more than its limits, not even after a revocation
\* has written back a record that was stale: charged and open calls together
\* stay within max_calls, open calls within max_concurrency, charged tokens
\* within max_tokens.
WithinLimits ==
  /\ grant.calls + Cardinality(Open(grant)) <= MaxCalls
  /\ Cardinality(Open(grant)) <= MaxConcurrency
  /\ grant.tokens <= MaxTokens

\* Until a revocation puts back its copy, every call that was let through is
\* charged, open, or was refused at its end: no concurrent handler and no crash
\* loses one or counts one twice.
CallsAccounted ==
  ~ended =>
    grant.calls + Cardinality(Open(grant)) + Cardinality(refused)
      = Cardinality(begun) + spent
=============================================================================
