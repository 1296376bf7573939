-------------------------- MODULE TerminalOutcome --------------------------
(***************************************************************************)
(* What the coordinator promises about the end of one job: at most one of  *)
(* the terminal events submitted for it is decided, the decision is never  *)
(* taken back, and a worker is only ever told "recorded" about the event   *)
(* that was decided.                                                       *)
(***************************************************************************)
CONSTANTS Event, None

VARIABLES outcome, acknowledged

TypeOK == outcome \in Event \cup {None} /\ acknowledged \subseteq Event

Init == outcome = None /\ acknowledged = {}

Decide(e) ==
  /\ outcome = None
  /\ outcome' = e
  /\ UNCHANGED acknowledged

Acknowledge(e) ==
  /\ outcome = e
  /\ acknowledged' = acknowledged \cup {e}
  /\ UNCHANGED outcome

Next == \E e \in Event : Decide(e) \/ Acknowledge(e)

Spec == Init /\ [][Next]_<<outcome, acknowledged>>
=============================================================================
