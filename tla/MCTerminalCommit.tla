-------------------------- MODULE MCTerminalCommit --------------------------
(***************************************************************************)
(* Small instances of TerminalCommit.  A behaviour follows one scenario:   *)
(* two terminal events of one attempt and no handler but record_event and  *)
(* the recovery, or events of two attempts and every unlocked writer.      *)
(***************************************************************************)
EXTENDS TerminalCommit

CONSTANTS e1, e2, e3

\* e3 is reported under the second lease of the job.
Attempts == [e \in Event |-> IF e = e3 THEN 2 ELSE 1]

VARIABLE scenario

Isolated == [events |-> {e1, e2}, writers |-> {}, faults |-> 2]
Racing == [events |-> {e1, e3}, writers |-> Writers, faults |-> 1]

\* Which events are submitted, which handlers run besides, how much fails.
InScenario ==
  /\ \A p \in Process : call[p] \in scenario.events \cup {None}
  /\ \A p \in Process : op[p] \in scenario.writers \cup {None}
  /\ faults <= scenario.faults

MCInit == Init /\ scenario \in {Isolated, Racing}
MCNext == Next /\ UNCHANGED scenario /\ InScenario'
MCSpec == MCInit /\ [][MCNext]_<<vars, scenario>> /\ Fairness

\* As long as no unlocked handler interferes, a prepared transaction is
\* eventually committed, by its own process or by one that recovers it.
IsolatedCommit == (scenario = Isolated) => PreparedCommitted
=============================================================================
