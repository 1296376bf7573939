--------------------------- MODULE MCTaskRuntime ---------------------------
(***************************************************************************)
(* Instances of TaskRuntime for TLC.                                       *)
(***************************************************************************)
EXTENDS TaskRuntime

Spec1(wave, listed, old) ==
  [wave |-> wave, priority |-> 1, deps |-> {}, listed |-> listed, old |-> old]

\* A strict plan of two stages that the host put in one wave, with a file left
\* from before at the first stage's path.
Chain ==
  [kind |-> "delivery", plan |-> <<Spec1(1, TRUE, TRUE), Spec1(1, TRUE, FALSE)>>, strict |-> TRUE,
   fresh |-> TRUE, managed |-> FALSE, timed |-> FALSE, crashes |-> 0]
Managed ==
  [kind |-> "delivery", plan |-> <<Spec1(1, TRUE, FALSE)>>, strict |-> FALSE,
   fresh |-> FALSE, managed |-> TRUE, timed |-> FALSE, crashes |-> 0]
Crashing == [Chain EXCEPT !.plan = <<Spec1(1, TRUE, TRUE)>>, !.crashes = 1]
AppGrade == [Managed EXCEPT !.kind = "app", !.managed = FALSE]
Remote == [Managed EXCEPT !.kind = "remote", !.managed = FALSE]
HostLoop == [Managed EXCEPT !.kind = "loop", !.managed = FALSE, !.timed = TRUE]

MCConfigs == {Chain, Crashing, Managed, AppGrade, Remote, HostLoop}
=============================================================================
