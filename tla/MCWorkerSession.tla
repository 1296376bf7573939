-------------------------- MODULE MCWorkerSession --------------------------
(***************************************************************************)
(* Instances of WorkerSession for TLC.                                     *)
(***************************************************************************)
EXTENDS WorkerSession, TLC

CONSTANTS w1, w2

\* choose_node prefers w2.
MCRank == (w1 :> 2) @@ (w2 :> 1)

\* One worker and a job without an output, which may ask for a gateway the host
\* has not; with an output of two chunks, tried once; one that may be retried;
\* with an update pending; and two workers that compete for a job.
MCScenarios ==
  [chunks : {0}, attempts : {1}, answerable : BOOLEAN, updates : {{}}, drained : {{w2}}]
  \cup [chunks : {2}, attempts : {1}, answerable : {TRUE}, updates : {{}}, drained : {{w2}}]
  \cup [chunks : {1}, attempts : {2}, answerable : {TRUE}, updates : {{}}, drained : {{w2}}]
  \cup [chunks : {0}, attempts : {1}, answerable : {TRUE}, updates : {{w1}}, drained : {{w2}}]
  \cup [chunks : {1}, attempts : {1}, answerable : {TRUE}, updates : {{}}, drained : {{}}]
=============================================================================
