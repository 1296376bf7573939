----------------------------- MODULE MCAgentLoop -----------------------------
(***************************************************************************)
(* Loops a host may start, for small instances of AgentLoop.               *)
(***************************************************************************)
EXTENDS AgentLoop

Rules(adapter, quality, lease) ==
  [f \in Failures |->
     CASE f = "adapter_error" -> adapter [] f = "quality_failed" -> quality [] OTHER -> lease]

Once == [f \in Failures |-> 1]

\* The built-in plan, its output approved by a human.
Supervised ==
  [read |-> FALSE, write |-> FALSE, approvals |-> {"final_output"}, plan |-> <<>>,
   timed |-> TRUE, ack |-> FALSE, policy |-> Rules("retry", "remediation", "retry"), budget |-> Once]

\* The built-in plan, failures handed to a human.
Handoff ==
  [read |-> TRUE, write |-> TRUE, approvals |-> {}, plan |-> <<>>,
   timed |-> FALSE, ack |-> FALSE, policy |-> Rules("require_human", "stop", "require_human"), budget |-> Once]

\* A host's plan with a check before its work.
Checked ==
  [read |-> FALSE, write |-> FALSE, approvals |-> {}, timed |-> FALSE, ack |-> TRUE,
   plan |-> <<"contract_check", "task_dispatch", "final_output">>,
   policy |-> Rules("remediation", "retry", "retry"), budget |-> Once]

\* Adapter failures handed to a human, failed gates retried.
Mixed ==
  [read |-> FALSE, write |-> FALSE, approvals |-> {}, plan |-> <<>>,
   timed |-> FALSE, ack |-> FALSE, policy |-> Rules("require_human", "retry", "stop"), budget |-> Once]

PassConfigs == {Supervised, Handoff, Checked}
MixedConfig == {Mixed}
=============================================================================
