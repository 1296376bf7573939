----------------------------- MODULE MCSandbox -----------------------------
(***************************************************************************)
(* Instances of Sandbox for TLC.                                           *)
(***************************************************************************)
EXTENDS Sandbox

Names == {"a", "b"}
Paths == {<<>>} \cup {<<x>> : x \in Names} \cup {<<x, y>> : x, y \in Names}
MCExisting == Paths \ {<<"a", "b">>, <<"b", "a">>, <<"b", "b">>}
MCFiles == {<<"a", "b">>, <<"b", "a">>}

\* The workspace is /a; every pair of state roots, with and without a file.
Base ==
  [network |-> "none", filesystem |-> "run_scoped", allowlist |-> <<>>, stateRoots |-> <<>>,
   stateFiles |-> {}, workspace |-> <<"a">>, cwd |-> <<"a">>, listed |-> TRUE,
   backend |-> "macos-sandbox-exec"]

MCPolicies ==
  {[Base EXCEPT !.stateRoots = <<x, y>>, !.stateFiles = f] :
     x, y \in Paths, f \in {{}} \cup {{q} : q \in Paths}}
  \cup {[Base EXCEPT !.filesystem = m, !.allowlist = <<x>>, !.cwd = c] :
     m \in {"read_only", "allowlist", "none"}, x, c \in Paths}
  \cup {[Base EXCEPT !.network = n, !.listed = l, !.backend = b] :
     n \in NetworkModes, l \in BOOLEAN, b \in {"macos-sandbox-exec", "policy-boundary"}}
=============================================================================
