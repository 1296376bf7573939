---------------------------- MODULE MCWorkerRoot ----------------------------
(***************************************************************************)
(* Small instances of WorkerRoot.                                          *)
(***************************************************************************)
EXTENDS WorkerRoot

CONSTANTS v1, v2

S(commands_, duties, overlap, mortal, installed, relay, limit) ==
  [commands |-> commands_, duties |-> duties, overlap |-> overlap, mortal |-> mortal,
   installed |-> installed, relay |-> relay, limit |-> limit]

\* The life of a runtime from nothing; updates by the operator and by the host
\* at the same time; packs; and an identity, with and without a relay.
MCScenarios ==
  { S({"install", "update", "rollback", "drain", "uninstall", "purge"}, {"update"}, FALSE, Proc, FALSE, FALSE, 3),
    S({"update", "rollback", "uninstall"}, {"update"}, TRUE, Proc, TRUE, FALSE, 3),
    S({"pack", "unpack"}, {}, FALSE, Proc, TRUE, FALSE, 3) }
  \cup { S({"join", "leave", "switch"}, {"poll", "renew", "switch"}, FALSE, {"service"}, TRUE, r, 3) : r \in BOOLEAN }
  \cup { S({"join", "leave"}, {"poll", "renew", "switch"}, TRUE, {}, TRUE, r, 2) : r \in BOOLEAN }
=============================================================================
