SPECIFICATION MCSpec
CONSTANTS
  p1 = p1
  p2 = p2
  None = None
  Process = {p1, p2}
  Enrollment = {e1}
  Handlers = {"create_pairing_code", "submit_pairing", "approve", "reject", "revoke", "revoke_node",
    "delete", "delete_node", "import_approved_node", "connect_node", "disconnect_node",
    "expire_stale_nodes", "heartbeat_node", "set_draining", "set_draining_off",
    "request_node_update", "request_node_transport", "fetch_directive"}
  MaxFailures = 2
  MaxGeneration = 3
  MaxDirectives = 2
INVARIANTS
  PairingSafe
  RevocationStopsSessions
PROPERTIES
  UpdateDrains
