----------------------------- MODULE WorkerRoot -----------------------------
(***************************************************************************)
(* The worker's own state: the files under its root directory, which the   *)
(* across-worker command (the operator) and the service that runs          *)
(* `across-worker run` both rewrite, one file at a time and without a lock. *)
(*                                                                         *)
(* The runtime versions, the link the launcher follows, the record of the  *)
(* active version and the drain marker; the device key, certificate,       *)
(* session and node files of an identity that is requested, approved by    *)
(* the host, renewed before it expires and given up.  Either process may   *)
(* die between two writes.                                                 *)
(***************************************************************************)
EXTENDS Naturals, FiniteSets

CONSTANTS
  Version,        \* version names of runtimes and packs
  Content,        \* contents of distributions and packs, up to their hash
  Builtin,        \* WORKER_VERSION of the command
  Scenarios,      \* what the instance starts from: see ScenarioType
  MaxCommands,    \* bound on the operator's and the host's commands
  MaxFaults,      \* bound on processes that die between two writes and on lost answers
  MaxGeneration,  \* bound on identity generations
  None            \* absent value

Proc == {"operator", "service"}
Command == {"install", "update", "rollback", "drain", "uninstall", "purge",
            "pack", "unpack", "join", "leave", "switch"}
Duty == {"update", "poll", "renew", "switch"}

\* Which commands the operator (and, for "switch", the host) gives, what the
\* service does, whether a command may overlap what the service does, whose
\* death is considered, whether the worker is installed, whether the host
\* offers a relay and how many commands are given.
ScenarioType ==
  [commands : SUBSET Command, duties : SUBSET Duty, overlap : BOOLEAN, mortal : SUBSET Proc,
   installed : BOOLEAN, relay : BOOLEAN, limit : 0..MaxCommands]

ASSUME RootAssumption ==
  /\ Builtin \in Version /\ Scenarios \subseteq ScenarioType
  /\ MaxCommands \in Nat /\ MaxFaults \in Nat /\ MaxGeneration \in Nat \ {0}

VARIABLES
  scenario,
  versions,   \* versions/<v>: the content installed under each version
  link,       \* runtime/current
  record,     \* state/current-version.json
  marker,     \* state/draining exists
  launcher,   \* bin/across-worker exists
  unit,       \* the service is registered with the service manager
  manifest,   \* state/install.json exists
  running,    \* the version the service process was started from
  packs,      \* packs/<id>/<v>: the content installed under each version
  pointer,    \* packs/<id>/current.json
  key,        \* identity/device-key.pem: 0 for none, else its number
  cert,       \* identity/device-certificate.pem
  join,       \* identity/join-request.json: its enrollment
  session,    \* state/session.json
  node,       \* state/node.json
  host,       \* what the host knows of the worker
  proc,       \* what each process is at
  keys,       \* keys generated so far
  commands,   \* commands given so far
  due,        \* certificates up to this generation are due for renewal
  expired,    \* certificates up to this generation have expired
  faults,     \* processes that died and answers that were lost
  torn        \* an operation on the runtime was cut short (history)

runtime == <<versions, link, record, marker, launcher, unit, manifest, packs, pointer>>
identity == <<key, cert, join, session, node, keys>>
clock == <<due, expired>>
rootVars == <<scenario, runtime, running, identity, host, proc, commands, clock, faults, torn>>

Transport == {"direct", "relay"}
Generation == 0..MaxGeneration
SessionType == [ready : BOOLEAN, transport : Transport, material : BOOLEAN, fallback : BOOLEAN, enrollment : 0..MaxCommands]
NodeType == [key : Nat, gen : Generation]
RecordType == [version : Version, previous : Version \cup {None}]
CertType == [key : Nat, gen : Generation \ {0}]
\* Where a process is in its operation.
Points ==
  {"idle", "stage", "drain", "prior", "place", "link", "record", "undrain", "abort", "restart", "launcher",
   "unit", "manifest", "stop", "unlaunch", "purge", "unpack", "point", "remove", "key", "request",
   "new_session", "new_node", "submit", "poll", "renew", "verify", "cert", "read_session", "session", "node",
   "requested", "fallback", "choose", "forget_key", "forget_cert", "forget_request", "forget_node",
   "forget_session"}
ProcType ==
  [op : Command \cup Duty \cup {None}, pc : Points, version : Version \cup {None},
   content : Content \cup {None}, prior : Version \cup {None},
   gen : Generation, session : {None} \cup SessionType, node : {None} \cup NodeType]

ASSUME AbsentAssumption ==
  /\ None \notin Version \cup Content \cup Command \cup Duty \cup {"builtin", "pending", "approved"}
  /\ None \notin SessionType \cup NodeType \cup RecordType \cup CertType

RootTypeOK ==
  /\ scenario \in Scenarios
  /\ versions \in [Version -> Content \cup {None, "builtin"}] /\ packs \in [Version -> Content \cup {None}]
  /\ {link, running, pointer} \subseteq Version \cup {None} /\ record \in {None} \cup RecordType
  /\ {marker, launcher, unit, manifest, torn} \subseteq BOOLEAN
  /\ key \in 0..keys /\ keys \in 0..MaxCommands
  /\ cert \in {None} \cup CertType /\ (cert # None => cert.key \in 1..keys)
  /\ join \in (1..MaxCommands) \cup {None}
  /\ session \in {None} \cup SessionType /\ node \in {None} \cup NodeType
  /\ host \in [key : 0..keys, gen : Generation, enrollment : 0..MaxCommands, state : {None, "pending", "approved"}]
  /\ proc \in [Proc -> ProcType]
  /\ commands \in 0..MaxCommands /\ due \in Generation /\ expired \in 0..due /\ faults \in 0..MaxFaults

Idle == [op |-> None, pc |-> "idle", version |-> None, content |-> None, prior |-> None,
         gen |-> 0, session |-> None, node |-> None]

RootInit ==
  /\ scenario \in Scenarios
  /\ versions = [v \in Version |-> IF scenario.installed /\ v = Builtin THEN "builtin" ELSE None]
  /\ link = (IF scenario.installed THEN Builtin ELSE None) /\ running = link
  /\ record = (IF scenario.installed THEN [version |-> Builtin, previous |-> None] ELSE None)
  /\ launcher = scenario.installed /\ unit = scenario.installed /\ manifest = scenario.installed
  /\ marker = FALSE /\ torn = FALSE
  /\ packs = [v \in Version |-> None] /\ pointer = None
  /\ key = 0 /\ cert = None /\ join = None /\ session = None /\ node = None /\ keys = 0
  /\ host = [key |-> 0, gen |-> 0, enrollment |-> 0, state |-> None]
  /\ proc = [p \in Proc |-> Idle]
  /\ commands = 0 /\ due = 0 /\ expired = 0 /\ faults = 0

-----------------------------------------------------------------------------
(* Beginning an operation.                                                 *)

Free(p) == proc[p].op = None /\ (scenario.overlap \/ \A q \in Proc : proc[q].op = None)

\* A command of the operator begins at pc with the given locals.
Begins(op, pc, v, c, prior) ==
  /\ Free("operator") /\ op \in scenario.commands /\ commands < scenario.limit
  /\ commands' = commands + 1
  /\ proc' = [proc EXCEPT !["operator"] =
       [Idle EXCEPT !.op = op, !.pc = pc, !.version = v, !.content = c, !.prior = prior]]
  /\ UNCHANGED <<scenario, runtime, running, identity, host, clock, faults, torn>>

BeginInstall == Begins("install", "stage", Builtin, None, None)
BeginUpdate(v, c) == Begins("update", "drain", v, c, None)

\* rollback_worker reads the record before it drains.
BeginRollback ==
  /\ record # None /\ record.previous # None /\ versions[record.previous] # None
  /\ Begins("rollback", "drain", record.previous, None, record.version)

BeginUninstall == Begins("uninstall", "stop", None, None, None) \/ Begins("purge", "stop", None, None, None)
BeginPack(v, c) == Begins("pack", "unpack", v, c, None)
BeginUnpack == Begins("unpack", "remove", None, None, None)
BeginJoin == Begins("join", "key", None, None, None)
BeginLeave == Begins("leave", "forget_key", None, None, None)

\* The run loop works only while no drain marker is there.
Works(op, pc) ==
  /\ Free("service") /\ op \in scenario.duties /\ running # None /\ ~marker
  /\ proc' = [proc EXCEPT !["service"] = [Idle EXCEPT !.op = op, !.pc = pc]]
  /\ UNCHANGED <<scenario, runtime, running, identity, host, clock, faults, torn>>

\* The host's directive reaches the worker in its session.
TakeDirective(v, c) ==
  /\ Free("service") /\ "update" \in scenario.duties /\ running # None /\ ~marker
  /\ commands < scenario.limit /\ commands' = commands + 1
  /\ proc' = [proc EXCEPT !["service"] = [Idle EXCEPT !.op = "update", !.pc = "drain", !.version = v, !.content = c]]
  /\ UNCHANGED <<scenario, runtime, running, identity, host, clock, faults, torn>>

RenewalDue == node # None /\ node.gen # 0 /\ node.gen <= due

BeginPoll ==
  /\ session # None /\ ~session.ready /\ join # None /\ node # None
  /\ Works("poll", "poll") /\ UNCHANGED commands

BeginRenew ==
  /\ session # None /\ session.ready /\ RenewalDue
  /\ Works("renew", "renew") /\ UNCHANGED commands

\* The primary transport fails and a relay is known; or the host asks for another.
BeginSwitch ==
  /\ session # None /\ session.ready
  /\ \/ /\ session.transport # "relay" /\ session.fallback
        /\ Works("switch", "fallback") /\ UNCHANGED commands
     \/ /\ "switch" \in scenario.commands /\ commands < scenario.limit /\ commands' = commands + 1
        /\ Works("switch", "choose")

-----------------------------------------------------------------------------
(* The runtime: install_worker, update_worker, rollback_worker and          *)
(* _activate_runtime.                                                      *)

At(p, pc) == proc[p].pc = pc
Goto(p, pc) == proc' = [proc EXCEPT ![p].pc = pc]
Done(p) == proc' = [proc EXCEPT ![p] = Idle]
KeepRest == UNCHANGED <<scenario, identity, host, commands, clock, faults, torn>>

\* _stage_builtin_runtime keeps a version that is already there.
Stage(p) ==
  /\ At(p, "stage")
  /\ versions' = [versions EXCEPT ![Builtin] = IF @ = None THEN "builtin" ELSE @]
  /\ Goto(p, "link")
  /\ KeepRest /\ UNCHANGED <<link, record, marker, launcher, unit, manifest, packs, pointer, running>>

SetDrain(p) ==
  /\ At(p, "drain")
  /\ marker' = TRUE
  /\ Goto(p, IF proc[p].op = "update" THEN "prior" ELSE "link")
  /\ KeepRest /\ UNCHANGED <<versions, link, record, launcher, unit, manifest, packs, pointer, running>>

ReadPrior(p) ==
  /\ At(p, "prior")
  /\ proc' = [proc EXCEPT ![p].pc = "place", ![p].prior = IF record = None THEN None ELSE record.version]
  /\ KeepRest /\ UNCHANGED <<runtime, running>>

\* The archive is unpacked beside its place and moved there in one step; a
\* version that is there already must have the same content.
Placeable(p) == versions[proc[p].version] \in {None, proc[p].content}

Place_unchecked(p) ==
  /\ At(p, "place")
  /\ \/ Placeable(p) /\ versions' = [versions EXCEPT ![proc[p].version] = proc[p].content] /\ Goto(p, "link")
     \/ UNCHANGED versions /\ Goto(p, "link")
  /\ KeepRest /\ UNCHANGED <<link, record, marker, launcher, unit, manifest, packs, pointer, running>>
Place(p) ==
  /\ At(p, "place")
  /\ \/ Placeable(p) /\ versions' = [versions EXCEPT ![proc[p].version] = proc[p].content] /\ Goto(p, "link")
     \/ UNCHANGED versions /\ Goto(p, "abort")
  /\ KeepRest /\ UNCHANGED <<link, record, marker, launcher, unit, manifest, packs, pointer, running>>

Link(p) ==
  /\ At(p, "link")
  /\ link' = proc[p].version
  /\ Goto(p, "record")
  /\ KeepRest /\ UNCHANGED <<versions, record, marker, launcher, unit, manifest, packs, pointer, running>>

Recorded(p) == [version |-> proc[p].version, previous |-> proc[p].prior]

Record(p) ==
  /\ At(p, "record")
  /\ record' = Recorded(p)
  /\ Goto(p, IF proc[p].op = "install" THEN "launcher" ELSE "undrain")
  /\ KeepRest /\ UNCHANGED <<versions, link, marker, launcher, unit, manifest, packs, pointer, running>>

\* The finally clause.  The service then ends its process, to be started from the new
\* link; the operator's command restarts it.
Undrain(p) ==
  /\ At(p, "undrain") \/ At(p, "abort")
  /\ marker' = FALSE
  /\ IF At(p, "undrain") /\ p = "operator" THEN Goto(p, "restart") ELSE Done(p)
  /\ running' = IF At(p, "undrain") /\ p = "service" THEN None ELSE running
  /\ KeepRest /\ UNCHANGED <<versions, link, record, launcher, unit, manifest, packs, pointer>>

\* The service process is gone, and what it was at.
Stopped(p) == [proc EXCEPT !["service"] = Idle, ![p] = Idle]
Interrupts == torn \/ proc["service"].op \in {"update"}

Restart(p) ==
  /\ At(p, "restart")
  /\ IF manifest THEN proc' = Stopped(p) /\ running' = None /\ torn' = Interrupts
                 ELSE Done(p) /\ UNCHANGED <<running, torn>>
  /\ UNCHANGED <<scenario, identity, host, commands, clock, faults, runtime>>

\* The launcher, the service's unit and, last, install.json.
FinishInstall(p) ==
  /\ \/ At(p, "launcher") /\ launcher' = TRUE /\ Goto(p, "unit") /\ UNCHANGED <<unit, manifest>>
     \/ At(p, "unit") /\ unit' = TRUE /\ Goto(p, "manifest") /\ UNCHANGED <<launcher, manifest>>
     \/ At(p, "manifest") /\ manifest' = TRUE /\ Done(p) /\ UNCHANGED <<launcher, unit>>
  /\ KeepRest /\ UNCHANGED <<versions, link, record, marker, packs, pointer, running>>

\* set_drain by command.
OperatorDrains ==
  /\ Free("operator") /\ "drain" \in scenario.commands /\ commands < scenario.limit
  /\ commands' = commands + 1 /\ marker' = TRUE
  /\ UNCHANGED <<scenario, versions, link, record, launcher, unit, manifest, packs, pointer, running,
                 identity, host, proc, clock, faults, torn>>

\* uninstall_worker: the service, the launcher and, when purged, everything.
StopService(p) ==
  /\ At(p, "stop")
  /\ unit' = FALSE /\ running' = None /\ torn' = Interrupts
  /\ proc' = [Stopped(p) EXCEPT ![p] = [proc[p] EXCEPT !.pc = "unlaunch"]]
  /\ UNCHANGED <<scenario, identity, host, commands, clock, faults, versions, link, record, marker,
                 launcher, manifest, packs, pointer>>

Unlaunch(p) ==
  /\ At(p, "unlaunch")
  /\ launcher' = FALSE
  /\ IF proc[p].op = "purge" /\ manifest THEN Goto(p, "purge") ELSE Done(p)
  /\ KeepRest /\ UNCHANGED <<versions, link, record, marker, unit, manifest, packs, pointer, running>>

Purge(p) ==
  /\ At(p, "purge")
  /\ versions' = [v \in Version |-> None] /\ packs' = [v \in Version |-> None]
  /\ link' = None /\ record' = None /\ pointer' = None /\ marker' = FALSE /\ manifest' = FALSE
  /\ key' = 0 /\ cert' = None /\ join' = None /\ session' = None /\ node' = None
  /\ Done(p)
  /\ UNCHANGED <<scenario, launcher, unit, running, keys, host, commands, clock, faults, torn>>

\* The service manager keeps the service running; the launcher follows the link.
ServiceStarts ==
  /\ unit /\ launcher /\ running = None /\ link # None /\ versions[link] # None
  /\ running' = link
  /\ UNCHANGED <<scenario, runtime, identity, host, proc, commands, clock, faults, torn>>

-----------------------------------------------------------------------------
(* Packs: install_worker_pack and remove_worker_pack.  A version that is    *)
(* there already is kept, whatever its content.                            *)

PackSteps(p) ==
  /\ \/ /\ At(p, "unpack")
        /\ \/ /\ packs' = [packs EXCEPT ![proc[p].version] = IF @ = None THEN proc[p].content ELSE @]
              /\ Goto(p, "point")
           \/ UNCHANGED packs /\ Done(p)
        /\ UNCHANGED pointer
     \/ At(p, "point") /\ pointer' = proc[p].version /\ Done(p) /\ UNCHANGED packs
     \/ At(p, "remove") /\ packs' = [v \in Version |-> None] /\ pointer' = None /\ Done(p)
  /\ KeepRest /\ UNCHANGED <<versions, link, record, marker, launcher, unit, manifest, running>>

-----------------------------------------------------------------------------
(* The identity: enroll_worker and activate_worker.                        *)

KeepRuntime == UNCHANGED <<scenario, runtime, running, commands, clock, faults, torn>>

\* create_join_request: an existing key is kept; the session starts over.
JoinSteps(p) ==
  /\ \/ /\ At(p, "key")
        /\ key' = (IF key = 0 THEN keys + 1 ELSE key) /\ keys' = (IF key = 0 THEN keys + 1 ELSE keys)
        /\ Goto(p, "request") /\ UNCHANGED <<cert, join, session, node, host>>
     \/ /\ At(p, "request") /\ join' = commands
        /\ Goto(p, "new_session") /\ UNCHANGED <<key, cert, session, node, keys, host>>
     \/ /\ At(p, "new_session")
        /\ \E t \in Transport :
             session' = [ready |-> FALSE, transport |-> t, material |-> FALSE, fallback |-> FALSE, enrollment |-> commands]
        /\ Goto(p, "new_node") /\ UNCHANGED <<key, cert, join, node, keys, host>>
     \/ /\ At(p, "new_node") /\ node' = [key |-> key, gen |-> 0]
        /\ Goto(p, "submit") /\ UNCHANGED <<key, cert, join, session, keys, host>>
  /\ KeepRuntime

\* _submit_enrollment.
Submit(p) ==
  /\ At(p, "submit")
  /\ \/ /\ join # None
        /\ host' = [key |-> key, gen |-> 0, enrollment |-> join, state |-> "pending"] /\ Goto(p, "poll")
     \/ UNCHANGED host /\ Done(p)
  /\ UNCHANGED identity /\ KeepRuntime

\* The host's answers (external).
Approve ==
  /\ host.state = "pending"
  /\ host' = [host EXCEPT !.state = "approved", !.gen = 1]
  /\ UNCHANGED <<scenario, runtime, running, identity, proc, commands, clock, faults, torn>>

\* _poll_activation_once.
PollOnce(p) ==
  /\ At(p, "poll")
  /\ IF host.state = "approved" /\ host.enrollment = join /\ host.key = key
     THEN proc' = [proc EXCEPT ![p].pc = "verify", ![p].gen = host.gen]
     ELSE Done(p)
  /\ UNCHANGED <<host, identity>> /\ KeepRuntime

\* _renew_identity_once: the host answers a generation it has renewed already
\* with the same activation again and refuses any other.  The answer may be lost.
Renewable == host.state = "approved" /\ node # None /\ host.key = node.key

Renew(p) ==
  /\ At(p, "renew")
  /\ \/ /\ Renewable /\ node.gen = host.gen /\ host.gen < MaxGeneration
        /\ host' = [host EXCEPT !.gen = @ + 1]
        /\ \/ proc' = [proc EXCEPT ![p].pc = "verify", ![p].gen = host.gen + 1] /\ UNCHANGED faults
           \/ faults < MaxFaults /\ faults' = faults + 1 /\ Done(p)
     \/ /\ Renewable /\ node.gen + 1 = host.gen
        /\ proc' = [proc EXCEPT ![p].pc = "verify", ![p].gen = host.gen] /\ UNCHANGED <<host, faults>>
     \/ /\ ~(Renewable /\ host.gen \in {node.gen, node.gen + 1})
        /\ Done(p) /\ UNCHANGED <<host, faults>>
  /\ UNCHANGED <<scenario, runtime, running, commands, clock, torn, identity>>

\* activate_worker: the node and the key must be the ones the host approved.
Verify(p) ==
  /\ At(p, "verify")
  /\ IF node # None /\ node.key = host.key /\ key = host.key
     THEN proc' = [proc EXCEPT ![p].pc = "cert", ![p].node = node]
     ELSE Done(p)
  /\ UNCHANGED <<host, identity>> /\ KeepRuntime

\* The certificate and the coordinator's CA.
WriteCert(p) ==
  /\ At(p, "cert")
  /\ cert' = [key |-> proc[p].node.key, gen |-> proc[p].gen]
  /\ Goto(p, "read_session")
  /\ UNCHANGED <<host, key, join, session, node, keys>> /\ KeepRuntime

\* The session is read now and written in the next step, and made anew from the
\* activation when its file is gone; a relay session needs the host's material.
NewSession == [ready |-> FALSE, transport |-> "direct", material |-> FALSE, fallback |-> FALSE, enrollment |-> 0]
Activated(s, t) ==
  [s EXCEPT !.ready = TRUE, !.transport = t, !.material = IF t = "relay" THEN scenario.relay ELSE @,
            !.fallback = @ \/ (t # "relay" /\ scenario.relay)]
Supplied_unchecked(t) == TRUE
Supplied(t) == t = "relay" => scenario.relay

ReadSession(p) ==
  /\ At(p, "read_session")
  /\ LET s == IF session = None THEN NewSession ELSE session
     IN  \E t \in {s.transport, "direct"} :
           IF Supplied(t)
           THEN proc' = [proc EXCEPT ![p].pc = "session", ![p].session = Activated(s, t)]
           ELSE Done(p)
  /\ UNCHANGED <<host, identity>> /\ KeepRuntime

WriteSession(p) ==
  /\ At(p, "session")
  /\ session' = proc[p].session
  /\ IF proc[p].op = "switch" THEN Done(p) ELSE Goto(p, "node")
  /\ UNCHANGED <<host, key, cert, join, node, keys>> /\ KeepRuntime

NodeAfter_stale(p) == [proc[p].node EXCEPT !.gen = IF @ = 0 THEN proc[p].gen ELSE @]
NodeAfter(p) == [proc[p].node EXCEPT !.gen = proc[p].gen]

WriteNode(p) ==
  /\ At(p, "node")
  /\ node' = NodeAfter(p)
  /\ Goto(p, "requested")
  /\ UNCHANGED <<host, key, cert, join, session, keys>> /\ KeepRuntime

DropRequest(p) ==
  /\ At(p, "requested")
  /\ join' = None
  /\ Done(p)
  /\ UNCHANGED <<host, key, cert, session, node, keys>> /\ KeepRuntime

\* apply_transport_directive: refused unless an identity is active.
Switched(t) == [session EXCEPT !.transport = t, !.material = t = "relay"]

Choose(p) ==
  /\ At(p, "fallback") \/ At(p, "choose")
  /\ IF session # None /\ session.ready
     THEN \E t \in Transport :
            /\ IF At(p, "choose") THEN Supplied(t) ELSE t = "relay"
            /\ proc' = [proc EXCEPT ![p].pc = "session", ![p].session = Switched(t)]
     ELSE Done(p)
  /\ UNCHANGED <<host, identity>> /\ KeepRuntime

\* leave_worker unlinks the files one after the other, the key first.
LeaveSteps(p) ==
  /\ \/ At(p, "forget_key") /\ key' = 0 /\ Goto(p, "forget_cert") /\ UNCHANGED <<cert, join, node, session>>
     \/ At(p, "forget_cert") /\ cert' = None /\ Goto(p, "forget_request") /\ UNCHANGED <<key, join, node, session>>
     \/ At(p, "forget_request") /\ join' = None /\ Goto(p, "forget_node") /\ UNCHANGED <<key, cert, node, session>>
     \/ At(p, "forget_node") /\ node' = None /\ Goto(p, "forget_session") /\ UNCHANGED <<key, cert, join, session>>
     \/ At(p, "forget_session") /\ session' = None /\ Done(p) /\ UNCHANGED <<key, cert, join, node>>
  /\ UNCHANGED <<host, keys>> /\ KeepRuntime

-----------------------------------------------------------------------------
(* Time and death.                                                         *)

\* The certificates of one more generation come due, or expire.
Ages ==
  /\ \/ /\ cert # None /\ due < cert.gen /\ due + 1 < MaxGeneration
        /\ due' = due + 1 /\ UNCHANGED expired
     \/ expired < due /\ expired' = expired + 1 /\ UNCHANGED due
  /\ UNCHANGED <<scenario, runtime, running, identity, host, proc, commands, faults, torn>>

Crash(p) ==
  /\ p \in scenario.mortal /\ proc[p].op # None /\ faults < MaxFaults
  /\ faults' = faults + 1
  /\ Done(p)
  /\ running' = IF p = "service" THEN None ELSE running
  /\ torn' = (torn \/ proc[p].op \in {"install", "update", "rollback"})
  /\ UNCHANGED <<scenario, runtime, identity, host, commands, clock>>

-----------------------------------------------------------------------------
RuntimeStep(p) ==
  \/ Stage(p) \/ SetDrain(p) \/ ReadPrior(p) \/ Place(p) \/ Link(p) \/ Record(p) \/ Undrain(p) \/ Restart(p)
  \/ FinishInstall(p) \/ StopService(p) \/ Unlaunch(p) \/ Purge(p) \/ PackSteps(p)

IdentityStep(p) ==
  \/ JoinSteps(p) \/ Submit(p) \/ PollOnce(p) \/ Renew(p) \/ Verify(p) \/ WriteCert(p) \/ ReadSession(p) \/ WriteSession(p)
  \/ WriteNode(p) \/ DropRequest(p) \/ Choose(p) \/ LeaveSteps(p)

RootNext ==
  \/ BeginInstall \/ BeginRollback \/ BeginUninstall \/ BeginUnpack \/ BeginJoin \/ BeginLeave \/ OperatorDrains
  \/ \E v \in Version, c \in Content : BeginUpdate(v, c) \/ BeginPack(v, c) \/ TakeDirective(v, c)
  \/ BeginPoll \/ BeginRenew \/ BeginSwitch
  \/ \E p \in Proc : RuntimeStep(p) \/ IdentityStep(p) \/ Crash(p)
  \/ ServiceStarts \/ Approve \/ Ages

\* A process that is not killed goes on, the service manager restarts the
\* service, whose loop asks for activation and renews in every round.
Fairness ==
  /\ \A p \in Proc : WF_rootVars(RuntimeStep(p) \/ IdentityStep(p))
  /\ WF_rootVars(ServiceStarts) /\ WF_rootVars(BeginPoll) /\ WF_rootVars(BeginRenew)

RootSpec == RootInit /\ [][RootNext]_rootVars /\ Fairness

-----------------------------------------------------------------------------
(* Properties.                                                             *)

AtRest == \A p \in Proc : proc[p].op = None

\* Whatever the launcher starts is completely installed, and so are the version
\* the status names, the one a rollback would go back to and the pack in use:
\* no death between two writes and no second updater leaves a link or a record
\* that leads nowhere.
RuntimeInstalled ==
  /\ launcher => link # None /\ versions[link] # None
  /\ record # None => versions[record.version] # None /\ (record.previous # None => versions[record.previous] # None)
  /\ pointer # None => packs[pointer] # None

\* worker_status: the version of the record, else that of the installation.
StatusVersion == IF record # None THEN record.version ELSE IF manifest THEN Builtin ELSE None

\* The status follows the activated runtime after every install, update and
\* rollback that was neither cut short nor overlapped by another.
StatusFollows ==
  AtRest /\ ~torn /\ ~scenario.overlap /\ StatusVersion # None => StatusVersion = link

\* A session that counts as ready can be opened once no command is under way:
\* the key is there, the certificate is for this very key, and a relay
\* session has its material; otherwise the loop would neither connect nor ask
\* for activation again.
SessionUsable ==
  AtRest /\ ~scenario.overlap /\ session # None /\ session.ready =>
    /\ key # 0 /\ cert # None /\ cert.key = key
    /\ session.transport = "relay" => session.material

\* identity_generation, as the session states it to the coordinator.
StatedGeneration == IF node.gen = 0 THEN 1 ELSE node.gen

Connectable ==
  /\ session # None /\ session.ready /\ node # None
  /\ cert # None /\ cert.key = key /\ cert.gen = host.gen /\ cert.gen > expired
  /\ StatedGeneration = host.gen

Enrolled ==
  /\ host.state = "approved" /\ host.key = key
  /\ session # None /\ session.enrollment = host.enrollment /\ (session.transport = "relay" => scenario.relay)

\* The worker died between the two writes of its first activation.
HalfActivated == session # None /\ session.ready /\ node # None /\ node.gen = 0

\* An enrolled worker ends up with an identity the coordinator accepts, through
\* deaths in the middle of an activation, lost answers to a renewal and
\* certificates that expire; unless its first activation was cut short or a
\* command overlapped what the service was at.
IdentityKept == <>[](Enrolled => Connectable \/ HalfActivated \/ scenario.overlap)

\* The files below the worker home keep their types, lead to what is installed
\* and name what is active.
RuntimeSound == RootTypeOK /\ RuntimeInstalled /\ StatusFollows
=============================================================================
