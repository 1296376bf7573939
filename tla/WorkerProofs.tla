---------------------------- MODULE WorkerProofs ----------------------------
(***************************************************************************)
(* Proofs about the worker: about Sandbox, for any policies, paths and     *)
(* deadlines, and about WorkerRoot, for any versions, scenarios and bounds. *)
(***************************************************************************)
EXTENDS Sandbox, WorkerRoot, SequenceTheorems, TLAPS

-----------------------------------------------------------------------------
(* What an admitted policy grants.                                         *)

\* Two paths inside each other are the same path.
LEMMA InsideAntisymmetric ==
  ASSUME NEW p \in Path, NEW q \in Path, Inside(p, q), Inside(q, p)
  PROVE  p = q
<1>1. Len(p) = Len(q)
  <2>1. Len(p) \in Nat /\ Len(q) \in Nat
    BY DEF Path
  <2> QED BY <2>1 DEF Inside, IsPrefix
<1>2. SubSeq(p, 1, Len(p)) = SubSeq(q, 1, Len(p))
  BY DEF Inside, IsPrefix
<1> QED BY <1>1, <1>2, SubSeqFull DEF Path

\* The subtrees an admitted policy opens for writing are its state roots and, by
\* its mode, nothing, the allowlist or the workspace.
LEMMA WriteRootsCases ==
  ASSUME NEW p \in PolicyType, NEW r \in WriteRoots(p)
  PROVE  \/ \E i \in DOMAIN p.stateRoots : r = p.stateRoots[i]
         \/ p.filesystem = "allowlist" /\ \E i \in DOMAIN p.allowlist : r = p.allowlist[i]
         \/ r = p.workspace
<1>1. r \in Range(p.stateRoots) \/ (p.filesystem = "allowlist" /\ r \in Range(p.allowlist))
        \/ r = p.workspace
  <2>1. CASE p.filesystem = "read_only"
    BY <2>1 DEF WriteRoots
  <2>2. CASE p.filesystem = "allowlist"
    BY <2>2 DEF WriteRoots
  <2>3. CASE p.filesystem \notin {"read_only", "allowlist"}
    BY <2>3 DEF WriteRoots
  <2> QED BY <2>1, <2>2, <2>3
<1> QED BY <1>1 DEF Range

\* evaluate_sandbox_policy, the allowlist check and the capabilities together
\* contain every write of the policy they let through.
LEMMA AdmittedContained ==
  ASSUME policy \in PolicyType, Admitted(policy)
  PROVE  GrantsContained
<1>1. /\ StateRootsValid(policy) /\ StateFilesValid(policy) /\ AllowlistValid(policy)
  BY DEF Admitted, PolicyPassed
<1>2. policy.stateRoots \in Seq(Path) /\ policy.allowlist \in Seq(Path) /\ policy.workspace \in Path
  BY DEF PolicyType
<1>3. ASSUME NEW r \in WriteRoots(policy), Inside(policy.workspace, r) PROVE r = policy.workspace
  <2>1. ASSUME NEW i \in DOMAIN policy.stateRoots, r = policy.stateRoots[i] PROVE r = policy.workspace
    BY <1>1, <1>3, <2>1 DEF StateRootsValid
  <2>2. ASSUME policy.filesystem = "allowlist", NEW i \in DOMAIN policy.allowlist, r = policy.allowlist[i]
        PROVE  r = policy.workspace
    <3>1. r \in Path /\ Inside(r, policy.workspace)
      BY <1>1, <1>2, <2>2 DEF AllowlistValid
    <3> QED BY <1>2, <1>3, <3>1, InsideAntisymmetric
  <2> QED BY <2>1, <2>2, WriteRootsCases
<1>4. <<>> \notin Range(policy.stateRoots)
  BY <1>1 DEF StateRootsValid, Range
<1>5. ASSUME NEW i \in DOMAIN policy.stateRoots, NEW j \in DOMAIN policy.stateRoots,
             Overlap(policy.stateRoots[i], policy.stateRoots[j])
      PROVE  i = j
  <2>1. Overlap(policy.stateRoots[j], policy.stateRoots[i])
    BY <1>5 DEF Overlap
  <2>2. DOMAIN policy.stateRoots = 1..Len(policy.stateRoots) /\ Len(policy.stateRoots) \in Nat
    BY <1>2
  <2>3. ~(j \in 1..(i - 1)) /\ ~(i \in 1..(j - 1))
    BY <1>1, <1>5, <2>1 DEF StateRootsValid
  <2> QED BY <2>2, <2>3
<1>6. \A f \in policy.stateFiles : \A i \in DOMAIN policy.stateRoots : ~Inside(f, policy.stateRoots[i])
  BY <1>1 DEF StateFilesValid
<1> QED BY <1>3, <1>4, <1>5, <1>6 DEF GrantsContained

\* No policy that passes evaluation, for any workspace, state roots, allowlist
\* and files, opens a write above the workspace or two write rules for a path.
THEOREM GrantsCorrect == Spec => []GrantsContained
<1> DEFINE Inv == policy = Unset \/ policy \in PolicyType
<1>1. Init => Inv
  BY SandboxAssumption DEF Init
<1>2. Inv /\ [Next]_vars => Inv'
  <2> SUFFICES ASSUME Inv, [Next]_vars PROVE Inv'
    OBVIOUS
  <2>1. policy' = Unset \/ policy' = policy
    BY DEF Next, Supervise, Block, Start, CheckCancelled, Drain, CheckDeadline, Poll, Wait, TermReaps,
           TermKills, Reap, FinalDrain, Terminate, Write, Fork, LeaderExits, HelperExits, Cancel, Tick,
           vars
  <2> QED BY <2>1
<1>3. Inv => GrantsContained
  BY AdmittedContained DEF GrantsContained
<1> HIDE DEF Inv
<1> QED BY <1>1, <1>2, <1>3, PTL DEF Spec

-----------------------------------------------------------------------------
(* What the command writes is heeded.  The two clocks are compared through *)
(* the pipe: while nothing waits unread, the command has been silent at    *)
(* least as long as the supervisor takes it to have been idle.             *)

ClockInv ==
  /\ pipe => fresh
  /\ ~pipe => idle <= silent

HeedInv == OutputHeeded /\ ClockInv

\* The longest deadline bounds the clocks.
LEMMA LongestType == Longest \in Nat /\ Timeout \in Nat /\ Timeout <= Longest
BY SandboxAssumption DEF Longest

\* Clocks advance and stop together.
LEMMA LaterType ==
  ASSUME NEW t \in 0..Longest
  PROVE  /\ Later(t) \in 0..Longest /\ Later(t) >= t
         /\ \A u \in 0..Longest : t <= u => Later(t) <= Later(u)
BY LongestType DEF Later

\* A drain leaves nothing unread and no clock ahead of the other.
LEMMA DrainedHeeds ==
  ASSUME HeedInv, Drained, silent' = silent
  PROVE  /\ pipe' = FALSE /\ fresh' = FALSE /\ idle' \in 0..Longest /\ idle' <= silent'
         /\ ClockInv'
<1>1. idle \in 0..Longest /\ silent \in 0..Longest /\ Longest \in Nat
  BY LongestType DEF HeedInv, OutputHeeded, TypeOK
<1>2. pipe' = FALSE /\ fresh' = FALSE
  BY DEF Drained
<1>3. CASE pipe
  <2>1. idle' = 0
    BY <1>3 DEF Drained
  <2> QED BY <1>1, <1>2, <2>1 DEF ClockInv
<1>4. CASE ~pipe
  <2>1. idle' = idle /\ idle <= silent
    BY <1>4 DEF Drained, HeedInv, ClockInv
  <2> QED BY <1>1, <1>2, <2>1 DEF ClockInv
<1> QED BY <1>3, <1>4

\* The step to SIGTERM keeps what does not depend on its reason.
LEMMA TerminateHeeds ==
  ASSUME HeedInv, NEW reason \in {"cancelled", "idle", "max_wall"}, Terminate(reason),
         reason = "idle" /\ ~fresh => silent >= Timeout
  PROVE  HeedInv'
<1>1. /\ pc' = "term" /\ cause' = reason /\ signalled' = TRUE
      /\ UNCHANGED <<policy, refresh, stubborn, leader, helper, pipe, elapsed, idle, silent, cancelled, fresh>>
  BY DEF Terminate, given, clocks
<1>2. TypeOK'
  BY <1>1 DEF HeedInv, OutputHeeded, TypeOK
<1>3. IdleJustified' /\ OutputKept'
  BY <1>1 DEF IdleJustified, OutputKept
<1>4. ClockInv'
  BY <1>1 DEF HeedInv, ClockInv
<1> QED BY <1>2, <1>3, <1>4 DEF HeedInv, OutputHeeded

\* The supervisor's own steps.
LEMMA SuperviseHeeds == ASSUME HeedInv, Supervise PROVE HeedInv'
<1> USE DEF HeedInv, OutputHeeded, TypeOK, IdleJustified, OutputKept, ClockInv, given, processes, clocks
<1>1. CASE Block
  BY <1>1 DEF Block
<1>2. CASE Start
  BY <1>2 DEF Start
<1>3. CASE CheckCancelled
  <2>1. CASE Terminate("cancelled")
    BY <2>1, TerminateHeeds
  <2>2. CASE pc' = "drain" /\ UNCHANGED <<policy, given, processes, pipe, clocks, cancelled, cause, fresh>>
    BY <2>2
  <2> QED BY <1>3, <2>1, <2>2 DEF CheckCancelled
<1>4. ASSUME Drained, UNCHANGED <<policy, given, processes, elapsed, silent, cancelled, cause>>,
             pc' \in {"cancel", "deadline", "final", "done"}
      PROVE  HeedInv'
  <2>1. /\ pipe' = FALSE /\ fresh' = FALSE /\ idle' \in 0..Longest /\ ClockInv'
    BY <1>4, DrainedHeeds
  <2>2. TypeOK'
    <3>1. pipe' \in BOOLEAN /\ fresh' \in BOOLEAN /\ idle' \in 0..Longest
      BY <2>1
    <3>2. pc' \in {"new", "blocked", "cancel", "drain", "deadline", "poll", "wait", "term", "reap",
                   "final", "done"}
      BY <1>4
    <3>3. /\ policy' = policy /\ refresh' = refresh /\ stubborn' = stubborn /\ leader' = leader
          /\ helper' = helper /\ signalled' = signalled /\ elapsed' = elapsed /\ silent' = silent
          /\ cancelled' = cancelled /\ cause' = cause
      BY <1>4
    <3> QED BY <3>1, <3>2, <3>3
  <2>3. IdleJustified' /\ OutputKept'
    BY <1>4, <2>1
  <2> QED BY <2>1, <2>2, <2>3
<1>5. CASE CheckDeadline
  <2>1. CASE Terminate("max_wall")
    BY <2>1, TerminateHeeds
  <2>2. CASE Expired(idle, Timeout) /\ Terminate("idle")
    <3>1. ASSUME ~fresh PROVE silent >= Timeout
      <4>1. idle <= silent /\ idle >= Timeout
        BY <2>2, <3>1 DEF Expired
      <4>2. idle \in Nat /\ silent \in Nat /\ Timeout \in Nat
        BY LongestType
      <4> QED BY <4>1, <4>2
    <3> QED BY <2>2, <3>1, TerminateHeeds
  <2>3. CASE pc' = "poll" /\ UNCHANGED <<policy, given, processes, pipe, clocks, cancelled, cause, fresh>>
    BY <2>3
  <2> QED BY <1>5, <2>1, <2>2, <2>3 DEF CheckDeadline
<1>6. CASE Poll
  BY <1>6 DEF Poll
<1>7. CASE TermReaps
  BY <1>7 DEF TermReaps, AfterTerm
<1>8. CASE TermKills
  BY <1>8 DEF TermKills
<1>9. CASE Reap
  BY <1>9 DEF Reap
<1>10. CASE Drain \/ Wait \/ FinalDrain
  BY <1>4, <1>10 DEF Drain, Wait, FinalDrain
<1> QED BY <1>1, <1>2, <1>3, <1>5, <1>6, <1>7, <1>8, <1>9, <1>10 DEF Supervise

\* The command, the clock and the host's cancellation.
LEMMA CommandHeeds ==
  ASSUME HeedInv, Write \/ Fork \/ LeaderExits \/ HelperExits \/ Cancel \/ Tick
  PROVE  HeedInv'
<1> USE DEF HeedInv, OutputHeeded, TypeOK, IdleJustified, OutputKept, ClockInv, given, processes, clocks
<1>0. 0 \in 0..Longest
  BY LongestType
<1>1. CASE Write
  BY <1>0, <1>1 DEF Write, Alive
<1>2. CASE Fork
  BY <1>2 DEF Fork
<1>3. CASE LeaderExits
  BY <1>3 DEF LeaderExits
<1>4. CASE HelperExits
  BY <1>4 DEF HelperExits
<1>5. CASE Cancel
  BY <1>5 DEF Cancel
<1>6. CASE Tick
  <2>1. /\ Later(elapsed) \in 0..Longest /\ Later(idle) \in 0..Longest /\ Later(silent) \in 0..Longest
        /\ Later(silent) >= silent
        /\ idle <= silent => Later(idle) <= Later(silent)
    BY LaterType
  <2>2. elapsed' = Later(elapsed) /\ idle' = Later(idle) /\ silent' = Later(silent)
    BY <1>6 DEF Tick
  <2>3. TypeOK' /\ OutputKept'
    BY <1>6, <2>1, <2>2 DEF Tick
  <2>4. IdleJustified'
    <3>1. silent >= Timeout => silent' >= Timeout
      <4>1. silent \in Nat /\ silent' \in Nat /\ Timeout \in Nat
        BY <2>1, <2>2, LongestType
      <4> QED BY <2>1, <2>2, <4>1
    <3> QED BY <1>6, <3>1 DEF Tick
  <2>5. ClockInv'
    BY <1>6, <2>1, <2>2 DEF Tick
  <2> QED BY <2>3, <2>4, <2>5
<1> QED BY <1>1, <1>2, <1>3, <1>4, <1>5, <1>6

\* For any deadlines and however the supervisor is scheduled: no command is
\* ended as idle that had written within its timeout, and no output that was
\* written before the end is missing from the receipt.
THEOREM OutputCorrect == Spec => []OutputHeeded
<1>1. Init => HeedInv
  <2> SUFFICES ASSUME Init PROVE HeedInv
    OBVIOUS
  <2>1. policy \in PolicyType /\ 0 \in 0..Longest
    BY SandboxAssumption, LongestType DEF Init
  <2>2. TypeOK
    BY <2>1 DEF Init, TypeOK
  <2>3. IdleJustified /\ OutputKept /\ ClockInv
    BY DEF Init, IdleJustified, OutputKept, ClockInv
  <2> QED BY <2>2, <2>3 DEF HeedInv, OutputHeeded
<1>2. ASSUME HeedInv, [Next]_vars PROVE HeedInv'
  <2>1. CASE UNCHANGED vars
    BY <1>2, <2>1 DEF vars, given, processes, clocks, HeedInv, OutputHeeded, TypeOK, IdleJustified,
                      OutputKept, ClockInv
  <2> QED BY <1>2, <2>1, SuperviseHeeds, CommandHeeds DEF Next
<1>3. HeedInv => OutputHeeded
  BY DEF HeedInv
<1> QED BY <1>1, <1>2, <1>3, PTL DEF Spec

-----------------------------------------------------------------------------
(* WorkerRoot: the types, what each process has found or made, and what the *)
(* files lead to.                                                          *)

\* The types, in parts.
RuntimeTypes ==
  /\ versions \in [Version -> Content \cup {None, "builtin"}] /\ packs \in [Version -> Content \cup {None}]
  /\ {link, running, pointer} \subseteq Version \cup {None} /\ record \in {None} \cup RecordType
  /\ {marker, launcher, unit, manifest, torn} \subseteq BOOLEAN
IdentityTypes ==
  /\ key \in 0..keys /\ keys \in 0..MaxCommands
  /\ cert \in {None} \cup CertType /\ (cert # None => cert.key \in 1..keys)
  /\ join \in (1..MaxCommands) \cup {None}
  /\ session \in {None} \cup SessionType /\ node \in {None} \cup NodeType
  /\ host \in [key : 0..keys, gen : Generation, enrollment : 0..MaxCommands, state : {None, "pending", "approved"}]
OtherTypes ==
  /\ scenario \in Scenarios
  /\ commands \in 0..MaxCommands /\ due \in Generation /\ expired \in 0..due /\ faults \in 0..MaxFaults
ProcTypes == proc \in [Proc -> ProcType]

LEMMA TypeParts ==
  /\ RootTypeOK <=> RuntimeTypes /\ IdentityTypes /\ OtherTypes /\ ProcTypes
  /\ RootTypeOK' <=> RuntimeTypes' /\ IdentityTypes' /\ OtherTypes' /\ ProcTypes'
BY DEF RootTypeOK, RuntimeTypes, IdentityTypes, OtherTypes, ProcTypes

\* Which operations come by which place, and whose they are.
PlaceOk(p, r) ==
  /\ r.op = None => r = Idle
  /\ p = "service" => r.op \in {None} \cup Duty
  /\ r.pc \in {"stage", "launcher", "unit", "manifest"} => r.op = "install"
  /\ r.pc = "drain" => r.op \in {"update", "rollback"}
  /\ r.pc \in {"prior", "place"} => r.op = "update"
  /\ r.pc \in {"link", "record"} => r.op \in {"install", "update", "rollback"}
  /\ r.pc \in {"stop", "unlaunch", "purge"} => r.op \in {"uninstall", "purge"}
  /\ r.pc \in {"unpack", "point"} => r.op = "pack"
  /\ r.pc = "remove" => r.op = "unpack"
  /\ r.pc \in {"key", "request", "new_session", "new_node", "submit"} => r.op = "join"
  /\ r.pc \in {"undrain", "abort", "restart"} => r.op \in {"update", "rollback"}
  /\ r.pc \in {"fallback", "choose"} => r.op = "switch"
  /\ r.pc \in {"poll", "renew", "verify", "cert", "read_session", "session", "node", "requested"} =>
       r.op \in {"join", "poll", "renew", "switch"}
  /\ r.pc \in {"forget_key", "forget_cert", "forget_request", "forget_node", "forget_session"} => r.op = "leave"

Installed(v) == v # None /\ versions[v] # None
Absent(v) == v = None \/ versions[v] # None

\* What a process that works on the runtime has found or made there.
RuntimeLocal(p, r) ==
  /\ r.pc = "stage" => r.version = Builtin /\ r.prior = None
  /\ r.pc \in {"prior", "place", "unpack"} \/ (r.pc = "drain" /\ r.op = "update") => r.version # None /\ r.content # None
  /\ r.pc \in {"link", "record"} \/ (r.pc = "drain" /\ r.op = "rollback") => Installed(r.version) /\ Absent(r.prior)
  /\ r.pc = "place" => Absent(r.prior)
  /\ r.pc \in {"record", "launcher", "unit", "manifest"} => link # None
  /\ r.pc \in {"launcher", "unit", "manifest"} => record # None
  /\ r.pc \in {"unlaunch", "purge"} => ~unit /\ running = None /\ proc["service"] = Idle
  /\ r.pc = "purge" => ~launcher
  /\ r.pc = "point" => r.version # None /\ packs[r.version] # None

\* What a process that works on the identity has found or made there.
IdentityLocal(p, r) ==
  /\ p = "operator" /\ r.op # None => commands # 0
  /\ r.pc = "key" => keys < commands
  /\ r.pc \in {"request", "new_session", "new_node", "submit"} => key # 0
  /\ r.pc = "verify" => r.gen # 0 /\ host.state # None
  /\ r.pc \in {"cert", "read_session", "node"} \/ (r.pc = "session" /\ r.op # "switch") =>
       r.gen # 0 /\ r.node # None /\ r.node.key \in 1..keys

\* What the files of the runtime, and of the identity, lead to.
FilesInv ==
  /\ link # None => versions[link] # None
  /\ launcher => link # None
  /\ record # None => versions[record.version] # None /\ Absent(record.previous)
  /\ pointer # None => packs[pointer] # None
  /\ manifest => record # None
IdentityInv ==
  /\ keys <= commands
  /\ host.state # None => host.key # 0
  /\ host.state = "approved" => host.gen # 0

LocalInv == \A p \in Proc : PlaceOk(p, proc[p]) /\ RuntimeLocal(p, proc[p]) /\ IdentityLocal(p, proc[p])
BaseInv == RootTypeOK /\ LocalInv /\ FilesInv /\ IdentityInv

\* r2 is r at another place.
Moved(r2, r, c) ==
  /\ r2.pc = c /\ r2.op = r.op /\ r2.version = r.version /\ r2.content = r.content /\ r2.prior = r.prior
  /\ r2.gen = r.gen /\ r2.session = r.session /\ r2.node = r.node

LEMMA GotoMoves ==
  ASSUME ProcTypes, NEW p \in Proc, NEW c \in Points, Goto(p, c)
  PROVE  \E r2 \in ProcType : proc' = [proc EXCEPT ![p] = r2] /\ Moved(r2, proc[p], c)
<1> DEFINE r2 == [proc[p] EXCEPT !.pc = c]
<1>1. proc[p] \in ProcType
  BY DEF ProcTypes
<1>2. r2 \in ProcType /\ Moved(r2, proc[p], c)
  BY <1>1 DEF ProcType, Moved
<1>3. proc' = [proc EXCEPT ![p] = r2]
  BY DEF Goto
<1> QED BY <1>2, <1>3

LEMMA IdleType == Idle \in ProcType /\ Idle.op = None /\ Idle.pc = "idle"
<1>1. 0 \in Generation
  BY RootAssumption DEF Generation
<1>2. "idle" \in Points
  BY DEF Points
<1> QED BY <1>1, <1>2 DEF Idle, ProcType

LEMMA IdleLocal ==
  ASSUME NEW p \in Proc
  PROVE  PlaceOk(p, Idle) /\ RuntimeLocal(p, Idle)' /\ IdentityLocal(p, Idle)'
BY DEF Idle, PlaceOk, RuntimeLocal, IdentityLocal

\* A version, an operation and the files are something.
LEMMA SomeThing ==
  /\ \A v \in Version : v # None
  /\ \A c \in Content \cup {"builtin"} : c # None
  /\ \A o \in Command \cup Duty : o # None
  /\ \A x \in SessionType \cup NodeType \cup RecordType \cup CertType : x # None
BY AbsentAssumption

\* Nobody works beside an uninstallation that stopped the service.
LEMMA EndAlone ==
  ASSUME BaseInv, NEW q \in Proc, proc[q].pc \in {"unlaunch", "purge"}
  PROVE  q = "operator" /\ proc["service"] = Idle /\ ~unit /\ running = None /\ \A p \in Proc : p # q => proc[p].pc = "idle"
<1>1. PlaceOk(q, proc[q]) /\ RuntimeLocal(q, proc[q])
  BY DEF BaseInv, LocalInv
<1>2. proc[q].op \in {"uninstall", "purge"}
  BY <1>1 DEF PlaceOk
<1>3. q = "operator"
  BY <1>1, <1>2, SomeThing DEF PlaceOk, Duty, Command, Proc
<1>4. proc["service"] = Idle /\ ~unit /\ running = None
  BY <1>1 DEF RuntimeLocal
<1> QED BY <1>3, <1>4, IdleType DEF Proc

\* What no step takes from a process that does not move.
LEMMA OthersKept ==
  ASSUME NEW q \in Proc, proc'[q] = proc[q],
         PlaceOk(q, proc[q]), RuntimeLocal(q, proc[q]), IdentityLocal(q, proc[q]), ProcTypes,
         \A v \in Version : versions[v] # None => versions'[v] # None,
         proc[q].pc = "point" => \A v \in Version : packs[v] # None => packs'[v] # None,
         link # None => link' # None, record # None => record' # None,
         proc[q].pc \in {"unlaunch", "purge"} =>
           ~unit' /\ running' = None /\ launcher' = launcher /\ proc'["service"] = Idle,
         commands \in Nat, keys \in Nat, commands' \in Nat, keys' \in Nat, commands <= commands', keys <= keys',
         host.state # None => host'.state # None,
         q = "operator" => keys' = keys /\ (key # 0 => key' # 0)
  PROVE  (PlaceOk(q, proc[q]) /\ RuntimeLocal(q, proc[q]) /\ IdentityLocal(q, proc[q]))'
<1>1. PICK r \in ProcType : r = proc[q]
  BY DEF ProcTypes
<1>2. PlaceOk(q, r) /\ RuntimeLocal(q, r) /\ IdentityLocal(q, r)
  BY <1>1
<1>3. r.version \in Version \cup {None} /\ r.prior \in Version \cup {None}
  BY <1>1 DEF ProcType
<1>4. RuntimeLocal(q, r)'
  BY <1>1, <1>2, <1>3 DEF RuntimeLocal, Installed, Absent
<1>5. r.pc \in {"key", "request", "new_session", "new_node", "submit"} => q = "operator"
  BY <1>2, SomeThing DEF PlaceOk, Duty, Command, Proc
<1>6. r.node # None => r.node.key \in Nat
  BY <1>1 DEF ProcType, NodeType
<1>7. r.node # None /\ r.node.key \in 1..keys => r.node.key \in 1..keys'
  BY <1>6
<1>8. r.pc = "key" /\ keys < commands => keys' < commands'
  BY <1>5
<1>9. IdentityLocal(q, r)'
  BY <1>2, <1>5, <1>7, <1>8 DEF IdentityLocal
<1> QED BY <1>1, <1>2, <1>4, <1>9

\* A step of p that leaves everything else as it needs to be.
LEMMA Moves ==
  ASSUME BaseInv, NEW p \in Proc, NEW r2 \in ProcType, proc' = [proc EXCEPT ![p] = r2],
         RuntimeTypes', IdentityTypes', OtherTypes', FilesInv', IdentityInv',
         PlaceOk(p, r2), RuntimeLocal(p, r2)', IdentityLocal(p, r2)',
         \A v \in Version : versions[v] # None => versions'[v] # None,
         p = "operator" \/ \A v \in Version : packs[v] # None => packs'[v] # None,
         link # None => link' # None, record # None => record' # None,
         proc[p].pc # "idle" \/ proc[p].op # None \/ (running # None /\ p = "service") \/ p = "operator",
         commands <= commands', keys <= keys', host.state # None => host'.state # None,
         p = "service" => keys' = keys /\ (key # 0 => key' # 0)
  PROVE  BaseInv'
<1>1. ProcTypes /\ ProcTypes'
  BY TypeParts DEF BaseInv, ProcTypes
<1>2. proc'[p] = r2 /\ \A q \in Proc : q # p => proc'[q] = proc[q]
  BY <1>1 DEF ProcTypes
<1>3. commands \in Nat /\ keys \in Nat /\ commands' \in Nat /\ keys' \in Nat
  BY TypeParts DEF BaseInv, IdentityTypes, OtherTypes
<1>4. ASSUME NEW q \in Proc, q # p
      PROVE  (PlaceOk(q, proc[q]) /\ RuntimeLocal(q, proc[q]) /\ IdentityLocal(q, proc[q]))'
  <2>1. PlaceOk(q, proc[q]) /\ RuntimeLocal(q, proc[q]) /\ IdentityLocal(q, proc[q])
    BY DEF BaseInv, LocalInv
  <2>2. proc[q].pc \notin {"unlaunch", "purge"}
    BY <1>4, EndAlone, IdleType DEF Proc
  <2>4. proc[q].pc = "point" => q = "operator"
    BY <2>1, SomeThing DEF PlaceOk, Duty, Command, Proc
  <2>5. proc[q].pc = "point" => \A v \in Version : packs[v] # None => packs'[v] # None
    BY <2>4, <1>4
  <2>3. proc'[q] = proc[q] /\ (q = "operator" => keys' = keys /\ (key # 0 => key' # 0))
    BY <1>2, <1>4 DEF Proc
  <2> QED BY <1>1, <1>3, <2>1, <2>2, <2>3, <2>5, OthersKept
<1>5. LocalInv'
  <2>1. ASSUME NEW q \in Proc
        PROVE  (PlaceOk(q, proc[q]) /\ RuntimeLocal(q, proc[q]) /\ IdentityLocal(q, proc[q]))'
    <3>1. CASE q = p
      <4>1. PICK r : r = r2 /\ r = proc'[q]
        BY <1>2, <3>1
      <4> QED BY <3>1, <4>1
    <3>2. CASE q # p
      BY <1>2, <1>4, <3>2
    <3> QED BY <3>1, <3>2
  <2> QED BY <2>1 DEF LocalInv
<1> QED BY <1>1, <1>5, TypeParts DEF BaseInv

IdentityPoints == {"key", "request", "new_session", "new_node", "submit", "verify", "cert", "read_session", "session", "node"}

\* A step on the runtime.
LEMMA RuntimeMoves ==
  ASSUME BaseInv, NEW p \in Proc, NEW r2 \in ProcType, proc' = [proc EXCEPT ![p] = r2],
         UNCHANGED <<scenario, identity, host, commands, clock, faults>>,
         proc[p].pc # "idle", r2.op \in {None, proc[p].op}, r2.pc \notin IdentityPoints,
         PlaceOk(p, r2), RuntimeLocal(p, r2)', RuntimeTypes', FilesInv',
         \A v \in Version : versions[v] # None => versions'[v] # None,
         p = "operator" \/ \A v \in Version : packs[v] # None => packs'[v] # None,
         link # None => link' # None, record # None => record' # None
  PROVE  BaseInv'
<1>1. IdentityTypes' /\ OtherTypes' /\ IdentityInv'
  BY TypeParts DEF BaseInv, IdentityTypes, OtherTypes, IdentityInv, identity, clock
<1>2. IdentityLocal(p, proc[p])
  BY DEF BaseInv, LocalInv
<1>3. IdentityLocal(p, r2)'
  BY <1>2 DEF IdentityLocal, IdentityPoints
<1>4. commands \in Nat /\ keys \in Nat
  BY TypeParts DEF BaseInv, IdentityTypes, OtherTypes
<1>5. commands <= commands' /\ keys <= keys' /\ keys' = keys /\ key' = key /\ host' = host
  BY <1>4 DEF identity
<1> QED BY <1>1, <1>3, <1>5, Moves

\* What a process at work knows, as one record.
LEMMA ProcFacts ==
  ASSUME BaseInv, NEW p \in Proc
  PROVE  /\ proc[p] \in ProcType /\ ProcTypes
         /\ PlaceOk(p, proc[p]) /\ RuntimeLocal(p, proc[p]) /\ IdentityLocal(p, proc[p])
         /\ RuntimeTypes /\ IdentityTypes /\ OtherTypes /\ FilesInv /\ IdentityInv
BY TypeParts DEF BaseInv, LocalInv, ProcTypes

\* One lemma for each step on the runtime, which keeps BaseInv.
LEMMA BaseStage == ASSUME BaseInv, NEW p \in Proc, Stage(p) PROVE BaseInv'
<1>1. PICK r : r = proc[p]
  OBVIOUS
<1>2. r \in ProcType /\ r.pc = "stage" /\ PlaceOk(p, r) /\ RuntimeLocal(p, r) /\ RuntimeTypes /\ FilesInv
  BY <1>1, ProcFacts DEF Stage, At
<1>3. PICK r2 \in ProcType : proc' = [proc EXCEPT ![p] = r2] /\ Moved(r2, r, "link")
  BY <1>1, ProcFacts, GotoMoves DEF Stage, Points
<1>4. Builtin \in Version /\ "builtin" # None
  BY RootAssumption, SomeThing
<1>5. /\ \A v \in Version : versions[v] # None => versions'[v] # None
      /\ versions'[Builtin] # None /\ RuntimeTypes'
  BY <1>2, <1>4 DEF Stage, KeepRest, RuntimeTypes
<1>6. PlaceOk(p, r2) /\ r2.op = r.op
  BY <1>2, <1>3, SomeThing DEF PlaceOk, Moved, Command
<1>7. RuntimeLocal(p, r2)'
  BY <1>2, <1>3, <1>4, <1>5, SomeThing DEF RuntimeLocal, Moved, Installed, Absent
<1>8. FilesInv'
  BY <1>2, <1>5 DEF FilesInv, Stage, RuntimeTypes, RecordType, Absent
<1> QED BY <1>1, <1>2, <1>3, <1>5, <1>6, <1>7, <1>8, RuntimeMoves DEF Stage, KeepRest, Moved, IdentityPoints

LEMMA BaseSetDrain == ASSUME BaseInv, NEW p \in Proc, SetDrain(p) PROVE BaseInv'
<1>1. PICK r : r = proc[p]
  OBVIOUS
<1>2. r \in ProcType /\ r.pc = "drain" /\ PlaceOk(p, r) /\ RuntimeLocal(p, r) /\ RuntimeTypes /\ FilesInv
  BY <1>1, ProcFacts DEF SetDrain, At
<1>3. PICK c : c = IF r.op = "update" THEN "prior" ELSE "link"
  OBVIOUS
<1>4. PICK r2 \in ProcType : proc' = [proc EXCEPT ![p] = r2] /\ Moved(r2, r, c)
  BY <1>1, <1>3, ProcFacts, GotoMoves DEF SetDrain, Points
<1>5. RuntimeTypes' /\ UNCHANGED <<versions, link, record, packs>>
  BY <1>2 DEF SetDrain, KeepRest, RuntimeTypes
<1>6. PlaceOk(p, r2) /\ r2.op = r.op
  BY <1>2, <1>3, <1>4, SomeThing DEF PlaceOk, Moved, Command
<1>7. RuntimeLocal(p, r2)'
  BY <1>2, <1>3, <1>4, <1>5 DEF RuntimeLocal, PlaceOk, Moved, Installed, Absent
<1>8. FilesInv'
  BY <1>2, <1>5 DEF FilesInv, SetDrain, Absent
<1> QED BY <1>1, <1>2, <1>3, <1>4, <1>5, <1>6, <1>7, <1>8, RuntimeMoves DEF SetDrain, KeepRest, Moved, IdentityPoints

LEMMA BaseReadPrior == ASSUME BaseInv, NEW p \in Proc, ReadPrior(p) PROVE BaseInv'
<1>1. PICK r : r = proc[p]
  OBVIOUS
<1>2. r \in ProcType /\ r.pc = "prior" /\ PlaceOk(p, r) /\ RuntimeLocal(p, r) /\ RuntimeTypes /\ FilesInv
  BY <1>1, ProcFacts DEF ReadPrior, At
<1>3. PICK v : v = IF record = None THEN None ELSE record.version
  OBVIOUS
<1>4. v \in Version \cup {None} /\ Absent(v)
  BY <1>2, <1>3 DEF RuntimeTypes, RecordType, FilesInv, Absent
<1>5. PICK r2 : r2 = [r EXCEPT !.pc = "place", !.prior = v]
  OBVIOUS
<1>6. r2 \in ProcType /\ r2.pc = "place" /\ r2.op = r.op /\ r2.version = r.version /\ r2.content = r.content /\ r2.prior = v
  BY <1>2, <1>4, <1>5 DEF ProcType, Points
<1>7. proc' = [proc EXCEPT ![p] = r2]
  BY <1>1, <1>3, <1>5 DEF ReadPrior
<1>8. RuntimeTypes' /\ FilesInv' /\ UNCHANGED <<versions, link, record, packs>>
  BY <1>2 DEF ReadPrior, KeepRest, runtime, RuntimeTypes, FilesInv, Absent
<1>9. PlaceOk(p, r2) /\ RuntimeLocal(p, r2)'
  BY <1>2, <1>4, <1>6, <1>8, SomeThing DEF PlaceOk, RuntimeLocal, Absent, Command
<1> QED BY <1>1, <1>2, <1>6, <1>7, <1>8, <1>9, RuntimeMoves DEF ReadPrior, KeepRest, IdentityPoints

LEMMA BasePlace == ASSUME BaseInv, NEW p \in Proc, Place(p) PROVE BaseInv'
<1>1. PICK r : r = proc[p]
  OBVIOUS
<1>2. r \in ProcType /\ r.pc = "place" /\ PlaceOk(p, r) /\ RuntimeLocal(p, r) /\ RuntimeTypes /\ FilesInv
  BY <1>1, ProcFacts DEF Place, At
<1>3. r.version \in Version /\ r.version # None /\ r.content \in Content /\ r.content # None /\ Absent(r.prior) /\ r.op = "update"
  BY <1>2 DEF RuntimeLocal, PlaceOk, ProcType
<1>4. PICK c \in {"link", "abort"} : Goto(p, c) /\ (c = "link" => versions' = [versions EXCEPT ![r.version] = r.content])
                                     /\ (c = "abort" => versions' = versions)
  BY <1>1 DEF Place
<1>5. PICK r2 \in ProcType : proc' = [proc EXCEPT ![p] = r2] /\ Moved(r2, r, c)
  BY <1>1, <1>4, ProcFacts, GotoMoves DEF Points
<1>6. /\ \A v \in Version : versions[v] # None => versions'[v] # None
      /\ c = "link" => versions'[r.version] # None
      /\ RuntimeTypes'
  BY <1>2, <1>3, <1>4 DEF Place, KeepRest, RuntimeTypes
<1>7. PlaceOk(p, r2) /\ r2.op = r.op
  BY <1>2, <1>3, <1>4, <1>5, SomeThing DEF PlaceOk, Moved, Command
<1>8. r.prior \in Version \cup {None}
  BY <1>2 DEF ProcType
<1>9. RuntimeLocal(p, r2)'
  BY <1>2, <1>3, <1>4, <1>5, <1>6, <1>8 DEF RuntimeLocal, Moved, Installed, Absent
<1>10. FilesInv'
  BY <1>2, <1>6 DEF FilesInv, Place, RuntimeTypes, RecordType, Absent
<1> QED BY <1>1, <1>2, <1>4, <1>5, <1>6, <1>7, <1>9, <1>10, RuntimeMoves DEF Place, KeepRest, Moved, IdentityPoints

LEMMA BaseLink == ASSUME BaseInv, NEW p \in Proc, Link(p) PROVE BaseInv'
<1>1. PICK r : r = proc[p]
  OBVIOUS
<1>2. r \in ProcType /\ r.pc = "link" /\ PlaceOk(p, r) /\ RuntimeLocal(p, r) /\ RuntimeTypes /\ FilesInv
  BY <1>1, ProcFacts DEF Link, At
<1>3. PICK r2 \in ProcType : proc' = [proc EXCEPT ![p] = r2] /\ Moved(r2, r, "record")
  BY <1>1, ProcFacts, GotoMoves DEF Link, Points
<1>4. link' = r.version /\ r.version \in Version /\ Installed(r.version)
  BY <1>1, <1>2 DEF Link, RuntimeLocal, Installed, ProcType
<1>5. RuntimeTypes' /\ UNCHANGED <<versions, record, packs>>
  BY <1>2, <1>4 DEF Link, KeepRest, RuntimeTypes
<1>6. PlaceOk(p, r2) /\ r2.op = r.op
  BY <1>2, <1>3, SomeThing DEF PlaceOk, Moved, Command
<1>7. RuntimeLocal(p, r2)'
  BY <1>2, <1>3, <1>4, <1>5 DEF RuntimeLocal, Moved, Installed, Absent
<1>8. FilesInv'
  BY <1>2, <1>4, <1>5 DEF FilesInv, Link, Absent, Installed
<1> QED BY <1>1, <1>2, <1>3, <1>4, <1>5, <1>6, <1>7, <1>8, RuntimeMoves DEF Link, KeepRest, Moved, IdentityPoints, Installed

LEMMA BaseRecord == ASSUME BaseInv, NEW p \in Proc, Record(p) PROVE BaseInv'
<1>1. PICK r : r = proc[p]
  OBVIOUS
<1>2. r \in ProcType /\ r.pc = "record" /\ PlaceOk(p, r) /\ RuntimeLocal(p, r) /\ RuntimeTypes /\ FilesInv
  BY <1>1, ProcFacts DEF Record, At
<1>3. PICK c : c = IF r.op = "install" THEN "launcher" ELSE "undrain"
  OBVIOUS
<1>4. PICK r2 \in ProcType : proc' = [proc EXCEPT ![p] = r2] /\ Moved(r2, r, c)
  BY <1>1, <1>3, ProcFacts, GotoMoves DEF Record, Points
<1>5. PICK q : q = [version |-> r.version, previous |-> r.prior]
  OBVIOUS
<1>6. record' = q /\ q \in RecordType /\ q # None /\ q.version = r.version /\ q.previous = r.prior
      /\ Installed(r.version) /\ Absent(r.prior)
  <2>1. r.version \in Version /\ r.prior \in Version \cup {None} /\ Installed(r.version) /\ Absent(r.prior)
    BY <1>2 DEF RuntimeLocal, Installed, ProcType
  <2>2. q \in RecordType
    BY <1>5, <2>1 DEF RecordType
  <2> QED BY <1>1, <1>5, <2>1, <2>2, SomeThing DEF Record, Recorded
<1>7. RuntimeTypes' /\ UNCHANGED <<versions, link, packs>>
  BY <1>2, <1>6 DEF Record, KeepRest, RuntimeTypes
<1>8. PlaceOk(p, r2) /\ r2.op = r.op
  BY <1>2, <1>3, <1>4, SomeThing DEF PlaceOk, Moved, Command
<1>9. link # None
  BY <1>2 DEF RuntimeLocal
<1>10. RuntimeLocal(p, r2)'
  BY <1>2, <1>3, <1>4, <1>6, <1>7, <1>9, SomeThing DEF RuntimeLocal, Moved, Installed, Absent
<1>11. FilesInv'
  BY <1>2, <1>6, <1>7 DEF FilesInv, Record, Absent, Installed
<1> QED BY <1>1, <1>2, <1>3, <1>4, <1>6, <1>7, <1>8, <1>10, <1>11, RuntimeMoves DEF Record, KeepRest, Moved, IdentityPoints

LEMMA BaseUndrain == ASSUME BaseInv, NEW p \in Proc, Undrain(p) PROVE BaseInv'
<1>1. PICK r : r = proc[p]
  OBVIOUS
<1>2. r \in ProcType /\ r.pc \in {"undrain", "abort"} /\ PlaceOk(p, r) /\ RuntimeTypes /\ FilesInv
  BY <1>1, ProcFacts DEF Undrain, At
<1>3. r.op # None
  BY <1>2, IdleType DEF PlaceOk
<1>4. PICK r2 \in ProcType : /\ proc' = [proc EXCEPT ![p] = r2]
                             /\ r2 = Idle \/ (r2.op = r.op /\ r2.pc = "restart")
  <2>1. CASE Goto(p, "restart")
    BY <1>1, <2>1, ProcFacts, GotoMoves DEF Points, Moved
  <2>2. CASE Done(p)
    BY <2>2, IdleType DEF Done
  <2> QED BY <2>1, <2>2 DEF Undrain
<1>5. RuntimeTypes' /\ FilesInv' /\ UNCHANGED <<versions, link, record, packs>>
  BY <1>2 DEF Undrain, KeepRest, RuntimeTypes, FilesInv, Absent
<1>6. PlaceOk(p, r2) /\ RuntimeLocal(p, r2)' /\ r2.op \in {None, r.op} /\ r2.pc \in {"idle", "restart"}
  <2>1. CASE r2 = Idle
    BY <2>1, IdleType, IdleLocal
  <2>2. CASE r2.op = r.op /\ r2.pc = "restart"
    BY <1>2, <1>3, <2>2 DEF PlaceOk, RuntimeLocal
  <2> QED BY <1>4, <2>1, <2>2
<1> QED BY <1>1, <1>2, <1>4, <1>5, <1>6, RuntimeMoves DEF Undrain, KeepRest, IdentityPoints

LEMMA BaseFinishInstall == ASSUME BaseInv, NEW p \in Proc, FinishInstall(p) PROVE BaseInv'
<1>1. PICK r : r = proc[p]
  OBVIOUS
<1>2. r \in ProcType /\ r.pc \in {"launcher", "unit", "manifest"} /\ PlaceOk(p, r) /\ RuntimeLocal(p, r) /\ RuntimeTypes /\ FilesInv
  BY <1>1, ProcFacts DEF FinishInstall, At
<1>3. r.op = "install" /\ r.op # None /\ link # None /\ record # None
  BY <1>2, SomeThing DEF PlaceOk, RuntimeLocal, Command
<1>4. PICK r2 \in ProcType : /\ proc' = [proc EXCEPT ![p] = r2]
                             /\ r2 = Idle \/ (r2.op = r.op /\ r2.pc \in {"unit", "manifest"})
  <2>1. CASE Goto(p, "unit")
    BY <1>1, <2>1, ProcFacts, GotoMoves DEF Points, Moved
  <2>2. CASE Goto(p, "manifest")
    BY <1>1, <2>2, ProcFacts, GotoMoves DEF Points, Moved
  <2>3. CASE Done(p)
    BY <2>3, IdleType DEF Done
  <2> QED BY <2>1, <2>2, <2>3 DEF FinishInstall
<1>5. RuntimeTypes' /\ UNCHANGED <<versions, link, record, packs, pointer, running>>
  BY <1>2 DEF FinishInstall, KeepRest, RuntimeTypes
<1>6. FilesInv'
  BY <1>2, <1>3, <1>5 DEF FinishInstall, FilesInv, Absent
<1>7. PlaceOk(p, r2) /\ RuntimeLocal(p, r2)' /\ r2.op \in {None, r.op} /\ r2.pc \in {"idle", "unit", "manifest"}
  <2>1. CASE r2 = Idle
    BY <2>1, IdleType, IdleLocal
  <2>2. CASE r2.op = r.op /\ r2.pc \in {"unit", "manifest"}
    BY <1>2, <1>3, <1>5, <2>2 DEF PlaceOk, RuntimeLocal
  <2> QED BY <1>4, <2>1, <2>2
<1> QED BY <1>1, <1>2, <1>4, <1>5, <1>6, <1>7, RuntimeMoves DEF FinishInstall, KeepRest, IdentityPoints

LEMMA BaseUnlaunch == ASSUME BaseInv, NEW p \in Proc, Unlaunch(p) PROVE BaseInv'
<1>1. PICK r : r = proc[p]
  OBVIOUS
<1>2. r \in ProcType /\ r.pc = "unlaunch" /\ PlaceOk(p, r) /\ RuntimeTypes /\ FilesInv
  BY <1>1, ProcFacts DEF Unlaunch, At
<1>3. p = "operator" /\ proc["service"] = Idle /\ ~unit /\ running = None
  BY <1>1, <1>2, EndAlone
<1>4. r.op \in {"uninstall", "purge"} /\ r.op # None
  BY <1>2, SomeThing DEF PlaceOk, Command
<1>5. PICK r2 \in ProcType : /\ proc' = [proc EXCEPT ![p] = r2]
                             /\ r2 = Idle \/ (r2.op = r.op /\ r2.pc = "purge")
  <2>1. CASE Goto(p, "purge")
    BY <1>1, <2>1, ProcFacts, GotoMoves DEF Points, Moved
  <2>2. CASE Done(p)
    BY <2>2, IdleType DEF Done
  <2> QED BY <2>1, <2>2 DEF Unlaunch
<1>6. RuntimeTypes' /\ FilesInv' /\ ~launcher' /\ UNCHANGED <<versions, link, record, packs, pointer, running, unit>>
  BY <1>2 DEF Unlaunch, KeepRest, RuntimeTypes, FilesInv, Absent
<1>7. proc'["service"] = Idle
  BY <1>3, <1>5, ProcFacts DEF Proc, ProcTypes
<1>8. PlaceOk(p, r2) /\ RuntimeLocal(p, r2)' /\ r2.op \in {None, r.op} /\ r2.pc \in {"idle", "purge"}
  <2>1. CASE r2 = Idle
    BY <2>1, IdleType, IdleLocal
  <2>2. CASE r2.op = r.op /\ r2.pc = "purge"
    BY <1>3, <1>4, <1>6, <1>7, <2>2 DEF PlaceOk, RuntimeLocal
  <2> QED BY <1>5, <2>1, <2>2
<1> QED BY <1>1, <1>2, <1>5, <1>6, <1>8, RuntimeMoves DEF Unlaunch, KeepRest, IdentityPoints

LEMMA BasePackSteps == ASSUME BaseInv, NEW p \in Proc, PackSteps(p) PROVE BaseInv'
<1>1. PICK r : r = proc[p]
  OBVIOUS
<1>2. r \in ProcType /\ r.pc \in {"unpack", "point", "remove"} /\ PlaceOk(p, r) /\ RuntimeLocal(p, r) /\ RuntimeTypes /\ FilesInv
  BY <1>1, ProcFacts DEF PackSteps, At
<1>3. p = "operator" /\ r.op # None /\ (r.pc \in {"unpack", "point"} => r.op = "pack")
  BY <1>2, SomeThing DEF PlaceOk, Command, Duty, Proc
<1>4. PICK r2 \in ProcType : /\ proc' = [proc EXCEPT ![p] = r2]
                             /\ r2 = Idle \/ (Moved(r2, r, "point") /\ r.pc = "unpack" /\ UNCHANGED pointer
                                              /\ packs' = [packs EXCEPT ![r.version] = IF @ = None THEN r.content ELSE @])
  <2>1. CASE At(p, "unpack") /\ UNCHANGED pointer /\ Goto(p, "point")
                 /\ packs' = [packs EXCEPT ![r.version] = IF @ = None THEN r.content ELSE @]
    BY <1>1, <2>1, ProcFacts, GotoMoves DEF Points, At
  <2>2. CASE Done(p)
    BY <2>2, IdleType DEF Done
  <2> QED BY <1>1, <2>1, <2>2 DEF PackSteps
<1>5. r.version \in Version \cup {None} /\ r.content \in Content \cup {None}
      /\ (r.pc = "unpack" => r.version # None /\ r.content # None)
      /\ (r.pc = "point" => r.version # None /\ packs[r.version] # None)
  BY <1>2 DEF RuntimeLocal, ProcType
<1>6. RuntimeTypes' /\ UNCHANGED <<versions, link, record, running, launcher, manifest>>
  <2>1. packs' \in [Version -> Content \cup {None}] /\ pointer' \in Version \cup {None}
    BY <1>1, <1>2, <1>5 DEF PackSteps, RuntimeTypes, At
  <2> QED BY <1>2, <2>1 DEF PackSteps, KeepRest, RuntimeTypes
<1>7. FilesInv'
  <2>1. pointer' # None => packs'[pointer'] # None
    BY <1>1, <1>2, <1>5 DEF PackSteps, FilesInv, RuntimeTypes, At
  <2> QED BY <1>2, <1>6, <2>1 DEF FilesInv, Absent
<1>8. PlaceOk(p, r2) /\ RuntimeLocal(p, r2)' /\ r2.op \in {None, r.op} /\ r2.pc \in {"idle", "point"}
  <2>1. CASE r2 = Idle
    BY <2>1, IdleType, IdleLocal
  <2>2. CASE Moved(r2, r, "point") /\ r.pc = "unpack" /\ packs' = [packs EXCEPT ![r.version] = IF @ = None THEN r.content ELSE @]
    <3>1. packs'[r.version] # None
      BY <1>2, <1>5, <2>2 DEF RuntimeTypes
    <3> QED BY <1>3, <1>5, <2>2, <3>1 DEF PlaceOk, RuntimeLocal, Moved
  <2> QED BY <1>4, <2>1, <2>2
<1> QED BY <1>1, <1>2, <1>3, <1>4, <1>6, <1>7, <1>8, RuntimeMoves DEF PackSteps, KeepRest, IdentityPoints

\* The processes that do not move keep what they need.
LEMMA UnmovedKept ==
  ASSUME BaseInv, NEW q \in Proc, proc'[q] = proc[q], proc[q].pc \notin {"unlaunch", "purge"},
         \A v \in Version : versions[v] # None => versions'[v] # None,
         \A v \in Version : packs[v] # None => packs'[v] # None,
         link # None => link' # None, record # None => record' # None,
         commands <= commands', commands' \in Nat, keys' = keys, host.state # None => host'.state # None,
         key # 0 => key' # 0
  PROVE  (PlaceOk(q, proc[q]) /\ RuntimeLocal(q, proc[q]) /\ IdentityLocal(q, proc[q]))'
<1>1. commands \in Nat /\ keys \in Nat
  BY TypeParts DEF BaseInv, IdentityTypes, OtherTypes
<1> QED BY <1>1, ProcFacts, OthersKept

LEMMA BaseRestart == ASSUME BaseInv, NEW p \in Proc, Restart(p) PROVE BaseInv'
<1>1. proc[p].pc = "restart" /\ PlaceOk(p, proc[p]) /\ RuntimeTypes /\ FilesInv /\ ProcTypes /\ OtherTypes /\ IdentityTypes /\ IdentityInv
  BY ProcFacts DEF Restart, At
<1>2. IdentityTypes' /\ OtherTypes' /\ IdentityInv' /\ FilesInv' /\ UNCHANGED <<versions, packs, link, record, commands, keys, key, host>>
  BY <1>1 DEF Restart, identity, clock, runtime, IdentityTypes, OtherTypes, IdentityInv, FilesInv, Absent
<1>3. RuntimeTypes'
  BY <1>1 DEF Restart, runtime, RuntimeTypes, Interrupts
<1>4. \A q \in Proc : proc'[q] = Idle \/ (q # p /\ proc'[q] = proc[q])
  BY <1>1 DEF Restart, Stopped, Done, ProcTypes, Proc
<1>5. ProcTypes'
  BY <1>1, IdleType DEF Restart, Stopped, Done, ProcTypes, Proc
<1>6. ASSUME NEW q \in Proc
      PROVE  (PlaceOk(q, proc[q]) /\ RuntimeLocal(q, proc[q]) /\ IdentityLocal(q, proc[q]))'
  <2>1. CASE proc'[q] = Idle
    <3>1. PICK r : r = proc'[q]
      OBVIOUS
    <3> QED BY <2>1, <3>1, IdleLocal
  <2>2. CASE q # p /\ proc'[q] = proc[q]
    <3>1. proc[q].pc \notin {"unlaunch", "purge"}
      BY <1>1, <2>2, EndAlone
    <3>2. commands \in Nat /\ commands' \in Nat /\ commands <= commands'
      BY <1>1, <1>2 DEF OtherTypes
    <3> QED BY <1>2, <2>2, <3>1, <3>2, UnmovedKept
  <2> QED BY <1>4, <2>1, <2>2
<1> QED BY <1>2, <1>3, <1>5, <1>6, TypeParts DEF BaseInv, LocalInv

LEMMA BaseStopService == ASSUME BaseInv, NEW p \in Proc, StopService(p) PROVE BaseInv'
<1>1. PICK r : r = proc[p]
  OBVIOUS
<1>2. r \in ProcType /\ r.pc = "stop" /\ PlaceOk(p, r) /\ IdentityLocal(p, r) /\ RuntimeTypes /\ FilesInv /\ ProcTypes
      /\ OtherTypes /\ IdentityTypes /\ IdentityInv
  BY <1>1, ProcFacts DEF StopService, At
<1>3. p = "operator" /\ r.op \in {"uninstall", "purge"} /\ r.op # None
  BY <1>2, SomeThing DEF PlaceOk, Command, Duty, Proc
<1>4. IdentityTypes' /\ OtherTypes' /\ IdentityInv' /\ UNCHANGED <<versions, packs, link, record, commands, keys, key, host>>
  BY <1>2 DEF StopService, identity, clock, IdentityTypes, OtherTypes, IdentityInv
<1>5. RuntimeTypes' /\ FilesInv' /\ ~unit' /\ running' = None
  BY <1>2 DEF StopService, RuntimeTypes, FilesInv, Absent, Interrupts
<1>6. PICK r2 : r2 = [r EXCEPT !.pc = "unlaunch"]
  OBVIOUS
<1>7. r2 \in ProcType /\ r2.pc = "unlaunch" /\ r2.op = r.op /\ r2.node = r.node
  BY <1>2, <1>6 DEF ProcType, Points
<1>8. proc'["operator"] = r2 /\ proc'["service"] = Idle /\ ProcTypes'
  BY <1>1, <1>2, <1>3, <1>6, <1>7, IdleType DEF StopService, Stopped, ProcTypes, Proc
<1>9. PlaceOk(p, r2) /\ RuntimeLocal(p, r2)' /\ IdentityLocal(p, r2)'
  BY <1>2, <1>3, <1>4, <1>5, <1>7, <1>8 DEF PlaceOk, RuntimeLocal, IdentityLocal
<1>10. LocalInv'
  <2>1. ASSUME NEW q \in Proc
        PROVE  (PlaceOk(q, proc[q]) /\ RuntimeLocal(q, proc[q]) /\ IdentityLocal(q, proc[q]))'
    <3>1. CASE q = p
      <4>1. PICK x : x = proc'[q] /\ x = r2
        BY <1>3, <1>8, <3>1
      <4> QED BY <1>9, <3>1, <4>1
    <3>2. CASE q # p
      <4>1. PICK x : x = proc'[q] /\ x = Idle
        BY <1>3, <1>8, <3>2 DEF Proc
      <4> QED BY <4>1, IdleLocal
    <3> QED BY <3>1, <3>2
  <2> QED BY <2>1 DEF LocalInv
<1> QED BY <1>4, <1>5, <1>8, <1>10, TypeParts DEF BaseInv

LEMMA BasePurge == ASSUME BaseInv, NEW p \in Proc, Purge(p) PROVE BaseInv'
<1>1. RuntimeTypes /\ FilesInv /\ ProcTypes /\ OtherTypes /\ IdentityTypes /\ IdentityInv /\ RuntimeLocal(p, proc[p]) /\ proc[p].pc = "purge"
  BY ProcFacts DEF Purge, At
<1>2. p = "operator" /\ proc["service"] = Idle /\ ~launcher
  BY <1>1, EndAlone DEF RuntimeLocal
<1>3. \A q \in Proc : proc'[q] = Idle
  BY <1>1, <1>2 DEF Purge, Done, ProcTypes, Proc
<1>4. RuntimeTypes' /\ FilesInv'
  BY <1>1, <1>2 DEF Purge, RuntimeTypes, FilesInv
<1>5. IdentityTypes' /\ OtherTypes' /\ IdentityInv'
  BY <1>1 DEF Purge, IdentityTypes, OtherTypes, IdentityInv, clock
<1>6. ProcTypes'
  BY <1>1, IdleType DEF Purge, Done, ProcTypes
<1>7. LocalInv'
  <2>1. ASSUME NEW q \in Proc
        PROVE  (PlaceOk(q, proc[q]) /\ RuntimeLocal(q, proc[q]) /\ IdentityLocal(q, proc[q]))'
    <3>1. PICK x : x = proc'[q] /\ x = Idle
      BY <1>3
    <3> QED BY <3>1, IdleLocal
  <2> QED BY <2>1 DEF LocalInv
<1> QED BY <1>4, <1>5, <1>6, <1>7, TypeParts DEF BaseInv

\* A step that moves no process.
LEMMA Stays ==
  ASSUME BaseInv, proc' = proc, RuntimeTypes', IdentityTypes', OtherTypes', FilesInv', IdentityInv',
         UNCHANGED <<versions, packs, link, record, key, keys, launcher, unit>>,
         commands <= commands', host.state # None => host'.state # None,
         running' = running \/ unit
  PROVE  BaseInv'
<1>1. commands \in Nat /\ commands' \in Nat
  BY TypeParts DEF BaseInv, OtherTypes
<1>2. ASSUME NEW q \in Proc
      PROVE  (PlaceOk(q, proc[q]) /\ RuntimeLocal(q, proc[q]) /\ IdentityLocal(q, proc[q]))'
  <2>1. proc[q].pc \in {"unlaunch", "purge"} => ~unit /\ running = None /\ proc["service"] = Idle
    BY EndAlone
  <2>2. keys \in Nat /\ keys' = keys
    BY ProcFacts DEF IdentityTypes
  <2> QED BY <1>1, <2>1, <2>2, ProcFacts, OthersKept
<1> QED BY <1>2, ProcFacts, TypeParts DEF BaseInv, LocalInv, ProcTypes

LEMMA BaseStays ==
  ASSUME BaseInv, ServiceStarts \/ OperatorDrains \/ Approve \/ Ages
  PROVE  BaseInv'
<1>1. RuntimeTypes /\ FilesInv /\ ProcTypes /\ OtherTypes /\ IdentityTypes /\ IdentityInv
  BY TypeParts DEF BaseInv
<1>2. CASE ServiceStarts
  <2>1. RuntimeTypes' /\ FilesInv'
    BY <1>1, <1>2 DEF ServiceStarts, RuntimeTypes, FilesInv, Absent, runtime
  <2>2. IdentityTypes' /\ OtherTypes' /\ IdentityInv'
    BY <1>1, <1>2 DEF ServiceStarts, IdentityTypes, OtherTypes, IdentityInv, identity, clock
  <2> QED BY <1>1, <1>2, <2>1, <2>2, Stays DEF ServiceStarts, identity, runtime, OtherTypes
<1>3. CASE OperatorDrains
  <2>1. RuntimeTypes' /\ FilesInv'
    BY <1>1, <1>3 DEF OperatorDrains, RuntimeTypes, FilesInv, Absent
  <2>2. commands' \in 0..MaxCommands /\ commands <= commands'
    <3>1. scenario.limit \in 0..MaxCommands
      BY <1>1, RootAssumption DEF OtherTypes, ScenarioType
    <3> QED BY <1>1, <1>3, <3>1, RootAssumption DEF OperatorDrains, OtherTypes
  <2>3. IdentityTypes' /\ OtherTypes' /\ IdentityInv'
    BY <1>1, <1>3, <2>2 DEF OperatorDrains, IdentityTypes, OtherTypes, IdentityInv, identity, clock
  <2> QED BY <1>1, <1>3, <2>1, <2>2, <2>3, Stays DEF OperatorDrains, identity
<1>4. CASE Approve
  <2>1. RuntimeTypes' /\ FilesInv'
    BY <1>1, <1>4 DEF Approve, RuntimeTypes, FilesInv, Absent, runtime
  <2>2. 1 \in Generation
    BY RootAssumption DEF Generation
  <2>3. host'.state = "approved" /\ host'.gen = 1 /\ host'.key = host.key /\ host.key # 0
        /\ host' \in [key : 0..keys, gen : Generation, enrollment : 0..MaxCommands, state : {None, "pending", "approved"}]
    BY <1>1, <1>4, <2>2, AbsentAssumption DEF Approve, IdentityTypes, IdentityInv
  <2>4. IdentityTypes' /\ OtherTypes' /\ IdentityInv'
    BY <1>1, <1>4, <2>3 DEF Approve, IdentityTypes, OtherTypes, IdentityInv, identity, clock
  <2> QED BY <1>1, <1>4, <2>1, <2>3, <2>4, Stays, AbsentAssumption DEF Approve, identity, runtime, OtherTypes
<1>5. CASE Ages
  <2>1. RuntimeTypes' /\ FilesInv'
    BY <1>1, <1>5 DEF Ages, RuntimeTypes, FilesInv, Absent, runtime
  <2>2. due' \in Generation /\ expired' \in 0..due'
    BY <1>1, <1>5, RootAssumption DEF Ages, OtherTypes, Generation
  <2>3. IdentityTypes' /\ OtherTypes' /\ IdentityInv'
    BY <1>1, <1>5, <2>2 DEF Ages, IdentityTypes, OtherTypes, IdentityInv, identity
  <2> QED BY <1>1, <1>5, <2>1, <2>3, Stays DEF Ages, identity, runtime, OtherTypes
<1> QED BY <1>2, <1>3, <1>4, <1>5

\* A command or a duty begins.
Started(r, op, c, v, x, w) ==
  /\ r = [Idle EXCEPT !.op = op, !.pc = c, !.version = v, !.content = x, !.prior = w]
  /\ r.op = op /\ r.pc = c /\ r.version = v /\ r.content = x /\ r.prior = w

LEMMA Starting ==
  ASSUME NEW op \in Command \cup Duty, NEW c \in Points, NEW v \in Version \cup {None}, NEW x \in Content \cup {None},
         NEW w \in Version \cup {None}
  PROVE  \E r \in ProcType : Started(r, op, c, v, x, w)
<1>1. PICK i \in ProcType : i = Idle
  BY IdleType
<1> DEFINE r == [i EXCEPT !.op = op, !.pc = c, !.version = v, !.content = x, !.prior = w]
<1>2. r \in ProcType /\ r.op = op /\ r.pc = c /\ r.version = v /\ r.content = x /\ r.prior = w
  BY DEF ProcType
<1> QED BY <1>1, <1>2 DEF Started

StartPoints == {"stage", "drain", "stop", "unpack", "remove", "key", "forget_key", "poll", "renew", "fallback", "choose"}

\* What a process may find when it begins.
StartOk(p, r) ==
  /\ PlaceOk(p, r) /\ RuntimeLocal(p, r) /\ r.op # None

LEMMA BaseStarts ==
  ASSUME BaseInv, NEW p \in Proc, NEW r2 \in ProcType, proc' = [proc EXCEPT ![p] = r2], StartOk(p, r2),
         r2.pc \in StartPoints,
         UNCHANGED <<scenario, runtime, running, identity, host, clock, faults, torn>>,
         commands' \in 0..MaxCommands, commands <= commands', p = "operator" => commands < commands',
         p = "operator" \/ running # None
  PROVE  BaseInv'
<1>1. RuntimeTypes /\ FilesInv /\ ProcTypes /\ OtherTypes /\ IdentityTypes /\ IdentityInv
  BY TypeParts DEF BaseInv
<1>2. RuntimeTypes' /\ FilesInv'
  BY <1>1 DEF RuntimeTypes, FilesInv, Absent, runtime
<1>3. IdentityTypes' /\ OtherTypes' /\ IdentityInv'
  BY <1>1, RootAssumption DEF IdentityTypes, OtherTypes, IdentityInv, identity, clock
<1>4. PlaceOk(p, r2) /\ RuntimeLocal(p, r2) /\ r2.op # None
  BY DEF StartOk
<1>5. RuntimeLocal(p, r2)'
  BY <1>4 DEF StartPoints, RuntimeLocal, Installed, Absent, runtime
<1>6. r2.pc = "key" => p = "operator"
  BY <1>4, SomeThing DEF PlaceOk, Duty, Command, Proc
<1>7. IdentityLocal(p, r2)'
  BY <1>1, <1>6, RootAssumption DEF StartPoints, IdentityLocal, identity, OtherTypes, IdentityInv, IdentityTypes
<1>8. p = "operator" \/ (running # None /\ p = "service")
  BY DEF Proc
<1>9. /\ UNCHANGED <<versions, packs, link, record, keys, key, host>>
      /\ keys <= keys'
  BY <1>1 DEF identity, runtime, IdentityTypes
<1> QED BY <1>2, <1>3, <1>4, <1>5, <1>7, <1>8, <1>9, Moves

LEMMA LimitOk ==
  ASSUME OtherTypes, commands < scenario.limit
  PROVE  commands + 1 \in 0..MaxCommands /\ commands < commands + 1
<1>1. scenario.limit \in 0..MaxCommands
  BY RootAssumption DEF OtherTypes, ScenarioType
<1> QED BY <1>1, RootAssumption DEF OtherTypes

LEMMA BeginsBase ==
  ASSUME BaseInv, NEW op \in Command, NEW c \in StartPoints, NEW v \in Version \cup {None}, NEW x \in Content \cup {None},
         NEW w \in Version \cup {None}, Begins(op, c, v, x, w),
         \A r \in ProcType : r.op = op /\ r.pc = c /\ r.version = v /\ r.content = x /\ r.prior = w =>
           PlaceOk("operator", r) /\ RuntimeLocal("operator", r)
  PROVE  BaseInv'
<1>1. "operator" \in Proc /\ c \in Points /\ op # None
  BY SomeThing DEF Proc, StartPoints, Points
<1>2. PICK r2 \in ProcType : Started(r2, op, c, v, x, w)
  BY <1>1, Starting
<1>3. StartOk("operator", r2) /\ r2.pc \in StartPoints
  BY <1>1, <1>2 DEF StartOk, Started
<1>4. commands' = commands + 1 /\ commands < commands' /\ commands' \in 0..MaxCommands /\ commands <= commands'
  <2>1. commands < scenario.limit /\ commands' = commands + 1 /\ OtherTypes
    BY TypeParts DEF Begins, BaseInv
  <2> QED BY <2>1, LimitOk DEF OtherTypes
<1>5. proc' = [proc EXCEPT !["operator"] = r2]
  BY <1>2 DEF Started, Begins
<1> QED BY <1>1, <1>3, <1>4, <1>5, BaseStarts DEF Begins

LEMMA BaseCommands ==
  ASSUME BaseInv,
         BeginInstall \/ BeginRollback \/ BeginUninstall \/ BeginUnpack \/ BeginJoin \/ BeginLeave
         \/ \E v \in Version, c \in Content : BeginUpdate(v, c) \/ BeginPack(v, c)
  PROVE  BaseInv'
<1>1. CASE BeginInstall
  <2>1. Builtin \in Version /\ "install" # None
    BY RootAssumption, SomeThing DEF Command
  <2>2. \A r \in ProcType : r.op = "install" /\ r.pc = "stage" /\ r.version = Builtin /\ r.content = None /\ r.prior = None =>
           PlaceOk("operator", r) /\ RuntimeLocal("operator", r)
    BY <2>1 DEF PlaceOk, RuntimeLocal
  <2> QED BY <1>1, <2>1, <2>2, BeginsBase DEF BeginInstall, Command, StartPoints
<1>2. CASE BeginRollback
  <2>1. RuntimeTypes /\ FilesInv
    BY TypeParts DEF BaseInv
  <2>2. PICK v, w : v = record.previous /\ w = record.version
    OBVIOUS
  <2>3. v \in Version /\ w \in Version /\ Installed(v) /\ Absent(w)
    BY <1>2, <2>1, <2>2 DEF BeginRollback, RuntimeTypes, RecordType, FilesInv, Installed, Absent
  <2>4. "rollback" # None
    BY SomeThing DEF Command
  <2>5. \A r \in ProcType : r.op = "rollback" /\ r.pc = "drain" /\ r.version = v /\ r.content = None /\ r.prior = w =>
           PlaceOk("operator", r) /\ RuntimeLocal("operator", r)
    BY <2>3, <2>4 DEF PlaceOk, RuntimeLocal
  <2>6. Begins("rollback", "drain", v, None, w)
    BY <1>2, <2>2 DEF BeginRollback
  <2>7. "rollback" \in Command /\ "drain" \in StartPoints /\ None \in Content \cup {None}
    BY DEF Command, StartPoints
  <2> QED BY <2>3, <2>5, <2>6, <2>7, BeginsBase
<1>3. CASE BeginUninstall
  <2>1. ASSUME NEW op \in {"uninstall", "purge"}, Begins(op, "stop", None, None, None)
        PROVE  BaseInv'
    <3>1. op # None /\ op \in Command
      BY SomeThing DEF Command
    <3>2. \A r \in ProcType : r.op = op /\ r.pc = "stop" /\ r.version = None /\ r.content = None /\ r.prior = None =>
           PlaceOk("operator", r) /\ RuntimeLocal("operator", r)
      BY <3>1 DEF PlaceOk, RuntimeLocal
    <3> QED BY <2>1, <3>1, <3>2, BeginsBase DEF StartPoints
  <2> QED BY <1>3, <2>1 DEF BeginUninstall
<1>4. CASE BeginUnpack
  <2>1. "unpack" # None
    BY SomeThing DEF Command
  <2>2. \A r \in ProcType : r.op = "unpack" /\ r.pc = "remove" /\ r.version = None /\ r.content = None /\ r.prior = None =>
           PlaceOk("operator", r) /\ RuntimeLocal("operator", r)
    BY <2>1 DEF PlaceOk, RuntimeLocal
  <2> QED BY <1>4, <2>2, BeginsBase DEF BeginUnpack, StartPoints, Command
<1>5. CASE BeginJoin
  <2>1. "join" # None
    BY SomeThing DEF Command
  <2>2. \A r \in ProcType : r.op = "join" /\ r.pc = "key" /\ r.version = None /\ r.content = None /\ r.prior = None =>
           PlaceOk("operator", r) /\ RuntimeLocal("operator", r)
    BY <2>1 DEF PlaceOk, RuntimeLocal
  <2> QED BY <1>5, <2>2, BeginsBase DEF BeginJoin, StartPoints, Command
<1>6. CASE BeginLeave
  <2>1. "leave" # None
    BY SomeThing DEF Command
  <2>2. \A r \in ProcType : r.op = "leave" /\ r.pc = "forget_key" /\ r.version = None /\ r.content = None /\ r.prior = None =>
           PlaceOk("operator", r) /\ RuntimeLocal("operator", r)
    BY <2>1 DEF PlaceOk, RuntimeLocal
  <2> QED BY <1>6, <2>2, BeginsBase DEF BeginLeave, StartPoints, Command
<1>7. ASSUME NEW v \in Version, NEW c \in Content, BeginUpdate(v, c)
      PROVE  BaseInv'
  <2>1. "update" # None /\ v # None /\ c # None
    BY SomeThing DEF Command
  <2>2. \A r \in ProcType : r.op = "update" /\ r.pc = "drain" /\ r.version = v /\ r.content = c /\ r.prior = None =>
           PlaceOk("operator", r) /\ RuntimeLocal("operator", r)
    BY <2>1 DEF PlaceOk, RuntimeLocal
  <2> QED BY <1>7, <2>2, BeginsBase DEF BeginUpdate, StartPoints, Command
<1>8. ASSUME NEW v \in Version, NEW c \in Content, BeginPack(v, c)
      PROVE  BaseInv'
  <2>1. "pack" # None /\ v # None /\ c # None
    BY SomeThing DEF Command
  <2>2. \A r \in ProcType : r.op = "pack" /\ r.pc = "unpack" /\ r.version = v /\ r.content = c /\ r.prior = None =>
           PlaceOk("operator", r) /\ RuntimeLocal("operator", r)
    BY <2>1 DEF PlaceOk, RuntimeLocal
  <2> QED BY <1>8, <2>2, BeginsBase DEF BeginPack, StartPoints, Command
<1> QED BY <1>1, <1>2, <1>3, <1>4, <1>5, <1>6, <1>7, <1>8

LEMMA WorksBase ==
  ASSUME BaseInv, NEW op \in Duty \ {"update"}, NEW c \in {"poll", "renew", "fallback", "choose"}, Works(op, c),
         c \in {"fallback", "choose"} => op = "switch",
         commands' \in 0..MaxCommands, commands <= commands'
  PROVE  BaseInv'
<1>1. "service" \in Proc /\ "service" # "operator" /\ c \in Points /\ c \in StartPoints /\ op \in Duty /\ op # None /\ running # None
  BY SomeThing DEF Proc, StartPoints, Points, Works
<1>2. PICK i \in ProcType : i = Idle
  BY IdleType
<1>3. PICK r2 : r2 = [i EXCEPT !.op = op, !.pc = c]
  OBVIOUS
<1>4. r2 \in ProcType /\ r2.op = op /\ r2.pc = c
  BY <1>1, <1>3 DEF ProcType
<1>5. StartOk("service", r2)
  BY <1>1, <1>4 DEF StartOk, PlaceOk, RuntimeLocal, Duty
<1>6. proc' = [proc EXCEPT !["service"] = r2]
  BY <1>2, <1>3 DEF Works
<1> QED BY <1>1, <1>4, <1>5, <1>6, BaseStarts DEF Works

LEMMA BaseDuties ==
  ASSUME BaseInv,
         BeginPoll \/ BeginRenew \/ BeginSwitch \/ \E v \in Version, c \in Content : TakeDirective(v, c)
  PROVE  BaseInv'
<1>1. OtherTypes /\ commands \in 0..MaxCommands /\ commands \in Nat
  BY TypeParts DEF BaseInv, OtherTypes
<1>2. CASE BeginPoll
  BY <1>1, <1>2, WorksBase DEF BeginPoll, Duty
<1>3. CASE BeginRenew
  BY <1>1, <1>3, WorksBase DEF BeginRenew, Duty
<1>4. CASE BeginSwitch
  <2>1. CASE Works("switch", "fallback") /\ UNCHANGED commands
    BY <1>1, <2>1, WorksBase DEF Duty
  <2>2. CASE Works("switch", "choose") /\ commands < scenario.limit /\ commands' = commands + 1
    <3>1. commands' \in 0..MaxCommands /\ commands <= commands'
      BY <1>1, <2>2, LimitOk
    <3> QED BY <2>2, <3>1, WorksBase DEF Duty
  <2> QED BY <1>4, <2>1, <2>2 DEF BeginSwitch
<1>5. ASSUME NEW v \in Version, NEW c \in Content, TakeDirective(v, c)
      PROVE  BaseInv'
  <2>1. "service" \in Proc /\ "service" # "operator" /\ "drain" \in StartPoints /\ "update" # None /\ v # None /\ c # None
    BY SomeThing DEF Proc, StartPoints, Duty
  <2>2. PICK i \in ProcType : i = Idle
    BY IdleType
  <2>3. PICK r2 : r2 = [i EXCEPT !.op = "update", !.pc = "drain", !.version = v, !.content = c]
    OBVIOUS
  <2>8. "drain" \in Points /\ "update" \in Command
    BY DEF Points, Command
  <2>4. r2 \in ProcType /\ r2.op = "update" /\ r2.pc = "drain" /\ r2.version = v /\ r2.content = c
    BY <2>2, <2>3, <2>8 DEF ProcType
  <2>5. StartOk("service", r2)
    BY <2>1, <2>4 DEF StartOk, PlaceOk, RuntimeLocal, Duty
  <2>6. proc' = [proc EXCEPT !["service"] = r2]
    BY <1>5, <2>2, <2>3 DEF TakeDirective
  <2>11. commands < scenario.limit /\ commands' = commands + 1 /\ running # None
    BY <1>5 DEF TakeDirective
  <2>7. commands' \in 0..MaxCommands /\ commands <= commands' /\ running # None
    BY <1>1, <2>11, LimitOk
  <2>9. UNCHANGED <<scenario, runtime, running, identity, host, clock, faults, torn>>
    BY <1>5 DEF TakeDirective
  <2>10. r2.pc \in StartPoints
    BY <2>1, <2>4
  <2> QED BY <2>1, <2>4, <2>5, <2>6, <2>7, <2>9, <2>10, BaseStarts
<1> QED BY <1>2, <1>3, <1>4, <1>5

LEMMA BaseCrash == ASSUME BaseInv, NEW p \in Proc, Crash(p) PROVE BaseInv'
<1>1. RuntimeTypes /\ FilesInv /\ ProcTypes /\ OtherTypes /\ IdentityTypes /\ IdentityInv
  BY TypeParts DEF BaseInv
<1>2. RuntimeTypes' /\ FilesInv'
  BY <1>1 DEF Crash, RuntimeTypes, FilesInv, Absent, runtime
<1>3. IdentityTypes' /\ OtherTypes' /\ IdentityInv'
  BY <1>1, RootAssumption DEF Crash, IdentityTypes, OtherTypes, IdentityInv, identity, clock
<1>4. UNCHANGED <<versions, packs, link, record, keys, key, host, commands>> /\ keys <= keys' /\ commands <= commands'
  BY <1>1 DEF Crash, identity, runtime, IdentityTypes, OtherTypes
<1>5. proc' = [proc EXCEPT ![p] = Idle] /\ proc[p].op # None
  BY DEF Crash, Done
<1> QED BY <1>2, <1>3, <1>4, <1>5, IdleType, IdleLocal, Moves

-----------------------------------------------------------------------------
(* The identity.                                                           *)

IdentityPlaces ==
  {"idle", "request", "new_session", "new_node", "submit", "poll", "verify", "cert", "read_session", "session", "node",
   "requested", "forget_cert", "forget_request", "forget_node", "forget_session"}

\* A step on the identity.
LEMMA IdentityMoves ==
  ASSUME BaseInv, NEW p \in Proc, NEW r2 \in ProcType, proc' = [proc EXCEPT ![p] = r2],
         UNCHANGED <<scenario, runtime, running, commands, clock, torn>>, faults' \in 0..MaxFaults,
         proc[p].pc # "idle", r2.pc \in IdentityPlaces, PlaceOk(p, r2), IdentityLocal(p, r2)',
         IdentityTypes', IdentityInv', keys <= keys', host.state # None => host'.state # None,
         p = "service" => keys' = keys /\ (key # 0 => key' # 0)
  PROVE  BaseInv'
<1>1. RuntimeTypes /\ FilesInv /\ ProcTypes /\ OtherTypes
  BY TypeParts DEF BaseInv
<1>2. RuntimeTypes' /\ FilesInv' /\ OtherTypes'
  BY <1>1 DEF RuntimeTypes, FilesInv, OtherTypes, Absent, runtime, clock
<1>3. RuntimeLocal(p, r2)'
  BY DEF RuntimeLocal, IdentityPlaces
<1>4. UNCHANGED <<versions, packs, link, record>> /\ commands <= commands'
  BY <1>1 DEF runtime, OtherTypes
<1> QED BY <1>2, <1>3, <1>4, Moves

\* The step of p ends its operation.
LEMMA IdentityDone ==
  ASSUME BaseInv, NEW p \in Proc, Done(p),
         UNCHANGED <<scenario, runtime, running, commands, clock, torn>>, faults' \in 0..MaxFaults,
         proc[p].pc # "idle", IdentityTypes', IdentityInv', keys <= keys', host.state # None => host'.state # None,
         p = "service" => keys' = keys /\ (key # 0 => key' # 0)
  PROVE  BaseInv'
BY IdleType, IdleLocal, IdentityMoves DEF Done, IdentityPlaces

LEMMA BaseJoinSteps == ASSUME BaseInv, NEW p \in Proc, JoinSteps(p) PROVE BaseInv'
<1>1. PICK r : r = proc[p]
  OBVIOUS
<1>2. /\ r \in ProcType /\ PlaceOk(p, r) /\ IdentityLocal(p, r) /\ r.pc \in {"key", "request", "new_session", "new_node"}
      /\ IdentityTypes /\ IdentityInv /\ OtherTypes
  BY <1>1, ProcFacts DEF JoinSteps, At
<1>3. p = "operator" /\ r.op = "join" /\ r.op # None /\ commands # 0
  BY <1>2, SomeThing DEF PlaceOk, IdentityLocal, Command, Duty, Proc
<1>4. commands \in 1..MaxCommands /\ commands \in 0..MaxCommands /\ keys \in Nat /\ key \in Nat /\ MaxCommands \in Nat
  BY <1>2, <1>3, RootAssumption DEF OtherTypes, IdentityTypes
<1>5. /\ UNCHANGED <<scenario, runtime, running, commands, clock, torn>> /\ faults' \in 0..MaxFaults
      /\ proc[p].pc # "idle" /\ UNCHANGED host
  BY <1>1, <1>2 DEF JoinSteps, KeepRuntime, OtherTypes
<1>6. key' \in 0..keys' /\ keys' \in 0..MaxCommands /\ keys <= keys' /\ keys' <= commands /\ key' # 0
  <2>1. CASE r.pc = "key"
    <3>1. keys < commands /\ key \in 0..keys
          /\ key' = (IF key = 0 THEN keys + 1 ELSE key) /\ keys' = (IF key = 0 THEN keys + 1 ELSE keys)
      BY <1>1, <1>2, <2>1 DEF JoinSteps, At, IdentityLocal, IdentityTypes
    <3> QED BY <1>4, <3>1
  <2>2. CASE r.pc # "key"
    <3>1. key' = key /\ keys' = keys /\ key # 0
      BY <1>1, <1>2, <2>2 DEF JoinSteps, At, IdentityLocal
    <3> QED BY <1>2, <3>1, <1>4 DEF IdentityTypes, IdentityInv
  <2> QED BY <2>1, <2>2
<1>7. session' \in {None} \cup SessionType
  <2>1. \/ session' = session
        \/ \E t \in Transport :
             session' = [ready |-> FALSE, transport |-> t, material |-> FALSE, fallback |-> FALSE, enrollment |-> commands]
    BY DEF JoinSteps
  <2>2. \A t \in Transport :
          [ready |-> FALSE, transport |-> t, material |-> FALSE, fallback |-> FALSE, enrollment |-> commands] \in SessionType
    BY <1>4 DEF SessionType
  <2> QED BY <1>2, <2>1, <2>2 DEF IdentityTypes
<1>8. node' \in {None} \cup NodeType
  <2>1. 0 \in Generation
    BY RootAssumption DEF Generation
  <2> QED BY <1>2, <1>4, <2>1 DEF JoinSteps, IdentityTypes, NodeType
<1>9. join' \in (1..MaxCommands) \cup {None} /\ cert' = cert /\ host' = host
  BY <1>2, <1>4, <1>5 DEF JoinSteps, IdentityTypes
<1>10. IdentityTypes'
  <2>1. cert # None => cert.key \in 1..keys'
    BY <1>2, <1>4, <1>6 DEF IdentityTypes, CertType
  <2>2. host \in [key : 0..keys', gen : Generation, enrollment : 0..MaxCommands, state : {None, "pending", "approved"}]
    BY <1>2, <1>4, <1>6 DEF IdentityTypes
  <2> QED BY <1>2, <1>6, <1>7, <1>8, <1>9, <2>1, <2>2 DEF IdentityTypes
<1>11. IdentityInv'
  BY <1>2, <1>5, <1>6, <1>9 DEF IdentityInv
<1>12. PICK c \in {"request", "new_session", "new_node", "submit"} : Goto(p, c)
  BY DEF JoinSteps
<1>13. PICK r2 \in ProcType : proc' = [proc EXCEPT ![p] = r2] /\ Moved(r2, r, c)
  BY <1>1, <1>12, ProcFacts, GotoMoves DEF Points
<1>14. PlaceOk(p, r2)
  BY <1>3, <1>12, <1>13 DEF PlaceOk, Moved
<1>15. IdentityLocal(p, r2)'
  BY <1>3, <1>5, <1>6, <1>12, <1>13 DEF IdentityLocal, Moved
<1>16. r2.pc \in IdentityPlaces
  BY <1>12, <1>13 DEF Moved, IdentityPlaces
<1> QED BY <1>3, <1>5, <1>6, <1>10, <1>11, <1>13, <1>14, <1>15, <1>16, IdentityMoves

LEMMA BaseSubmit == ASSUME BaseInv, NEW p \in Proc, Submit(p) PROVE BaseInv'
<1>1. PICK r : r = proc[p]
  OBVIOUS
<1>2. /\ r \in ProcType /\ PlaceOk(p, r) /\ IdentityLocal(p, r) /\ r.pc = "submit"
      /\ IdentityTypes /\ IdentityInv /\ OtherTypes
  BY <1>1, ProcFacts DEF Submit, At
<1>3. key # 0 /\ r.op = "join" /\ r.op # None /\ commands # 0 /\ p = "operator" /\ keys \in Nat
  BY <1>2, SomeThing DEF PlaceOk, IdentityLocal, Command, Duty, Proc, IdentityTypes
<1>4. /\ UNCHANGED <<scenario, runtime, running, commands, clock, torn>> /\ faults' \in 0..MaxFaults
      /\ proc[p].pc # "idle" /\ UNCHANGED <<key, cert, join, session, node, keys>> /\ keys <= keys'
  BY <1>1, <1>2, <1>3 DEF Submit, KeepRuntime, OtherTypes, identity
<1>5. CASE join # None /\ host' = [key |-> key, gen |-> 0, enrollment |-> join, state |-> "pending"] /\ Goto(p, "poll")
  <2>1. "pending" # None /\ 0 \in Generation /\ join \in 0..MaxCommands
    BY <1>2, <1>5, AbsentAssumption, RootAssumption DEF Generation, IdentityTypes
  <2>2. /\ host'.state = "pending" /\ host'.key = key /\ host'.state # None
        /\ host' \in [key : 0..keys, gen : Generation, enrollment : 0..MaxCommands, state : {None, "pending", "approved"}]
    BY <1>2, <1>5, <2>1 DEF IdentityTypes
  <2>3. IdentityTypes' /\ IdentityInv'
    BY <1>2, <1>3, <1>4, <2>2 DEF IdentityTypes, IdentityInv
  <2>4. PICK r2 \in ProcType : proc' = [proc EXCEPT ![p] = r2] /\ Moved(r2, r, "poll")
    BY <1>1, <1>5, ProcFacts, GotoMoves DEF Points
  <2>5. PlaceOk(p, r2) /\ IdentityLocal(p, r2)' /\ r2.pc \in IdentityPlaces
    BY <1>3, <1>4, <2>4 DEF PlaceOk, Moved, IdentityLocal, IdentityPlaces
  <2> QED BY <1>3, <1>4, <2>2, <2>3, <2>4, <2>5, IdentityMoves
<1>6. CASE UNCHANGED host /\ Done(p)
  <2>1. IdentityTypes' /\ IdentityInv'
    BY <1>2, <1>4, <1>6 DEF IdentityTypes, IdentityInv
  <2> QED BY <1>3, <1>4, <1>6, <2>1, IdentityDone
<1> QED BY <1>5, <1>6 DEF Submit

LEMMA BasePollOnce == ASSUME BaseInv, NEW p \in Proc, PollOnce(p) PROVE BaseInv'
<1>1. PICK r : r = proc[p]
  OBVIOUS
<1>2. r \in ProcType /\ PlaceOk(p, r) /\ IdentityLocal(p, r) /\ r.pc = "poll" /\ IdentityTypes /\ IdentityInv /\ OtherTypes
  BY <1>1, ProcFacts DEF PollOnce, At
<1>3. /\ UNCHANGED <<scenario, runtime, running, commands, clock, torn>> /\ faults' \in 0..MaxFaults
      /\ proc[p].pc # "idle" /\ UNCHANGED <<key, cert, join, session, node, keys, host>>
  BY <1>1, <1>2 DEF PollOnce, KeepRuntime, OtherTypes, identity
<1>4. IdentityTypes' /\ IdentityInv' /\ keys <= keys'
  BY <1>2, <1>3 DEF IdentityTypes, IdentityInv
<1>5. CASE host.state = "approved" /\ proc' = [proc EXCEPT ![p].pc = "verify", ![p].gen = host.gen]
  <2>1. host.gen \in Generation /\ host.gen # 0 /\ host.state # None
    BY <1>2, <1>5, AbsentAssumption DEF IdentityTypes, IdentityInv
  <2>2. PICK r2 : r2 = [r EXCEPT !.pc = "verify", !.gen = host.gen]
    OBVIOUS
  <2>3. r2 \in ProcType /\ r2.pc = "verify" /\ r2.gen = host.gen /\ r2.op = r.op
    BY <1>2, <2>1, <2>2 DEF ProcType, Points
  <2>4. proc' = [proc EXCEPT ![p] = r2]
    BY <1>1, <1>5, <2>2
  <2>5. PlaceOk(p, r2) /\ IdentityLocal(p, r2)' /\ r2.pc \in IdentityPlaces
    <3>1. r.op # None
      BY <1>2, IdleType DEF PlaceOk
    <3> QED BY <1>2, <1>3, <2>1, <2>3, <3>1 DEF PlaceOk, IdentityLocal, IdentityPlaces
  <2> QED BY <1>3, <1>4, <2>3, <2>4, <2>5, IdentityMoves
<1>6. CASE Done(p)
  BY <1>3, <1>4, <1>6, IdentityDone
<1> QED BY <1>5, <1>6 DEF PollOnce

LEMMA BaseRenew == ASSUME BaseInv, NEW p \in Proc, Renew(p) PROVE BaseInv'
<1>1. PICK r : r = proc[p]
  OBVIOUS
<1>2. r \in ProcType /\ PlaceOk(p, r) /\ IdentityLocal(p, r) /\ r.pc = "renew" /\ IdentityTypes /\ IdentityInv /\ OtherTypes
  BY <1>1, ProcFacts DEF Renew, At
<1>3. /\ UNCHANGED <<scenario, runtime, running, commands, clock, torn>> /\ faults' \in 0..MaxFaults
      /\ proc[p].pc # "idle" /\ UNCHANGED <<key, cert, join, session, node, keys>> /\ r.op # None
  <2>1. faults' \in 0..MaxFaults
    BY <1>2, RootAssumption DEF Renew, OtherTypes
  <2> QED BY <1>1, <1>2, <2>1, IdleType DEF Renew, identity, PlaceOk
<1>4. PICK g : g = host'.gen
  OBVIOUS
<1>5. /\ IdentityTypes' /\ IdentityInv' /\ keys <= keys' /\ g \in Generation /\ host'.state = host.state
      /\ Renewable /\ host.gen \in {node.gen, node.gen + 1} => g # 0 /\ host.state # None
  <2>1. CASE Renewable /\ node.gen = host.gen /\ host.gen < MaxGeneration /\ host' = [host EXCEPT !.gen = @ + 1]
    <3>1. /\ host' \in [key : 0..keys, gen : Generation, enrollment : 0..MaxCommands, state : {None, "pending", "approved"}]
          /\ host'.gen = host.gen + 1 /\ host'.gen # 0 /\ host'.key = host.key /\ host'.state = host.state
      BY <1>2, <2>1, RootAssumption DEF IdentityTypes, Generation
    <3> QED BY <1>2, <1>3, <1>4, <2>1, <3>1, AbsentAssumption DEF IdentityTypes, IdentityInv, Renewable
  <2>2. CASE host' = host
    BY <1>2, <1>3, <1>4, <2>2, AbsentAssumption DEF IdentityTypes, IdentityInv, Renewable
  <2> QED BY <2>1, <2>2 DEF Renew
<1>6. CASE Renewable /\ host.gen \in {node.gen, node.gen + 1} /\ proc' = [proc EXCEPT ![p].pc = "verify", ![p].gen = g]
  <2>2. PICK r2 : r2 = [r EXCEPT !.pc = "verify", !.gen = g]
    OBVIOUS
  <2>3. r2 \in ProcType /\ r2.pc = "verify" /\ r2.gen = g /\ r2.op = r.op
    BY <1>2, <1>5, <2>2 DEF ProcType, Points
  <2>4. proc' = [proc EXCEPT ![p] = r2]
    BY <1>1, <1>6, <2>2
  <2>5. PlaceOk(p, r2) /\ IdentityLocal(p, r2)' /\ r2.pc \in IdentityPlaces
    BY <1>2, <1>3, <1>5, <1>6, <2>3 DEF PlaceOk, IdentityLocal, IdentityPlaces
  <2> QED BY <1>3, <1>5, <2>3, <2>4, <2>5, IdentityMoves
<1>7. CASE Done(p)
  BY <1>3, <1>5, <1>7, IdentityDone
<1>8. \/ Done(p)
      \/ Renewable /\ host.gen \in {node.gen, node.gen + 1} /\ proc' = [proc EXCEPT ![p].pc = "verify", ![p].gen = g]
  <2>1. host.gen \in Nat
    BY <1>2, RootAssumption DEF IdentityTypes, Generation
  <2>2. host' = [host EXCEPT !.gen = @ + 1] => g = host.gen + 1
    BY <1>2, <1>4 DEF IdentityTypes
  <2>3. host' = host => g = host.gen
    BY <1>4
  <2> QED BY <2>1, <2>2, <2>3 DEF Renew
<1> QED BY <1>6, <1>7, <1>8

LEMMA BaseVerify == ASSUME BaseInv, NEW p \in Proc, Verify(p) PROVE BaseInv'
<1>1. PICK r : r = proc[p]
  OBVIOUS
<1>2. r \in ProcType /\ PlaceOk(p, r) /\ IdentityLocal(p, r) /\ r.pc = "verify" /\ IdentityTypes /\ IdentityInv /\ OtherTypes
  BY <1>1, ProcFacts DEF Verify, At
<1>3. /\ UNCHANGED <<scenario, runtime, running, commands, clock, torn>> /\ faults' \in 0..MaxFaults
      /\ proc[p].pc # "idle" /\ UNCHANGED <<key, cert, join, session, node, keys, host>> /\ r.op # None
  BY <1>1, <1>2, IdleType DEF Verify, KeepRuntime, OtherTypes, identity, PlaceOk
<1>4. IdentityTypes' /\ IdentityInv' /\ keys <= keys'
  BY <1>2, <1>3 DEF IdentityTypes, IdentityInv
<1>5. CASE node # None /\ node.key = host.key /\ proc' = [proc EXCEPT ![p].pc = "cert", ![p].node = node]
  <2>1. node \in NodeType /\ node.key \in 1..keys
    BY <1>2, <1>5 DEF IdentityTypes, IdentityInv, IdentityLocal
  <2>2. PICK r2 : r2 = [r EXCEPT !.pc = "cert", !.node = node]
    OBVIOUS
  <2>3. r2 \in ProcType /\ r2.pc = "cert" /\ r2.node = node /\ r2.op = r.op /\ r2.gen = r.gen
    BY <1>2, <2>1, <2>2 DEF ProcType, Points
  <2>4. proc' = [proc EXCEPT ![p] = r2]
    BY <1>1, <1>5, <2>2
  <2>5. PlaceOk(p, r2) /\ IdentityLocal(p, r2)' /\ r2.pc \in IdentityPlaces
    BY <1>2, <1>3, <1>5, <2>1, <2>3 DEF PlaceOk, IdentityLocal, IdentityPlaces
  <2> QED BY <1>3, <1>4, <2>3, <2>4, <2>5, IdentityMoves
<1>6. CASE Done(p)
  BY <1>3, <1>4, <1>6, IdentityDone
<1> QED BY <1>5, <1>6 DEF Verify

LEMMA BaseWriteCert == ASSUME BaseInv, NEW p \in Proc, WriteCert(p) PROVE BaseInv'
<1>1. PICK r : r = proc[p]
  OBVIOUS
<1>2. r \in ProcType /\ PlaceOk(p, r) /\ IdentityLocal(p, r) /\ r.pc = "cert" /\ IdentityTypes /\ IdentityInv /\ OtherTypes
  BY <1>1, ProcFacts DEF WriteCert, At
<1>3. /\ UNCHANGED <<scenario, runtime, running, commands, clock, torn>> /\ faults' \in 0..MaxFaults
      /\ proc[p].pc # "idle" /\ UNCHANGED <<key, join, session, node, keys, host>> /\ r.op # None
  BY <1>1, <1>2, IdleType DEF WriteCert, KeepRuntime, OtherTypes, PlaceOk
<1>4. r.gen # 0 /\ r.node # None /\ r.node.key \in 1..keys /\ r.gen \in Generation /\ r.node \in NodeType
  BY <1>2 DEF IdentityLocal, ProcType
<1>5. PICK k, g : k = r.node.key /\ g = r.gen
  OBVIOUS
<1>6. cert' = [key |-> k, gen |-> g] /\ k \in 1..keys /\ k \in Nat /\ g \in Generation \ {0}
  BY <1>1, <1>4, <1>5 DEF WriteCert, NodeType
<1>7. cert' \in CertType /\ cert'.key \in 1..keys
  BY <1>6 DEF CertType
<1>8. IdentityTypes' /\ IdentityInv' /\ keys <= keys'
  BY <1>2, <1>3, <1>7 DEF IdentityTypes, IdentityInv
<1>9. PICK r2 \in ProcType : proc' = [proc EXCEPT ![p] = r2] /\ Moved(r2, r, "read_session")
  BY <1>1, ProcFacts, GotoMoves DEF Points, WriteCert
<1>10. PlaceOk(p, r2) /\ IdentityLocal(p, r2)' /\ r2.pc \in IdentityPlaces
  BY <1>2, <1>3, <1>4, <1>9 DEF PlaceOk, Moved, IdentityLocal, IdentityPlaces
<1> QED BY <1>3, <1>8, <1>9, <1>10, IdentityMoves

LEMMA BaseWriteNode == ASSUME BaseInv, NEW p \in Proc, WriteNode(p) PROVE BaseInv'
<1>1. PICK r : r = proc[p]
  OBVIOUS
<1>2. r \in ProcType /\ PlaceOk(p, r) /\ IdentityLocal(p, r) /\ r.pc = "node" /\ IdentityTypes /\ IdentityInv /\ OtherTypes
  BY <1>1, ProcFacts DEF WriteNode, At
<1>3. /\ UNCHANGED <<scenario, runtime, running, commands, clock, torn>> /\ faults' \in 0..MaxFaults
      /\ proc[p].pc # "idle" /\ UNCHANGED <<key, cert, join, session, keys, host>> /\ r.op # None
  BY <1>1, <1>2, IdleType DEF WriteNode, KeepRuntime, OtherTypes, PlaceOk
<1>4. r.gen \in Generation /\ r.node \in NodeType
  BY <1>2 DEF IdentityLocal, ProcType
<1>5. PICK n, g : n = r.node /\ g = r.gen
  OBVIOUS
<1>6. node' = [n EXCEPT !.gen = g] /\ n \in NodeType /\ g \in Generation
  BY <1>1, <1>4, <1>5 DEF WriteNode, NodeAfter
<1>7. node' \in NodeType
  BY <1>6 DEF NodeType
<1>8. IdentityTypes' /\ IdentityInv' /\ keys <= keys'
  BY <1>2, <1>3, <1>7 DEF IdentityTypes, IdentityInv
<1>9. PICK r2 \in ProcType : proc' = [proc EXCEPT ![p] = r2] /\ Moved(r2, r, "requested")
  BY <1>1, ProcFacts, GotoMoves DEF Points, WriteNode
<1>10. PlaceOk(p, r2) /\ IdentityLocal(p, r2)' /\ r2.pc \in IdentityPlaces
  BY <1>2, <1>3, <1>9 DEF PlaceOk, Moved, IdentityLocal, IdentityPlaces
<1> QED BY <1>3, <1>8, <1>9, <1>10, IdentityMoves

LEMMA ScenarioFacts ==
  ASSUME OtherTypes
  PROVE  /\ scenario \in ScenarioType /\ scenario.relay \in BOOLEAN /\ scenario.overlap \in BOOLEAN
         /\ MaxCommands \in Nat /\ 0 \in 0..MaxCommands
BY RootAssumption DEF OtherTypes, ScenarioType

LEMMA SessionMade ==
  ASSUME OtherTypes, NEW s \in SessionType, NEW t \in Transport
  PROVE  /\ Activated(s, t) \in SessionType
         /\ Activated(s, t).ready /\ Activated(s, t).transport = t
         /\ t = "relay" => Activated(s, t).material = scenario.relay
BY ScenarioFacts DEF Activated, SessionType

LEMMA NewSessionType == ASSUME OtherTypes PROVE NewSession \in SessionType
BY ScenarioFacts DEF NewSession, SessionType, Transport

LEMMA SwitchedType ==
  ASSUME session \in SessionType, NEW t \in Transport
  PROVE  /\ Switched(t) \in SessionType /\ Switched(t).transport = t /\ Switched(t).material = (t = "relay")
         /\ Switched(t).ready = session.ready
BY DEF Switched, SessionType

LEMMA BaseReadSession == ASSUME BaseInv, NEW p \in Proc, ReadSession(p) PROVE BaseInv'
<1>1. PICK r : r = proc[p]
  OBVIOUS
<1>2. r \in ProcType /\ PlaceOk(p, r) /\ IdentityLocal(p, r) /\ r.pc = "read_session" /\ IdentityTypes /\ IdentityInv /\ OtherTypes
  BY <1>1, ProcFacts DEF ReadSession, At
<1>3. /\ UNCHANGED <<scenario, runtime, running, commands, clock, torn>> /\ faults' \in 0..MaxFaults
      /\ proc[p].pc # "idle" /\ UNCHANGED <<key, cert, join, session, node, keys, host>> /\ r.op # None
  BY <1>1, <1>2, IdleType DEF ReadSession, KeepRuntime, OtherTypes, PlaceOk, identity
<1>4. IdentityTypes' /\ IdentityInv' /\ keys <= keys'
  BY <1>2, <1>3 DEF IdentityTypes, IdentityInv
<1>5. PICK s : s = IF session = None THEN NewSession ELSE session
  OBVIOUS
<1>6. s \in SessionType /\ s.transport \in Transport
  BY <1>2, <1>5, NewSessionType DEF IdentityTypes, SessionType
<1>7. ASSUME NEW t \in Transport, proc' = [proc EXCEPT ![p].pc = "session", ![p].session = Activated(s, t)]
      PROVE  BaseInv'
  <2>1. PICK x : x = Activated(s, t)
    OBVIOUS
  <2>2. x \in SessionType
    BY <1>2, <1>6, <2>1, SessionMade
  <2>3. PICK r2 : r2 = [r EXCEPT !.pc = "session", !.session = x]
    OBVIOUS
  <2>4. r2 \in ProcType /\ r2.pc = "session" /\ r2.node = r.node /\ r2.op = r.op /\ r2.gen = r.gen
    BY <1>2, <2>2, <2>3 DEF ProcType, Points
  <2>5. proc' = [proc EXCEPT ![p] = r2]
    BY <1>1, <1>7, <2>1, <2>3
  <2>6. PlaceOk(p, r2) /\ IdentityLocal(p, r2)' /\ r2.pc \in IdentityPlaces
    BY <1>2, <1>3, <2>4 DEF PlaceOk, IdentityLocal, IdentityPlaces
  <2> QED BY <1>3, <1>4, <2>4, <2>5, <2>6, IdentityMoves
<1>8. CASE Done(p)
  BY <1>3, <1>4, <1>8, IdentityDone
<1>9. Done(p) \/ \E t \in Transport : proc' = [proc EXCEPT ![p].pc = "session", ![p].session = Activated(s, t)]
  BY <1>5, <1>6 DEF ReadSession, Transport
<1> QED BY <1>7, <1>8, <1>9

LEMMA BaseWriteSession == ASSUME BaseInv, NEW p \in Proc, WriteSession(p) PROVE BaseInv'
<1>1. PICK r : r = proc[p]
  OBVIOUS
<1>2. r \in ProcType /\ PlaceOk(p, r) /\ IdentityLocal(p, r) /\ r.pc = "session" /\ IdentityTypes /\ IdentityInv /\ OtherTypes
  BY <1>1, ProcFacts DEF WriteSession, At
<1>3. /\ UNCHANGED <<scenario, runtime, running, commands, clock, torn>> /\ faults' \in 0..MaxFaults
      /\ proc[p].pc # "idle" /\ UNCHANGED <<key, cert, join, node, keys, host>> /\ r.op # None
  BY <1>1, <1>2, IdleType DEF WriteSession, KeepRuntime, OtherTypes, PlaceOk
<1>4. session' \in {None} \cup SessionType
  BY <1>1, <1>2 DEF WriteSession, ProcType
<1>5. IdentityTypes' /\ IdentityInv' /\ keys <= keys'
  BY <1>2, <1>3, <1>4 DEF IdentityTypes, IdentityInv
<1>6. CASE r.op # "switch" /\ Goto(p, "node")
  <2>1. PICK r2 \in ProcType : proc' = [proc EXCEPT ![p] = r2] /\ Moved(r2, r, "node")
    BY <1>1, <1>6, ProcFacts, GotoMoves DEF Points
  <2>2. PlaceOk(p, r2) /\ IdentityLocal(p, r2)' /\ r2.pc \in IdentityPlaces
    BY <1>2, <1>3, <1>6, <2>1 DEF PlaceOk, Moved, IdentityLocal, IdentityPlaces
  <2> QED BY <1>3, <1>5, <2>1, <2>2, IdentityMoves
<1>7. CASE Done(p)
  BY <1>3, <1>5, <1>7, IdentityDone
<1> QED BY <1>1, <1>6, <1>7 DEF WriteSession

LEMMA BaseDropRequest == ASSUME BaseInv, NEW p \in Proc, DropRequest(p) PROVE BaseInv'
<1>1. IdentityTypes /\ IdentityInv /\ OtherTypes
  BY ProcFacts
<1>2. /\ UNCHANGED <<scenario, runtime, running, commands, clock, torn>> /\ faults' \in 0..MaxFaults
      /\ proc[p].pc # "idle" /\ UNCHANGED <<key, cert, session, node, keys, host>> /\ join' = None /\ Done(p)
  BY <1>1 DEF DropRequest, KeepRuntime, OtherTypes, At
<1>3. IdentityTypes' /\ IdentityInv' /\ keys <= keys'
  BY <1>1, <1>2 DEF IdentityTypes, IdentityInv
<1> QED BY <1>2, <1>3, IdentityDone

LEMMA BaseChoose == ASSUME BaseInv, NEW p \in Proc, Choose(p) PROVE BaseInv'
<1>1. PICK r : r = proc[p]
  OBVIOUS
<1>2. /\ r \in ProcType /\ PlaceOk(p, r) /\ IdentityLocal(p, r) /\ r.pc \in {"fallback", "choose"}
      /\ IdentityTypes /\ IdentityInv /\ OtherTypes
  BY <1>1, ProcFacts DEF Choose, At
<1>3. /\ UNCHANGED <<scenario, runtime, running, commands, clock, torn>> /\ faults' \in 0..MaxFaults
      /\ proc[p].pc # "idle" /\ UNCHANGED <<key, cert, join, session, node, keys, host>> /\ r.op # None
  BY <1>1, <1>2, IdleType DEF Choose, KeepRuntime, OtherTypes, PlaceOk, identity
<1>4. IdentityTypes' /\ IdentityInv' /\ keys <= keys'
  BY <1>2, <1>3 DEF IdentityTypes, IdentityInv
<1>5. CASE Done(p)
  BY <1>3, <1>4, <1>5, IdentityDone
<1>6. ASSUME session \in SessionType, NEW t \in Transport, proc' = [proc EXCEPT ![p].pc = "session", ![p].session = Switched(t)]
      PROVE  BaseInv'
  <2>1. PICK x \in SessionType : x = Switched(t)
    BY <1>6, SwitchedType
  <2>2. PICK r2 : r2 = [r EXCEPT !.pc = "session", !.session = x]
    OBVIOUS
  <2>3. r2 \in ProcType /\ r2.pc = "session" /\ r2.op = r.op
    BY <1>2, <2>2 DEF ProcType, Points
  <2>4. proc' = [proc EXCEPT ![p] = r2]
    BY <1>1, <1>6, <2>1, <2>2
  <2>5. PlaceOk(p, r2) /\ IdentityLocal(p, r2)' /\ r2.pc \in IdentityPlaces
    BY <1>2, <1>3, <2>3 DEF PlaceOk, IdentityLocal, IdentityPlaces
  <2> QED BY <1>3, <1>4, <2>3, <2>4, <2>5, IdentityMoves
<1>7. Done(p) \/ \E t \in Transport : session \in SessionType /\ proc' = [proc EXCEPT ![p].pc = "session", ![p].session = Switched(t)]
  BY <1>2 DEF Choose, IdentityTypes
<1> QED BY <1>5, <1>6, <1>7

LEMMA BaseLeaveSteps == ASSUME BaseInv, NEW p \in Proc, LeaveSteps(p) PROVE BaseInv'
<1>1. PICK r : r = proc[p]
  OBVIOUS
<1>2. /\ r \in ProcType /\ PlaceOk(p, r) /\ IdentityLocal(p, r) /\ IdentityTypes /\ IdentityInv /\ OtherTypes
      /\ r.pc \in {"forget_key", "forget_cert", "forget_request", "forget_node", "forget_session"}
  BY <1>1, ProcFacts DEF LeaveSteps, At
<1>3. p = "operator" /\ r.op = "leave" /\ r.op # None /\ commands # 0
  BY <1>2, SomeThing DEF PlaceOk, IdentityLocal, Command, Duty, Proc
<1>4. /\ UNCHANGED <<scenario, runtime, running, commands, clock, torn>> /\ faults' \in 0..MaxFaults
      /\ proc[p].pc # "idle" /\ UNCHANGED <<keys, host>>
  BY <1>1, <1>2 DEF LeaveSteps, KeepRuntime, OtherTypes
<1>5. IdentityTypes' /\ IdentityInv' /\ keys <= keys'
  <2>1. key' \in {0, key} /\ cert' \in {None, cert} /\ join' \in {None, join} /\ node' \in {None, node} /\ session' \in {None, session}
    BY DEF LeaveSteps
  <2> QED BY <1>2, <1>4, <2>1 DEF IdentityTypes, IdentityInv
<1>6. Done(p) \/ \E c \in {"forget_cert", "forget_request", "forget_node", "forget_session"} : Goto(p, c)
  BY DEF LeaveSteps
<1>7. ASSUME NEW c \in {"forget_cert", "forget_request", "forget_node", "forget_session"}, Goto(p, c)
      PROVE  BaseInv'
  <2>1. PICK r2 \in ProcType : proc' = [proc EXCEPT ![p] = r2] /\ Moved(r2, r, c)
    BY <1>1, <1>7, ProcFacts, GotoMoves DEF Points
  <2>2. PlaceOk(p, r2) /\ IdentityLocal(p, r2)' /\ r2.pc \in IdentityPlaces
    BY <1>3, <1>4, <2>1 DEF PlaceOk, Moved, IdentityLocal, IdentityPlaces
  <2> QED BY <1>3, <1>4, <1>5, <2>1, <2>2, IdentityMoves
<1>8. CASE Done(p)
  BY <1>3, <1>4, <1>5, <1>8, IdentityDone
<1> QED BY <1>6, <1>7, <1>8

\* BaseInv is inductive.
LEMMA BaseInit == RootInit => BaseInv
<1> SUFFICES ASSUME RootInit
             PROVE  BaseInv
  OBVIOUS
<1>1. scenario \in ScenarioType /\ scenario.installed \in BOOLEAN /\ Builtin \in Version /\ MaxCommands \in Nat /\ MaxFaults \in Nat
      /\ 0 \in Generation /\ "builtin" # None
  BY RootAssumption, SomeThing DEF RootInit, ScenarioType, Generation
<1>2. RuntimeTypes /\ FilesInv
  <2>1. [version |-> Builtin, previous |-> None] \in RecordType
    BY <1>1 DEF RecordType
  <2>2. record \in {None} \cup RecordType /\ (record # None => record.version = Builtin /\ record.previous = None)
    BY <2>1 DEF RootInit
  <2>3. RuntimeTypes
    BY <1>1, <2>2 DEF RootInit, RuntimeTypes
  <2>4. FilesInv
    BY <1>1, <2>1, <2>2, SomeThing DEF RootInit, FilesInv, Absent
  <2> QED BY <2>3, <2>4
<1>3. IdentityTypes /\ IdentityInv
  BY <1>1, AbsentAssumption DEF RootInit, IdentityTypes, IdentityInv
<1>4. OtherTypes /\ ProcTypes
  BY <1>1, IdleType DEF RootInit, OtherTypes, ProcTypes
<1>5. LocalInv
  BY DEF RootInit, LocalInv, Idle, PlaceOk, RuntimeLocal, IdentityLocal
<1> QED BY <1>2, <1>3, <1>4, <1>5, TypeParts DEF BaseInv

LEMMA BaseNext == BaseInv /\ [RootNext]_rootVars => BaseInv'
<1> SUFFICES ASSUME BaseInv, [RootNext]_rootVars
             PROVE  BaseInv'
  OBVIOUS
<1>1. ASSUME NEW p \in Proc, RuntimeStep(p)
      PROVE  BaseInv'
  BY <1>1, BaseStage, BaseSetDrain, BaseReadPrior, BasePlace, BaseLink, BaseRecord, BaseUndrain, BaseRestart,
     BaseFinishInstall, BaseStopService, BaseUnlaunch, BasePurge, BasePackSteps DEF RuntimeStep
<1>2. ASSUME NEW p \in Proc, IdentityStep(p)
      PROVE  BaseInv'
  BY <1>2, BaseJoinSteps, BaseSubmit, BasePollOnce, BaseRenew, BaseVerify, BaseWriteCert, BaseReadSession,
     BaseWriteSession, BaseWriteNode, BaseDropRequest, BaseChoose, BaseLeaveSteps DEF IdentityStep
<1>3. CASE UNCHANGED rootVars
  <2>1. RuntimeTypes /\ FilesInv /\ IdentityTypes /\ IdentityInv /\ OtherTypes /\ ProcTypes /\ LocalInv
    BY TypeParts DEF BaseInv
  <2>2. RuntimeTypes' /\ FilesInv' /\ IdentityTypes' /\ IdentityInv' /\ OtherTypes' /\ ProcTypes'
    BY <1>3, <2>1 DEF rootVars, runtime, identity, clock, RuntimeTypes, FilesInv, IdentityTypes, IdentityInv, OtherTypes,
       ProcTypes, Absent
  <2>3. LocalInv'
    BY <1>3, <2>1 DEF rootVars, runtime, identity, clock, LocalInv, RuntimeLocal, IdentityLocal, Installed, Absent
  <2> QED BY <2>2, <2>3, TypeParts DEF BaseInv
<1> QED BY <1>1, <1>2, <1>3, BaseCommands, BaseDuties, BaseStays, BaseCrash DEF RootNext

-----------------------------------------------------------------------------
(* One operation at a time, and the version the status names.              *)

\* Without overlap one process is at work at most.
Alone == ~scenario.overlap => \A p, q \in Proc : proc[p].op # None /\ proc[q].op # None => p = q

\* Between the link and the record an update names the version it linked, and
\* the record follows the link otherwise, unless an operation was cut short.
Recording == \E p \in Proc : proc[p].pc = "record"
StatusInv ==
  ~scenario.overlap /\ ~torn =>
    /\ \A p \in Proc : proc[p].pc = "record" => proc[p].version = link
    /\ ~Recording /\ record # None => record.version = link

WholeInv == BaseInv /\ Alone /\ StatusInv

\* A step that nobody begins an operation with.
Settles == \A q \in Proc : proc'[q].op \in {None, proc[q].op}

\* A step that neither touches the link and the record nor takes a process to or
\* from the place between them.
Apart ==
  /\ UNCHANGED <<scenario, link, record>> /\ (torn => torn')
  /\ \A q \in Proc : proc[q].pc = "record" \/ proc'[q].pc = "record" => proc'[q] = proc[q]

LEMMA ApartKeeps == ASSUME StatusInv, Apart PROVE StatusInv'
BY DEF StatusInv, Apart, Recording

LEMMA SettlesKeeps == ASSUME Alone, Settles, scenario' = scenario PROVE Alone'
BY DEF Alone, Settles

LEMMA MoveSettles ==
  ASSUME ProcTypes, NEW p \in Proc, NEW r2, proc' = [proc EXCEPT ![p] = r2]
  PROVE  /\ r2.op \in {None, proc[p].op} => Settles
         /\ proc[p].pc # "record" /\ r2.pc # "record" =>
              \A q \in Proc : proc[q].pc = "record" \/ proc'[q].pc = "record" => proc'[q] = proc[q]
BY DEF ProcTypes, Settles

LEMMA GotoSettles ==
  ASSUME ProcTypes, NEW p \in Proc, NEW c, Goto(p, c)
  PROVE  /\ Settles
         /\ proc[p].pc # "record" /\ c # "record" =>
              \A q \in Proc : proc[q].pc = "record" \/ proc'[q].pc = "record" => proc'[q] = proc[q]
<1>1. PICK r2 : r2 = [proc[p] EXCEPT !.pc = c]
  OBVIOUS
<1>2. r2.op = proc[p].op /\ r2.pc = c
  BY <1>1 DEF ProcTypes, ProcType
<1>3. proc' = [proc EXCEPT ![p] = r2]
  BY <1>1 DEF Goto
<1> QED BY <1>2, <1>3, MoveSettles

LEMMA DoneSettles ==
  ASSUME ProcTypes, NEW p \in Proc, Done(p)
  PROVE  /\ Settles
         /\ proc[p].pc # "record" =>
              \A q \in Proc : proc[q].pc = "record" \/ proc'[q].pc = "record" => proc'[q] = proc[q]
BY IdleType, MoveSettles DEF Done

\* The steps on the identity.
LEMMA IdentityApart ==
  ASSUME BaseInv, NEW p \in Proc, IdentityStep(p)
  PROVE  Settles /\ Apart
<1> DEFINE Keeps == \A q \in Proc : proc[q].pc = "record" \/ proc'[q].pc = "record" => proc'[q] = proc[q]
<1>1. ProcTypes /\ proc[p] \in ProcType
  BY ProcFacts
<1>2. proc[p].pc # "record"
  BY DEF IdentityStep, JoinSteps, Submit, PollOnce, Renew, Verify, WriteCert, ReadSession, WriteSession, WriteNode, DropRequest,
         Choose, LeaveSteps, At
<1>3. UNCHANGED <<scenario, link, record>> /\ (torn => torn')
  BY DEF IdentityStep, JoinSteps, Submit, PollOnce, Renew, Verify, WriteCert, ReadSession, WriteSession, WriteNode, DropRequest,
         Choose, LeaveSteps, KeepRuntime, runtime
<1>4. ASSUME NEW c \in {"request", "new_session", "new_node", "submit", "poll", "read_session", "node", "requested", "forget_cert",
                        "forget_request", "forget_node", "forget_session"}, Goto(p, c)
      PROVE  Settles /\ Keeps
  BY <1>1, <1>2, <1>4, GotoSettles
<1>5. ASSUME Done(p) PROVE Settles /\ Keeps
  BY <1>1, <1>2, <1>5, DoneSettles
<1>6. ASSUME NEW g, proc' = [proc EXCEPT ![p].pc = "verify", ![p].gen = g] PROVE Settles /\ Keeps
  <2>1. PICK r2 : r2 = [proc[p] EXCEPT !.pc = "verify", !.gen = g]
    OBVIOUS
  <2>2. r2.op = proc[p].op /\ r2.pc = "verify"
    BY <1>1, <2>1 DEF ProcType
  <2>3. proc' = [proc EXCEPT ![p] = r2]
    BY <1>6, <2>1
  <2> QED BY <1>1, <1>2, <2>2, <2>3, MoveSettles
<1>7. ASSUME NEW n, proc' = [proc EXCEPT ![p].pc = "cert", ![p].node = n] PROVE Settles /\ Keeps
  <2>1. PICK r2 : r2 = [proc[p] EXCEPT !.pc = "cert", !.node = n]
    OBVIOUS
  <2>2. r2.op = proc[p].op /\ r2.pc = "cert"
    BY <1>1, <2>1 DEF ProcType
  <2>3. proc' = [proc EXCEPT ![p] = r2]
    BY <1>7, <2>1
  <2> QED BY <1>1, <1>2, <2>2, <2>3, MoveSettles
<1>8. ASSUME NEW s, proc' = [proc EXCEPT ![p].pc = "session", ![p].session = s] PROVE Settles /\ Keeps
  <2>1. PICK r2 : r2 = [proc[p] EXCEPT !.pc = "session", !.session = s]
    OBVIOUS
  <2>2. r2.op = proc[p].op /\ r2.pc = "session"
    BY <1>1, <2>1 DEF ProcType
  <2>3. proc' = [proc EXCEPT ![p] = r2]
    BY <1>8, <2>1
  <2> QED BY <1>1, <1>2, <2>2, <2>3, MoveSettles
<1>9. \/ Done(p)
      \/ \E c \in {"request", "new_session", "new_node", "submit", "poll", "read_session", "node", "requested", "forget_cert",
                   "forget_request", "forget_node", "forget_session"} : Goto(p, c)
      \/ \E g : proc' = [proc EXCEPT ![p].pc = "verify", ![p].gen = g]
      \/ \E n : proc' = [proc EXCEPT ![p].pc = "cert", ![p].node = n]
      \/ \E s : proc' = [proc EXCEPT ![p].pc = "session", ![p].session = s]
  <2>1. CASE JoinSteps(p) \/ LeaveSteps(p) \/ Submit(p) \/ WriteCert(p) \/ WriteSession(p) \/ WriteNode(p) \/ DropRequest(p)
    BY <2>1 DEF JoinSteps, LeaveSteps, Submit, WriteCert, WriteSession, WriteNode, DropRequest
  <2>2. CASE PollOnce(p)
    BY <2>2 DEF PollOnce
  <2>3. CASE Renew(p)
    BY <2>3 DEF Renew
  <2>4. CASE Verify(p)
    BY <2>4 DEF Verify
  <2>5. CASE ReadSession(p)
    BY <2>5 DEF ReadSession
  <2>6. CASE Choose(p)
    BY <2>6 DEF Choose
  <2> QED BY <2>1, <2>2, <2>3, <2>4, <2>5, <2>6 DEF IdentityStep
<1> QED BY <1>3, <1>4, <1>5, <1>6, <1>7, <1>8, <1>9 DEF Apart

\* The steps on the runtime that leave the link and the record alone.
LEMMA RuntimeApart ==
  ASSUME BaseInv, NEW p \in Proc,
         Stage(p) \/ SetDrain(p) \/ ReadPrior(p) \/ Place(p) \/ Undrain(p) \/ FinishInstall(p) \/ Unlaunch(p) \/ PackSteps(p)
  PROVE  Settles /\ Apart
<1> DEFINE Keeps == \A q \in Proc : proc[q].pc = "record" \/ proc'[q].pc = "record" => proc'[q] = proc[q]
<1>1. ProcTypes /\ proc[p] \in ProcType
  BY ProcFacts
<1>2. proc[p].pc # "record"
  BY DEF Stage, SetDrain, ReadPrior, Place, Undrain, FinishInstall, Unlaunch, PackSteps, At
<1>3. UNCHANGED <<scenario, link, record>> /\ (torn => torn')
  BY DEF Stage, SetDrain, ReadPrior, Place, Undrain, FinishInstall, Unlaunch, PackSteps, KeepRest, runtime
<1>4. ASSUME NEW c \in Points \ {"record"}, Goto(p, c)
      PROVE  Settles /\ Keeps
  BY <1>1, <1>2, <1>4, GotoSettles
<1>5. ASSUME Done(p) PROVE Settles /\ Keeps
  BY <1>1, <1>2, <1>5, DoneSettles
<1>6. ASSUME NEW v, proc' = [proc EXCEPT ![p].pc = "place", ![p].prior = v] PROVE Settles /\ Keeps
  <2>1. PICK r2 : r2 = [proc[p] EXCEPT !.pc = "place", !.prior = v]
    OBVIOUS
  <2>2. r2.op = proc[p].op /\ r2.pc = "place"
    BY <1>1, <2>1 DEF ProcType
  <2>3. proc' = [proc EXCEPT ![p] = r2]
    BY <1>6, <2>1
  <2> QED BY <1>1, <1>2, <2>2, <2>3, MoveSettles
<1>7. \/ Done(p)
      \/ \E c \in Points \ {"record"} : Goto(p, c)
      \/ \E v : proc' = [proc EXCEPT ![p].pc = "place", ![p].prior = v]
  <2>1. CASE Stage(p) \/ SetDrain(p) \/ Place(p) \/ Undrain(p) \/ Unlaunch(p)
    BY <2>1 DEF Stage, SetDrain, Place, Undrain, Unlaunch, Points
  <2>2. CASE FinishInstall(p) \/ PackSteps(p)
    BY <2>2 DEF FinishInstall, PackSteps, Points
  <2>3. CASE ReadPrior(p)
    BY <2>3 DEF ReadPrior
  <2> QED BY <2>1, <2>2, <2>3
<1> QED BY <1>3, <1>4, <1>5, <1>6, <1>7 DEF Apart

\* Whoever is at work is the only one.
LEMMA OthersIdle ==
  ASSUME BaseInv, Alone, ~scenario.overlap, NEW p \in Proc, proc[p].op # None, NEW q \in Proc, q # p
  PROVE  proc[q] = Idle /\ proc[q].pc = "idle"
BY IdleType, ProcFacts DEF Alone, PlaceOk

LEMMA AtWork ==
  ASSUME BaseInv, NEW p \in Proc, proc[p].pc # "idle"
  PROVE  proc[p].op # None
BY IdleType, ProcFacts DEF PlaceOk

LEMMA StatusLink ==
  ASSUME WholeInv, NEW p \in Proc, Link(p)
  PROVE  Settles /\ scenario' = scenario /\ StatusInv'
<1>1. BaseInv /\ Alone /\ ProcTypes /\ proc[p] \in ProcType /\ proc[p].pc = "link" /\ scenario' = scenario
  BY ProcFacts DEF WholeInv, Link, At, KeepRest
<1>2. PICK r2 : r2 = [proc[p] EXCEPT !.pc = "record"]
  OBVIOUS
<1>3. r2.op = proc[p].op /\ r2.pc = "record" /\ r2.version = proc[p].version
  BY <1>1, <1>2 DEF ProcType
<1>4. proc' = [proc EXCEPT ![p] = r2]
  BY <1>2 DEF Link, Goto
<1>5. proc'[p] = r2 /\ \A q \in Proc : q # p => proc'[q] = proc[q]
  BY <1>1, <1>4 DEF ProcTypes
<1>6. Settles
  BY <1>1, <1>3, <1>4, MoveSettles
<1>7. ASSUME ~scenario.overlap
      PROVE  (\A q \in Proc : proc'[q].pc = "record" => proc'[q].version = link') /\ proc'[p].pc = "record"
  <2>1. ASSUME NEW q \in Proc, q # p
        PROVE  proc'[q].pc # "record"
    BY <1>1, <1>5, <1>7, <2>1, AtWork, OthersIdle
  <2>2. link' = r2.version
    BY <1>3 DEF Link
  <2> QED BY <1>3, <1>5, <2>1, <2>2
<1> QED BY <1>1, <1>6, <1>7 DEF StatusInv, Recording

LEMMA StatusRecord ==
  ASSUME WholeInv, NEW p \in Proc, Record(p)
  PROVE  Settles /\ scenario' = scenario /\ StatusInv'
<1>1. /\ BaseInv /\ Alone /\ StatusInv /\ ProcTypes /\ proc[p] \in ProcType /\ proc[p].pc = "record"
      /\ scenario' = scenario /\ torn' = torn /\ link' = link
  BY ProcFacts DEF WholeInv, Record, At, KeepRest
<1>2. PICK c \in {"launcher", "undrain"} : Goto(p, c)
  BY DEF Record
<1>3. PICK r2 : r2 = [proc[p] EXCEPT !.pc = c]
  OBVIOUS
<1>4. r2.op = proc[p].op /\ r2.pc = c
  BY <1>1, <1>3 DEF ProcType
<1>5. proc' = [proc EXCEPT ![p] = r2]
  BY <1>2, <1>3 DEF Goto
<1>6. proc'[p] = r2 /\ \A q \in Proc : q # p => proc'[q] = proc[q]
  BY <1>1, <1>5 DEF ProcTypes
<1>7. Settles
  BY <1>1, <1>4, <1>5, MoveSettles
<1>8. ASSUME ~scenario.overlap, ~torn
      PROVE  (\A q \in Proc : proc'[q].pc # "record") /\ record'.version = link'
  <2>1. ASSUME NEW q \in Proc, q # p
        PROVE  proc'[q].pc # "record"
    BY <1>1, <1>6, <1>8, <2>1, AtWork, OthersIdle
  <2>2. record'.version = proc[p].version
    BY DEF Record, Recorded
  <2>3. proc[p].version = link
    BY <1>1, <1>8 DEF StatusInv
  <2> QED BY <1>1, <1>2, <1>4, <1>6, <2>1, <2>2, <2>3
<1> QED BY <1>1, <1>7, <1>8 DEF StatusInv, Recording

\* What stops the service cuts its update short.
LEMMA StatusStops ==
  ASSUME WholeInv, NEW p \in Proc, Restart(p) \/ StopService(p) \/ Purge(p) \/ Crash(p)
  PROVE  Settles /\ scenario' = scenario /\ StatusInv'
<1>1. /\ BaseInv /\ Alone /\ StatusInv /\ ProcTypes /\ proc[p] \in ProcType /\ scenario' = scenario /\ Idle.op = None /\ Idle.pc = "idle"
  BY ProcFacts, IdleType DEF WholeInv, Restart, StopService, Purge, Crash
<1>2. \A q \in Proc : proc[q].pc = "record" => proc[q].op \in {"install", "update", "rollback"} /\ (q = "service" => proc[q].op = "update")
  <2>1. \A q \in Proc : PlaceOk(q, proc[q])
    BY <1>1, ProcFacts
  <2> QED BY <2>1, SomeThing DEF PlaceOk, Duty, Command
<1>3. ASSUME NEW r2, r2.op \in {None, proc[p].op}, r2.pc # "record", proc[p].pc # "record",
             proc'[p] = r2, \A q \in Proc : q # p => proc'[q] = (IF q = "service" THEN Idle ELSE proc[q]),
             torn' = Interrupts, link' = link, record' = record
      PROVE  Settles /\ StatusInv'
  <2>1. proc'[p] = r2 /\ \A q \in Proc : q # p => proc'[q] = (IF q = "service" THEN Idle ELSE proc[q])
    BY <1>3
  <2>2. Settles
    BY <1>1, <1>3, <2>1 DEF Settles
  <2>3. ~torn' => ~torn /\ proc["service"].pc # "record"
    BY <1>2, <1>3 DEF Interrupts, Proc
  <2>4. ~torn' => \A q \in Proc : proc[q].pc = "record" \/ proc'[q].pc = "record" => proc'[q] = proc[q]
    BY <1>1, <1>3, <2>1, <2>3
  <2> QED BY <1>1, <1>3, <2>2, <2>3, <2>4 DEF StatusInv, Recording
<1>4. CASE Restart(p)
  <2>1. CASE manifest
    <3>1. proc' = Stopped(p)
      BY <1>4, <2>1 DEF Restart
    <3>2. torn' = Interrupts /\ link' = link /\ record' = record /\ proc[p].pc # "record"
      BY <1>4, <2>1 DEF Restart, At, runtime
    <3>3. PICK r2 : r2 = Idle
      OBVIOUS
    <3>4. r2.op \in {None, proc[p].op} /\ r2.pc # "record"
      BY <1>1, <3>3
    <3>5. proc'[p] = r2 /\ \A q \in Proc : q # p => proc'[q] = (IF q = "service" THEN Idle ELSE proc[q])
      BY <1>1, <3>1, <3>3 DEF Stopped, ProcTypes, Proc
    <3> QED BY <1>1, <1>3, <3>2, <3>4, <3>5
  <2>2. CASE ~manifest
    <3>1. Done(p) /\ proc[p].pc = "restart" /\ UNCHANGED <<link, record, torn>>
      BY <1>4, <2>2 DEF Restart, At, runtime
    <3>2. Settles /\ Apart
      BY <1>1, <3>1, DoneSettles DEF Apart
    <3> QED BY <1>1, <3>2, ApartKeeps
  <2> QED BY <2>1, <2>2
<1>5. CASE StopService(p)
  <2>1. PICK r2 : r2 = [proc[p] EXCEPT !.pc = "unlaunch"]
    OBVIOUS
  <2>2. r2.op = proc[p].op /\ r2.pc = "unlaunch"
    BY <1>1, <2>1 DEF ProcType
  <2>5. proc' = [Stopped(p) EXCEPT ![p] = r2]
    BY <1>5, <2>1 DEF StopService
  <2>6. proc'[p] = r2 /\ \A q \in Proc : q # p => proc'[q] = (IF q = "service" THEN Idle ELSE proc[q])
    BY <1>1, <2>5 DEF Stopped, ProcTypes, Proc
  <2>3. torn' = Interrupts /\ link' = link /\ record' = record /\ proc[p].pc = "stop"
    BY <1>5 DEF StopService, At
  <2>4. r2.op \in {None, proc[p].op} /\ r2.pc # "record" /\ proc[p].pc # "record"
    BY <2>2, <2>3
  <2> QED BY <1>1, <1>3, <2>3, <2>4, <2>6
<1>6. CASE Purge(p)
  <2>1. proc["service"] = Idle /\ p = "operator"
    BY <1>1, <1>6, EndAlone DEF Purge, At
  <2>2. \A q \in Proc : proc'[q] = Idle
    BY <1>1, <1>6, <2>1 DEF Purge, Done, ProcTypes, Proc
  <2> QED BY <1>1, <1>6, <2>2 DEF StatusInv, Settles, Purge
<1>7. CASE Crash(p)
  <2>1. Done(p) /\ UNCHANGED <<link, record>> /\ torn' = (torn \/ proc[p].op \in {"install", "update", "rollback"})
    BY <1>7 DEF Crash, runtime
  <2>2. Settles
    BY <1>1, <2>1, DoneSettles
  <2>3. CASE proc[p].pc = "record"
    <3>1. torn'
      BY <1>2, <2>1, <2>3
    <3> QED BY <1>1, <2>2, <3>1 DEF StatusInv
  <2>4. CASE proc[p].pc # "record"
    <3>1. Apart
      BY <1>1, <2>1, <2>4, DoneSettles DEF Apart
    <3> QED BY <1>1, <2>2, <3>1, ApartKeeps
  <2> QED BY <2>3, <2>4
<1> QED BY <1>1, <1>4, <1>5, <1>6, <1>7

\* An operation begins, or none moves.
LEMMA StatusStarts ==
  ASSUME WholeInv, NEW p \in Proc, NEW r2, proc' = [proc EXCEPT ![p] = r2], Free(p), r2.pc # "record",
         UNCHANGED <<scenario, link, record, torn>>
  PROVE  Alone' /\ StatusInv'
<1>1. BaseInv /\ Alone /\ StatusInv /\ ProcTypes /\ proc[p].op = None
  BY ProcFacts DEF WholeInv, Free
<1>2. proc[p].pc # "record"
  BY <1>1, AtWork
<1>3. proc'[p] = r2 /\ \A q \in Proc : q # p => proc'[q] = proc[q]
  BY <1>1 DEF ProcTypes
<1>4. Alone'
  <2>1. ~scenario.overlap => \A q \in Proc : q # p => proc[q].op = None
    BY DEF Free
  <2>2. ~scenario.overlap => \A q \in Proc : q # p => proc'[q].op = None
    BY <1>3, <2>1
  <2> QED BY <2>2 DEF Alone
<1>5. Apart
  BY <1>1, <1>2, MoveSettles DEF Apart
<1> QED BY <1>1, <1>4, <1>5, ApartKeeps

\* Each way to begin keeps that at most one process is at work.
LEMMA BeginsStatus ==
  ASSUME WholeInv, NEW op, NEW c \in StartPoints, NEW v, NEW x, NEW w, Begins(op, c, v, x, w)
  PROVE  Alone' /\ StatusInv'
<1>1. PICK i \in ProcType : i = Idle
  BY IdleType
<1>2. PICK r2 : r2 = [i EXCEPT !.op = op, !.pc = c, !.version = v, !.content = x, !.prior = w]
  OBVIOUS
<1>3. r2.pc = c /\ c # "record"
  BY <1>1, <1>2 DEF ProcType, StartPoints
<1>4. proc' = [proc EXCEPT !["operator"] = r2]
  BY <1>1, <1>2 DEF Begins
<1> QED BY <1>3, <1>4, StatusStarts DEF Begins, runtime, Proc

LEMMA WorksStatus ==
  ASSUME WholeInv, NEW op, NEW c \in StartPoints, Works(op, c)
  PROVE  Alone' /\ StatusInv'
<1>1. PICK i \in ProcType : i = Idle
  BY IdleType
<1>2. PICK r2 : r2 = [i EXCEPT !.op = op, !.pc = c]
  OBVIOUS
<1>3. r2.pc = c /\ c # "record"
  BY <1>1, <1>2 DEF ProcType, StartPoints
<1>4. proc' = [proc EXCEPT !["service"] = r2]
  BY <1>1, <1>2 DEF Works
<1> QED BY <1>3, <1>4, StatusStarts DEF Works, runtime, Proc

LEMMA DirectiveStatus ==
  ASSUME WholeInv, NEW v, NEW c, TakeDirective(v, c)
  PROVE  Alone' /\ StatusInv'
<1>1. PICK i \in ProcType : i = Idle
  BY IdleType
<1>2. PICK r2 : r2 = [i EXCEPT !.op = "update", !.pc = "drain", !.version = v, !.content = c]
  OBVIOUS
<1>3. r2.pc = "drain"
  BY <1>1, <1>2 DEF ProcType
<1>4. proc' = [proc EXCEPT !["service"] = r2]
  BY <1>1, <1>2 DEF TakeDirective
<1> QED BY <1>3, <1>4, StatusStarts DEF TakeDirective, runtime, Proc

LEMMA StatusNext == WholeInv /\ [RootNext]_rootVars => Alone' /\ StatusInv'
<1> SUFFICES ASSUME WholeInv, [RootNext]_rootVars
             PROVE  Alone' /\ StatusInv'
  OBVIOUS
<1>1. BaseInv /\ Alone /\ StatusInv
  BY DEF WholeInv
<1>2. ASSUME NEW p \in Proc, RuntimeStep(p)
      PROVE  Alone' /\ StatusInv'
  <2>1. CASE Link(p)
    BY <1>1, <2>1, StatusLink, SettlesKeeps
  <2>2. CASE Record(p)
    BY <1>1, <2>2, StatusRecord, SettlesKeeps
  <2>3. CASE Restart(p) \/ StopService(p) \/ Purge(p)
    BY <1>1, <2>3, StatusStops, SettlesKeeps
  <2>4. CASE Stage(p) \/ SetDrain(p) \/ ReadPrior(p) \/ Place(p) \/ Undrain(p) \/ FinishInstall(p) \/ Unlaunch(p) \/ PackSteps(p)
    BY <1>1, <2>4, RuntimeApart, ApartKeeps, SettlesKeeps DEF Apart
  <2> QED BY <1>2, <2>1, <2>2, <2>3, <2>4 DEF RuntimeStep
<1>3. ASSUME NEW p \in Proc, IdentityStep(p)
      PROVE  Alone' /\ StatusInv'
  BY <1>1, <1>3, IdentityApart, ApartKeeps, SettlesKeeps DEF Apart
<1>4. ASSUME NEW p \in Proc, Crash(p)
      PROVE  Alone' /\ StatusInv'
  BY <1>1, <1>4, StatusStops, SettlesKeeps
<1>5. CASE BeginInstall \/ BeginRollback \/ BeginUninstall \/ BeginUnpack \/ BeginJoin \/ BeginLeave
           \/ \E v \in Version, c \in Content : BeginUpdate(v, c) \/ BeginPack(v, c)
  <2>1. PICK op, v, x, w : \E c \in StartPoints : Begins(op, c, v, x, w)
    BY <1>5 DEF BeginInstall, BeginRollback, BeginUninstall, BeginUnpack, BeginJoin, BeginLeave, BeginUpdate, BeginPack, StartPoints
  <2> QED BY <2>1, BeginsStatus
<1>6. CASE BeginPoll \/ BeginRenew \/ BeginSwitch
  <2>1. PICK op : \E c \in StartPoints : Works(op, c)
    BY <1>6 DEF BeginPoll, BeginRenew, BeginSwitch, StartPoints
  <2> QED BY <2>1, WorksStatus
<1>7. CASE \E v \in Version, c \in Content : TakeDirective(v, c)
  BY <1>7, DirectiveStatus
<1>8. CASE ServiceStarts \/ OperatorDrains \/ Approve \/ Ages \/ UNCHANGED rootVars
  <2>1. UNCHANGED <<scenario, link, record, torn, proc>>
    BY <1>8 DEF ServiceStarts, OperatorDrains, Approve, Ages, rootVars, runtime
  <2> QED BY <1>1, <2>1 DEF Alone, StatusInv, Recording
<1> QED BY <1>2, <1>3, <1>4, <1>5, <1>6, <1>7, <1>8 DEF RootNext

\* The files lead to what is installed, and the status names what is active.
LEMMA SoundWhole == WholeInv => RuntimeSound
<1> SUFFICES ASSUME WholeInv
             PROVE  RuntimeSound
  OBVIOUS
<1>1. BaseInv /\ Alone /\ StatusInv /\ FilesInv
  BY DEF WholeInv, BaseInv
<1>2. RuntimeInstalled
  BY <1>1 DEF FilesInv, RuntimeInstalled, Absent
<1>3. StatusFollows
  <2>1. AtRest => ~Recording
    <3>1. \A p \in Proc : proc[p].op = None => proc[p].pc # "record"
      BY <1>1, AtWork
    <3> QED BY <3>1 DEF AtRest, Recording
  <2> QED BY <1>1, <2>1 DEF StatusFollows, StatusVersion, StatusInv, FilesInv
<1> QED BY <1>1, <1>2, <1>3 DEF RuntimeSound, BaseInv

\* Whatever instant the operator's command or the service dies, and whatever
\* updates, rollbacks and removals overlap, the launcher and the record lead to
\* versions that are installed, and the status names the active one unless an
\* operation was cut short: _activate_runtime writes the link and the record
\* after the version is in place, and only a purge removes one, the link and the
\* record with it.
THEOREM RuntimeCorrect == RootSpec => []RuntimeSound
<1>1. RootInit => WholeInv
  <2>1. RootInit => Alone /\ StatusInv
    BY IdleType DEF RootInit, Alone, StatusInv, Recording
  <2> QED BY <2>1, BaseInit DEF WholeInv
<1>2. WholeInv /\ [RootNext]_rootVars => WholeInv'
  BY BaseNext, StatusNext DEF WholeInv
<1> QED BY <1>1, <1>2, SoundWhole, PTL DEF RootSpec

-----------------------------------------------------------------------------
(* A session that counts as ready.                                         *)

Leaving == proc["operator"].op = "leave"

\* The certificate is for the key that is there, and a ready session has one.
Matched ==
  /\ cert # None => key # 0 /\ cert.key = key
  /\ session # None /\ session.ready => cert # None

\* A relay session has its material.
Carried == session # None /\ session.ready => (session.transport = "relay" => session.material)

\* What an activation and a leave under way have made of the files so far.
UsableLocal(r) ==
  /\ r.pc \in {"cert", "read_session", "node"} \/ (r.pc = "session" /\ r.op # "switch") => r.node.key = key /\ key # 0
  /\ r.pc = "session" => r.session # None /\ (r.session.transport = "relay" => r.session.material)
  /\ r.pc \in {"read_session", "session"} => cert # None
  /\ r.pc \in {"forget_request", "forget_node", "forget_session"} => cert = None

UsableInv == ~scenario.overlap => Carried /\ (~Leaving => Matched) /\ \A p \in Proc : UsableLocal(proc[p])
LeaveInv == Leaving => "leave" \in scenario.commands
SessionInv == WholeInv /\ UsableInv /\ LeaveInv

\* leave_worker runs to its end: cut short after the key it leaves a session
\* that counts as ready and has none, until leave is run again.
LeaveRunsToItsEnd == \A s \in Scenarios : ~s.overlap /\ "leave" \in s.commands => "operator" \notin s.mortal

UsablePlaces == {"cert", "read_session", "session", "node", "forget_request", "forget_node", "forget_session"}

LEMMA UsableQuiet ==
  ASSUME UsableInv, UNCHANGED <<scenario, key, cert, session>>, Leaving => Leaving',
         \A q \in Proc : proc'[q] = proc[q] \/ proc'[q].pc \notin UsablePlaces
  PROVE  UsableInv'
<1> SUFFICES ASSUME ~scenario.overlap
             PROVE  Carried' /\ (~Leaving' => Matched') /\ \A p \in Proc : UsableLocal(proc[p])'
  BY DEF UsableInv
<1>1. Carried /\ (~Leaving => Matched) /\ \A p \in Proc : UsableLocal(proc[p])
  BY DEF UsableInv
<1>2. Carried' /\ (~Leaving' => Matched')
  BY <1>1 DEF Carried, Matched
<1>3. ASSUME NEW p \in Proc
      PROVE  UsableLocal(proc[p])'
  <2>1. PICK r : r = proc'[p]
    OBVIOUS
  <2>2. UsableLocal(r)'
    <3>1. CASE r = proc[p]
      <4>1. UsableLocal(r)
        BY <1>1, <3>1
      <4> QED BY <4>1 DEF UsableLocal
    <3>2. CASE r.pc \notin UsablePlaces
      BY <3>2 DEF UsableLocal, UsablePlaces
    <3> QED BY <1>3, <2>1, <3>1, <3>2
  <2> QED BY <2>1, <2>2
<1> QED BY <1>2, <1>3

LEMMA UsableMoves ==
  ASSUME BaseInv, Alone, ~scenario.overlap, NEW p \in Proc, proc[p].op # None, NEW r2, proc' = [proc EXCEPT ![p] = r2],
         Carried', ~Leaving' => Matched', UsableLocal(r2)'
  PROVE  UsableInv'
<1>1. ASSUME NEW q \in Proc
      PROVE  UsableLocal(proc[q])'
  <2>1. PICK r : r = proc'[q]
    OBVIOUS
  <2>2. CASE q = p
    <3>1. r = r2
      BY <2>1, <2>2, ProcFacts DEF ProcTypes
    <3> QED BY <2>1, <3>1
  <2>3. CASE q # p
    <3>1. r.pc = "idle"
      BY <2>1, <2>3, ProcFacts, OthersIdle DEF ProcTypes
    <3>2. UsableLocal(r)'
      BY <3>1 DEF UsableLocal
    <3> QED BY <2>1, <3>2
  <2> QED BY <2>2, <2>3
<1> QED BY <1>1 DEF UsableInv

\* Who is at work on anything but a leave works alone.
LEMMA NotLeaving ==
  ASSUME BaseInv, Alone, ~scenario.overlap, UsableInv, NEW p \in Proc, proc[p].op \notin {None, "leave"}
  PROVE  ~Leaving /\ Matched /\ Carried /\ UsableLocal(proc[p])
<1>1. "leave" # None /\ "operator" \in Proc
  BY SomeThing DEF Command, Proc
<1>2. ~Leaving
  BY <1>1, OthersIdle, IdleType DEF Leaving
<1> QED BY <1>2 DEF UsableInv

LEMMA UsableDone ==
  ASSUME BaseInv, Alone, ~scenario.overlap, NEW p \in Proc, proc[p].op # None, Done(p), Carried', Matched'
  PROVE  UsableInv'
<1>1. UsableLocal(Idle)'
  BY DEF UsableLocal, Idle
<1> QED BY <1>1, UsableMoves DEF Done

LEMMA UsableGoto ==
  ASSUME BaseInv, Alone, ~scenario.overlap, NEW p \in Proc, proc[p].op # None, NEW c \in Points, Goto(p, c),
         Carried', ~Leaving' => Matched',
         \A r \in ProcType : Moved(r, proc[p], c) => UsableLocal(r)'
  PROVE  UsableInv'
BY GotoMoves, UsableMoves, ProcFacts

\* A step that writes neither key, certificate nor session.
LEMMA UsableKeeps ==
  ASSUME BaseInv, Alone, ~scenario.overlap, UsableInv, NEW p \in Proc, proc[p].op \notin {None, "leave"},
         UNCHANGED <<key, cert, session>>, NEW r2, proc' = [proc EXCEPT ![p] = r2], UsableLocal(r2)'
  PROVE  UsableInv'
<1>1. Matched' /\ Carried'
  BY NotLeaving DEF Matched, Carried
<1> QED BY <1>1, UsableMoves

LEMMA UsableEnds ==
  ASSUME BaseInv, Alone, ~scenario.overlap, UsableInv, NEW p \in Proc, proc[p].op \notin {None, "leave"},
         UNCHANGED <<key, cert, session>>, Done(p)
  PROVE  UsableInv'
<1>1. UsableLocal(Idle)'
  BY DEF UsableLocal, Idle
<1> QED BY <1>1, UsableKeeps DEF Done

LEMMA Working ==
  ASSUME BaseInv, NEW p \in Proc,
         proc[p].pc \in {"key", "request", "new_session", "new_node", "submit", "poll", "renew", "verify", "cert",
                         "read_session", "session", "node", "requested", "fallback", "choose"}
  PROVE  proc[p].op \notin {None, "leave"}
BY ProcFacts, SomeThing DEF PlaceOk, Command, Duty

\* One lemma for each step on the identity, which keeps UsableInv.
LEMMA UsableJoinSteps ==
  ASSUME BaseInv, Alone, ~scenario.overlap, UsableInv, NEW p \in Proc, JoinSteps(p)
  PROVE  UsableInv'
<1>1. PICK r : r = proc[p]
  OBVIOUS
<1>2. r.pc \in {"key", "request", "new_session", "new_node"} /\ r.op \notin {None, "leave"} /\ IdentityTypes
  BY <1>1, Working, ProcFacts DEF JoinSteps, At
<1>3. Matched /\ Carried
  BY <1>1, <1>2, NotLeaving
<1>4. PICK c \in {"request", "new_session", "new_node", "submit"} : Goto(p, c)
  BY DEF JoinSteps
<1>5. PICK r2 \in ProcType : proc' = [proc EXCEPT ![p] = r2] /\ Moved(r2, r, c)
  BY <1>1, <1>4, ProcFacts, GotoMoves DEF Points
<1>6. UsableLocal(r2)'
  BY <1>4, <1>5 DEF UsableLocal, Moved
<1>7. Matched' /\ Carried'
  <2>1. CASE UNCHANGED <<key, cert, session>>
    BY <1>3, <2>1 DEF Matched, Carried
  <2>2. CASE UNCHANGED <<cert, session>> /\ key' = (IF key = 0 THEN keys + 1 ELSE key)
    BY <1>2, <1>3, <2>2 DEF Matched, Carried, IdentityTypes
  <2>3. CASE UNCHANGED <<key, cert>> /\ session'.ready = FALSE
    BY <1>3, <2>3 DEF Matched, Carried
  <2>4. ASSUME NEW t \in Transport,
               session' = [ready |-> FALSE, transport |-> t, material |-> FALSE, fallback |-> FALSE, enrollment |-> commands]
        PROVE  session'.ready = FALSE
    BY <2>4
  <2> QED BY <2>1, <2>2, <2>3, <2>4 DEF JoinSteps
<1> QED BY <1>1, <1>2, <1>5, <1>6, <1>7, UsableMoves

LEMMA UsableVerify ==
  ASSUME BaseInv, Alone, ~scenario.overlap, UsableInv, NEW p \in Proc, Verify(p)
  PROVE  UsableInv'
<1>1. PICK r \in ProcType : r = proc[p]
  BY ProcFacts
<1>2. r.pc = "verify" /\ r.op \notin {None, "leave"} /\ IdentityTypes /\ IdentityInv /\ IdentityLocal(p, r) /\ UNCHANGED <<key, cert, session>>
  BY <1>1, Working, ProcFacts DEF Verify, At, identity
<1>3. CASE node # None /\ node.key = host.key /\ key = host.key /\ proc' = [proc EXCEPT ![p].pc = "cert", ![p].node = node]
  <2>1. PICK r2 : r2 = [r EXCEPT !.pc = "cert", !.node = node]
    OBVIOUS
  <2>2. r2.pc = "cert" /\ r2.node = node
    BY <2>1 DEF ProcType
  <2>3. key # 0 /\ node.key = key
    BY <1>2, <1>3 DEF IdentityLocal, IdentityInv
  <2>4. UsableLocal(r2)'
    BY <1>2, <2>2, <2>3 DEF UsableLocal
  <2>5. proc' = [proc EXCEPT ![p] = r2]
    BY <1>1, <1>3, <2>1
  <2> QED BY <1>1, <1>2, <2>4, <2>5, UsableKeeps
<1>4. CASE Done(p)
  BY <1>1, <1>2, <1>4, UsableEnds
<1> QED BY <1>3, <1>4 DEF Verify

LEMMA UsableWriteCert ==
  ASSUME BaseInv, Alone, ~scenario.overlap, UsableInv, NEW p \in Proc, WriteCert(p)
  PROVE  UsableInv'
<1>1. PICK r \in ProcType : r = proc[p]
  BY ProcFacts
<1>2. r.pc = "cert" /\ r.op \notin {None, "leave"} /\ IdentityLocal(p, r) /\ UNCHANGED <<key, session>>
  BY <1>1, Working, ProcFacts DEF WriteCert, At
<1>3. Matched /\ Carried /\ UsableLocal(r)
  BY <1>1, <1>2, NotLeaving
<1>4. PICK k, g : k = r.node.key /\ g = r.gen
  OBVIOUS
<1>5. cert' = [key |-> k, gen |-> g] /\ k = key /\ key # 0 /\ k \in Nat /\ g \in Generation \ {0}
  BY <1>1, <1>2, <1>3, <1>4 DEF WriteCert, UsableLocal, IdentityLocal, ProcType, NodeType
<1>6. cert' # None /\ cert'.key = key
  BY <1>5, SomeThing DEF CertType
<1>7. Matched' /\ Carried'
  BY <1>2, <1>3, <1>5, <1>6 DEF Matched, Carried
<1>8. PICK r2 \in ProcType : proc' = [proc EXCEPT ![p] = r2] /\ Moved(r2, r, "read_session")
  BY <1>1, ProcFacts, GotoMoves DEF Points, WriteCert
<1>9. UsableLocal(r2)'
  BY <1>2, <1>3, <1>6, <1>8 DEF UsableLocal, Moved
<1> QED BY <1>1, <1>2, <1>7, <1>8, <1>9, UsableMoves

LEMMA UsableReadSession ==
  ASSUME BaseInv, Alone, ~scenario.overlap, UsableInv, NEW p \in Proc, ReadSession(p)
  PROVE  UsableInv'
<1>1. PICK r \in ProcType : r = proc[p]
  BY ProcFacts
<1>2. /\ r.pc = "read_session" /\ r.op \notin {None, "leave"} /\ UNCHANGED <<key, cert, session>>
      /\ IdentityTypes /\ OtherTypes
  BY <1>1, Working, ProcFacts DEF ReadSession, At, identity
<1>3. UsableLocal(r)
  BY <1>1, <1>2, NotLeaving
<1>4. PICK s : s = IF session = None THEN NewSession ELSE session
  OBVIOUS
<1>5. s \in SessionType /\ s.transport \in Transport
  BY <1>2, <1>4, NewSessionType DEF IdentityTypes, SessionType
<1>6. ASSUME NEW t \in Transport, Supplied(t), proc' = [proc EXCEPT ![p].pc = "session", ![p].session = Activated(s, t)]
      PROVE  UsableInv'
  <2>1. PICK x : x = Activated(s, t)
    OBVIOUS
  <2>2. x \in SessionType /\ x # None /\ (x.transport = "relay" => x.material)
    BY <1>2, <1>5, <1>6, <2>1, SessionMade, SomeThing DEF Supplied
  <2>3. PICK r2 : r2 = [r EXCEPT !.pc = "session", !.session = x]
    OBVIOUS
  <2>4. r2.pc = "session" /\ r2.session = x /\ r2.node = r.node
    BY <2>3 DEF ProcType
  <2>5. UsableLocal(r2)'
    BY <1>2, <1>3, <2>2, <2>4 DEF UsableLocal
  <2>6. proc' = [proc EXCEPT ![p] = r2]
    BY <1>1, <1>6, <2>1, <2>3
  <2> QED BY <1>1, <1>2, <2>5, <2>6, UsableKeeps
<1>7. CASE Done(p)
  BY <1>1, <1>2, <1>7, UsableEnds
<1>8. Done(p) \/ \E t \in Transport : Supplied(t) /\ proc' = [proc EXCEPT ![p].pc = "session", ![p].session = Activated(s, t)]
  BY <1>4, <1>5 DEF ReadSession, Transport
<1> QED BY <1>6, <1>7, <1>8

LEMMA UsableWriteSession ==
  ASSUME BaseInv, Alone, ~scenario.overlap, UsableInv, NEW p \in Proc, WriteSession(p)
  PROVE  UsableInv'
<1>1. PICK r \in ProcType : r = proc[p]
  BY ProcFacts
<1>2. r.pc = "session" /\ r.op \notin {None, "leave"} /\ UNCHANGED <<key, cert>> /\ session' = r.session
  BY <1>1, Working, ProcFacts DEF WriteSession, At
<1>3. Matched /\ UsableLocal(r)
  BY <1>1, <1>2, NotLeaving
<1>4. Matched' /\ Carried'
  BY <1>2, <1>3 DEF Matched, Carried, UsableLocal
<1>5. CASE r.op # "switch" /\ Goto(p, "node")
  <2>1. PICK r2 \in ProcType : proc' = [proc EXCEPT ![p] = r2] /\ Moved(r2, r, "node")
    BY <1>1, <1>5, ProcFacts, GotoMoves DEF Points
  <2>2. UsableLocal(r2)'
    BY <1>2, <1>3, <1>5, <2>1 DEF UsableLocal, Moved
  <2> QED BY <1>1, <1>2, <1>4, <2>1, <2>2, UsableMoves
<1>6. CASE Done(p)
  BY <1>1, <1>2, <1>4, <1>6, UsableDone
<1> QED BY <1>1, <1>5, <1>6 DEF WriteSession

LEMMA UsableChoose ==
  ASSUME BaseInv, Alone, ~scenario.overlap, UsableInv, NEW p \in Proc, Choose(p)
  PROVE  UsableInv'
<1>1. PICK r \in ProcType : r = proc[p]
  BY ProcFacts
<1>2. /\ r.pc \in {"fallback", "choose"} /\ r.op \notin {None, "leave"} /\ r.op = "switch" /\ UNCHANGED <<key, cert, session>>
      /\ IdentityTypes
  BY <1>1, Working, ProcFacts DEF Choose, At, identity, PlaceOk
<1>3. Matched
  BY <1>1, <1>2, NotLeaving
<1>4. ASSUME session \in SessionType, session # None, session.ready, NEW t \in Transport,
             proc' = [proc EXCEPT ![p].pc = "session", ![p].session = Switched(t)]
      PROVE  UsableInv'
  <2>1. PICK x \in SessionType : x = Switched(t)
    BY <1>4, SwitchedType
  <2>2. x # None /\ (x.transport = "relay" => x.material) /\ cert # None
    BY <1>3, <1>4, <2>1, SwitchedType, SomeThing DEF Matched
  <2>3. PICK r2 : r2 = [r EXCEPT !.pc = "session", !.session = x]
    OBVIOUS
  <2>4. r2.pc = "session" /\ r2.session = x /\ r2.op = "switch"
    BY <1>2, <2>3 DEF ProcType
  <2>5. UsableLocal(r2)'
    BY <1>2, <2>2, <2>4 DEF UsableLocal
  <2>6. proc' = [proc EXCEPT ![p] = r2]
    BY <1>1, <1>4, <2>1, <2>3
  <2> QED BY <1>1, <1>2, <2>5, <2>6, UsableKeeps
<1>5. CASE Done(p)
  BY <1>1, <1>2, <1>5, UsableEnds
<1>6. Done(p) \/ \E t \in Transport : session \in SessionType /\ session # None /\ session.ready
                                      /\ proc' = [proc EXCEPT ![p].pc = "session", ![p].session = Switched(t)]
  BY <1>2 DEF Choose, IdentityTypes
<1> QED BY <1>4, <1>5, <1>6

LEMMA UsableOthers ==
  ASSUME BaseInv, Alone, ~scenario.overlap, UsableInv, NEW p \in Proc,
         Submit(p) \/ PollOnce(p) \/ Renew(p) \/ WriteNode(p) \/ DropRequest(p)
  PROVE  UsableInv'
<1>1. PICK r \in ProcType : r = proc[p]
  BY ProcFacts
<1>2. proc[p].op \notin {None, "leave"} /\ UNCHANGED <<key, cert, session>>
  BY Working DEF Submit, PollOnce, Renew, WriteNode, DropRequest, At, identity
<1>3. CASE Done(p)
  BY <1>2, <1>3, UsableEnds
<1>4. ASSUME NEW c \in {"poll", "requested"}, Goto(p, c)
      PROVE  UsableInv'
  <2>1. PICK r2 \in ProcType : proc' = [proc EXCEPT ![p] = r2] /\ Moved(r2, r, c)
    BY <1>1, <1>4, ProcFacts, GotoMoves DEF Points
  <2>2. UsableLocal(r2)'
    BY <2>1 DEF UsableLocal, Moved
  <2> QED BY <1>2, <2>1, <2>2, UsableKeeps
<1>5. ASSUME NEW g, proc' = [proc EXCEPT ![p].pc = "verify", ![p].gen = g]
      PROVE  UsableInv'
  <2>1. PICK r2 : r2 = [r EXCEPT !.pc = "verify", !.gen = g]
    OBVIOUS
  <2>2. r2.pc = "verify"
    BY <2>1 DEF ProcType
  <2>3. UsableLocal(r2)'
    BY <2>2 DEF UsableLocal
  <2>4. proc' = [proc EXCEPT ![p] = r2]
    BY <1>1, <1>5, <2>1
  <2> QED BY <1>2, <2>3, <2>4, UsableKeeps
<1>6. \/ Done(p)
      \/ \E c \in {"poll", "requested"} : Goto(p, c)
      \/ \E g : proc' = [proc EXCEPT ![p].pc = "verify", ![p].gen = g]
  <2>1. CASE Submit(p) \/ WriteNode(p) \/ DropRequest(p)
    BY <2>1 DEF Submit, WriteNode, DropRequest
  <2>2. CASE PollOnce(p) \/ Renew(p)
    BY <2>2 DEF PollOnce, Renew
  <2> QED BY <2>1, <2>2
<1> QED BY <1>3, <1>4, <1>5, <1>6

LEMMA UsableLeaveSteps ==
  ASSUME BaseInv, Alone, ~scenario.overlap, UsableInv, NEW p \in Proc, LeaveSteps(p)
  PROVE  UsableInv'
<1>1. PICK r \in ProcType : r = proc[p]
  BY ProcFacts
<1>2. /\ r.pc \in {"forget_key", "forget_cert", "forget_request", "forget_node", "forget_session"}
      /\ r.op = "leave" /\ r.op # None /\ p = "operator" /\ UsableLocal(r) /\ Carried
  <2>1. /\ r.pc \in {"forget_key", "forget_cert", "forget_request", "forget_node", "forget_session"} /\ PlaceOk(p, r)
    BY <1>1, ProcFacts DEF LeaveSteps, At
  <2> QED BY <1>1, <2>1, SomeThing DEF PlaceOk, Command, Duty, Proc, UsableInv
<1>3. Carried'
  <2>1. session' \in {session, None}
    BY DEF LeaveSteps
  <2> QED BY <1>2, <2>1 DEF Carried
<1>4. ASSUME NEW c \in {"forget_cert", "forget_request", "forget_node", "forget_session"}, Goto(p, c),
             c # "forget_cert" => cert' = None
      PROVE  UsableInv'
  <2>1. PICK r2 \in ProcType : proc' = [proc EXCEPT ![p] = r2] /\ Moved(r2, r, c)
    BY <1>1, <1>4, ProcFacts, GotoMoves DEF Points
  <2>2. UsableLocal(r2)'
    BY <1>4, <2>1 DEF UsableLocal, Moved
  <2>3. Leaving'
    BY <1>2, <2>1, ProcFacts DEF Leaving, Moved, ProcTypes
  <2> QED BY <1>1, <1>2, <1>3, <2>1, <2>2, <2>3, UsableMoves
<1>5. CASE Done(p) /\ session' = None /\ cert' = None
  <2>1. Matched'
    BY <1>5 DEF Matched
  <2> QED BY <1>1, <1>2, <1>3, <1>5, <2>1, UsableDone
<1>6. \/ Done(p) /\ session' = None /\ cert' = None
      \/ \E c \in {"forget_cert", "forget_request", "forget_node", "forget_session"} : Goto(p, c) /\ (c # "forget_cert" => cert' = None)
  BY <1>1, <1>2 DEF LeaveSteps, At, UsableLocal
<1> QED BY <1>4, <1>5, <1>6

LEMMA UsableIdentity ==
  ASSUME BaseInv, Alone, UsableInv, NEW p \in Proc, IdentityStep(p)
  PROVE  UsableInv'
<1>1. CASE ~scenario.overlap
  BY <1>1, UsableJoinSteps, UsableVerify, UsableWriteCert, UsableReadSession, UsableWriteSession, UsableChoose, UsableOthers,
     UsableLeaveSteps DEF IdentityStep
<1>2. CASE scenario.overlap
  BY <1>2, IdentityApart DEF UsableInv, Apart
<1> QED BY <1>1, <1>2

\* The runtime's steps and the death of a process.
LEMMA UsableRuntime ==
  ASSUME BaseInv, UsableInv, NEW p \in Proc, RuntimeStep(p)
  PROVE  UsableInv'
<1>1. ProcTypes /\ proc[p] \in ProcType /\ PlaceOk(p, proc[p]) /\ Idle.pc = "idle" /\ "idle" \notin UsablePlaces
  BY ProcFacts, IdleType DEF UsablePlaces
<1>2. CASE Purge(p)
  <2>1. proc["service"] = Idle /\ p = "operator"
    BY <1>2, EndAlone DEF Purge, At
  <2>2. \A q \in Proc : proc'[q] = Idle
    BY <1>1, <1>2, <2>1 DEF Purge, Done, ProcTypes, Proc
  <2>3. ASSUME NEW q \in Proc
        PROVE  UsableLocal(proc[q])'
    <3>1. PICK x : x = proc'[q] /\ x = Idle
      BY <2>2
    <3>2. UsableLocal(x)'
      BY <1>1, <3>1 DEF UsableLocal
    <3> QED BY <3>1, <3>2
  <2>4. Matched' /\ Carried'
    BY <1>2 DEF Purge, Matched, Carried
  <2> QED BY <2>3, <2>4 DEF UsableInv
<1>3. CASE ~Purge(p)
  <2>1. UNCHANGED <<scenario, key, cert, session>>
    BY <1>3 DEF RuntimeStep, Stage, SetDrain, ReadPrior, Place, Link, Record, Undrain, Restart, FinishInstall, StopService,
       Unlaunch, PackSteps, KeepRest, identity
  <2>2. p = "operator" => ~Leaving
    <3>1. proc[p].pc \in {"stage", "drain", "prior", "place", "link", "record", "undrain", "abort", "restart", "launcher", "unit",
                          "manifest", "stop", "unlaunch", "unpack", "point", "remove"}
      BY <1>3 DEF RuntimeStep, Stage, SetDrain, ReadPrior, Place, Link, Record, Undrain, Restart, FinishInstall, StopService,
         Unlaunch, PackSteps, At
    <3> QED BY <1>1, <3>1 DEF PlaceOk, Leaving
  <2>3. ASSUME NEW r2, r2.pc \notin UsablePlaces, proc' = [proc EXCEPT ![p] = r2]
        PROVE  UsableInv'
    <3>1. proc'[p] = r2 /\ \A q \in Proc : q # p => proc'[q] = proc[q]
      BY <1>1, <2>3 DEF ProcTypes
    <3>2. Leaving => Leaving'
      BY <2>2, <3>1 DEF Leaving, Proc
    <3> QED BY <2>1, <2>3, <3>1, <3>2, UsableQuiet
  <2>4. ASSUME NEW c \in Points \ UsablePlaces, Goto(p, c)
        PROVE  UsableInv'
    <3>1. PICK r2 \in ProcType : proc' = [proc EXCEPT ![p] = r2] /\ Moved(r2, proc[p], c)
      BY <1>1, <2>4, GotoMoves
    <3> QED BY <2>3, <2>4, <3>1 DEF Moved
  <2>5. CASE Done(p)
    <3>1. PICK r2 : r2 = Idle
      OBVIOUS
    <3> QED BY <1>1, <2>3, <2>5, <3>1 DEF Done
  <2>6. CASE ReadPrior(p)
    <3>1. PICK v : v = IF record = None THEN None ELSE record.version
      OBVIOUS
    <3>2. PICK r2 : r2 = [proc[p] EXCEPT !.pc = "place", !.prior = v]
      OBVIOUS
    <3>3. r2.pc \notin UsablePlaces
      BY <1>1, <3>2 DEF ProcType, UsablePlaces
    <3>4. proc' = [proc EXCEPT ![p] = r2]
      BY <2>6, <3>1, <3>2 DEF ReadPrior
    <3> QED BY <2>3, <3>3, <3>4
  <2>7. CASE Restart(p) \/ StopService(p)
    <3>1. \A q \in Proc : proc'[q] = proc[q] \/ proc'[q].pc \in {"idle", "unlaunch"}
      BY <1>1, <2>7 DEF Restart, StopService, Stopped, Done, ProcTypes, ProcType, Proc
    <3>2. Leaving => Leaving'
      BY <1>1, <2>2, <2>7 DEF Restart, StopService, Stopped, Done, ProcTypes, Proc, Leaving
    <3> QED BY <2>1, <3>1, <3>2, UsableQuiet DEF UsablePlaces
  <2>8. Done(p) \/ (\E c \in Points \ UsablePlaces : Goto(p, c)) \/ ReadPrior(p) \/ Restart(p) \/ StopService(p)
    <3>1. CASE Stage(p) \/ SetDrain(p) \/ Place(p) \/ Link(p) \/ Record(p) \/ Undrain(p) \/ Unlaunch(p)
      BY <3>1 DEF Stage, SetDrain, Place, Link, Record, Undrain, Unlaunch, Points, UsablePlaces
    <3>2. CASE FinishInstall(p) \/ PackSteps(p)
      BY <3>2 DEF FinishInstall, PackSteps, Points, UsablePlaces
    <3> QED BY <1>3, <3>1, <3>2 DEF RuntimeStep
  <2> QED BY <2>4, <2>5, <2>6, <2>7, <2>8
<1> QED BY <1>2, <1>3

LEMMA UsableCrash ==
  ASSUME BaseInv, UsableInv, LeaveInv, LeaveRunsToItsEnd, NEW p \in Proc, Crash(p)
  PROVE  UsableInv'
<1>1. ProcTypes /\ OtherTypes /\ Idle.pc = "idle" /\ UNCHANGED <<scenario, key, cert, session>>
  BY ProcFacts, IdleType DEF Crash, identity
<1>2. proc'[p] = Idle /\ \A q \in Proc : q # p => proc'[q] = proc[q]
  BY <1>1 DEF Crash, Done, ProcTypes
<1>3. CASE scenario.overlap
  BY <1>1, <1>3 DEF UsableInv
<1>4. CASE ~scenario.overlap
  <2>1. Leaving => p # "operator"
    BY <1>1, <1>4 DEF LeaveInv, LeaveRunsToItsEnd, Crash, OtherTypes
  <2>2. Leaving => Leaving'
    BY <1>2, <2>1 DEF Leaving, Proc
  <2> QED BY <1>1, <1>2, <2>2, UsableQuiet DEF UsablePlaces
<1> QED BY <1>3, <1>4

LEMMA UsableStarts ==
  ASSUME BaseInv, UsableInv, NEW p \in Proc, Free(p), NEW r2, r2.pc \in StartPoints, proc' = [proc EXCEPT ![p] = r2],
         UNCHANGED <<scenario, identity>>
  PROVE  UsableInv'
<1>1. proc'[p] = r2 /\ \A q \in Proc : q # p => proc'[q] = proc[q]
  BY ProcFacts DEF ProcTypes
<1>2. Leaving => Leaving'
  BY <1>1, SomeThing DEF Leaving, Free, Proc, Command
<1> QED BY <1>1, <1>2, UsableQuiet DEF UsablePlaces, StartPoints, identity

\* Only a command that the scenario has is given.
LEMMA LeaveKept ==
  ASSUME ProcTypes, LeaveInv, Settles, scenario' = scenario
  PROVE  LeaveInv'
BY SomeThing DEF ProcTypes, LeaveInv, Leaving, Settles, Proc, Command

LEMMA LeaveStays ==
  ASSUME LeaveInv, UNCHANGED scenario, proc'["operator"] = proc["operator"]
  PROVE  LeaveInv'
BY DEF LeaveInv, Leaving

LEMMA BeginsUsable ==
  ASSUME SessionInv, NEW op, NEW c \in StartPoints, NEW v, NEW x, NEW w, Begins(op, c, v, x, w)
  PROVE  UsableInv' /\ LeaveInv'
<1>1. PICK i \in ProcType : i = Idle
  BY IdleType
<1>2. PICK r2 : r2 = [i EXCEPT !.op = op, !.pc = c, !.version = v, !.content = x, !.prior = w]
  OBVIOUS
<1>3. r2.pc = c /\ r2.op = op
  BY <1>1, <1>2 DEF ProcType
<1>4. proc' = [proc EXCEPT !["operator"] = r2]
  BY <1>1, <1>2 DEF Begins
<1>5. BaseInv /\ UsableInv /\ "operator" \in Proc
  BY DEF SessionInv, WholeInv, Proc
<1>6. UsableInv'
  BY <1>3, <1>4, <1>5, UsableStarts DEF Begins
<1>7. proc'["operator"] = r2
  BY <1>4, <1>5, ProcFacts DEF ProcTypes
<1>8. op \in scenario.commands /\ scenario' = scenario
  BY DEF Begins
<1> QED BY <1>3, <1>6, <1>7, <1>8 DEF LeaveInv, Leaving

LEMMA WorksUsable ==
  ASSUME SessionInv, NEW op, NEW c \in StartPoints, Works(op, c)
  PROVE  UsableInv' /\ LeaveInv'
<1>1. PICK i \in ProcType : i = Idle
  BY IdleType
<1>2. PICK r2 : r2 = [i EXCEPT !.op = op, !.pc = c]
  OBVIOUS
<1>3. r2.pc = c
  BY <1>1, <1>2 DEF ProcType
<1>4. proc' = [proc EXCEPT !["service"] = r2]
  BY <1>1, <1>2 DEF Works
<1>5. BaseInv /\ UsableInv /\ LeaveInv /\ "service" \in Proc /\ "operator" \in Proc
  BY DEF SessionInv, WholeInv, Proc
<1>6. UsableInv'
  BY <1>3, <1>4, <1>5, UsableStarts DEF Works
<1>7. proc'["operator"] = proc["operator"]
  BY <1>4, <1>5, ProcFacts DEF ProcTypes
<1> QED BY <1>5, <1>6, <1>7, LeaveStays DEF Works

LEMMA DirectiveUsable ==
  ASSUME SessionInv, NEW v, NEW c, TakeDirective(v, c)
  PROVE  UsableInv' /\ LeaveInv'
<1>1. PICK i \in ProcType : i = Idle
  BY IdleType
<1>2. PICK r2 : r2 = [i EXCEPT !.op = "update", !.pc = "drain", !.version = v, !.content = c]
  OBVIOUS
<1>3. r2.pc = "drain" /\ "drain" \in StartPoints
  BY <1>1, <1>2 DEF ProcType, StartPoints
<1>4. proc' = [proc EXCEPT !["service"] = r2]
  BY <1>1, <1>2 DEF TakeDirective
<1>5. BaseInv /\ UsableInv /\ LeaveInv /\ "service" \in Proc /\ "operator" \in Proc
  BY DEF SessionInv, WholeInv, Proc
<1>8. Free("service") /\ UNCHANGED <<scenario, identity>> /\ r2.pc \in StartPoints
  BY <1>3 DEF TakeDirective
<1>6. UsableInv'
  BY <1>4, <1>5, <1>8, UsableStarts
<1>7. proc'["operator"] = proc["operator"]
  BY <1>4, <1>5, ProcFacts DEF ProcTypes
<1> QED BY <1>5, <1>6, <1>7, LeaveStays DEF TakeDirective

LEMMA SessionNext == LeaveRunsToItsEnd /\ SessionInv /\ [RootNext]_rootVars => SessionInv'
<1> SUFFICES ASSUME LeaveRunsToItsEnd, SessionInv, [RootNext]_rootVars
             PROVE  UsableInv' /\ LeaveInv'
  BY BaseNext, StatusNext DEF SessionInv, WholeInv
<1>1. WholeInv /\ BaseInv /\ Alone /\ UsableInv /\ LeaveInv /\ ProcTypes
  BY TypeParts DEF SessionInv, WholeInv, BaseInv
<1>2. ASSUME NEW p \in Proc, RuntimeStep(p)
      PROVE  UsableInv' /\ LeaveInv'
  <2>1. Settles /\ scenario' = scenario
    BY <1>1, <1>2, StatusLink, StatusRecord, StatusStops, RuntimeApart DEF RuntimeStep, Apart
  <2> QED BY <1>1, <1>2, <2>1, LeaveKept, UsableRuntime
<1>3. ASSUME NEW p \in Proc, IdentityStep(p)
      PROVE  UsableInv' /\ LeaveInv'
  BY <1>1, <1>3, IdentityApart, LeaveKept, UsableIdentity DEF Apart
<1>4. ASSUME NEW p \in Proc, Crash(p)
      PROVE  UsableInv' /\ LeaveInv'
  BY <1>1, <1>4, StatusStops, LeaveKept, UsableCrash
<1>5. CASE BeginInstall \/ BeginRollback \/ BeginUninstall \/ BeginUnpack \/ BeginJoin \/ BeginLeave
           \/ \E v \in Version, c \in Content : BeginUpdate(v, c) \/ BeginPack(v, c)
  <2>1. PICK op, v, x, w : \E c \in StartPoints : Begins(op, c, v, x, w)
    BY <1>5 DEF BeginInstall, BeginRollback, BeginUninstall, BeginUnpack, BeginJoin, BeginLeave, BeginUpdate, BeginPack, StartPoints
  <2> QED BY <2>1, BeginsUsable
<1>6. CASE BeginPoll \/ BeginRenew \/ BeginSwitch
  <2>1. PICK op : \E c \in StartPoints : Works(op, c)
    BY <1>6 DEF BeginPoll, BeginRenew, BeginSwitch, StartPoints
  <2> QED BY <2>1, WorksUsable
<1>7. CASE \E v \in Version, c \in Content : TakeDirective(v, c)
  BY <1>7, DirectiveUsable
<1>8. CASE ServiceStarts \/ OperatorDrains \/ Approve \/ Ages \/ UNCHANGED rootVars
  <2>1. UNCHANGED <<scenario, proc, key, cert, session>>
    BY <1>8 DEF ServiceStarts, OperatorDrains, Approve, Ages, rootVars, identity
  <2>2. Leaving => Leaving'
    BY <2>1 DEF Leaving
  <2> QED BY <1>1, <2>1, <2>2, UsableQuiet, LeaveStays
<1> QED BY <1>2, <1>3, <1>4, <1>5, <1>6, <1>7, <1>8 DEF RootNext

\* A session that counts as ready can be opened whenever no command is under
\* way: activate_worker writes the certificate before the session, for the key
\* that the host approved, a relay's material comes with it, and leave_worker
\* takes them all; when no command overlaps what the service does and a leave
\* runs to its end.
THEOREM SessionCorrect ==
  ASSUME LeaveRunsToItsEnd
  PROVE  RootSpec => []SessionUsable
<1>1. RootInit => SessionInv
  <2>1. RootInit => WholeInv
    BY IdleType, BaseInit DEF RootInit, Alone, StatusInv, Recording, WholeInv
  <2>2. RootInit => UsableInv /\ LeaveInv
    BY SomeThing DEF RootInit, UsableInv, LeaveInv, Leaving, Matched, Carried, UsableLocal, Idle, Proc, Command
  <2> QED BY <2>1, <2>2 DEF SessionInv
<1>2. SessionInv /\ [RootNext]_rootVars => SessionInv'
  BY SessionNext
<1>3. SessionInv => SessionUsable
  <2> SUFFICES ASSUME SessionInv, AtRest, ~scenario.overlap, session # None, session.ready
               PROVE  key # 0 /\ cert # None /\ cert.key = key /\ (session.transport = "relay" => session.material)
    BY DEF SessionUsable
  <2>1. ~Leaving
    BY SomeThing DEF AtRest, Leaving, Proc, Command
  <2> QED BY <2>1 DEF SessionInv, UsableInv, Matched, Carried
<1> QED BY <1>1, <1>2, <1>3, PTL DEF RootSpec
=============================================================================
