------------------------------ MODULE Sandbox ------------------------------
(***************************************************************************)
(* execute_sandbox_command: the policy is evaluated, the command started   *)
(* in a process group of its own, and one thread supervises it: it polls   *)
(* for cancellation, drains the output pipes, compares the clock with its  *)
(* deadlines, polls for the exit, and ends the group with SIGTERM and, if  *)
(* need be, SIGKILL.                                                       *)
(*                                                                         *)
(* The command is a leader and perhaps a helper it forked; both write, both *)
(* may end by themselves, and each may ignore SIGTERM.  Time passes at any *)
(* step (the supervisor may be descheduled).  Clocks count from an event   *)
(* and stop at the longest deadline, output is whether unread bytes wait.  *)
(* Receipts, redaction and the environment of the command are left out.    *)
(***************************************************************************)
EXTENDS Naturals, Sequences, FiniteSets, SequencesExt

CONSTANTS
  Policies,  \* normalized policies with the command to run: see PolicyType
  Existing,  \* the paths that are existing directories
  Files,     \* the paths that are existing regular files
  Timeout,   \* timeout_seconds
  MaxWall,   \* max_wall_timeout_seconds
  Unset      \* absent value

(* Paths are sequences of names, <<>> the root of the file system. *)
Path == Seq(STRING)
Inside(p, root) == IsPrefix(root, p)
Overlap(p, q) == Inside(p, q) \/ Inside(q, p)

NetworkModes == {"none", "adapter_scoped", "allowlist", "unrestricted_requires_approval"}
FilesystemModes == {"read_only", "run_scoped", "candidate_workspace_only", "allowlist"}
\* _native_backend: the profile of macOS, or no kernel enforcement.
Backend == {"macos-sandbox-exec", "policy-boundary"}
PolicyType ==
  [network : STRING, filesystem : STRING, allowlist : Seq(Path), stateRoots : Seq(Path),
   stateFiles : SUBSET Path, workspace : Path, cwd : Path, listed : BOOLEAN,
   backend : Backend]

ASSUME SandboxAssumption ==
  Timeout \in Nat \ {0} /\ MaxWall \in Nat \ {0} /\ Policies \subseteq PolicyType

\* _validated_runtime_state_roots: existing directories, not the root of the
\* file system, none an ancestor of the workspace, no two related.
StateRootsValid_distinct(p) ==
  \A i \in DOMAIN p.stateRoots :
    /\ p.stateRoots[i] \in Existing \ {<<>>}
    /\ ~(Inside(p.workspace, p.stateRoots[i]) /\ p.stateRoots[i] # p.workspace)
    /\ \A j \in 1..(i - 1) : p.stateRoots[i] # p.stateRoots[j]
StateRootsValid(p) ==
  \A i \in DOMAIN p.stateRoots :
    /\ p.stateRoots[i] \in Existing \ {<<>>}
    /\ ~(Inside(p.workspace, p.stateRoots[i]) /\ p.stateRoots[i] # p.workspace)
    /\ \A j \in 1..(i - 1) : ~Overlap(p.stateRoots[i], p.stateRoots[j])

\* _validated_runtime_state_files; the roots count as empty when they were
\* refused.
StateFilesValid(p) ==
  \A f \in p.stateFiles :
    /\ f \in Files
    /\ StateRootsValid(p) => \A i \in DOMAIN p.stateRoots : ~Inside(f, p.stateRoots[i])

\* _evaluate_command: the command is on the list, its directory inside the workspace.
CommandPassed(p) == p.listed /\ Inside(p.cwd, p.workspace)

\* evaluate_sandbox_policy.
PolicyPassed(p) ==
  /\ p.network \in NetworkModes /\ p.filesystem \in FilesystemModes
  /\ StateRootsValid(p) /\ StateFilesValid(p)
  /\ CommandPassed(p)

\* LocalWorkspaceSandboxProvider.capabilities.
Enforced(p) ==
  IF p.backend = "macos-sandbox-exec"
    THEN p.network \in {"none", "adapter_scoped"} /\ p.filesystem \in FilesystemModes
    ELSE p.network = "none" /\ p.filesystem = "run_scoped"

AllowlistValid(p) ==
  p.filesystem = "allowlist" =>
    \A i \in DOMAIN p.allowlist : p.allowlist[i] \in Existing /\ Inside(p.allowlist[i], p.workspace)

Admitted(p) == PolicyPassed(p) /\ AllowlistValid(p) /\ Enforced(p)

\* _macos_sandbox_profile: the subtrees the command may write.
WriteRoots(p) ==
  Range(p.stateRoots) \cup
    CASE p.filesystem = "read_only" -> {}
      [] p.filesystem = "allowlist" -> Range(p.allowlist)
      [] OTHER -> {p.workspace}
-----------------------------------------------------------------------------
VARIABLES
  policy,     \* the policy under evaluation
  refresh,    \* refresh_timeout_on_output
  stubborn,   \* the processes that ignore SIGTERM
  pc,         \* where the supervisor is
  leader,     \* the process that was started
  helper,     \* a descendant in its group
  signalled,  \* whether the group got SIGTERM
  pipe,       \* unread output waits
  elapsed,    \* time since the start
  idle,       \* time since output was last read
  cancelled,  \* whether the cancellation token is set
  cause,      \* why supervision ended
  silent,     \* time since output was last written (history)
  fresh       \* output was written since the last drain (history)

given == <<refresh, stubborn>>
processes == <<leader, helper, signalled>>
clocks == <<elapsed, idle, silent>>
vars == <<policy, given, pc, processes, pipe, clocks, cancelled, cause, fresh>>

Longest == IF Timeout > MaxWall THEN Timeout ELSE MaxWall

TypeOK ==
  /\ policy = Unset \/ policy \in PolicyType
  /\ refresh \in BOOLEAN /\ stubborn \in SUBSET {"leader", "helper"}
  /\ pc \in {"new", "blocked", "cancel", "drain", "deadline", "poll", "wait", "term", "reap", "final", "done"}
  /\ leader \in {"none", "running", "zombie", "reaped"}
  /\ helper \in {"none", "running", "gone"}
  /\ signalled \in BOOLEAN /\ pipe \in BOOLEAN /\ cancelled \in BOOLEAN /\ fresh \in BOOLEAN
  /\ elapsed \in 0..Longest /\ idle \in 0..Longest /\ silent \in 0..Longest
  /\ cause \in {Unset, "exit", "cancelled", "idle", "max_wall"}

Init ==
  /\ policy \in Policies
  /\ refresh \in BOOLEAN /\ stubborn \in SUBSET {"leader", "helper"}
  /\ pc = "new"
  /\ leader = "none" /\ helper = "none" /\ signalled = FALSE
  /\ pipe = FALSE /\ elapsed = 0 /\ idle = 0
  /\ cancelled = FALSE /\ cause = Unset /\ silent = 0 /\ fresh = FALSE
-----------------------------------------------------------------------------
(* The supervisor. *)

Block ==
  /\ pc = "new" /\ ~Admitted(policy)
  /\ pc' = "blocked"
  /\ UNCHANGED <<policy, given, processes, pipe, clocks, cancelled, cause, fresh>>

\* Popen; nothing looks at the policy again.
Start ==
  /\ pc = "new" /\ Admitted(policy)
  /\ pc' = "cancel" /\ leader' = "running" /\ policy' = Unset
  /\ UNCHANGED <<given, helper, signalled, pipe, clocks, cancelled, cause, fresh>>

\* _terminate_process_group begins with SIGTERM to the group.
Terminate(reason) ==
  /\ cause' = reason /\ signalled' = TRUE /\ pc' = "term"
  /\ UNCHANGED <<policy, given, leader, helper, pipe, clocks, cancelled, fresh>>

CheckCancelled ==
  /\ pc = "cancel"
  /\ \/ cancelled /\ Terminate("cancelled")
     \/ /\ ~cancelled /\ pc' = "drain"
        /\ UNCHANGED <<policy, given, processes, pipe, clocks, cancelled, cause, fresh>>

\* _drain_ready_streams: reading counts as activity.
Drained == pipe' = FALSE /\ idle' = (IF pipe THEN 0 ELSE idle) /\ fresh' = FALSE

Drain_skipped ==
  /\ pc = "drain"
  /\ fresh' = FALSE /\ pc' = "deadline"
  /\ UNCHANGED <<policy, given, processes, pipe, clocks, cancelled, cause>>
Drain ==
  /\ pc = "drain"
  /\ Drained /\ pc' = "deadline"
  /\ UNCHANGED <<policy, given, processes, elapsed, silent, cancelled, cause>>

Expired(count, limit) == count >= limit

\* The three deadlines, in the code's order.
CheckDeadline_noWall ==
  /\ pc = "deadline"
  /\ \/ refresh /\ Expired(idle, Timeout) /\ Terminate("idle")
     \/ ~refresh /\ Expired(elapsed, Timeout) /\ Terminate("max_wall")
     \/ /\ ~Expired(IF refresh THEN idle ELSE elapsed, Timeout)
        /\ pc' = "poll"
        /\ UNCHANGED <<policy, given, processes, pipe, clocks, cancelled, cause, fresh>>
CheckDeadline ==
  /\ pc = "deadline"
  /\ \/ Expired(elapsed, MaxWall) /\ Terminate("max_wall")
     \/ ~Expired(elapsed, MaxWall) /\ refresh /\ Expired(idle, Timeout) /\ Terminate("idle")
     \/ ~Expired(elapsed, MaxWall) /\ ~refresh /\ Expired(elapsed, Timeout) /\ Terminate("max_wall")
     \/ /\ ~Expired(elapsed, MaxWall) /\ ~Expired(IF refresh THEN idle ELSE elapsed, Timeout)
        /\ pc' = "poll"
        /\ UNCHANGED <<policy, given, processes, pipe, clocks, cancelled, cause, fresh>>

Poll ==
  /\ pc = "poll"
  /\ \/ leader = "zombie" /\ leader' = "reaped" /\ cause' = "exit" /\ pc' = "final"
     \/ leader = "running" /\ pc' = "wait" /\ UNCHANGED <<leader, cause>>
  /\ UNCHANGED <<policy, given, helper, signalled, pipe, clocks, cancelled, fresh>>

\* The second drain blocks for a while; it ends with or without output.
Wait ==
  /\ pc = "wait"
  /\ Drained /\ pc' = "cancel"
  /\ UNCHANGED <<policy, given, processes, elapsed, silent, cancelled, cause>>

\* A cancelled call raises after the group was signalled; the others reap the
\* leader and drain what is left.
AfterTerm == IF cause = "cancelled" THEN "done" ELSE "final"

\* process.wait(timeout=0.25) sees the leader's exit ...
TermReaps ==
  /\ pc = "term" /\ leader = "zombie"
  /\ leader' = "reaped" /\ pc' = AfterTerm
  /\ UNCHANGED <<policy, given, helper, signalled, pipe, clocks, cancelled, cause, fresh>>

\* ... or it does not, and the whole group is killed.
TermKills ==
  /\ pc = "term" /\ leader = "running"
  /\ leader' = "zombie"
  /\ helper' = IF helper = "running" THEN "gone" ELSE helper
  /\ pc' = IF cause = "cancelled" THEN "done" ELSE "reap"
  /\ UNCHANGED <<policy, given, signalled, pipe, clocks, cancelled, cause, fresh>>

Reap ==
  /\ pc = "reap" /\ leader = "zombie"
  /\ leader' = "reaped" /\ pc' = "final"
  /\ UNCHANGED <<policy, given, helper, signalled, pipe, clocks, cancelled, cause, fresh>>

\* The last drain goes on while there is something to read; no deadline here.
FinalDrain ==
  /\ pc = "final"
  /\ Drained /\ pc' = IF pipe THEN "final" ELSE "done"
  /\ UNCHANGED <<policy, given, processes, elapsed, silent, cancelled, cause>>
-----------------------------------------------------------------------------
(* The command and its surroundings. *)

Alive == pc \notin {"new", "blocked", "done"}

Write ==
  /\ Alive /\ "running" \in {leader, helper}
  /\ pipe' = TRUE /\ silent' = 0 /\ fresh' = TRUE
  /\ UNCHANGED <<policy, given, pc, processes, elapsed, idle, cancelled, cause>>

Fork ==
  /\ leader = "running" /\ helper = "none" /\ ~signalled
  /\ helper' = "running"
  /\ UNCHANGED <<policy, given, pc, leader, signalled, pipe, clocks, cancelled, cause, fresh>>

LeaderExits ==
  /\ leader = "running" /\ leader' = "zombie"
  /\ signalled => "leader" \notin stubborn
  /\ UNCHANGED <<policy, given, pc, helper, signalled, pipe, clocks, cancelled, cause, fresh>>

HelperExits ==
  /\ helper = "running" /\ helper' = "gone"
  /\ signalled => "helper" \notin stubborn
  /\ UNCHANGED <<policy, given, pc, leader, signalled, pipe, clocks, cancelled, cause, fresh>>

Cancel ==
  /\ Alive /\ ~cancelled /\ cancelled' = TRUE
  /\ UNCHANGED <<policy, given, pc, processes, pipe, clocks, cause, fresh>>

Later(t) == IF t = Longest THEN t ELSE t + 1
Tick ==
  /\ Alive
  /\ elapsed' = Later(elapsed) /\ idle' = Later(idle) /\ silent' = Later(silent)
  /\ UNCHANGED <<policy, given, pc, processes, pipe, cancelled, cause, fresh>>

Supervise ==
  \/ Block \/ Start \/ CheckCancelled \/ Drain \/ CheckDeadline \/ Poll \/ Wait
  \/ TermReaps \/ TermKills \/ Reap \/ FinalDrain

Next == Supervise \/ Write \/ Fork \/ LeaderExits \/ HelperExits \/ Cancel \/ Tick

\* The supervisor keeps running and the clock advances; the command need not
\* do anything.
Spec == Init /\ [][Next]_vars /\ WF_vars(Supervise) /\ WF_vars(Tick)
-----------------------------------------------------------------------------
(* Properties. *)

\* A policy that was let through grants no write above the workspace, no state at
\* the root of the file system, and one write rule at most for every path: what
\* the macOS profile opens is what each root was granted for.
GrantsContained ==
  policy # Unset /\ Admitted(policy) =>
    /\ \A r \in WriteRoots(policy) : Inside(policy.workspace, r) => r = policy.workspace
    /\ <<>> \notin Range(policy.stateRoots)
    /\ \A i, j \in DOMAIN policy.stateRoots :
         Overlap(policy.stateRoots[i], policy.stateRoots[j]) => i = j
    /\ \A f \in policy.stateFiles : \A i \in DOMAIN policy.stateRoots : ~Inside(f, policy.stateRoots[i])

\* The command is ended as idle only if it wrote nothing for the whole timeout,
\* or wrote after the drain that precedes the decision; output that waits
\* unread in a pipe while the supervisor is descheduled does not make it idle.
IdleJustified ==
  cause = "idle" /\ pc = "term" /\ ~fresh => silent >= Timeout

\* Unless the call was cancelled, what the command wrote before it ended is in
\* the receipt, however it ended.
OutputKept == pc = "done" /\ cause # "cancelled" => ~pipe

\* Supervision ends, also of a command that writes for ever, unless a helper
\* survives: the last drain has no deadline and reads on while it writes.
SupervisionEnds == <>(pc \in {"blocked", "done"}) \/ <>[](helper = "running")

\* What the command writes counts, for its deadline and for the receipt, and the
\* supervisor's records keep their types.
OutputHeeded == TypeOK /\ IdleJustified /\ OutputKept
=============================================================================
