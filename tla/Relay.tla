------------------------------- MODULE Relay -------------------------------
(***************************************************************************)
(* The relay between a worker and the host, and the worker session that    *)
(* runs over it.                                                           *)
(*                                                                         *)
(* The relay's router remembers the last sequence number of each side of a *)
(* session and refuses what is not newer; its server keeps one connection  *)
(* per node, the newest, and handles every connection in a task of its own. *)
(* Each side opens a new endpoint, counting from one, for every session.   *)
(* The worker's client sends one request at a time, for its own progress or *)
(* for a model call of the running job, waits at most 30 seconds and takes *)
(* whatever frame comes next for the answer; the host answers in turn, but *)
(* a model call may take longer than the worker waits.                     *)
(***************************************************************************)
EXTENDS Naturals, Sequences

CONSTANTS
  MaxBeats,       \* bound on lease heartbeats of one session while its job runs
  MaxModelCalls,  \* bound on model calls of one session
  MaxFaults,      \* bound on cut connections, relay restarts, expired sessions and refusals
  Limits          \* the bounds an instance is started with: see LimitType

LimitType == [beats : 0..MaxBeats, calls : 0..MaxModelCalls, faults : 0..MaxFaults]

ASSUME RelayAssumption ==
  MaxBeats \in Nat /\ MaxModelCalls \in Nat /\ MaxFaults \in Nat /\ Limits \subseteq LimitType

VARIABLES
  limit,
  router,    \* RelayRouter: is the session registered, and the last sequence of each side
  registry,  \* AsyncRelayServer.connections: the connection of each side, 0 for none
  handler,   \* is a handler task at work for this connection
  wire,      \* what was sent on a connection and not yet read by its handler
  inbox,     \* what the relay wrote to the side's present connection
  end,       \* RelayEndpoint: connection, sequence and state of each side
  w,         \* RelayWorkerSessionClient
  h,         \* RelayCoordinatorSession
  recorded,  \* the host recorded the terminal event of the worker's session
  misread,   \* requests that were answered by what answers another (history)
  faults,
  reset,     \* the router forgot its sequences (history)
  overtaken  \* sides whose connection was registered when an older one's hello came (history)

relay == <<router, registry, handler, overtaken>>
ghosts == <<limit, recorded, misread>>
relayVars == <<limit, router, registry, handler, wire, inbox, end, w, h, recorded, misread, faults, reset, overtaken>>

Side == {"worker", "host"}
Peer(s) == IF s = "worker" THEN "host" ELSE "worker"
Conn == {1, 2}   \* the present connection of a side and the one before

Request == {"hello", "lease", "ack", "event", "beat", "model", "begin", "chunk", "final", "terminal", "report", "bye"}
Answers(k) ==
  CASE k = "hello" -> {"ready"} [] k = "lease" -> {"job", "no_job"} [] k = "ack" -> {"acknowledged"}
    [] k \in {"event", "terminal"} -> {"recorded"} [] k = "beat" -> {"status"} [] k = "model" -> {"result"}
    [] k = "begin" -> {"begun"} [] k = "chunk" -> {"stored"} [] k = "final" -> {"verified"}
    [] k = "report" -> {"noted"} [] k = "bye" -> {"goodbye"}

Answer == UNION {Answers(k) : k \in Request}
\* What the relay's server and its connections say themselves.
ControlKind == {"relay.hello", "relay.ready", "relay.register", "relay.registered", "relay.unavailable", "eof"}

\* open_relay_payload: a frame of the peer opens; what the relay itself says,
\* or the end of the stream, is none.
Opens(m) == m.seq # 0

\* The client looks at the type of the answer to these.
Checked_exceptEvents == {"hello", "lease", "ack", "beat", "model", "final"}
Checked == {"hello", "lease", "ack", "event", "terminal", "beat", "model", "final"}

\* A frame or a message of the relay itself; re is the request it answers.
Message(kind, seq, conn, re) == [kind |-> kind, seq |-> seq, conn |-> conn, re |-> re]
Control(kind) == Message(kind, 0, 0, 0)
Eof == Control("eof")

MessageType == [kind : Request \cup Answer \cup ControlKind, seq : Nat, conn : 0..2, re : Nat]
Off == [pc |-> "off", ask |-> "none", seq |-> 0, beats |-> 0, calls |-> 0, doomed |-> FALSE, reported |-> FALSE]
Away == [pc |-> "off", from |-> 0, next |-> 0, call |-> 0, ordered |-> TRUE]

RelayTypeOK ==
  /\ limit \in Limits
  /\ router \in [live : BOOLEAN, last : [Side -> Nat]]
  /\ registry \in [Side -> 0..2] /\ handler \in [Side -> [Conn -> BOOLEAN]]
  /\ wire \in [Side -> [Conn -> Seq(MessageType)]] /\ inbox \in [Side -> Seq(MessageType)]
  /\ end \in [Side -> [conn : Conn, seq : Nat, state : {"closed", "greeting", "open"}]]
  /\ w \in [pc : {"off", "hello", "lease", "ack", "prep", "poll", "run", "exec", "begin", "chunk", "final",
                  "terminal", "report", "result", "bye"},
            ask : Request \cup {"none"}, seq : Nat, beats : 0..MaxBeats, calls : 0..MaxModelCalls,
            doomed : BOOLEAN, reported : BOOLEAN]
  /\ h \in [pc : {"off", "registering", "hello", "serving", "calling"}, from : 0..2, next : Nat,
            call : Nat, ordered : BOOLEAN]
  /\ recorded \in BOOLEAN /\ misread \subseteq Request /\ faults \in 0..MaxFaults /\ reset \in BOOLEAN
  /\ overtaken \subseteq Side

RelayInit ==
  /\ limit \in Limits
  /\ router = [live |-> FALSE, last |-> [s \in Side |-> 0]]
  /\ registry = [s \in Side |-> 0] /\ handler = [s \in Side |-> [c \in Conn |-> FALSE]]
  /\ wire = [s \in Side |-> [c \in Conn |-> << >>]] /\ inbox = [s \in Side |-> << >>]
  /\ end = [s \in Side |-> [conn |-> 1, seq |-> 0, state |-> "closed"]]
  /\ w = Off /\ h = Away /\ recorded = FALSE /\ misread = {} /\ faults = 0 /\ reset = FALSE
  /\ overtaken = {}

-----------------------------------------------------------------------------
(* RelayEndpoint.                                                          *)

Opened(s) == end[s].state = "open"

\* A new endpoint on a new connection, with its hello.
Connect(s) ==
  /\ end[s].state = "closed"
  /\ LET c == 3 - end[s].conn
     IN  /\ ~handler[s][c]
         /\ end' = [end EXCEPT ![s] = [conn |-> c, seq |-> 0, state |-> "greeting"]]
         /\ handler' = [handler EXCEPT ![s][c] = TRUE]
         /\ wire' = [wire EXCEPT ![s][c] = <<Control("relay.hello")>>]
  /\ inbox' = [inbox EXCEPT ![s] = << >>]
  /\ recorded' = (recorded /\ s # "worker") /\ overtaken' = overtaken \ {s}
  /\ UNCHANGED <<limit, router, registry, w, h, misread, faults, reset>>

\* A stream has one end: after it, or when nobody reads it, what is sent is lost.
Reaches(s, q) == handler[s][end[s].conn] /\ (q = << >> \/ q[Len(q)] # Eof)
Writes(s, m) == wire' = [wire EXCEPT ![s][end[s].conn] = IF Reaches(s, @) THEN Append(@, m) ELSE @]

\* The frame that s sends next, sealed under the endpoint's next number.
Sealed(s, kind, re) == Message(kind, end[s].seq + 1, end[s].conn, re)
Sends(s, kind, re) == end' = [end EXCEPT ![s].seq = @ + 1] /\ Writes(s, Sealed(s, kind, re))

\* close: the endpoint is given up with its count; the handler reads the end of
\* the stream after all that was sent.
GivenUp(s) == end' = [end EXCEPT ![s].state = "closed", ![s].seq = 0] /\ inbox' = [inbox EXCEPT ![s] = << >>]
Closes(s) == GivenUp(s) /\ Writes(s, Eof)

-----------------------------------------------------------------------------
(* RelayRouter and AsyncRelayServer._handle.                                *)

\* What the relay writes to connection c of s reaches the endpoint only if it is still there.
Delivered(s, c, m) ==
  IF end[s].conn = c /\ end[s].state # "closed" THEN [inbox EXCEPT ![s] = Append(@, m)] ELSE inbox

Reads(s, c) == wire' = [wire EXCEPT ![s][c] = Tail(@)]

\* The finally clause removes the connection only if no newer one has taken its place.
Unregistered_any(s, c) == [registry EXCEPT ![s] = 0]
Unregistered(s, c) == [registry EXCEPT ![s] = IF @ = c THEN 0 ELSE @]

HandlerEnds(s, c) ==
  /\ registry' = Unregistered(s, c)
  /\ handler' = [handler EXCEPT ![s][c] = FALSE]
  /\ wire' = [wire EXCEPT ![s][c] = << >>]
  /\ inbox' = Delivered(s, c, Eof)

\* A hello makes its connection the registered one, in the order in which the
\* relay reads them: that of a connection given up may be read after its successor's.
HandleHello(s, c) ==
  /\ Head(wire[s][c]).kind = "relay.hello"
  /\ registry' = [registry EXCEPT ![s] = c]
  /\ overtaken' = IF c # end[s].conn /\ registry[s] = end[s].conn THEN overtaken \cup {s} ELSE overtaken
  /\ inbox' = Delivered(s, c, Control("relay.ready"))
  /\ Reads(s, c) /\ UNCHANGED <<router, handler>>

\* register_session refreshes the record and keeps the sequences.
HandleRegister(s, c) ==
  /\ Head(wire[s][c]).kind = "relay.register"
  /\ router' = [router EXCEPT !.live = TRUE]
  /\ inbox' = Delivered(s, c, Control("relay.registered"))
  /\ Reads(s, c) /\ UNCHANGED <<registry, handler, overtaken>>

\* route: the session must be there and the number newer than the last.
Routable_unsequenced(s, m) == router.live
Routable(s, m) == router.live /\ m.seq > router.last[s]

\* A frame is good for 60 seconds and its request is waited for at most 30: it
\* may have expired if it is about a request that the worker does not wait for.
Overdue(m) == w.ask = "none" \/ (IF m.re = 0 THEN m.seq ELSE m.re) # w.seq

\* The number counts as used before the target's connection is looked up.
HandleFrame(s, c) ==
  LET m == Head(wire[s][c])
      p == Peer(s)
      t == registry[p]
  IN  /\ m.seq # 0
      /\ \/ /\ ~Routable(s, m) \/ Overdue(m)
            /\ HandlerEnds(s, c) /\ UNCHANGED router
         \/ /\ Routable(s, m) /\ router' = [router EXCEPT !.last[s] = m.seq]
            /\ \/ t = 0 /\ inbox' = Delivered(s, c, Control("relay.unavailable"))
                  /\ Reads(s, c) /\ UNCHANGED <<registry, handler>>
               \/ t # 0 /\ inbox' = Delivered(p, t, m)
                  /\ Reads(s, c) /\ UNCHANGED <<registry, handler>>
               \/ t # 0 /\ (end[p].conn # t \/ end[p].state = "closed")   \* the write fails
                  /\ HandlerEnds(s, c)
      /\ UNCHANGED overtaken

HandleEof(s, c) ==
  /\ Head(wire[s][c]).kind = "eof"
  /\ HandlerEnds(s, c) /\ UNCHANGED <<router, overtaken>>

Handle(s, c) ==
  /\ wire[s][c] # << >>
  /\ HandleHello(s, c) \/ HandleRegister(s, c) \/ HandleFrame(s, c) \/ HandleEof(s, c)
  /\ UNCHANGED <<end, w, h, ghosts, faults, reset>>

-----------------------------------------------------------------------------
(* RelayWorkerSessionClient.run_once.                                       *)

KeepHost == UNCHANGED <<limit, relay, h, recorded, faults, reset>>

\* The endpoint is ready; the session begins.
WorkerReady ==
  /\ end["worker"].state = "greeting" /\ inbox["worker"] # << >>
  /\ IF Head(inbox["worker"]).kind = "relay.ready"
     THEN /\ end' = [end EXCEPT !["worker"].state = "open"] /\ w' = [Off EXCEPT !.pc = "hello"]
          /\ inbox' = [inbox EXCEPT !["worker"] = Tail(@)] /\ UNCHANGED wire
     ELSE Closes("worker") /\ w' = Off
  /\ UNCHANGED misread /\ KeepHost

\* _maintain_lease: heartbeats while the job runs, until one of them failed.
Heartbeats == IF ~w.doomed /\ w.beats < limit.beats THEN {"beat"} ELSE {}
\* RelayWorkerLocalGrantProxy: requests of the running job itself.
ModelCalls == IF w.pc \in {"run", "exec"} /\ w.calls < limit.calls THEN {"model"} ELSE {}
\* The requests open to the worker: those of its progress and, while the job
\* runs, those of the job's model calls.  The wire lock admits one at a time.
Askable ==
  (CASE w.pc \in {"prep", "run"} -> {"event"}
     [] w.pc = "result" -> {"report"}
     [] w.pc = "poll" -> {"beat"}
     [] w.pc = "exec" -> Heartbeats
     [] OTHER -> {w.pc})
  \cup ModelCalls

Ask(k) ==
  /\ Opened("worker") /\ w.ask = "none" /\ k \in Askable
  /\ Sends("worker", k, 0)
  /\ w' = [w EXCEPT !.ask = k, !.seq = end["worker"].seq + 1,
                    !.beats = @ + (IF k = "beat" /\ w.pc = "exec" THEN 1 ELSE 0),
                    !.calls = @ + (IF k = "model" THEN 1 ELSE 0)]
  /\ UNCHANGED <<inbox, misread>> /\ KeepHost

\* _apply_update, _apply_transport: begun, then done or failed, each reported.
AppliesDirective == IF w.pc = "report" THEN {"result"} ELSE {"off"}

\* Where the worker goes on after an answer.
After(m) ==
  IF w.ask = "model" THEN {w.pc} ELSE
  CASE w.pc = "hello" -> {"lease"}
    [] w.pc = "lease" -> IF m.kind = "job" THEN {"ack"} ELSE {"report", "bye"}
    [] w.pc = "ack" -> {"prep"} [] w.pc = "prep" -> {"poll"} [] w.pc = "poll" -> {"run"}
    [] w.pc \in {"run", "exec"} -> {"exec"}
    [] w.pc = "begin" -> {"chunk"} [] w.pc = "chunk" -> {"final"} [] w.pc = "final" -> {"terminal"}
    [] w.pc = "terminal" -> {"bye"}
    [] w.pc \in {"report", "result"} -> AppliesDirective
    [] w.pc = "bye" -> {"off"}

\* The request failed: a model call is answered with a refusal and the job goes
\* on, a heartbeat dooms the session once the job ends, all else ends it now.
Fails ==
  \/ /\ w.ask = "model"
     /\ w' = [w EXCEPT !.ask = "none"] /\ UNCHANGED <<end, wire>>
  \/ /\ w.ask = "beat" /\ w.pc = "exec"
     /\ w' = [w EXCEPT !.ask = "none", !.doomed = TRUE] /\ UNCHANGED <<end, wire>>
  \/ /\ w.ask # "model" /\ ~(w.ask = "beat" /\ w.pc = "exec")
     /\ w' = Off /\ Closes("worker")

\* _request takes the next frame for the answer, unless it does not open.
Hear ==
  /\ Opened("worker") /\ w.ask # "none" /\ inbox["worker"] # << >>
  /\ LET m == Head(inbox["worker"])
         rest == [inbox EXCEPT !["worker"] = IF m.kind = "eof" THEN @ ELSE Tail(@)]
         good == Opens(m) /\ (w.ask \in Checked => m.kind \in Answers(w.ask))
     IN  \/ /\ ~good \/ Overdue(m)
            /\ Fails /\ (w'.pc # "off" => inbox' = rest) /\ UNCHANGED misread
         \/ /\ good
            /\ misread' = misread \cup (IF m.re # w.seq THEN {w.ask} ELSE {})
            /\ \E pc \in After(m) :
                 IF pc = "off" THEN w' = Off /\ Closes("worker")
                 ELSE /\ w' = [w EXCEPT !.pc = pc, !.ask = "none", !.reported = @ \/ w.ask = "terminal"]
                      /\ inbox' = rest /\ UNCHANGED <<end, wire>>
  /\ KeepHost

\* No frame is on its way.
Frames(q) == \E i \in 1..Len(q) : q[i].seq # 0
Quiet == \A s \in Side : \A c \in Conn : ~Frames(wire[s][c])

\* receive waits 30 seconds, less than a model call may take.
WorkerTimesOut_never == FALSE
WorkerTimesOut ==
  /\ Opened("worker") /\ w.ask # "none"
  /\ Quiet /\ inbox["worker"] = << >> /\ (h.pc = "calling" \/ ~Frames(inbox["host"]))
  /\ Fails /\ (w'.pc # "off" => UNCHANGED inbox)
  /\ UNCHANGED misread /\ KeepHost

\* The job is over before its process was started, and its running event is
\* skipped: it failed or was cancelled, or the executor raised.
NeverStarts ==
  /\ w.pc = "run" /\ w.ask = "none" /\ w.calls = 0
  /\ \/ w' = [w EXCEPT !.pc = "terminal"] /\ UNCHANGED <<end, wire, inbox>>
     \/ w' = Off /\ Closes("worker")
  /\ UNCHANGED misread /\ KeepHost

\* The job's process ends, even in the middle of a model call; with outputs or without.
ExecutionEnds ==
  /\ w.pc = "exec" /\ w.ask \in {"none", "model"}
  /\ IF w.doomed THEN w' = Off /\ Closes("worker")
     ELSE \E pc \in {"begin", "terminal"} : w' = [w EXCEPT !.pc = pc] /\ UNCHANGED <<end, wire, inbox>>
  /\ UNCHANGED misread /\ KeepHost

-----------------------------------------------------------------------------
(* RelayCoordinatorSession.run_once, and the command that runs it.          *)

Fault == faults < limit.faults /\ faults' = faults + 1
KeepWorker == UNCHANGED <<limit, relay, w, misread, reset>>
HostEnds == h' = Away /\ Closes("host")
Taken == inbox' = [inbox EXCEPT !["host"] = Tail(@)]

\* The endpoint is ready and registers the session; any other message than the
\* relay's answer ends it.
HostReady ==
  /\ inbox["host"] # << >>
  /\ LET k == Head(inbox["host"]).kind
     IN  \/ /\ end["host"].state = "greeting" /\ k = "relay.ready"
            /\ end' = [end EXCEPT !["host"].state = "open"] /\ h' = [Away EXCEPT !.pc = "registering"]
            /\ Writes("host", Control("relay.register")) /\ Taken
         \/ /\ h.pc = "registering" /\ k = "relay.registered"
            /\ h' = [h EXCEPT !.pc = "hello"] /\ Taken /\ UNCHANGED <<end, wire>>
         \/ /\ \/ end["host"].state = "greeting" /\ k # "relay.ready"
               \/ h.pc = "registering" /\ k # "relay.registered"
            /\ HostEnds
  /\ UNCHANGED <<recorded, faults>> /\ KeepWorker

\* One message: the first must be a hello and no other; the coordinator may
\* refuse any; what was under way too long does not open; a model call is passed on; all else is done and answered at once.
Serve ==
  /\ h.pc \in {"hello", "serving"} /\ inbox["host"] # << >>
  /\ LET m == Head(inbox["host"])
         heard == [h EXCEPT !.from = m.conn, !.next = m.seq,
                            !.ordered = @ /\ (h.pc = "serving" => m.conn = h.from /\ m.seq = h.next + 1)]
         fitting == Opens(m) /\ (m.kind = "hello" <=> h.pc = "hello")
     IN  \/ ~fitting /\ HostEnds /\ UNCHANGED <<recorded, faults>>
         \/ fitting /\ Fault /\ HostEnds /\ UNCHANGED recorded
         \/ fitting /\ (Overdue(m) \/ m.conn # end["worker"].conn) /\ HostEnds /\ UNCHANGED <<recorded, faults>>
         \/ /\ fitting /\ m.kind = "model"
            /\ h' = [heard EXCEPT !.pc = "calling", !.call = m.seq] /\ Taken
            /\ UNCHANGED <<end, wire, recorded, faults>>
         \/ /\ fitting /\ m.kind \notin {"model", "bye"}
            /\ \E a \in Answers(m.kind) : Sends("host", a, m.seq)
            /\ h' = [heard EXCEPT !.pc = "serving"] /\ Taken
            /\ recorded' = (recorded \/ (m.kind = "terminal" /\ m.conn = end["worker"].conn))
            /\ UNCHANGED faults
         \/ /\ fitting /\ m.kind = "bye"
            /\ h' = Away /\ GivenUp("host")
            /\ wire' = [wire EXCEPT !["host"][end["host"].conn] =
                 IF Reaches("host", @) THEN Append(Append(@, Sealed("host", "goodbye", m.seq)), Eof) ELSE @]
            /\ UNCHANGED <<recorded, faults>>
  /\ KeepWorker

\* The gateway answers, at last, or fails.
ModelAnswers ==
  /\ h.pc = "calling"
  /\ \/ Sends("host", "result", h.call) /\ h' = [h EXCEPT !.pc = "serving", !.call = 0] /\ UNCHANGED inbox
     \/ HostEnds
  /\ UNCHANGED <<recorded, faults>> /\ KeepWorker

\* The worker is gone, or silent while it downloads an update or while its job
\* runs on after a heartbeat failed.
HostTimesOut ==
  /\ h.pc \in {"hello", "serving"} /\ Quiet /\ inbox["host"] = << >>
  /\ ~Opened("worker") \/ w.pc = "result" \/ w.doomed \/ w.ask # "none"
  /\ HostEnds
  /\ UNCHANGED <<recorded, faults>> /\ KeepWorker

-----------------------------------------------------------------------------
(* Faults.                                                                 *)

\* A connection breaks; connect, which waits for the relay's answer, fails at once.
Cut(s) ==
  /\ end[s].state # "closed" /\ handler[s][end[s].conn] /\ Fault
  /\ Writes(s, Eof)
  /\ IF Opened(s) THEN inbox' = [inbox EXCEPT ![s] = Append(@, Eof)] /\ UNCHANGED end ELSE GivenUp(s)
  /\ UNCHANGED <<relay, w, h, ghosts, reset>>

Forgotten(live) == [live |-> live, last |-> [s \in Side |-> 0]]

\* revoke_session drops the record and both sequences.
revoke_session == router' = Forgotten(FALSE)

\* The session's time to live runs out: traffic does not extend it.
Prune ==
  /\ router.live /\ Fault
  /\ revoke_session /\ reset' = TRUE
  /\ UNCHANGED <<registry, handler, overtaken, wire, inbox, end, w, h, ghosts>>

\* relay_main starts with the session in its file of registrations or not.
Reloaded == \E live \in BOOLEAN : router' = Forgotten(live)

\* The relay stops, which closes every connection, and starts again.
Restart ==
  /\ Fault
  /\ Reloaded
  /\ reset' = TRUE
  /\ registry' = [s \in Side |-> 0] /\ handler' = [s \in Side |-> [c \in Conn |-> FALSE]]
  /\ wire' = [s \in Side |-> [c \in Conn |-> << >>]]
  /\ inbox' = [s \in Side |-> IF end[s].state = "closed" THEN << >> ELSE Append(inbox[s], Eof)]
  /\ UNCHANGED <<end, w, h, ghosts, overtaken>>

-----------------------------------------------------------------------------
WorkerStep == Connect("worker") \/ WorkerReady \/ (\E k \in Request : Ask(k)) \/ Hear \/ WorkerTimesOut
              \/ NeverStarts \/ ExecutionEnds
HostStep == Connect("host") \/ HostReady \/ Serve \/ ModelAnswers \/ HostTimesOut

RelayNext ==
  \/ WorkerStep \/ HostStep
  \/ \E s \in Side : Cut(s) \/ \E c \in Conn : Handle(s, c)
  \/ Prune \/ Restart

\* Both sides and every handler task of the relay go on.
RelayFairness ==
  /\ WF_relayVars(WorkerStep) /\ WF_relayVars(HostStep)
  /\ \A s \in Side : \A c \in Conn : WF_relayVars(Handle(s, c))

RelaySpec == RelayInit /\ [][RelayNext]_relayVars /\ RelayFairness

-----------------------------------------------------------------------------
(* Properties.                                                             *)

\* What the worker takes for the answer to its request is that answer, whatever
\* came too late for an earlier one: a worker that reports its result as
\* delivered was heard.  Left out are model calls, for nothing tells the result
\* of one from that of another, the first steps of an upload, where the client
\* does not look at the type, and what follows when the relay forgot the
\* session's sequences and lets an old frame through.
AnswersMatch ==
  reset \/ (misread \subseteq {"model", "begin", "chunk"} /\ (w.reported => recorded))

\* The relay delivers to the newest connection of a side, also while handlers of
\* older ones are still ending, and to none whose handler has ended.  The one
\* way out is in the code: every hello overwrites the registration, so that of a
\* connection which broke while it greeted, read after its successor's, takes the
\* successor's place, and its end leaves the side without any.  All of the
\* relay's records keep their types.
NewestDelivers ==
  /\ RelayTypeOK
  /\ \A s \in Side :
       /\ registry[s] # 0 => handler[s][registry[s]]
       /\ Opened(s) /\ handler[s][end[s].conn] /\ s \notin overtaken => registry[s] = end[s].conn

\* What a host session handles comes from one endpoint of the worker, each
\* message once and in the order sent, as long as the relay remembers the
\* session's sequences.
OneConversation == reset \/ h.ordered

\* No request waits for ever, so that the wire lock is always released.
RequestSettles == (w.ask # "none") ~> (w.ask = "none")
=============================================================================
