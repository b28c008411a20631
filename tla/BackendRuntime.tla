----------------------------- MODULE BackendRuntime -----------------------------
(* rpi/backend/sdr_backend: the HTTP API (app.py) over the runtime (runtime.py),  *)
(* the state it shows (state.py) and the device it commands.  HTTP handlers run   *)
(* concurrently and take turns at the control connection; the connection is lost  *)
(* or out of step at any moment, and the runtime learns of it only by an error.   *)
(*                                                                                *)
(* A handler runs from one await to the next.  The control connection is that of  *)
(* DeviceClient, seen from its users: requests are answered in order, a request   *)
(* that timed out leaves its answer behind, and hello comes first.  One browser   *)
(* connects at a time.                                                            *)
EXTENDS Naturals, Sequences, Functions

CONSTANTS
  Handlers,     \* HTTP requests served at once
  Rx,           \* receiver settings a browser asks for
  DefaultRx,    \* those of /api/rx without a usable body
  Frontends,    \* front-end settings; the first state has one of them
  PsdEnable,    \* config.psd.enable
  MaxStale      \* bound: no new command while so many answers are left behind

Nobody == "nobody"   \* who waits for an answer that is given up
ASSUME HandlersAssumption == Nobody \notin Handlers
ASSUME DefaultsAssumption == DefaultRx \in Rx /\ Frontends # {} /\ PsdEnable \in BOOLEAN

VARIABLES
  job,       \* handler -> [pc, cmd, auto]: what it awaits, and for which command
  reply,     \* the response to the command that ended in the last step, or none
  lock,      \* handlers in device.request, the holder first
  up,        \* the client has a connection
  wire,      \* requests the device has not read
  answers,   \* answers the client has not read
  dev,       \* the device's [rx, psd, frontend]
  state,     \* AppState: [connected, rx, psd, frontend, error]
  pushed,    \* the settings in the snapshot published last
  known      \* settings the device confirmed in this session, with no failed
             \* request since; "hello" while none has failed

link == <<lock, up, wire, answers>>
vars == <<job, reply, link, dev, state, pushed, known>>

Settings == {"rx", "psd", "frontend"}
Values(x) == CASE x = "rx" -> Rx \cup {"off"} [] x = "psd" -> {"on", "off"} [] OTHER -> Frontends
Set(x, v) == [do |-> "set", of |-> {x}, to |-> v]
Hello == [do |-> "hello", of |-> {}, to |-> "off"]
StopAll == [do |-> "stop_all", of |-> {"rx", "psd"}, to |-> "off"]
Idle == [pc |-> "idle", cmd |-> Hello, auto |-> FALSE]
At(t, pc) == job[t].pc = pc

Shown(s) == [x \in Settings |-> s[x]]
Init ==
  /\ job = [t \in Handlers |-> Idle] /\ reply = "none"
  /\ lock = <<>> /\ up = FALSE /\ wire = <<>> /\ answers = <<>>
  /\ dev \in [rx : {"off"}, psd : {"off"}, frontend : Frontends]
  /\ state = [connected |-> FALSE, rx |-> DefaultRx, psd |-> IF PsdEnable THEN "on" ELSE "off",
              frontend |-> dev.frontend, error |-> FALSE]
  /\ pushed = Shown(state) /\ known = {}
-------------------------------------------------------------------------------
(* Broadcaster.publish of state.snapshot(). *)
Publish(s) == state' = s /\ pushed' = Shown(s)

(* A command fails, or what became of it is not known. *)
Forget(c) == known' = known \ (c.of \cup {"hello"})

(* _http ends: _json_response with the result, or the status of the exception *)
(* that was raised: 502 for a DeviceClientError, 500 for any other.           *)
Respond(t, code) ==
  /\ reply' = code
  /\ job' = [job EXCEPT ![t] = Idle]

(* A command fails at the handler: connect_device and its set_psd record the  *)
(* error and publish it; the other handlers pass it on.  A failed connect     *)
(* closes the connection.                                                     *)
Raise(t, code) ==
  IF job[t].auto
    THEN Respond(t, "ok") /\ Publish([state EXCEPT !.error = TRUE])
    ELSE IF job[t].cmd = Hello
    THEN Respond(t, "502") /\ Publish([state EXCEPT !.connected = FALSE, !.error = TRUE])
    ELSE Respond(t, code) /\ UNCHANGED <<state, pushed>>

(* The requests and answers of t that nobody waits for any more. *)
Abandon(t, s) == [i \in 1 .. Len(s) |-> [s[i] EXCEPT !.who = IF @ = t THEN Nobody ELSE @]]

(* device.request up to its first await. *)
Request(t, c, auto, q) ==
  /\ job' = [job EXCEPT ![t] = [pc |-> IF q = <<>> THEN "wait" ELSE "lock", cmd |-> c, auto |-> auto]]
  /\ lock' = Append(q, t)
  /\ wire' = IF q = <<>> THEN Append(wire, [who |-> t, cmd |-> c]) ELSE wire
-------------------------------------------------------------------------------
(* The commands a POST stands for.  A body that is missing, cut off by the    *)
(* browser or no JSON object counts as {}: /api/rx fills in its defaults,     *)
(* /api/psd those of the configuration, /api/frontend nothing.                *)
Body(x, v) ==
  IF v # "none" THEN v
  ELSE CASE x = "rx" -> DefaultRx [] x = "psd" -> (IF PsdEnable THEN "on" ELSE "off")
         [] OTHER -> state.frontend

Stale == SelectSeq(wire \o answers, LAMBDA m : m.who = Nobody)
Command(t, c) ==
  /\ At(t, "idle") /\ (up => Len(Stale) < MaxStale)
  /\ IF up
       THEN Request(t, c, FALSE, lock) /\ reply' = "none" /\ UNCHANGED <<up, answers>>
       ELSE Respond(t, "502") /\ UNCHANGED link
  /\ UNCHANGED <<dev, state, pushed, known>>

PostFrontend(t, v) == Command(t, Set("frontend", Body("frontend", v)))
PostStop(t) == Command(t, StopAll)
(* Variant: state.rx is set when the command is given. *)
PostRxEager(t, v) ==
  /\ At(t, "idle") /\ up
  /\ Request(t, Set("rx", Body("rx", v)), FALSE, lock)
  /\ Publish([state EXCEPT !.rx = Body("rx", v)])
  /\ reply' = "none" /\ UNCHANGED <<up, answers, dev, known>>
PostRx(t, v) == Command(t, Set("rx", Body("rx", v)))

(* set_psd refuses to enable what the configuration has not. *)
PostPsd(t, v) ==
  IF Body("psd", v) = "on" /\ ~PsdEnable
    THEN /\ At(t, "idle") /\ Respond(t, "refused")
         /\ Publish([state EXCEPT !.psd = "off", !.error = TRUE])
         /\ UNCHANGED <<link, dev, known>>
    ELSE Command(t, Set("psd", Body("psd", v)))

(* GET /api/status: snapshot() looks at the connection first.  The other GET  *)
(* routes change nothing.                                                     *)
GetStatus ==
  /\ state' = [state EXCEPT !.connected = up]
  /\ reply' = "none" /\ UNCHANGED <<job, link, dev, pushed, known>>

(* The connection is closed.  The device may read some of what was sent, and  *)
(* then stops its streams; answers that have arrived may still be read by the *)
(* handler that waits.                                                        *)
Arrived == IF lock = <<>> THEN {<<>>} ELSE {answers, <<>>}
Drop(left) ==
  /\ up' = FALSE /\ wire' = <<>> /\ answers' \in left
  /\ \E f \in {dev.frontend} \cup {w.cmd.to : w \in {w \in Range(wire) : "frontend" \in w.cmd.of}} :
       dev' = [rx |-> "off", psd |-> "off", frontend |-> f]
  /\ known' = {}

(* POST /api/device/connect: close, then open ... *)
PostConnect(t) ==
  /\ At(t, "idle") /\ \A u \in Handlers : ~At(u, "opening") /\ (At(u, "idle") \/ job[u].cmd # Hello)
  /\ job' = [job EXCEPT ![t] = [pc |-> "opening", cmd |-> Hello, auto |-> FALSE]]
  /\ Drop(Arrived)
  /\ reply' = "none" /\ UNCHANGED <<lock, state, pushed>>

(* ... and hello, once every handler that held the old connection has run. *)
Opened(t) ==
  /\ At(t, "opening") /\ lock = <<>>
  /\ up' = TRUE
  /\ job' = [job EXCEPT ![t].pc = "wait"] /\ lock' = <<t>>
  /\ wire' = <<[who |-> t, cmd |-> Hello]>> /\ answers' = <<>>
  /\ reply' = "none" /\ UNCHANGED <<dev, state, pushed, known>>

OpenFails(t) ==
  /\ At(t, "opening") /\ Raise(t, "502")
  /\ UNCHANGED <<link, dev, known>>

(* The heartbeat, or the device, ends the connection: nothing is published. *)
Lost ==
  /\ up /\ Drop(Arrived)
  /\ reply' = "none" /\ UNCHANGED <<job, lock, state, pushed>>
-------------------------------------------------------------------------------
(* The next handler has the lock.  _writer may be None by now. *)
Granted(t) ==
  /\ At(t, "lock") /\ lock # <<>> /\ t = Head(lock)
  /\ IF up
       THEN /\ job' = [job EXCEPT ![t].pc = "wait"]
            /\ wire' = Append(wire, [who |-> t, cmd |-> job[t].cmd])
            /\ reply' = "none" /\ UNCHANGED <<lock, state, pushed, known>>
       ELSE Raise(t, "500") /\ lock' = Tail(lock) /\ Forget(job[t].cmd) /\ UNCHANGED wire
  /\ UNCHANGED <<up, answers, dev>>

(* What each handler does with a good answer: set_frontend, set_rx, set_psd   *)
(* and stop_all take over what the device applied.                            *)
Applied(s, c) ==
  [s EXCEPT !.rx = IF "rx" \in c.of THEN c.to ELSE @,
            !.psd = IF "psd" \in c.of THEN c.to ELSE @,
            !.frontend = IF "frontend" \in c.of THEN c.to ELSE @]

(* connect_device after hello: it publishes, and goes on with set_psd.        *)
(* Variant: it answers the browser and leaves the PSD for later.              *)
ConnectedBare(t) ==
  /\ Publish([state EXCEPT !.connected = TRUE, !.error = FALSE])
  /\ Respond(t, "ok") /\ lock' = Tail(lock) /\ UNCHANGED wire
Connected(t) ==
  /\ Publish([state EXCEPT !.connected = TRUE, !.error = FALSE])
  /\ IF PsdEnable
       THEN Request(t, Set("psd", "on"), TRUE, Tail(lock)) /\ reply' = "none"
       ELSE Respond(t, "ok") /\ lock' = Tail(lock) /\ UNCHANGED wire

(* The answer is the handler's own and good: the rest of the handler, up to   *)
(* its response, runs in one step.  Variant: request_id is not compared.      *)
OwnUnchecked(t, a) == a.ok
Own(t, a) == a.who = t /\ a.ok
AnswerGood(t) ==
  /\ At(t, "wait") /\ answers # <<>> /\ Own(t, Head(answers))
  /\ answers' = Tail(answers)
  /\ IF job[t].cmd = Hello
       THEN Connected(t) /\ known' = IF up THEN {"hello"} ELSE {}
       ELSE /\ Publish(Applied(state, job[t].cmd)) /\ Respond(t, "ok")
            /\ lock' = Tail(lock) /\ UNCHANGED wire
            /\ known' = IF up THEN known \cup job[t].cmd.of ELSE {}
  /\ UNCHANGED <<up, dev>>

(* The answer is an error, or another request's: DeviceClientError. *)
AnswerBad(t) ==
  /\ At(t, "wait") /\ answers # <<>> /\ ~Own(t, Head(answers))
  /\ Raise(t, "502") /\ lock' = Tail(lock)
  /\ IF job[t].cmd = Hello
       THEN Drop({<<>>})
       ELSE /\ answers' = Abandon(t, Tail(answers)) /\ wire' = Abandon(t, wire)
            /\ Forget(job[t].cmd) /\ UNCHANGED <<up, dev>>

(* 5 s without an answer (TimeoutError), or the end of the connection. *)
NoAnswer(t) ==
  /\ At(t, "wait") /\ answers = <<>>
  /\ Raise(t, IF up THEN "500" ELSE "502") /\ lock' = Tail(lock)
  /\ IF job[t].cmd = Hello
       THEN Drop({<<>>})
       ELSE /\ wire' = Abandon(t, wire) /\ Forget(job[t].cmd)
            /\ UNCHANGED <<up, answers, dev>>
-------------------------------------------------------------------------------
(* The device executes the next request.  One it refuses may be done in part. *)
Execute(ok) ==
  /\ up /\ wire # <<>> /\ wire' = Tail(wire)
  /\ LET w == Head(wire)
     IN  /\ answers' = Append(answers, [who |-> w.who, cmd |-> w.cmd, ok |-> ok])
         /\ dev' \in IF ok THEN {[x \in Settings |-> IF x \in w.cmd.of THEN w.cmd.to ELSE dev[x]]}
                     ELSE {dev, [x \in Settings |-> IF x \in w.cmd.of THEN w.cmd.to ELSE dev[x]]}
  /\ reply' = "none" /\ UNCHANGED <<job, lock, up, state, pushed, known>>

(* _handle_status and _handle_error. *)
handle_status ==
  /\ Publish(state) /\ reply' = "none" /\ UNCHANGED <<job, link, dev, known>>
handle_error ==
  /\ Publish([state EXCEPT !.error = TRUE]) /\ reply' = "none" /\ UNCHANGED <<job, link, dev, known>>

Bodies(x) == Values(x) \cup {"none"}
Post(t) ==
  \/ \E v \in Bodies("rx") : PostRx(t, v)
  \/ \E v \in Bodies("psd") : PostPsd(t, v)
  \/ \E v \in Bodies("frontend") : PostFrontend(t, v)
  \/ PostStop(t) \/ PostConnect(t)
Resume(t) == Granted(t) \/ AnswerGood(t) \/ AnswerBad(t) \/ NoAnswer(t)
Next ==
  \/ \E t \in Handlers : Post(t) \/ Resume(t) \/ Opened(t) \/ OpenFails(t)
  \/ GetStatus \/ Lost \/ handle_status \/ handle_error
  \/ \E ok \in BOOLEAN : Execute(ok)
Spec == Init /\ [][Next]_vars
-------------------------------------------------------------------------------
TypeOK ==
  /\ \A x \in Settings : dev[x] \in Values(x) /\ state[x] \in Values(x)
  /\ Range(lock) = {t \in Handlers : At(t, "lock") \/ At(t, "wait")} /\ IsInjective(lock)
  /\ known \subseteq Settings \cup {"hello"}

Pending(x) == \E r \in Range(wire) \cup Range(answers) : x \in r.cmd.of

(* What the browsers are shown is what the device has: for every setting the  *)
(* device confirmed in this session, with nothing under way and no request    *)
(* given up since, whoever gave the commands and however they interleave.     *)
ShowsDevice == \A x \in Settings \cap known : up /\ ~Pending(x) => pushed[x] = dev[x]

(* A browser is told that its command is done only when the device has done   *)
(* it and no other command has overtaken it: at that moment the device has    *)
(* the setting asked for, if it is still connected.                           *)
DoneIsDone ==
  \A t \in Handlers : up /\ job[t].pc = "wait" /\ job'[t] = Idle /\ reply' = "ok" /\ ~job[t].auto =>
    \A x \in job[t].cmd.of : dev[x] = job[t].cmd.to
DoneMeansDone == [][DoneIsDone]_vars

(* With hardware PSD configured, connecting ends with the PSD on, an error    *)
(* shown, or no connection.                                                   *)
Fresh == PsdEnable /\ known = {"hello"}
PsdSettled == "psd" \in known \/ state.error \/ ~up
PsdComesUp == Fresh ~> PsdSettled
===============================================================================
