------------------------------ MODULE NetworkProbe ------------------------------
(* tools/network_probe.py and tools/ac920_debug_probe.py against the simulated    *)
(* AC920: a script of control commands and UDP datagrams to wait for, run as one  *)
(* of the server's clients while others come and go.  Adds to FakeServer the      *)
(* datagrams of _status_loop and _psd_loop, and the sockets of the probe.         *)
EXTENDS FakeServer

CONSTANT Probe     \* the client that is the probe

ASSUME ProbeAssumption == Probe \in Clients

VARIABLES
  script,    \* what the probe runs
  at,        \* the step it is at
  asked,     \* it has sent the step's command and waits for the answer
  blocked,   \* ports whose datagrams the network keeps from the probe
  result,    \* "new", "running", "ok" (exit status 0) or "failed"
  mail       \* port -> a datagram is in the probe's socket

probe == <<script, at, asked, blocked, result, mail>>
probeVars == <<vars, probe>>

Ask(op) == [do |-> "ask", op |-> op, port |-> "none"]
Hear(p) == [do |-> "hear", op |-> "none", port |-> p]
Listen(p) == [do |-> "listen", op |-> "none", port |-> p]

(* run_probe with its --skip options, and main of ac920_debug_probe. *)
run_probe(status, rxOn, psdOn) ==
  <<Ask("hello"), Ask("other")>> \o (IF status THEN <<Hear("status")>> ELSE <<>>)
  \o (IF rxOn THEN <<Ask("rx_on"), Hear("iq")>> ELSE <<>>)
  \o (IF psdOn THEN <<Ask("psd_on"), Hear("psd")>> ELSE <<>>) \o <<Ask("stop_all")>>
debug_probe ==
  <<Ask("hello"), Listen("status"), Ask("other"), Ask("rx_on"), Listen("status"), Listen("iq"),
    Ask("other"), Ask("stop_all")>>
Scripts == {run_probe(a, b, c) : a, b, c \in BOOLEAN} \cup {debug_probe}

ProbeInit ==
  /\ Init /\ script \in Scripts /\ at = 1 /\ asked = FALSE
  /\ blocked \in {{}} \cup {{p} : p \in Ports} /\ result = "new" /\ mail = [p \in Ports |-> FALSE]

Step == script[at]
Running(do) == result = "running" /\ at <= Len(script) /\ Step.do = do
Command == [op |-> Step.op, id |-> Min(StreamIds), cfg |-> IF Step.op = "rx_on" THEN 1 ELSE 0]
-------------------------------------------------------------------------------
(* _udp_socket for each port, then create_connection. *)
Begin ==
  /\ result = "new" /\ Connect(Probe) /\ result' = "running"
  /\ UNCHANGED <<script, blocked, at, asked, mail>>

(* _request: sendall, then readline. *)
SendCommand ==
  /\ Running("ask") /\ ~asked /\ Send(Probe, Command) /\ asked' = TRUE
  /\ UNCHANGED <<script, blocked, at, result, mail>>
ReadResponse ==
  /\ Running("ask") /\ asked /\ handler[Probe] = "serving" /\ inbox[Probe] = <<>>
  /\ asked' = FALSE /\ at' = at + 1
  /\ UNCHANGED <<vars, script, blocked, result, mail>>

(* _recv: a datagram; recv_udp: what comes in the given time. *)
Receive ==
  /\ Running("hear") \/ Running("listen")
  /\ mail[Step.port] /\ mail' = [mail EXCEPT ![Step.port] = FALSE] /\ at' = at + 1
  /\ UNCHANGED <<vars, script, blocked, asked, result>>

(* The device is about to send to the probe's port. *)
Coming(p) ==
  dest[p] = Probe /\ p \notin blocked /\
  CASE p = "iq" -> tx = "running" /\ Active # {} [] p = "psd" -> psd [] OTHER -> TRUE

(* The timeout, which is longer than the device's intervals. *)
HearsNothing ==
  /\ Running("listen") /\ ~mail[Step.port] /\ at' = at + 1
  /\ UNCHANGED <<vars, script, blocked, asked, result, mail>>
Hangs(why) ==
  /\ result' = why /\ UNCHANGED <<script, blocked, at, asked, mail>>
  /\ IF handler[Probe] # "none" /\ link[Probe] = "up"
       THEN link' = [link EXCEPT ![Probe] = "eof"] /\ UNCHANGED <<handler, inbox, server>>
       ELSE UNCHANGED vars
TimesOut == Running("hear") /\ ~mail[Step.port] /\ ~Coming(Step.port) /\ Hangs("failed")

(* The device refused the connection, or has gone. *)
Refused == result = "running" /\ handler[Probe] = "none" /\ Hangs("failed")

(* The end of the script: exit status 0, and the connection is closed. *)
Ends0 == result = "running" /\ at > Len(script) /\ Hangs("ok")
-------------------------------------------------------------------------------
(* The simulated device's datagrams reach the socket of the probe: _iq_loop,  *)
(* _psd_loop and _status_loop.                                                *)
Posted(p) == /\ mail' = [mail EXCEPT ![p] = @ \/ (dest[p] = Probe /\ p \notin blocked)]
             /\ UNCHANGED <<script, blocked, at, asked, result>>
ProbeIqLoop == IqLoop /\ Posted("iq")
PsdLoop == psd /\ dest["psd"] # None /\ Posted("psd") /\ UNCHANGED vars
(* Variant: status is sent only while a stream is on. *)
StatusLoopActive == On # {} /\ dest["status"] # None /\ Posted("status") /\ UNCHANGED vars
StatusLoop == dest["status"] # None /\ Posted("status") /\ UNCHANGED vars

(* Another client: bound, its commands are OtherOps. *)
OtherOps == {"hello", "rx_on"}
Other(c) ==
  /\ c # Probe /\ UNCHANGED probe
  /\ \/ Connect(c) \/ Drop(c)
     \/ \E r \in Requests : r.op \in OtherOps /\ Send(c, r)
Served(c) == Handle(c) /\ UNCHANGED probe

ProbeStep == SendCommand \/ ReadResponse \/ Receive \/ HearsNothing \/ TimesOut \/ Refused \/ Ends0
ProbeNext ==
  \/ Begin \/ ProbeStep \/ ProbeIqLoop \/ PsdLoop \/ StatusLoop
  \/ \E c \in Clients : Other(c) \/ Served(c)
ProbeSpec == ProbeInit /\ [][ProbeNext]_probeVars
-------------------------------------------------------------------------------
(* The probe owns the device; it has exited with 0 if no port it waits at is  *)
(* blocked, and failed otherwise.                                             *)
Heard == {script[i].port : i \in {i \in 1 .. Len(script) : script[i].do = "hear"}}
OwnsDevice == result = "running" /\ owner = Probe
Told == result = IF blocked \cap Heard = {} THEN "ok" ELSE "failed"
===============================================================================
