------------------------------ MODULE UdpReceivers ------------------------------
(* rpi/backend: the three UDP receiver threads, the event loop they post to, and  *)
(* the life of the application around them (lifespan, runtime.start and stop).    *)
(* A thread reuses one buffer; what it posts to the loop must not point into it.  *)
EXTENDS Integers, Sequences, FiniteSets

CONSTANTS
  Ports,          \* sockets in the order start() opens them
  Forms,          \* how a datagram may differ from a good one
  MaxDatagrams,   \* bound: datagrams that arrive
  MaxQueued       \* bound: datagrams in a socket

VARIABLES
  main,      \* where the event loop is in lifespan, start and stop
  socket,    \* port -> none, open, closed
  thread,    \* port -> none, recv, handle, ended
  queue,     \* port -> datagrams in the socket
  buffer,    \* port -> the thread's buffer: the datagram received last
  calls,     \* callbacks posted with call_soon_threadsafe
  stop,      \* _stop
  arrived,   \* datagrams so far; a datagram's id is its number
  handled    \* port -> the callback that ran last: [header, payload], ids

vars == <<main, socket, thread, queue, buffer, calls, stop, arrived, handled>>

Port == {Ports[i] : i \in 1 .. Len(Ports)}
Started == {p \in Port : thread[p] # "none"}
(* Steps of start() and stop(): the loop runs nothing else. *)
Blocked == {"start", "stop", "close", "join"}

(* A datagram as its header says, and with what form alters.  A status        *)
(* datagram has no header, it is JSON or not.                                 *)
Good(p, id) ==
  [id |-> id, size |-> "whole", magic |-> p, version |-> 1, header_len |-> p, frame_type |-> p,
   sample_format |-> p, count |-> 1, payload_bytes |-> IF p = "iq" THEN 4 ELSE 2, json |-> p = "status"]
Datagram(p, id, form) ==
  LET g == Good(p, id)
  IN  CASE form = "short"   -> [g EXCEPT !.size = "short"]
        [] form = "foreign" -> Good(IF p = "iq" THEN "psd" ELSE "iq", id)
        [] form = "version" -> [g EXCEPT !.version = 2, !.json = FALSE]
        [] form = "length"  -> [g EXCEPT !.payload_bytes = 3, !.json = FALSE]
        [] OTHER -> g

None == [id |-> 0]
Init ==
  /\ main = [at |-> "new", i |-> 0]
  /\ socket = [p \in Port |-> "none"] /\ thread = [p \in Port |-> "none"]
  /\ queue = [p \in Port |-> <<>>] /\ buffer = [p \in Port |-> None]
  /\ calls = <<>> /\ stop = FALSE /\ arrived = 0
  /\ handled = [p \in Port |-> [header |-> 0, payload |-> 0]]
-------------------------------------------------------------------------------
(* unpack and validate of SdrIqHeader and of SdrPsdHeader: the constants of   *)
(* each kind of header are named by the port it belongs to.                   *)
ValidIq(d) ==
  /\ d.magic = "iq" /\ d.version = 1 /\ d.header_len = "iq" /\ d.frame_type = "iq"
  /\ d.sample_format = "iq" /\ d.payload_bytes = 4 * d.count
ValidPsd(d) ==
  /\ d.magic = "psd" /\ d.version = 1 /\ d.header_len = "psd" /\ d.frame_type = "psd"
  /\ d.sample_format = "psd" /\ d.payload_bytes = 2 * d.count
Raises(p, d) == CASE p = "iq" -> ~ValidIq(d) [] p = "psd" -> ~ValidPsd(d) [] OTHER -> ~d.json

(* What _handle_iq, _handle_psd and _handle_status post: nothing for a        *)
(* datagram too short for its header; an error when unpack or json raises;    *)
(* otherwise header and a copy of the payload.  Variant: the payload is the   *)
(* view of the buffer itself.                                                 *)
View == 0
Callback(p, d, payload) == <<[port |-> p, error |-> Raises(p, d), header |-> d.id, payload |-> payload]>>
PostedView(p, d) == IF p # "status" /\ d.size = "short" THEN <<>> ELSE Callback(p, d, View)
Posted(p, d) == IF p # "status" /\ d.size = "short" THEN <<>> ELSE Callback(p, d, d.id)

(* _loop, once around: recvfrom_into ... *)
Receive(p) ==
  /\ thread[p] = "recv" /\ socket[p] = "open" /\ queue[p] # <<>>
  /\ buffer' = [buffer EXCEPT ![p] = Head(queue[p])]
  /\ queue' = [queue EXCEPT ![p] = Tail(@)]
  /\ thread' = [thread EXCEPT ![p] = "handle"]
  /\ UNCHANGED <<main, socket, calls, stop, arrived, handled>>

(* ... or its timeout of 50 ms, after which _stop is looked at, or the error  *)
(* of a socket that was closed.                                               *)
ReceiveFails(p) ==
  /\ thread[p] = "recv"
  /\ socket[p] = "closed" \/ (queue[p] = <<>> /\ stop)
  /\ thread' = [thread EXCEPT ![p] = "ended"]
  /\ UNCHANGED <<main, socket, queue, buffer, calls, stop, arrived, handled>>

(* ... and the handler.  Posting to a loop that is closed raises, in the      *)
(* handler and again in on_error.  Variant: no except Exception clause.       *)
HandleUncaught(p) ==
  /\ thread[p] = "handle"
  /\ LET posted == Posted(p, buffer[p])
         error == \E i \in 1 .. Len(posted) : posted[i].error
     IN  /\ calls' = IF error \/ main.at = "gone" THEN calls ELSE calls \o posted
         /\ thread' = [thread EXCEPT ![p] = IF stop \/ error \/ main.at = "gone" THEN "ended" ELSE "recv"]
  /\ UNCHANGED <<main, socket, queue, buffer, stop, arrived, handled>>
Handle(p) ==
  /\ thread[p] = "handle"
  /\ LET posted == Posted(p, buffer[p])
         raises == main.at = "gone" /\ posted # <<>>
     IN  /\ calls' = IF raises THEN calls ELSE calls \o posted
         /\ thread' = [thread EXCEPT ![p] = IF stop \/ raises THEN "ended" ELSE "recv"]
  /\ UNCHANGED <<main, socket, queue, buffer, stop, arrived, handled>>

(* The event loop runs the next callback: _handle_iq, _handle_psd,            *)
(* _handle_status or _handle_error.                                           *)
RunCallback ==
  /\ main.at \notin Blocked \cup {"gone"} /\ calls # <<>> /\ calls' = Tail(calls)
  /\ LET c == Head(calls)
     IN  handled' = IF c.error THEN handled
                    ELSE [handled EXCEPT ![c.port] =
                            [header |-> c.header,
                             payload |-> IF c.payload = View THEN buffer[c.port].id ELSE c.payload]]
  /\ UNCHANGED <<main, socket, thread, queue, buffer, stop, arrived>>
-------------------------------------------------------------------------------
(* lifespan.startup: start() opens one socket after the other; the first      *)
(* threads run while it does.                                                 *)
Startup ==
  /\ main.at = "new" /\ main' = [at |-> "start", i |-> 1]
  /\ UNCHANGED <<socket, thread, queue, buffer, calls, stop, arrived, handled>>

start_socket ==
  /\ main.at = "start"
  /\ socket' = [socket EXCEPT ![Ports[main.i]] = "open"]
  /\ thread' = [thread EXCEPT ![Ports[main.i]] = "recv"]
  /\ main' = IF main.i = Len(Ports) THEN [at |-> "up", i |-> 0] ELSE [main EXCEPT !.i = @ + 1]
  /\ UNCHANGED <<queue, buffer, calls, stop, arrived, handled>>

(* bind raises: startup.failed; the threads started before it stay. *)
BindFails ==
  /\ main.at = "start" /\ main' = [at |-> "failed", i |-> 0]
  /\ UNCHANGED <<socket, thread, queue, buffer, calls, stop, arrived, handled>>

(* lifespan.shutdown: runtime.stop awaits device.close() first. *)
Shutdown ==
  /\ main.at \in {"up", "failed"} /\ main' = [at |-> "closing", i |-> 0]
  /\ UNCHANGED <<socket, thread, queue, buffer, calls, stop, arrived, handled>>

(* The device is closed: the receivers' stop() begins.  Variant: close raised *)
(* and only shutdown.complete is sent.                                        *)
DeviceClosedRaising ==
  /\ main.at = "closing" /\ main' = [at |-> "down", i |-> 0]
  /\ UNCHANGED <<socket, thread, queue, buffer, calls, stop, arrived, handled>>
DeviceClosed ==
  /\ main.at = "closing" /\ main' = [at |-> "close", i |-> 0]
  /\ stop' = TRUE
  /\ UNCHANGED <<socket, thread, queue, buffer, calls, arrived, handled>>

CloseSockets ==
  /\ main.at = "close" /\ main' = [at |-> "join", i |-> 1]
  /\ socket' = [p \in Port |-> IF socket[p] = "open" THEN "closed" ELSE socket[p]]
  /\ queue' = [p \in Port |-> <<>>]
  /\ UNCHANGED <<thread, buffer, calls, stop, arrived, handled>>

(* join of thread i: it has ended, or the second is over. *)
Join ==
  /\ main.at = "join"
  /\ main' = IF main.i > Cardinality(Started) THEN [at |-> "down", i |-> 0] ELSE [main EXCEPT !.i = @ + 1]
  /\ UNCHANGED <<socket, thread, queue, buffer, calls, stop, arrived, handled>>

(* The server closes the loop after shutdown. *)
LoopCloses ==
  /\ main.at = "down" /\ main' = [at |-> "gone", i |-> 0]
  /\ UNCHANGED <<socket, thread, queue, buffer, calls, stop, arrived, handled>>

Arrive(p, form) ==
  /\ socket[p] = "open" /\ arrived < MaxDatagrams /\ Len(queue[p]) < MaxQueued
  /\ arrived' = arrived + 1
  /\ queue' = [queue EXCEPT ![p] = Append(@, Datagram(p, arrived + 1, form))]
  /\ UNCHANGED <<main, socket, thread, buffer, calls, stop, handled>>

Thread == \E p \in Port : Receive(p) \/ ReceiveFails(p) \/ Handle(p)
Stopping == DeviceClosed \/ CloseSockets \/ Join
Next ==
  \/ \E p \in Port, form \in Forms : Arrive(p, form)
  \/ Thread \/ Stopping \/ RunCallback \/ Startup \/ start_socket \/ BindFails \/ Shutdown \/ LoopCloses
Spec == Init /\ [][Next]_vars
-------------------------------------------------------------------------------
TypeOK ==
  /\ socket \in [Port -> {"none", "open", "closed"}]
  /\ thread \in [Port -> {"none", "recv", "handle", "ended"}]
  /\ main.at \in Blocked \cup {"new", "up", "failed", "closing", "down", "gone"}

(* No datagram ends a receiver thread, however it is formed: only stop() and  *)
(* the end of the event loop do.                                              *)
OnlyStopEnds == \A p \in Port : thread[p] = "ended" => stop \/ main.at = "gone"

(* A callback is given the payload that came with its header, though the      *)
(* thread has filled its buffer again since, and the callbacks of a port run  *)
(* in the order of its datagrams.                                             *)
OwnPayloads ==
  \A p \in Port : handled'[p] # handled[p] =>
    handled'[p].payload = handled'[p].header /\ handled'[p].header > handled[p].header
OwnPayload == [][OwnPayloads]_handled

(* Once the device is closed, shutdown ends, and so does every thread, also   *)
(* when join gave up on it or start() had failed half way.                    *)
Closing == main.at = "closing"
AllEnded == main.at \in {"down", "gone"} /\ \A p \in Port : thread[p] \in {"none", "ended"}
ThreadsEnd == Closing ~> AllEnded
===============================================================================
