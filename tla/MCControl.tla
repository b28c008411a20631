------------------------------- MODULE MCControl -------------------------------
(* The backend process around its data streams, for TLC: the HTTP handlers and   *)
(* the state they show (BackendRuntime), and the receiver threads from startup   *)
(* to shutdown (UdpReceivers).  bench names the one that takes steps.            *)
EXTENDS BackendRuntime

CONSTANTS Forms, MaxDatagrams

VARIABLES bench, main, socket, thread, queue, buffer, calls, stop, arrived, handled

udpVars == <<main, socket, thread, queue, buffer, calls, stop, arrived, handled>>
benchVars == <<bench, vars, udpVars>>

Udp == INSTANCE UdpProofs WITH
         Ports <- <<"iq", "psd", "status">>, MaxQueued <- MaxDatagrams

BenchInit == bench \in {"runtime", "udp"} /\ Init /\ Udp!Init

OnRuntime(step) == bench = "runtime" /\ step /\ UNCHANGED <<bench, udpVars>>
OnUdp(step) == bench = "udp" /\ step /\ UNCHANGED <<bench, vars>>
BenchNext == OnRuntime(Next) \/ OnUdp(Udp!Next)

(* Handlers that can go on do, and opening a connection ends one way or the    *)
(* other.  The threads and shutdown go on; datagrams are finite in number, so  *)
(* that no thread can keep the others from running.                            *)
BenchSpec ==
  /\ BenchInit /\ [][BenchNext]_benchVars
  /\ \A t \in Handlers : WF_benchVars(OnRuntime(Resume(t))) /\ WF_benchVars(OnRuntime(OpenFails(t)))
  /\ WF_benchVars(OnUdp(Udp!Thread \/ Udp!Stopping))
-------------------------------------------------------------------------------
(* No datagram ends a receiver thread.                                         *)
OnlyStopEnds == Udp!OnlyStopEnds

(* A callback has the payload that came with its header, in order.             *)
OwnPayload == Udp!OwnPayload

(* Shutdown ends, and with it every receiver thread.                           *)
ThreadsEnd == Udp!Closing ~> Udp!AllEnded
===============================================================================
