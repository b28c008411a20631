------------------------------ MODULE MCFakeServer ------------------------------
(* Three benches of FakeServer, one of which runs: connections that are only closed, *)
(* every command and two tunings; connections that may also be reset, and rates that *)
(* are refused, with the commands of WildOps; and the probe as one of the clients.   *)
EXTENDS NetworkProbe

VARIABLE bench
benchVars == <<bench, probeVars>>

Wild == INSTANCE FakeServer WITH Tunings <- 1, SeqMod <- 1, Resets <- TRUE, Refusals <- TRUE
Probing == INSTANCE NetworkProbe WITH Tunings <- 1, SeqMod <- 1

(* Bound: the requests clients send on the second bench. *)
WildOps == {"hello", "rx_on"}
FewOps == \A c \in Clients : \A i \in 1 .. Len(inbox'[c]) : inbox'[c][i].op \in WildOps

(* On the other benches the probe waits, with its shortest script. *)
BenchInit ==
  /\ bench \in {"close", "wild", "probe"} /\ Probing!ProbeInit
  /\ bench # "probe" => script = run_probe(FALSE, FALSE, FALSE) /\ blocked = {}
BenchNext ==
  \/ bench = "close" /\ Next /\ UNCHANGED <<bench, probe>>
  \/ bench = "wild" /\ Wild!Next /\ FewOps /\ UNCHANGED <<bench, probe>>
  \/ bench = "probe" /\ Probing!ProbeNext /\ UNCHANGED bench

OnClose(step) == bench = "close" /\ step /\ UNCHANGED <<bench, probe>>
OnProbe(step) == bench = "probe" /\ step /\ UNCHANGED bench
(* Handlers and loops run; the probe goes on as long as it can. *)
BenchSpec ==
  /\ BenchInit /\ [][BenchNext]_benchVars
  /\ \A c \in Clients : WF_benchVars(OnClose(Handle(c))) /\ WF_benchVars(OnProbe(Probing!Served(c)))
  /\ WF_benchVars(OnClose(IqLoop)) /\ WF_benchVars(OnProbe(Probing!ProbeIqLoop))
  /\ WF_benchVars(OnProbe(Probing!PsdLoop)) /\ WF_benchVars(OnProbe(Probing!StatusLoop))
  /\ WF_benchVars(OnProbe(Probing!ProbeStep))
-------------------------------------------------------------------------------
(* A new tuning or destination shows as a new flagged sequence, when set_rx is *)
(* not refused.                                                                *)
ChangesMarked == bench = "close" => Marked

(* _handle_client and the commands keep to the control protocol's session.    *)
KeepsSession == [][bench = "close" => Contract!Next \/ UNCHANGED <<owner, On, dest>>]_benchVars

(* The finally block of _handle_client runs: a gone owner's streams stop.     *)
GoneStops == (bench = "close" /\ owner # None /\ link[owner] # "up") ~> (On = {})

(* network_probe's exit status tells whether the device's datagrams arrive:   *)
(* once it owns the device it exits with 0 if no port it waits at is blocked, *)
(* whatever other clients try meanwhile, and fails otherwise.                 *)
ProbeReports == (bench = "probe" /\ Probing!OwnsDevice) ~> Probing!Told
===============================================================================
