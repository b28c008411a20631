-------------------------------- MODULE Session --------------------------------
(* What the control protocol promises of a device's session: one client at a     *)
(* time owns the device, only the owner's commands start streams or set where     *)
(* they go, and the end of its session stops the streams and forgets the          *)
(* destinations.  fpga/sim/verilator/sdr_cosim_server.cpp is shown to implement   *)
(* it, and simulator/fake_ac920/server.py while no connection is reset.           *)
CONSTANTS Clients, Streams, Ports, None

VARIABLES
  owner,    \* the client that owns the device, or None
  on,       \* the streams that are on
  dest      \* port -> the client whose hello set it, or None

vars == <<owner, on, dest>>

Quiet == on = {} /\ dest = [p \in Ports |-> None]

Init == owner = None /\ Quiet

Own(c) == owner = None /\ owner' = c /\ UNCHANGED <<on, dest>>

Command ==
  /\ owner # None
  /\ on' \in SUBSET Streams
  /\ dest' \in [Ports -> {None, owner}]
  /\ UNCHANGED owner

Release == owner # None /\ owner' = None /\ Quiet'

Next == (\E c \in Clients : Own(c)) \/ Command \/ Release
Spec == Init /\ [][Next]_vars
===============================================================================
