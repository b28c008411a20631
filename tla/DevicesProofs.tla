----------------------------- MODULE DevicesProofs -----------------------------
(* CosimServer implements Session, and the PS program and its hardware agree     *)
(* about the stream, for any set of clients, tunings and line length.            *)
EXTENDS MCDevices, TLAPS

USE NoneAssumption, FrameSpanAssumption, MaxInboxAssumption

LEMMA OwnedInit == Init => Owned
<1> SUFFICES ASSUME Init PROVE Owned OBVIOUS
<1>1. queue \in Seq(Clients) /\ client \in Clients \cup {None} /\ pc # "read" BY DEF Init
<1>2. rx = FALSE /\ psd \in [on : BOOLEAN, seq : Nat, new : BOOLEAN] /\ ~psd.on BY DEF Init
<1>3. dest \in [Ports -> {None, client}] BY DEF Init, NoDest
<1> QED BY <1>1, <1>2, <1>3 DEF Owned

LEMMA OwnedNext == Owned /\ [Next]_vars => Owned'
<1> SUFFICES ASSUME Owned, [Next]_vars PROVE Owned' OBVIOUS
<1> USE DEF Owned, net, control
<1>1. ASSUME NEW c \in Clients, Connect(c) PROVE Owned'
  BY <1>1 DEF Connect
<1>2. ASSUME NEW c \in Clients, Hangup(c) PROVE Owned'
  BY <1>2 DEF Hangup
<1>3. ASSUME NEW c \in Clients, NEW r \in Requests, Send(c, r) PROVE Owned'
  BY <1>3 DEF Send
<1>4. CASE Poll
  <2>1. CASE queue = <<>>
    BY <1>4, <2>1 DEF Poll, Readable
  <2>2. CASE queue # <<>> /\ client # None
    <3>1. UNCHANGED <<client, dest, rx, psd>> /\ queue' = Tail(queue)
      BY <1>4, <2>2 DEF Poll, accept_client
    <3>2. queue' \in Seq(Clients) BY <2>2, <3>1
    <3> QED BY <2>2, <3>1, <3>2
  <2>3. CASE queue # <<>> /\ client = None
    <3>1. Head(queue) \in Clients BY <2>3
    <3>2. client' = Head(queue) /\ queue' = Tail(queue) /\ UNCHANGED <<dest, rx, psd>>
      BY <1>4, <2>3 DEF Poll, accept_client
    <3>3. dest' \in [Ports -> {None, client'}] BY <2>3, <3>2
    <3>4. queue' \in Seq(Clients) BY <2>3, <3>2
    <3>5. client' # None BY <3>1, <3>2
    <3> QED BY <3>1, <3>2, <3>3, <3>4, <3>5
  <2> QED BY <2>1, <2>2, <2>3
<1>5. CASE ReadLine
  <2> DEFINE r == Head(inbox[client])
  <2>1. client # None /\ handle_request(r) /\ UNCHANGED <<pc, queue, client>>
    BY <1>5 DEF ReadLine
  <2> HIDE DEF r
  <2>2. CASE handle_hello(r)
    BY <2>1, <2>2 DEF handle_hello, NoDest
  <2>3. CASE handle_set_rx(r)
    BY <2>1, <2>3 DEF handle_set_rx
  <2>4. CASE handle_set_psd(r)
    BY <2>1, <2>4 DEF handle_set_psd
  <2>5. CASE stop_all
    BY <2>1, <2>5 DEF stop_all
  <2>6. CASE UNCHANGED <<dest, rx, psd>>
    BY <2>1, <2>6
  <2> QED BY <2>1, <2>2, <2>3, <2>4, <2>5, <2>6 DEF handle_request
<1>6. CASE ReadDone
  BY <1>6 DEF ReadDone
<1>7. CASE ReadEnd
  <2>1. client' = None /\ dest' = NoDest /\ rx' = FALSE /\ UNCHANGED queue /\ pc' = "run"
    BY <1>7 DEF ReadEnd, close_control
  <2>2. psd' = [psd EXCEPT !.on = FALSE] BY <1>7 DEF ReadEnd, close_control
  <2>3. dest' \in [Ports -> {None, client'}] BY <2>1 DEF NoDest
  <2> QED BY <2>1, <2>2, <2>3
<1>8. ASSUME NEW due \in BOOLEAN, EndTurn(due) PROVE Owned'
  <2>1. (psd.seq + 1) % FrameSpan \in Nat OBVIOUS
  <2>2. UNCHANGED <<client, queue, rx, dest>> /\ pc' = "poll" /\ (due => dest["psd"] # None)
    BY <1>8 DEF EndTurn
  <2>3. CASE due
    <3>1. psd' = [psd EXCEPT !.new = FALSE, !.seq = (psd.seq + 1) % FrameSpan]
      BY <1>8, <2>3 DEF EndTurn
    <3>2. psd' \in [on : BOOLEAN, seq : Nat, new : BOOLEAN] /\ psd'.on = psd.on BY <2>1, <3>1
    <3> QED BY <2>2, <3>2
  <2>4. CASE ~due
    BY <1>8, <2>2, <2>4 DEF EndTurn
  <2> QED BY <2>3, <2>4
<1>9. CASE UNCHANGED vars
  BY <1>9 DEF vars
<1> QED BY <1>1, <1>2, <1>3, <1>4, <1>5, <1>6, <1>7, <1>8, <1>9 DEF Next, Server

(* Every reachable state of the cosimulation server is Owned. *)
THEOREM CosimOwned == Spec => []Owned
BY OwnedInit, OwnedNext, PTL DEF Spec

(* A step of the server is a step of the session or leaves it as it is. *)
LEMMA StepSimulation == Owned /\ Owned' /\ [Next]_vars => [Contract!Next]_(Contract!vars)
<1> SUFFICES ASSUME Owned, Owned', [Next]_vars PROVE [Contract!Next]_(Contract!vars) OBVIOUS
<1> USE DEF Owned, net, control, Contract!vars
<1>0. ASSUME UNCHANGED <<client, dest, rx>>, psd'.on = psd.on PROVE UNCHANGED Contract!vars
  BY <1>0 DEF On
<1>1. ASSUME NEW c \in Clients, Connect(c) \/ Hangup(c) PROVE UNCHANGED Contract!vars
  BY <1>1, <1>0 DEF Connect, Hangup
<1>2. ASSUME NEW c \in Clients, NEW r \in Requests, Send(c, r) PROVE UNCHANGED Contract!vars
  BY <1>2, <1>0 DEF Send
<1>3. CASE Poll
  <2>1. CASE queue = <<>> \/ client # None
    BY <1>3, <2>1, <1>0 DEF Poll, accept_client
  <2>2. CASE queue # <<>> /\ client = None
    <3>1. Head(queue) \in Clients BY <2>2
    <3>2. client' = Head(queue) /\ UNCHANGED <<dest, rx, psd>>
      BY <1>3, <2>2 DEF Poll, accept_client
    <3>3. On' = On BY <3>2 DEF On
    <3>4. Contract!Own(Head(queue)) BY <2>2, <3>2, <3>3 DEF Contract!Own
    <3> QED BY <3>1, <3>4 DEF Contract!Next
  <2> QED BY <2>1, <2>2
<1>4. CASE ReadLine
  <2>1. client # None /\ UNCHANGED client BY <1>4 DEF ReadLine
  <2>2. On' \in SUBSET {"iq", "psd"} BY DEF On
  <2>3. dest' \in [Ports -> {None, client}] BY <2>1
  <2>4. Contract!Command BY <2>1, <2>2, <2>3 DEF Contract!Command
  <2> QED BY <2>4 DEF Contract!Next
<1>5. CASE ReadDone
  BY <1>5, <1>0 DEF ReadDone
<1>6. CASE ReadEnd
  <2>1. client # None BY <1>6 DEF ReadEnd
  <2>2. client' = None /\ dest' = NoDest BY <1>6 DEF ReadEnd, close_control
  <2>3. On' = {} BY <2>2 DEF On
  <2>4. Contract!Release BY <2>1, <2>2, <2>3 DEF Contract!Release, Contract!Quiet, NoDest
  <2> QED BY <2>4 DEF Contract!Next
<1>7. ASSUME NEW due \in BOOLEAN, EndTurn(due) PROVE UNCHANGED Contract!vars
  <2>1. psd'.on = psd.on BY <1>7 DEF EndTurn
  <2> QED BY <1>7, <2>1, <1>0 DEF EndTurn
<1>8. CASE UNCHANGED vars
  BY <1>8, <1>0 DEF vars
<1> QED BY <1>1, <1>2, <1>3, <1>4, <1>5, <1>6, <1>7, <1>8 DEF Next, Server

(* The cosimulation server implements the session of the control protocol:    *)
(* whatever the clients do, streams and destinations are the client's, and    *)
(* none outlives its connection.                                              *)
THEOREM CosimContract == Spec => SessionContract
<1>1. Init => Contract!Init
  <2> SUFFICES ASSUME Init PROVE Contract!Init OBVIOUS
  <2>1. client = None /\ dest = NoDest /\ On = {} BY DEF Init, On
  <2> QED BY <2>1 DEF Contract!Init, Contract!Quiet, NoDest
<1> QED BY <1>1, CosimOwned, StepSimulation, PTL DEF Spec, SessionContract, Contract!Spec
-------------------------------------------------------------------------------
(* The PS program.  Ps!HardwareAgrees is inductive once rx and core are known  *)
(* to be records.                                                              *)
BridgeInv ==
  /\ psRx \in [on : BOOLEAN, cfg : Nat] /\ core \in [on : BOOLEAN, cfg : Nat]
  /\ Ps!HardwareAgrees

LEMMA BridgeInit == Ps!Init => BridgeInv
BY DEF Ps!Init, Ps!Off, BridgeInv, Ps!HardwareAgrees

(* The commands are the only steps that change rx, core and fault. *)
LEMMA CommandsAgree == ASSUME BridgeInv, NEW c \in Clients, Ps!handle_line(c) PROVE BridgeInv'
<1> USE DEF BridgeInv, Ps!HardwareAgrees, Ps!stream
<1>1. CASE \E to \in Clients \cup {None} : Ps!cmd_hello(c, to)
  BY <1>1 DEF Ps!cmd_hello
<1>2. CASE Ps!hello_refused \/ Ps!other
  BY <1>2 DEF Ps!hello_refused, Ps!other
<1>3. ASSUME NEW g \in 1 .. Tunings, NEW ok \in BOOLEAN, Ps!set_rx_on(g, ok) PROVE BridgeInv'
  BY <1>3 DEF Ps!set_rx_on
<1>4. CASE Ps!stop_all
  BY <1>4 DEF Ps!stop_all
<1> QED BY <1>1, <1>2, <1>3, <1>4 DEF Ps!handle_line

LEMMA BridgeNext == BridgeInv /\ [Ps!Next]_psVars => BridgeInv'
<1> SUFFICES ASSUME BridgeInv, [Ps!Next]_psVars PROVE BridgeInv' OBVIOUS
<1>1. ASSUME NEW c \in Clients, Ps!Accept(c) \/ Ps!Close(c) \/ Ps!Character(c) PROVE BridgeInv'
  BY <1>1 DEF Ps!Accept, Ps!Close, Ps!Character, Ps!stream, BridgeInv, Ps!HardwareAgrees
<1>2. ASSUME NEW c \in Clients, Ps!EndOfLine(c) PROVE BridgeInv'
  BY <1>2, CommandsAgree DEF Ps!EndOfLine
<1>3. ASSUME NEW ok \in BOOLEAN, Ps!PollIq(ok) PROVE BridgeInv'
  BY <1>3 DEF Ps!PollIq, BridgeInv, Ps!HardwareAgrees
<1>4. CASE UNCHANGED psVars
  BY <1>4 DEF psVars, BridgeInv, Ps!HardwareAgrees
<1> QED BY <1>1, <1>2, <1>3, <1>4 DEF Ps!Next

(* While the FPGA runs, control->rx is on with the tuning of the registers and *)
(* the DMA is not reset; while control->rx is on the FPGA runs, unless the     *)
(* last cmd_set_rx failed to start the DMA: for any clients, commands, faults. *)
THEOREM BridgeAgrees == BenchSpec => []HardwareAgrees
<1>1. BenchInit => BridgeInv BY BridgeInit DEF BenchInit
<1>2. BridgeInv /\ [BenchNext]_benchVars => BridgeInv'
  <2>1. [BenchNext]_benchVars => [Ps!Next]_psVars
    BY DEF BenchNext, OnSession, OnCore, OnPs, OnIq, benchVars
  <2> QED BY <2>1, BridgeNext
<1>3. BridgeInv => HardwareAgrees BY DEF BridgeInv, HardwareAgrees
<1> QED BY <1>1, <1>2, <1>3, PTL DEF BenchSpec
===============================================================================
