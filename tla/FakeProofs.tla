------------------------------- MODULE FakeProofs -------------------------------
(* FakeServer keeps streams and destinations only while it has an owner, and     *)
(* serves only the owner, for any clients and streams, and with resets.  Without  *)
(* resets it keeps to Session, and without refusals its datagrams are marked.     *)
EXTENDS MCFakeServer, TLAPS

USE NoneAssumption, TuningsAssumption, SeqModAssumption

(* What the proof needs of the types. *)
RxType == [on : BOOLEAN, cfg : Nat, seq : Nat, first : BOOLEAN]
Shapes ==
  /\ handler \in [Clients -> {"none", "ready", "serving"}]
  /\ link \in [Clients -> {"up", "eof", "reset"}]
  /\ inbox \in [Clients -> Seq(Requests)]
  /\ owner \in Clients \cup {None}
  /\ dest \in [Ports -> Clients \cup {None}]
  /\ rx \in [StreamIds -> RxType]
  /\ psd \in BOOLEAN

IInv == Shapes /\ StreamsOwned /\ OnlyOwnerServes

LEMMA RequestsTyped == \A r \in Requests : r.cfg \in Nat
BY DEF Requests, Configs, Odd, Zero

LEMMA IInvInit == Init => IInv
<1> SUFFICES ASSUME Init PROVE IInv OBVIOUS
<1> USE DEF Init
<1>1. /\ handler \in [Clients -> {"none", "ready", "serving"}]
      /\ link \in [Clients -> {"up", "eof", "reset"}]
      /\ owner \in Clients \cup {None} /\ psd \in BOOLEAN
  OBVIOUS
<1>2. inbox \in [Clients -> Seq(Requests)] OBVIOUS
<1>3. dest \in [Ports -> Clients \cup {None}] OBVIOUS
<1>4. rx \in [StreamIds -> RxType] BY DEF RxType
<1>5. StreamsOwned BY DEF StreamsOwned, On
<1>6. OnlyOwnerServes BY DEF OnlyOwnerServes
<1> QED BY <1>1, <1>2, <1>3, <1>4, <1>5, <1>6 DEF IInv, Shapes

(* The steps of the network touch neither the owner nor what it owns. *)
LEMMA NetworkStep ==
  ASSUME IInv, NEW c \in Clients, Connect(c) \/ Drop(c) \/ (\E r \in Requests : Send(c, r))
  PROVE  IInv'
<1> USE DEF IInv, Shapes, server
<1>1. StreamsOwned' BY SMTT(30) DEF StreamsOwned, On, Connect, Drop, Send
<1>2. CASE Connect(c)
  BY <1>1, <1>2 DEF Connect, OnlyOwnerServes, closing
<1>3. CASE Drop(c)
  <2>1. PICK how \in {"eof", "reset"} : link' = [link EXCEPT ![c] = how]
    BY <1>3 DEF Drop
  <2>2. link[c] = "up" /\ UNCHANGED <<handler, inbox, server>> BY <1>3 DEF Drop
  <2> QED BY <1>1, <2>1, <2>2 DEF OnlyOwnerServes, closing
<1>4. ASSUME NEW r \in Requests, Send(c, r) PROVE IInv'
  <2>1. UNCHANGED <<handler, link, server>> /\ inbox' = [inbox EXCEPT ![c] = Append(inbox[c], r)]
    BY <1>4 DEF Send
  <2>2. Append(inbox[c], r) \in Seq(Requests) OBVIOUS
  <2> QED BY <1>1, <2>1, <2>2 DEF OnlyOwnerServes, closing
<1> QED BY <1>2, <1>3, <1>4

(* Refuse and Accept. *)
LEMMA BeginStep ==
  ASSUME IInv, NEW c \in Clients, Refuse(c) \/ Accept(c)
  PROVE  IInv'
<1> USE DEF IInv, Shapes, server
<1>1. CASE Refuse(c)
  <2>1. UNCHANGED server /\ Closed(c) /\ handler[c] = "ready" BY <1>1 DEF Refuse
  <2>2. inbox' \in [Clients -> Seq(Requests)] BY <2>1 DEF Closed
  <2>3. OnlyOwnerServes' BY <2>1 DEF Closed, OnlyOwnerServes, closing
  <2>4. StreamsOwned' BY <2>1 DEF StreamsOwned, On
  <2> QED BY <2>1, <2>2, <2>3, <2>4 DEF Closed
<1>2. CASE Accept(c)
  <2>1. /\ handler' = [handler EXCEPT ![c] = "serving"] /\ owner' = c
        /\ owner = None \/ link[owner] = "reset"
        /\ UNCHANGED <<link, inbox, dest, rx, psd>>
    BY <1>2 DEF Accept, Busy, closing
  <2>2. OnlyOwnerServes' BY <2>1 DEF OnlyOwnerServes, closing
  <2>3. StreamsOwned' BY <2>1 DEF StreamsOwned
  <2> QED BY <2>1, <2>2, <2>3
<1> QED BY <1>1, <1>2

(* Assigning one field of a receiver's configuration keeps its type. *)
LEMMA FieldsTyped ==
  ASSUME NEW x \in RxType, NEW g \in Nat
  PROVE  [x EXCEPT !.cfg = g] \in RxType /\ [x EXCEPT !.on = FALSE] \in RxType
BY ZenonT(60) DEF RxType

(* A command is served only while its client owns the device. *)
LEMMA ServeStep ==
  ASSUME IInv, NEW c \in Clients, Serve(c)
  PROVE  IInv'
<1> USE DEF IInv, Shapes
<1> DEFINE r == Head(inbox[c])
<1>1. owner = c BY DEF Serve, OnlyOwnerServes
<1>2. inbox[c] # <<>> /\ inbox[c] \in Seq(Requests) BY DEF Serve
<1>3. r \in Requests /\ Tail(inbox[c]) \in Seq(Requests) BY <1>2
<1>4. /\ inbox' = [inbox EXCEPT ![c] = Tail(inbox[c])]
      /\ UNCHANGED <<handler, link, owner>> /\ dispatch(c, r)
  BY DEF Serve
<1>5. inbox' \in [Clients -> Seq(Requests)] BY <1>3, <1>4
<1>6. r.cfg \in Nat BY <1>3, RequestsTyped
<1> HIDE DEF r
<1>7. dest' \in [Ports -> Clients \cup {None}] /\ rx' \in [StreamIds -> RxType] /\ psd' \in BOOLEAN
  <2>1. CASE cmd_hello(c, r)
    BY <2>1 DEF cmd_hello
  <2>2. CASE set_rx_off(r)
    BY <2>2, FieldsTyped DEF set_rx_off
  <2>3. CASE cmd_set_rx(c, r)
    <3>1. UNCHANGED <<dest, psd>> BY <2>3 DEF cmd_set_rx
    <3>2. reset_for_enable(r.id, r.cfg) \in RxType BY <1>6 DEF reset_for_enable, RxType
    <3>3. r.id \in StreamIds => [rx[r.id] EXCEPT !.cfg = r.cfg] \in RxType BY <1>6, FieldsTyped
    <3>4. \/ rx' = [rx EXCEPT ![r.id] = reset_for_enable(r.id, r.cfg)]
          \/ rx' = [rx EXCEPT ![r.id] = [rx[r.id] EXCEPT !.cfg = r.cfg]]
      BY <2>3 DEF cmd_set_rx
    <3>5. rx \in [StreamIds -> RxType] OBVIOUS
    <3>6. ASSUME NEW v, r.id \in StreamIds => v \in RxType, rx' = [rx EXCEPT ![r.id] = v]
          PROVE  rx' \in [StreamIds -> RxType]
      BY ONLY <3>5, <3>6
    <3>7. rx' \in [StreamIds -> RxType] BY ONLY <3>2, <3>3, <3>4, <3>6
    <3> QED BY <3>1, <3>7
  <2>4. CASE cmd_set_psd(c, r)
    BY <2>4 DEF cmd_set_psd
  <2>5. CASE StopAll /\ UNCHANGED dest
    BY <2>5 DEF StopAll, RxType
  <2>6. CASE UNCHANGED <<dest, rx, psd>>
    BY <2>6
  <2> QED BY <1>4, <2>1, <2>2, <2>3, <2>4, <2>5, <2>6 DEF dispatch
<1>8. StreamsOwned' BY <1>1, <1>4 DEF StreamsOwned
<1>9. OnlyOwnerServes' BY <1>4 DEF OnlyOwnerServes, closing
<1> QED BY <1>4, <1>5, <1>7, <1>8, <1>9

(* Crash and Finish: what the owner leaves is nothing. *)
LEMMA EndStep ==
  ASSUME IInv, NEW c \in Clients, Ends(c), handler[c] = "serving"
  PROVE  IInv'
<1> USE DEF IInv, Shapes
<1>1. /\ handler' = [handler EXCEPT ![c] = "none"] /\ link' = [link EXCEPT ![c] = "eof"]
      /\ inbox' = [inbox EXCEPT ![c] = <<>>]
  BY DEF Ends, Closed
<1>2. inbox' \in [Clients -> Seq(Requests)] BY <1>1
<1>3. CASE owner = c
  <2>1. owner' = None /\ psd' = FALSE /\ dest' = [p \in Ports |-> None]
        /\ rx' = [s \in StreamIds |-> [rx[s] EXCEPT !.on = FALSE]]
    BY <1>3 DEF Ends, Release, StopAll
  <2>2. rx' \in [StreamIds -> RxType] /\ \A s \in StreamIds : ~rx'[s].on BY <2>1 DEF RxType
  <2>3. StreamsOwned' BY <2>1, <2>2 DEF StreamsOwned, On
  <2>4. OnlyOwnerServes' BY <1>1, <1>3 DEF OnlyOwnerServes, closing
  <2>5. dest' \in [Ports -> Clients \cup {None}] BY <2>1
  <2> QED BY <1>1, <1>2, <2>1, <2>2, <2>3, <2>4, <2>5
<1>4. CASE owner # c
  <2>1. UNCHANGED <<owner, dest, rx, psd>> BY <1>4 DEF Ends, Release
  <2>2. StreamsOwned' BY <2>1 DEF StreamsOwned, On
  <2>3. OnlyOwnerServes' BY <1>1, <2>1 DEF OnlyOwnerServes, closing
  <2> QED BY <1>1, <1>2, <2>1, <2>2, <2>3
<1> QED BY <1>3, <1>4

(* Sending turns no stream on. *)
LEMMA IqStep ==
  ASSUME IInv, IqLoop
  PROVE  IInv'
<1> USE DEF IInv, Shapes
<1>1. UNCHANGED <<handler, link, inbox, owner, dest, psd>> BY DEF IqLoop
<1>2. rx' \in [StreamIds -> RxType]
  <2>1. ASSUME NEW s \in StreamIds
        PROVE  /\ rx[s] \in RxType /\ [rx[s] EXCEPT !.first = FALSE] \in RxType
               /\ [rx[s] EXCEPT !.first = FALSE, !.seq = (@ + 1) % SeqMod] \in RxType
    <3>1. rx[s] \in RxType OBVIOUS
    <3>2. (rx[s].seq + 1) % SeqMod \in Nat BY <3>1 DEF RxType
    <3> QED BY <3>1, <3>2 DEF RxType
  <2>2. rx' = [s \in StreamIds |->
              IF s \in Sending THEN [rx[s] EXCEPT !.first = FALSE, !.seq = (@ + 1) % SeqMod]
              ELSE IF s \in Failing /\ (\A z \in Failing : s <= z) THEN [rx[s] EXCEPT !.first = FALSE]
              ELSE rx[s]]
    BY DEF IqLoop
  <2> QED BY <2>1, <2>2
<1>3. owner # None BY DEF IqLoop, StreamsOwned, Ports
<1>4. StreamsOwned' BY <1>1, <1>3 DEF StreamsOwned
<1>5. OnlyOwnerServes' BY <1>1 DEF OnlyOwnerServes, closing
<1> QED BY <1>1, <1>2, <1>4, <1>5

LEMMA IInvNext == IInv /\ [Next]_vars => IInv'
<1> SUFFICES ASSUME IInv, [Next]_vars PROVE IInv' OBVIOUS
<1>1. ASSUME NEW c \in Clients, Connect(c) \/ Drop(c) PROVE IInv'
  BY <1>1, NetworkStep
<1>2. ASSUME NEW c \in Clients, NEW r \in Requests, Send(c, r) PROVE IInv'
  BY <1>2, NetworkStep
<1>3. ASSUME NEW c \in Clients, Handle(c) PROVE IInv'
  BY <1>3, BeginStep, ServeStep, EndStep DEF Handle, Crash, Finish
<1>4. CASE IqLoop
  BY <1>4, IqStep
<1>5. CASE UNCHANGED vars
  BY <1>5 DEF vars, IInv, Shapes, StreamsOwned, OnlyOwnerServes, On, closing
<1> QED BY <1>1, <1>2, <1>3, <1>4, <1>5 DEF Next

(* A stream is on, or a destination set, only while a client owns the         *)
(* simulated device, even when connections are reset and taken over.          *)
THEOREM FakeStreamsOwned == Spec => []StreamsOwned
<1>1. IInv => StreamsOwned BY DEF IInv
<1> QED BY <1>1, IInvInit, IInvNext, PTL DEF Spec

(* Only the owner's commands are executed. *)
THEOREM FakeOnlyOwnerServes == Spec => []OnlyOwnerServes
<1>1. IInv => OnlyOwnerServes BY DEF IInv
<1> QED BY <1>1, IInvInit, IInvNext, PTL DEF Spec
-------------------------------------------------------------------------------
(* While connections are only closed, nobody takes the device over: the        *)
(* destinations are the owner's, and the server keeps to Session.              *)
NoReset == \A c \in Clients : link[c] # "reset"
DestOwned == dest \in [Ports -> {None, owner}]
SessionInv == IInv /\ NoReset /\ DestOwned

LEMMA SessionInit == Init => SessionInv
<1> SUFFICES ASSUME Init PROVE SessionInv OBVIOUS
<1>1. NoReset BY DEF Init, NoReset
<1>2. DestOwned BY DEF Init, DestOwned
<1> QED BY <1>1, <1>2, IInvInit DEF SessionInv

LEMMA NoResetNext == ASSUME ~Resets, IInv, NoReset, [Next]_vars PROVE NoReset'
<1> USE DEF NoReset, IInv, Shapes
<1>1. ASSUME NEW c \in Clients, Connect(c) \/ (\E r \in Requests : Send(c, r)) PROVE NoReset'
  BY <1>1 DEF Connect, Send
<1>2. ASSUME NEW c \in Clients, Drop(c) PROVE NoReset'
  <2>1. link' = [link EXCEPT ![c] = "eof"] BY <1>2 DEF Drop
  <2> QED BY <2>1
<1>3. ASSUME NEW c \in Clients, Handle(c) PROVE NoReset'
  BY <1>3 DEF Handle, Refuse, Accept, Serve, Crash, Finish, Ends, Closed
<1>4. CASE IqLoop
  BY <1>4 DEF IqLoop
<1>5. CASE UNCHANGED vars
  BY <1>5 DEF vars
<1> QED BY <1>1, <1>2, <1>3, <1>4, <1>5 DEF Next

LEMMA SessionStep ==
  ASSUME ~Resets, SessionInv, [Next]_vars
  PROVE  DestOwned' /\ (Contract!Next \/ UNCHANGED <<owner, On, dest>>)
<1> USE DEF SessionInv, IInv, Shapes, DestOwned
<1>0. On' \in SUBSET Streams BY DEF On, Streams
<1>1. ASSUME NEW c \in Clients, Connect(c) \/ Drop(c) \/ Refuse(c) \/ \E r \in Requests : Send(c, r)
      PROVE  UNCHANGED <<owner, On, dest>>
  BY <1>1, SMTT(30) DEF Connect, Drop, Refuse, Send, server, On
<1>2. ASSUME NEW c \in Clients, Accept(c) PROVE DestOwned' /\ Contract!Own(c)
  <2>1. owner = None BY <1>2 DEF Accept, Busy, closing, NoReset
  <2>2. owner' = c /\ UNCHANGED <<dest, rx, psd>> BY <1>2 DEF Accept
  <2>3. On' = On BY <2>2 DEF On
  <2> QED BY <2>1, <2>2, <2>3 DEF Contract!Own
<1>3. ASSUME NEW c \in Clients, Serve(c) PROVE DestOwned' /\ Contract!Command
  <2> DEFINE r == Head(inbox[c])
  <2>1. owner = c /\ owner' = c /\ dispatch(c, r) BY <1>3 DEF Serve, OnlyOwnerServes
  <2> HIDE DEF r
  <2>2. dest' \in [Ports -> {None, c}]
    <3>1. CASE cmd_hello(c, r) BY <2>1, <3>1 DEF cmd_hello
    <3>2. CASE UNCHANGED dest BY <2>1, <3>2
    <3> QED BY <2>1, <3>1, <3>2 DEF dispatch, set_rx_off, cmd_set_rx, cmd_set_psd
  <2> QED BY <1>0, <2>1, <2>2 DEF Contract!Command
<1>4. ASSUME NEW c \in Clients, Crash(c) \/ Finish(c) PROVE DestOwned' /\ Contract!Release
  <2>1. owner = c /\ Ends(c) BY <1>4 DEF Crash, Finish, OnlyOwnerServes, closing, NoReset
  <2>2. owner' = None /\ psd' = FALSE /\ dest' = [p \in Ports |-> None]
        /\ rx' = [s \in StreamIds |-> [rx[s] EXCEPT !.on = FALSE]]
    BY <2>1 DEF Ends, Release, StopAll
  <2>3. \A s \in StreamIds : ~rx'[s].on BY <2>2 DEF RxType
  <2>4. On' = {} BY <2>2, <2>3 DEF On
  <2> QED BY <2>1, <2>2, <2>4 DEF Contract!Release, Contract!Quiet
<1>5. CASE IqLoop
  <2>1. owner # None BY <1>5 DEF IqLoop, StreamsOwned, Ports
  <2>2. UNCHANGED <<owner, dest>> BY <1>5 DEF IqLoop
  <2>3. DestOwned' BY <2>2
  <2>4. Contract!Command BY <1>0, <2>1, <2>2 DEF Contract!Command
  <2> QED BY <2>3, <2>4 DEF Contract!Next
<1>6. CASE UNCHANGED vars
  BY <1>6 DEF vars, On
<1> QED BY <1>1, <1>2, <1>3, <1>4, <1>5, <1>6 DEF Next, Handle, Contract!Next

LEMMA SessionNext == ASSUME ~Resets, SessionInv, [Next]_vars PROVE SessionInv'
BY IInvNext, NoResetNext, SessionStep DEF SessionInv

(* The first bench is a server of its own, and stays the one that runs. *)
LEMMA BenchStarts == BenchInit => Init
BY DEF BenchInit, Probing!ProbeInit, Probing!Init, Init, Ports, Probing!Ports, NoDatagram, Probing!NoDatagram

LEMMA BenchStep == [BenchNext]_benchVars => bench' = bench /\ (bench = "close" => [Next]_vars)
BY DEF BenchNext, benchVars, probeVars

(* While no connection is reset _handle_client, the commands and the end of a *)
(* connection keep to the control protocol's session.                         *)
THEOREM FakeKeepsSession == ASSUME ~Resets PROVE BenchSpec => KeepsSession
<1> DEFINE I == bench = "close" => SessionInv
           Kept == bench = "close" => Contract!Next \/ UNCHANGED <<owner, On, dest>>
<1>1. BenchInit => I BY BenchStarts, SessionInit
<1>2. I /\ [BenchNext]_benchVars => I' /\ Kept BY BenchStep, SessionNext, SessionStep
<1> HIDE DEF I
<1> QED BY <1>1, <1>2, PTL DEF BenchSpec, KeepsSession
-------------------------------------------------------------------------------
(* A stream that is on has sent nothing and is at its flagged start, or has    *)
(* sent last as it is set now: no request is refused half way.                 *)
Fresh(r) == r.first /\ r.seq = 0
UpToDate ==
  \A s \in StreamIds :
    rx[s].on => IF out[s] = NoDatagram THEN Fresh(rx[s]) ELSE out[s].cfg = rx[s].cfg /\ out[s].to = owner
Accepted == \A s \in StreamIds : rx[s].cfg \in 1 .. Tunings
OutShape == out = [s \in StreamIds |-> out[s]]
MarkInv == SessionInv /\ OutShape /\ Accepted /\ UpToDate /\ Marked

LEMMA RequestsAccepted == ASSUME ~Refusals PROVE \A r \in Requests : r.op = "rx_on" => r.cfg \in 1 .. Tunings
BY DEF Requests, Configs, Ops

LEMMA MarkInit == Init => MarkInv
<1> SUFFICES ASSUME Init PROVE MarkInv OBVIOUS
<1>1. OutShape BY DEF Init, OutShape
<1>2. Accepted BY DEF Init, Accepted
<1>3. UpToDate BY DEF Init, UpToDate
<1>4. Marked BY DEF Init, Marked, NoDatagram
<1> QED BY <1>1, <1>2, <1>3, <1>4, SessionInit DEF MarkInv

(* stop_all and the end of a connection turn every stream off. *)
LEMMA StopsMarked == ASSUME MarkInv, StopAll PROVE OutShape' /\ Accepted' /\ UpToDate' /\ Marked'
<1>1. rx' = [s \in StreamIds |-> [rx[s] EXCEPT !.on = FALSE]] /\ out' = [s \in StreamIds |-> NoDatagram]
  BY DEF StopAll
<1>2. \A s \in StreamIds : rx'[s].on = FALSE /\ rx'[s].cfg = rx[s].cfg
  BY <1>1 DEF MarkInv, SessionInv, IInv, Shapes, RxType
<1>3. OutShape' BY <1>1 DEF OutShape
<1>4. Accepted' BY <1>2 DEF Accepted, MarkInv
<1>5. UpToDate' BY <1>2 DEF UpToDate
<1>6. Marked' BY <1>1 DEF Marked, NoDatagram
<1> QED BY <1>3, <1>4, <1>5, <1>6

(* A command to one stream, and its last datagram with it. *)
LEMMA SetsMarked ==
  ASSUME MarkInv, NEW i, NEW v, rx' = [rx EXCEPT ![i] = v], out' = [out EXCEPT ![i] = NoDatagram],
         i \in StreamIds => v.cfg \in 1 .. Tunings /\ (v.on => Fresh(v)), owner' = owner
  PROVE  OutShape' /\ Accepted' /\ UpToDate' /\ Marked'
<1>1. rx \in [StreamIds -> RxType] BY DEF MarkInv, SessionInv, IInv, Shapes
<1>2. OutShape' BY DEF MarkInv, OutShape
<1>3. \A s \in StreamIds : IF s = i THEN rx'[s] = v /\ out'[s] = NoDatagram ELSE rx'[s] = rx[s] /\ out'[s] = out[s]
  BY <1>1 DEF MarkInv, OutShape
<1>4. Accepted' BY <1>3 DEF MarkInv, Accepted
<1>5. UpToDate' BY <1>3 DEF MarkInv, UpToDate
<1>6. Marked' BY <1>3, SMTT(30) DEF MarkInv, Marked, NoDatagram
<1> QED BY <1>2, <1>4, <1>5, <1>6

LEMMA ServesMarked ==
  ASSUME ~Refusals, MarkInv, NEW c \in Clients, Serve(c)
  PROVE  OutShape' /\ Accepted' /\ UpToDate' /\ Marked'
<1> DEFINE r == Head(inbox[c])
<1>1. r \in Requests
  <2>1. inbox[c] \in Seq(Requests) /\ inbox[c] # <<>> BY DEF Serve, MarkInv, SessionInv, IInv, Shapes
  <2> QED BY <2>1
<1>2. dispatch(c, r) /\ owner' = owner BY DEF Serve
<1>3. r.op = "rx_on" => r.cfg \in 1 .. Tunings BY <1>1, RequestsAccepted
<1> HIDE DEF r
<1>4. rx \in [StreamIds -> RxType] BY DEF MarkInv, SessionInv, IInv, Shapes
<1>5. CASE UNCHANGED <<rx, out>>
  BY <1>2, <1>5 DEF MarkInv, OutShape, Accepted, UpToDate, Marked
<1>6. CASE set_rx_off(r)
  <2> DEFINE v == [rx[r.id] EXCEPT !.on = FALSE]
  <2>1. rx' = [rx EXCEPT ![r.id] = v] /\ out' = [out EXCEPT ![r.id] = NoDatagram] BY <1>6 DEF set_rx_off
  <2>2. r.id \in StreamIds => v.cfg \in 1 .. Tunings /\ ~v.on BY <1>4 DEF MarkInv, Accepted, RxType
  <2> HIDE DEF v
  <2> QED BY <1>2, <2>1, <2>2, SetsMarked
<1>7. CASE r.op = "rx_on" /\ cmd_set_rx(c, r)
  <2> DEFINE v == reset_for_enable(r.id, r.cfg)
  <2>1. rx' = [rx EXCEPT ![r.id] = v] /\ out' = [out EXCEPT ![r.id] = NoDatagram] BY <1>3, <1>7 DEF cmd_set_rx
  <2>2. v.cfg \in 1 .. Tunings /\ Fresh(v) BY <1>3, <1>7 DEF reset_for_enable, Fresh
  <2> HIDE DEF v
  <2> QED BY <1>2, <2>1, <2>2, SetsMarked
<1>8. CASE StopAll
  BY <1>8, StopsMarked
<1> QED BY <1>2, <1>5, <1>6, <1>7, <1>8 DEF dispatch, cmd_hello, cmd_set_psd

(* The first datagram after a command is the flagged start; the others say    *)
(* and go where the one before did.                                           *)
LEMMA IqMarked == ASSUME MarkInv, IqLoop PROVE OutShape' /\ Accepted' /\ UpToDate' /\ Marked'
<1>1. rx \in [StreamIds -> RxType] BY DEF MarkInv, SessionInv, IInv, Shapes
<1>2. Failing = {}
  BY DEF Failing, Active, Zero, MarkInv, Accepted
<1>3. Sending = Active BY <1>2 DEF Sending
<1>4. dest["iq"] = owner /\ owner # None /\ owner' = owner
  BY DEF IqLoop, MarkInv, SessionInv, DestOwned, Ports
<1>5. ASSUME NEW s \in StreamIds
      PROVE  IF rx[s].on THEN /\ rx'[s].cfg = rx[s].cfg /\ out'[s] = Datagram(s)
                         ELSE rx'[s] = rx[s] /\ out'[s] = out[s]
  <2>1. rx'[s] = IF rx[s].on THEN [rx[s] EXCEPT !.first = FALSE, !.seq = (@ + 1) % SeqMod] ELSE rx[s]
    BY <1>2, <1>3 DEF IqLoop, Active
  <2>2. out'[s] = IF rx[s].on THEN Datagram(s) ELSE out[s] BY <1>3 DEF IqLoop, Active
  <2>3. rx[s] \in RxType BY <1>1
  <2> QED BY <2>1, <2>2, <2>3 DEF RxType
<1>6. OutShape' BY DEF IqLoop, OutShape
<1>7. Accepted' BY <1>5 DEF MarkInv, Accepted
<1>8. UpToDate'
  <2> SUFFICES ASSUME NEW s \in StreamIds, rx'[s].on
               PROVE  out'[s] # NoDatagram /\ out'[s].cfg = rx'[s].cfg /\ out'[s].to = owner
    BY <1>4 DEF UpToDate
  <2>1. rx[s].on BY <1>5
  <2>2. out'[s] = Datagram(s) /\ rx'[s].cfg = rx[s].cfg BY <1>5, <2>1
  <2> QED BY <1>4, <2>2, SMTT(30) DEF Datagram, NoDatagram
<1>9. Marked'
  <2> SUFFICES ASSUME NEW s \in StreamIds, out'[s].changed PROVE out'[s].first /\ out'[s].seq = 0
    BY DEF Marked
  <2>1. CASE ~rx[s].on BY <1>5, <2>1 DEF MarkInv, Marked
  <2>2. CASE rx[s].on
    <3>1. out'[s] = Datagram(s) BY <1>5, <2>2
    <3>2. out[s] = NoDatagram
      <4>1. out[s] # NoDatagram => out[s].cfg = rx[s].cfg /\ out[s].to = dest["iq"]
        BY <1>4, <2>2 DEF MarkInv, UpToDate
      <4> DEFINE changed == out[s] = NoDatagram \/ out[s].cfg # rx[s].cfg \/ out[s].to # dest["iq"]
      <4>2. Datagram(s) = [to |-> dest["iq"], cfg |-> rx[s].cfg, seq |-> rx[s].seq, first |-> rx[s].first,
                           changed |-> changed]
        BY Zenon DEF Datagram
      <4>3. changed \in BOOLEAN OBVIOUS
      <4> HIDE DEF changed
      <4>4. changed BY <3>1, <4>2, <4>3, SMTT(30)
      <4> QED BY <4>1, <4>4 DEF changed
    <3>3. Fresh(rx[s]) BY <2>2, <3>2 DEF MarkInv, UpToDate
    <3> QED BY <3>1, <3>3, SMTT(30) DEF Datagram, Fresh
  <2> QED BY <2>1, <2>2
<1> QED BY <1>6, <1>7, <1>8, <1>9

LEMMA MarkNext == ASSUME ~Resets, ~Refusals, MarkInv, [Next]_vars PROVE MarkInv'
<1>1. SessionInv' BY SessionNext DEF MarkInv
<1> SUFFICES OutShape' /\ Accepted' /\ UpToDate' /\ Marked' BY <1>1 DEF MarkInv
<1>2. ASSUME UNCHANGED <<rx, out, owner>> PROVE OutShape' /\ Accepted' /\ UpToDate' /\ Marked'
  BY <1>2 DEF MarkInv, OutShape, Accepted, UpToDate, Marked
<1>3. ASSUME NEW c \in Clients, Connect(c) \/ Drop(c) \/ Refuse(c) \/ \E r \in Requests : Send(c, r)
      PROVE  UNCHANGED <<rx, out, owner>>
  BY <1>3 DEF Connect, Drop, Refuse, Send, server
<1>4. ASSUME NEW c \in Clients, Accept(c) PROVE OutShape' /\ Accepted' /\ UpToDate' /\ Marked'
  <2>1. owner = None /\ UNCHANGED <<rx, out>>
    BY <1>4 DEF Accept, Busy, closing, MarkInv, SessionInv, NoReset, IInv, Shapes
  <2>2. \A s \in StreamIds : ~rx[s].on BY <2>1 DEF MarkInv, SessionInv, IInv, StreamsOwned, On
  <2> QED BY <2>1, <2>2 DEF MarkInv, OutShape, Accepted, UpToDate, Marked
<1>5. ASSUME NEW c \in Clients, Crash(c) \/ Finish(c) PROVE StopAll
  BY <1>5 DEF Crash, Finish, Ends, Release, OnlyOwnerServes, closing, NoReset, MarkInv, SessionInv, IInv
<1> QED BY <1>2, <1>3, <1>4, <1>5, StopsMarked, ServesMarked, IqMarked DEF Next, Handle, vars

(* While no connection is reset and no set_rx refused, a new tuning or         *)
(* destination always shows as a new sequence with CONFIG_CHANGED.             *)
THEOREM FakeChangesMarked == ASSUME ~Resets, ~Refusals PROVE BenchSpec => []ChangesMarked
<1> DEFINE I == bench = "close" => MarkInv
<1>1. BenchInit => I BY BenchStarts, MarkInit
<1>2. I /\ [BenchNext]_benchVars => I' BY BenchStep, MarkNext
<1>3. I => ChangesMarked BY DEF MarkInv, ChangesMarked
<1> HIDE DEF I
<1> QED BY <1>1, <1>2, <1>3, PTL DEF BenchSpec
===============================================================================
