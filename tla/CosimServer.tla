------------------------------ MODULE CosimServer ------------------------------
(* fpga/sim/verilator/sdr_cosim_server.cpp: the RTL core simulated by Verilator   *)
(* behind the control protocol, a single-threaded loop of poll_network, RTL       *)
(* clock cycles and due status or PSD datagrams.  The RTL cycles, and what        *)
(* apply_stream_config does to them, are CosimCore; here the stream is on or off. *)
(* The status texts, the PSD bins and the end of the process by SIGPIPE are left  *)
(* out.                                                                           *)
EXTENDS Naturals, Sequences

CONSTANTS Clients, None,
          FrameSpan,   \* psd_.frame_seq counts modulo 2^32
          MaxInbox     \* bound: requests sent ahead

ASSUME NoneAssumption == None \notin Clients
ASSUME FrameSpanAssumption == FrameSpan \in Nat \ {0, 1}
ASSUME MaxInboxAssumption == MaxInbox \in Nat

VARIABLES
  pc,        \* "poll", "read" (read_client) or "run" (the rest of the loop)
  queue,     \* connections waiting in listen()
  link,      \* client -> "down", "up" or "closed" (by the client, not yet noticed)
  inbox,     \* client -> requests received and not yet read
  client,    \* the client of client_fd_, or None
  dest,      \* iq_dest_, psd_dest_, status_dest_: the client that set it, or None
  rx,        \* stream_.enabled
  psd        \* psd_: [on, seq, new], enabled, frame_seq, first_frame

net == <<queue, link, inbox>>
control == <<client, dest, rx, psd>>
vars == <<pc, net, control>>

Ports == {"iq", "psd", "status"}
Requests == {"hello", "hello_bad", "rx_on", "rx_off", "psd_on", "psd_off", "stop_all", "other"}
NoDest == [p \in Ports |-> None]
On == (IF rx THEN {"iq"} ELSE {}) \cup (IF psd.on THEN {"psd"} ELSE {})

Init ==
  /\ pc = "poll" /\ queue = <<>>
  /\ link = [c \in Clients |-> "down"] /\ inbox = [c \in Clients |-> <<>>]
  /\ client = None /\ dest = NoDest
  /\ rx = FALSE /\ psd = [on |-> FALSE, seq |-> 0, new |-> TRUE]
-------------------------------------------------------------------------------
(* The network. *)
Connect(c) ==
  /\ link[c] = "down"
  /\ link' = [link EXCEPT ![c] = "up"] /\ queue' = Append(queue, c)
  /\ UNCHANGED <<pc, inbox, control>>
Send(c, r) ==
  /\ link[c] = "up" /\ Len(inbox[c]) < MaxInbox
  /\ inbox' = [inbox EXCEPT ![c] = Append(@, r)]
  /\ UNCHANGED <<pc, queue, link, control>>
Hangup(c) ==
  /\ link[c] = "up"
  /\ link' = [link EXCEPT ![c] = "closed"]
  /\ UNCHANGED <<pc, queue, inbox, control>>
-------------------------------------------------------------------------------
(* poll_network: one select, then accept_client, then read_client if the      *)
(* client was readable.                                                       *)
Readable == client # None /\ (inbox[client] # <<>> \/ link[client] # "up")

accept_client(c) ==
  IF client # None
    THEN /\ link' = [link EXCEPT ![c] = "down"] /\ inbox' = [inbox EXCEPT ![c] = <<>>]
         /\ UNCHANGED client
    ELSE client' = c /\ UNCHANGED <<link, inbox>>

Poll ==
  /\ pc = "poll"
  /\ IF queue # <<>>
       THEN accept_client(Head(queue)) /\ queue' = Tail(queue)
       ELSE UNCHANGED <<client, net>>
  /\ pc' = IF Readable THEN "read" ELSE "run"
  /\ UNCHANGED <<dest, rx, psd>>

handle_hello(r) ==
  /\ dest' = IF r = "hello" THEN [p \in Ports |-> client] ELSE NoDest
  /\ UNCHANGED <<rx, psd>>
handle_set_rx(r) ==
  /\ rx' = (r = "rx_on")
  /\ UNCHANGED <<dest, psd>>
handle_set_psd(r) ==
  /\ psd' = [psd EXCEPT !.on = (r = "psd_on"), !.new = TRUE]
  /\ UNCHANGED <<dest, rx>>
stop_all ==
  /\ rx' = FALSE /\ psd' = [psd EXCEPT !.on = FALSE]
  /\ UNCHANGED dest

handle_request(r) ==
  \/ r \in {"hello", "hello_bad"} /\ handle_hello(r)
  \/ r \in {"rx_on", "rx_off"} /\ handle_set_rx(r)
  \/ r \in {"psd_on", "psd_off"} /\ handle_set_psd(r)
  \/ r = "stop_all" /\ stop_all
  \/ r = "other" /\ UNCHANGED <<dest, rx, psd>>

ReadLine ==
  /\ pc = "read" /\ inbox[client] # <<>>
  /\ handle_request(Head(inbox[client]))
  /\ inbox' = [inbox EXCEPT ![client] = Tail(@)]
  /\ UNCHANGED <<pc, queue, link, client>>

(* recv would block. *)
ReadDone ==
  /\ pc = "read" /\ inbox[client] = <<>> /\ link[client] = "up"
  /\ pc' = "run"
  /\ UNCHANGED <<net, control>>

(* close_control, at the end of the data or on an error, which may come with  *)
(* requests unread.  Variant: the destinations stay.                          *)
close_control_dest ==
  /\ client' = None
  /\ rx' = FALSE /\ psd' = [psd EXCEPT !.on = FALSE]
  /\ UNCHANGED dest
close_control ==
  /\ client' = None /\ dest' = NoDest
  /\ rx' = FALSE /\ psd' = [psd EXCEPT !.on = FALSE]

ReadEnd ==
  /\ pc = "read" /\ link[client] = "closed"
  /\ pc' = "run"
  /\ link' = [link EXCEPT ![client] = "down"] /\ inbox' = [inbox EXCEPT ![client] = <<>>]
  /\ close_control
  /\ UNCHANGED <<queue>>
-------------------------------------------------------------------------------
(* The end of a turn of run(): send_psd_frame when it is due. *)
EndTurn(due) ==
  /\ pc = "run" /\ pc' = "poll"
  /\ due => psd.on /\ dest["psd"] # None
  /\ psd' = IF due THEN [psd EXCEPT !.new = FALSE, !.seq = (@ + 1) % FrameSpan] ELSE psd
  /\ UNCHANGED <<net, client, dest, rx>>

Server == Poll \/ ReadLine \/ ReadDone \/ ReadEnd \/ \E due \in BOOLEAN : EndTurn(due)
Next ==
  \/ \E c \in Clients : Connect(c) \/ Hangup(c)
  \/ \E c \in Clients, r \in Requests : Send(c, r)
  \/ Server
Spec == Init /\ [][Next]_vars

(* The loop runs on. *)
FairSpec == Spec /\ WF_vars(Server)
-------------------------------------------------------------------------------
(* The values have their types; what is read belongs to the client. *)
TypeOK ==
  /\ pc \in {"poll", "read", "run"} /\ (pc = "read" => client # None)
  /\ client \in Clients \cup {None} /\ dest \in [Ports -> Clients \cup {None}]
  /\ link \in [Clients -> {"down", "up", "closed"}]
  /\ \A c \in Clients : Len(inbox[c]) <= MaxInbox
  /\ rx \in BOOLEAN /\ psd \in [on : BOOLEAN, seq : 0 .. FrameSpan - 1, new : BOOLEAN]

(* Why it keeps to the session contract: nobody's streams and destinations    *)
(* exist while there is no client, and those there are belong to the client.  *)
Owned ==
  /\ client \in Clients \cup {None} /\ queue \in Seq(Clients)
  /\ pc = "read" => client # None
  /\ rx \in BOOLEAN /\ psd \in [on : BOOLEAN, seq : Nat, new : BOOLEAN]
  /\ dest \in [Ports -> {None, client}]
  /\ client = None => ~rx /\ ~psd.on

(* The server implements the session of the control protocol. *)
Contract == INSTANCE Session WITH owner <- client, on <- On, Streams <- {"iq", "psd"}
SessionContract == Contract!Spec

===============================================================================
