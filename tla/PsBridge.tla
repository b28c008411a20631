-------------------------------- MODULE PsBridge --------------------------------
(* The control side of the PS program: ps/baremetal/src/ac920_sdr_main.c accepts  *)
(* connections and cuts what it receives into lines, sdr_control.c executes them, *)
(* sdr_hw_ac920.c keeps the UDP peer and the DMA.  One thread runs lwIP's         *)
(* callbacks and the two polls to their ends, so each is one action.  IqPath      *)
(* refines set_rx, stop_all and the IQ poll down to register writes and words.    *)
(*                                                                                *)
(* A client stands for its IP address.  A tuning is all of set_rx's fields.  The  *)
(* front end, counters and the texts of responses are left out.                   *)
EXTENDS Naturals

CONSTANTS Clients, None,
          Tunings,    \* configurations set_rx accepts
          LineSize    \* sizeof(conn->line) = 2048

VARIABLES
  open,      \* clients with a connection
  used,      \* client -> conn->used
  peer_ip,   \* control->peer_ip, None: the default
  addr,      \* g_udp_addr, None: no hello yet, the ports are 0
  asked,     \* the client whose hello set addr, if it named no destination
  hello_seen,
  rx,        \* control->rx: [on, cfg]
  core,      \* the registers: [on, cfg]
  dma,       \* "off", "armed", or "idle" (running, not armed)
  fault,     \* the last set_rx failed to start the DMA
  out        \* the last IQ datagram: [to, cfg]

session == <<open, used>>
peer == <<peer_ip, addr, asked, hello_seen>>
stream == <<rx, core, dma, fault>>
vars == <<session, peer, stream, out>>

Off == [on |-> FALSE, cfg |-> 0]

Init ==
  /\ open = {} /\ used = [c \in Clients |-> 0]
  /\ peer_ip = None /\ addr = None /\ asked = None /\ hello_seen = FALSE
  /\ rx = Off /\ core = Off /\ dma = "off" /\ fault = FALSE
  /\ out = [to |-> None, cfg |-> 0]
-------------------------------------------------------------------------------
(* sdr_tcp_accept: any number of clients; the latest one's address is kept. *)
Accept(c) ==
  /\ c \notin open
  /\ open' = open \cup {c}
  /\ peer_ip' = c
  /\ UNCHANGED <<used, addr, asked, hello_seen, stream, out>>

(* sdr_tcp_recv with no pbuf, and sdr_tcp_err: the connection is forgotten,   *)
(* nothing else happens.                                                      *)
Close(c) ==
  /\ c \in open
  /\ open' = open \ {c} /\ used' = [used EXCEPT ![c] = 0]
  /\ UNCHANGED <<peer, stream, out>>

(* sdr_tcp_recv, a character of a line: a full buffer is answered and emptied *)
(* and the character is lost.                                                 *)
Character(c) ==
  /\ c \in open
  /\ used' = [used EXCEPT ![c] = IF @ + 1 >= LineSize THEN 0 ELSE @ + 1]
  /\ UNCHANGED <<open, peer, stream, out>>
-------------------------------------------------------------------------------
(* The commands of sdr_control.c.  A hello is refused before or after some    *)
(* ports of control->udp_peer are assigned; sdr_hw_set_udp_peer alone takes   *)
(* them into use, all of them or none.                                        *)
cmd_hello(c, to) ==
  /\ addr' = IF to = None THEN peer_ip ELSE to
  /\ asked' = IF to = None THEN c ELSE None
  /\ hello_seen' = TRUE
  /\ UNCHANGED <<peer_ip, stream>>

hello_refused == UNCHANGED <<peer, stream>>

(* cmd_set_rx, every field in range: stop, program, start.  A start that      *)
(* fails turns the stream off and leaves control->rx.  Variant: the registers *)
(* stay on.                                                                   *)
set_rx_on_keeps(g, ok) ==
  /\ core' = [on |-> TRUE, cfg |-> g]
  /\ dma' = IF ok THEN "armed" ELSE "idle"
  /\ fault' = ~ok
  /\ rx' = IF ok THEN [on |-> TRUE, cfg |-> g] ELSE rx
  /\ UNCHANGED peer
set_rx_on(g, ok) ==
  /\ core' = [on |-> ok, cfg |-> g]
  /\ dma' = IF ok THEN "armed" ELSE "idle"
  /\ fault' = ~ok
  /\ rx' = IF ok THEN [on |-> TRUE, cfg |-> g] ELSE rx
  /\ UNCHANGED peer

stop_all ==
  /\ rx' = [rx EXCEPT !.on = FALSE]
  /\ core' = [core EXCEPT !.on = FALSE] /\ dma' = "off"
  /\ UNCHANGED <<fault, peer>>

(* ping, get_status, set_frontend, set_psd, and every request that is refused *)
other == UNCHANGED <<peer, stream>>

handle_line(c) ==
  \/ \E to \in Clients \cup {None} : cmd_hello(c, to)
  \/ hello_refused
  \/ \E g \in 1 .. Tunings, ok \in BOOLEAN : set_rx_on(g, ok)
  \/ stop_all
  \/ other

(* sdr_tcp_recv, the end of a line: sdr_tcp_handle_line.  What is left of a   *)
(* line that was too long is executed like any other.                         *)
EndOfLine(c) ==
  /\ c \in open
  /\ handle_line(c)
  /\ used' = [used EXCEPT ![c] = 0]
  /\ UNCHANGED <<open, out>>
-------------------------------------------------------------------------------
(* sdr_hw_ac920_poll_iq_dma once a transfer is complete: forward, re-arm. *)
PollIq(ok) ==
  /\ dma = "armed" /\ core.on
  /\ out' = IF hello_seen /\ rx.on THEN [to |-> addr, cfg |-> core.cfg] ELSE out
  /\ dma' = IF ok THEN "armed" ELSE "idle"
  /\ UNCHANGED <<session, peer, rx, core, fault>>

Next ==
  \/ \E c \in Clients : Accept(c) \/ Close(c) \/ Character(c) \/ EndOfLine(c)
  \/ \E ok \in BOOLEAN : PollIq(ok)
Spec == Init /\ [][Next]_vars
-------------------------------------------------------------------------------
(* The values have their types; a line never fills its buffer. *)
TypeOK ==
  /\ open \subseteq Clients
  /\ used \in [Clients -> 0 .. LineSize - 1]
  /\ peer_ip \in Clients \cup {None} /\ addr \in Clients \cup {None} /\ asked \in Clients \cup {None}
  /\ hello_seen \in BOOLEAN /\ fault \in BOOLEAN
  /\ rx \in [on : BOOLEAN, cfg : 0 .. Tunings] /\ core \in [on : BOOLEAN, cfg : 0 .. Tunings]
  /\ dma \in {"off", "armed", "idle"}
  /\ out \in [to : Clients \cup {None}, cfg : 0 .. Tunings]

(* What the program takes the stream to be and what the hardware does agree:  *)
(* while the FPGA runs, the stream is on with the tuning of the registers and *)
(* the DMA runs; while the stream is on the FPGA runs, unless the last set_rx *)
(* failed to start the DMA.                                                   *)
HardwareAgrees ==
  /\ core.on => rx.on /\ rx.cfg = core.cfg /\ dma # "off"
  /\ rx.on => core.on \/ fault

(* After a hello without a destination the datagrams go to the client that    *)
(* sent it.                                                                   *)
OwnAddress == asked # None => addr = asked
===============================================================================
