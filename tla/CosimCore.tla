------------------------------- MODULE CosimCore -------------------------------
(* The RTL side of fpga/sim/verilator/sdr_cosim_server.cpp: the core, which is    *)
(* IqPacketizer with a sink that is always ready, clocked by step_rtl, the inputs *)
(* apply_stream_config gives it, and iq_packet_, which collects the words of the  *)
(* stream until TLAST.  Every command that changes the stream ends in             *)
(* apply_stream_config, between two clock cycles.                                 *)
EXTENDS IqPacketizer, Sequences

CONSTANTS Tunings,     \* configurations set_rx is asked for
          SampleGap,   \* at least so many cycles from one IQ sample to the next
          Pulses       \* 3 cycles of ddc0_config_changed

VARIABLES
  rx,        \* stream_ and the core's inputs: [on, cfg]
  pulses,    \* config_changed_pulses_
  gap,       \* cycles before the core's next IQ sample
  packet,    \* iq_packet_
  sent       \* the header of the last complete packet since the stream was set, or NoHeader

vars == <<packetizerVars, rx, pulses, gap, packet, sent>>

Init ==
  /\ PacketizerInit
  /\ rx = [on |-> FALSE, cfg |-> 0] /\ pulses = 0 /\ gap = 0 /\ packet = <<>> /\ sent = NoHeader

(* apply_stream_config. *)
apply_stream_config(on, cfg) ==
  /\ rx' = [on |-> on, cfg |-> cfg]
  /\ pulses' = Pulses /\ packet' = <<>> /\ sent' = NoHeader
  /\ UNCHANGED <<packetizerVars, gap>>

(* handle_set_rx; stop_all and close_control keep the tuning. *)
SetRx(cfg) == apply_stream_config(TRUE, cfg)
StopStream == apply_stream_config(FALSE, rx.cfg)

(* step_rtl: a clock cycle; then the word on the stream, if there is one, is  *)
(* collected, and a complete packet is sent.                                  *)
step_rtl(sat) ==
  LET whole == Append(packet, word') IN
  /\ sat => gap = 0
  /\ AdcEdge(rx.on, pulses > 0, rx.cfg, sat, TRUE)
  /\ gap' = IF sat THEN SampleGap ELSE IF gap > 0 THEN gap - 1 ELSE 0
  /\ pulses' = IF pulses > 0 THEN pulses - 1 ELSE 0
  /\ \/ ~tvalid' /\ UNCHANGED <<packet, sent>>
     \/ tvalid' /\ ~word'.last /\ packet' = whole /\ UNCHANGED sent
     \/ tvalid' /\ word'.last /\ packet' = <<>> /\ sent' = whole[1].hdr
  /\ UNCHANGED rx

Next == (\E cfg \in 1 .. Tunings : SetRx(cfg)) \/ StopStream \/ \E sat \in BOOLEAN : step_rtl(sat)
Spec == Init /\ [][Next]_vars
FairSpec == Spec /\ WF_vars(\E sat \in BOOLEAN : step_rtl(sat)) /\ WF_vars(step_rtl(TRUE))
-------------------------------------------------------------------------------
(* The counters stay below their limits. *)
TypeOK ==
  /\ state \in {"idle", "header", "payload"} /\ rx \in [on : BOOLEAN, cfg : 0 .. Tunings]
  /\ pulses \in 0 .. Pulses /\ gap \in 0 .. SampleGap /\ Len(packet) < PacketWords
  /\ seq \in 0 .. SeqSpan - 1

(* A datagram is a complete packet; the datagrams of a stream are numbered    *)
(* from the flagged packet 0 on.                                              *)
SentInOrder ==
  [][\A sat \in BOOLEAN : step_rtl(sat) /\ tvalid' /\ word'.last =>
       /\ Len(packet) = PacketWords - 1
       /\ IF sent = NoHeader THEN sent'.first /\ sent'.seq = 0
          ELSE ~sent'.first /\ sent'.seq = (sent.seq + 1) % SeqSpan]_vars
===============================================================================
