--------------------------------- MODULE IqPath ---------------------------------
(* The way of an IQ packet from the packetizer to the network: the packetizer    *)
(* (ADC clock), the configuration that reaches it through config_sync, the IQ     *)
(* FIFO, the AXI DMA, and the PS program that writes the registers, polls the DMA *)
(* and sends its buffer as one UDP datagram.                                      *)
(*                                                                                *)
(* The FIFO is what AsyncFifo is shown to implement; where that looks full for a  *)
(* few cycles after a word left it, here the DMA takes the word as much later.  A *)
(* register write reaches the ADC clock before the next one is made.  The writes  *)
(* of frequency, rate, decimation, bandwidth and gain, all made while the stream  *)
(* is off, are one.                                                               *)
EXTENDS IqPacketizer, Sequences

CONSTANTS FifoDepth,    \* 2^ADDR_WIDTH = 1024
          SampleGap,    \* at least so many ADC cycles from one IQ sample to the next
          MaxSetRx      \* bound: so many set_rx commands

ASSUME FifoDepthAssumption == FifoDepth \in Nat \ {0}
ASSUME SampleGapAssumption == SampleGap \in Nat
ASSUME MaxSetRxAssumption == MaxSetRx \in Nat

VARIABLES
  gap,        \* cycles before the DDC can produce its next sample
  tail,       \* it may produce one: it is on, or a last sample is on its way out
  cfg,        \* cfg_adc: [core, on, gen], core_enable, ddc0_enable and the rest
  crossing,   \* the configuration on its way through config_sync, or NoCfg
  fifo,       \* the words in the IQ FIFO
  buf, got,   \* g_iq_dma_buffer and how many words the transfer has put there
  dma,        \* "off", "busy", "done" or "halted"
  running, armed,   \* g_iq_dma_running, g_iq_dma_armed
  todo,       \* what is left of the command the PS is executing
  sets,       \* set_rx commands so far; the next configuration's number
  rxOn,       \* control->rx.enabled
  sent,       \* the header of the last datagram since the stream went on, or NoHeader
  bad         \* buffers sent since the last set_rx that were not one packet

pathVars == <<gap, tail, cfg, crossing, fifo, buf, got, dma, running, armed, todo, sets, rxOn, sent, bad>>
vars == <<packetizerVars, pathVars>>

NoCfg == [core |-> FALSE, on |-> FALSE, gen |-> 0]
NoBuf == [i \in 1 .. PacketWords |-> NoWord]

(* b holds one packet, from its first header word to its last sample. *)
Whole(b) ==
  /\ \A i \in DOMAIN b : b[i].pos = i /\ b[i].hdr = b[1].hdr
  /\ b[PacketWords].last

Init ==
  /\ PacketizerInit
  /\ gap = 0 /\ tail = FALSE /\ cfg = NoCfg /\ crossing = <<>> /\ fifo = <<>>
  /\ buf = NoBuf /\ got = 0 /\ dma = "off" /\ running = FALSE /\ armed = FALSE
  /\ todo = <<>> /\ sets = 0 /\ rxOn = FALSE /\ sent = NoHeader /\ bad = 0
-------------------------------------------------------------------------------
Enabled == cfg.core /\ cfg.on

(* A rising edge of the ADC clock.  When an update arrives dst_update is high *)
(* while dst_data still has the old configuration, which is replaced on the   *)
(* same edge: the packetizer sees config_changed with the old enable.         *)
AdcClock(arrives, sat) ==
  LET tready == Len(fifo) < FifoDepth IN
  /\ arrives => crossing # <<>>
  /\ sat => gap = 0 /\ tail
  /\ AdcEdge(Enabled, arrives, cfg.gen, sat, tready)
  /\ gap' = IF sat THEN SampleGap ELSE IF gap > 0 THEN gap - 1 ELSE 0
  /\ tail' = (Enabled \/ (tail /\ ~sat))
  /\ fifo' = IF tvalid /\ tready THEN Append(fifo, word) ELSE fifo
  /\ cfg' = IF arrives THEN crossing[1] ELSE cfg
  /\ crossing' = IF arrives THEN <<>> ELSE crossing
  /\ UNCHANGED <<buf, got, dma, running, armed, todo, sets, rxOn, sent, bad>>

(* The DMA moves a word to the buffer.  The transfer ends on TLAST; one that  *)
(* fills the buffer without TLAST is undefined in the DMA: it ends, or halts. *)
DmaWord ==
  LET w == Head(fifo)
  IN  /\ dma = "busy" /\ fifo # <<>>
      /\ fifo' = Tail(fifo)
      /\ buf' = [buf EXCEPT ![got + 1] = w]
      /\ got' = got + 1
      /\ \/ w.last /\ dma' = "done"
         \/ ~w.last /\ got + 1 = PacketWords /\ dma' \in {"done", "halted"}
         \/ ~w.last /\ got + 1 < PacketWords /\ UNCHANGED dma
      /\ UNCHANGED packetizerVars
      /\ UNCHANGED <<gap, tail, cfg, crossing, running, armed, todo, sets, rxOn, sent, bad>>
-------------------------------------------------------------------------------
(* The PS program: one thread, which executes a command to its end before it  *)
(* polls again.                                                               *)
ArmDma(ok) ==
  /\ armed' = ok
  /\ IF ok THEN dma' = "busy" /\ got' = 0 ELSE UNCHANGED <<dma, got>>

(* cmd_set_rx with enable true and every field in range. *)
SetRx ==
  /\ todo = <<>> /\ sets < MaxSetRx
  /\ todo' = <<"stop_dma", "ddc_off", "core_off", "tune", "core_on", "ddc_on", "start_dma">>
  /\ sets' = sets + 1
  /\ UNCHANGED <<packetizerVars, gap, tail, cfg, crossing, fifo, buf, got, dma, running, armed, rxOn, sent, bad>>

(* sdr_control_stop_all, and cmd_set_rx with enable false. *)
StopAll ==
  /\ todo = <<>> /\ rxOn
  /\ rxOn' = FALSE
  /\ todo' = <<"stop_dma", "ddc_off", "core_off">>
  /\ UNCHANGED <<packetizerVars, gap, tail, cfg, crossing, fifo, buf, got, dma, running, armed, sets, sent, bad>>

StopDma ==
  /\ todo # <<>> /\ Head(todo) = "stop_dma"
  /\ todo' = Tail(todo)
  /\ running' = FALSE /\ armed' = FALSE /\ dma' = "off" /\ got' = 0
  /\ UNCHANGED <<packetizerVars, gap, tail, cfg, crossing, fifo, buf, sets, rxOn, sent, bad>>

(* The register writes of program_rx_registers and sdr_control_stop_all. *)
Writes(op) ==
  CASE op = "ddc_off"  -> [cfg EXCEPT !.on = FALSE]
    [] op = "core_off" -> [cfg EXCEPT !.core = FALSE]
    [] op = "tune"     -> [cfg EXCEPT !.gen = sets]
    [] op = "core_on"  -> [cfg EXCEPT !.core = TRUE]
    [] op = "ddc_on"   -> [cfg EXCEPT !.on = TRUE]
WriteReg ==
  /\ todo # <<>> /\ Head(todo) \notin {"stop_dma", "start_dma"} /\ crossing = <<>>
  /\ todo' = Tail(todo)
  /\ crossing' = <<Writes(Head(todo))>>
  /\ UNCHANGED <<packetizerVars, gap, tail, cfg, fifo, buf, got, dma, running, armed, sets, rxOn, sent, bad>>

(* sdr_hw_start_iq_dma and what follows it: a start that fails turns the      *)
(* stream off again and leaves control->rx as it was.                         *)
StartDma(ok) ==
  /\ todo # <<>> /\ Head(todo) = "start_dma"
  /\ running' = TRUE
  /\ ArmDma(ok)
  /\ IF ok THEN todo' = <<>> /\ rxOn' = TRUE /\ bad' = 0 /\ sent' = NoHeader
           ELSE todo' = <<"ddc_off", "core_off">> /\ UNCHANGED <<rxOn, bad, sent>>
  /\ UNCHANGED <<packetizerVars, gap, tail, cfg, crossing, fifo, buf, sets>>

(* sdr_control_forward_iq_packet. *)
Forward ==
  IF rxOn THEN /\ sent' = buf[1].hdr
               /\ bad' = IF Whole(buf) \/ bad = 4 THEN bad ELSE bad + 1
          ELSE UNCHANGED <<sent, bad>>

(* sdr_hw_ac920_poll_iq_dma: the buffer goes out whole, however much of it    *)
(* the transfer filled, and the DMA is armed again, or not.                   *)
Poll(ok) ==
  /\ todo = <<>> /\ running /\ armed /\ dma = "done"
  /\ ArmDma(ok)
  /\ Forward
  /\ UNCHANGED <<packetizerVars, gap, tail, cfg, crossing, fifo, buf, running, todo, sets, rxOn>>

Ps == SetRx \/ StopAll \/ StopDma \/ WriteReg \/ \E ok \in BOOLEAN : StartDma(ok) \/ Poll(ok)
Next ==
  \/ \E arrives, sat \in BOOLEAN : AdcClock(arrives, sat)
  \/ DmaWord
  \/ Ps

Spec == Init /\ [][Next]_vars

(* The clocks run, an update arrives, the DDC keeps producing, the DMA keeps  *)
(* moving and the main loop keeps polling.                                    *)
FairSpec ==
  /\ Spec
  /\ WF_vars(\E arrives, sat \in BOOLEAN : AdcClock(arrives, sat))
  /\ WF_vars(\E sat \in BOOLEAN : AdcClock(TRUE, sat))
  /\ WF_vars(\E arrives \in BOOLEAN : AdcClock(arrives, TRUE))
  /\ WF_vars(DmaWord)
  /\ WF_vars(StopDma \/ WriteReg \/ \E ok \in BOOLEAN : StartDma(ok) \/ Poll(ok))
-------------------------------------------------------------------------------
Words == [pos : 0 .. PacketWords, last : BOOLEAN,
          hdr : [seq : 0 .. SeqSpan - 1, first : BOOLEAN, ovf : BOOLEAN, gen : 0 .. MaxSetRx]]
Cfgs == [core : BOOLEAN, on : BOOLEAN, gen : 0 .. MaxSetRx]

(* Every variable has its type, and the counters stay below their limits. *)
TypeOK ==
  /\ state \in {"idle", "header", "payload"}
  /\ index \in 0 .. HeaderWords - 1 /\ count \in 0 .. FrameSamples - 1
  /\ seq \in 0 .. SeqSpan - 1 /\ word \in Words /\ gap \in 0 .. SampleGap
  /\ cfg \in Cfgs /\ Len(crossing) <= 1 /\ \A i \in DOMAIN crossing : crossing[i] \in Cfgs
  /\ Len(fifo) <= FifoDepth /\ \A i \in DOMAIN fifo : fifo[i] \in Words
  /\ got \in 0 .. PacketWords /\ \A i \in 1 .. PacketWords : buf[i] \in Words
  /\ dma \in {"off", "busy", "done", "halted"} /\ sets \in 0 .. MaxSetRx

(* The poll sends the buffer. *)
Sends == rxOn /\ \E ok \in BOOLEAN : Poll(ok)

(* Every datagram is one complete packet. *)
WholePackets == [][Sends => Whole(buf)]_vars

(* The datagrams of a stream are its packets in order, from the flagged       *)
(* packet 0 on, none missing: back-pressure drops samples, never packets.     *)
InOrder ==
  [][Sends => IF sent = NoHeader
                THEN buf[1].hdr.first /\ buf[1].hdr.seq = 0
                ELSE ~buf[1].hdr.first /\ buf[1].hdr.seq = (sent.seq + 1) % SeqSpan]_vars

(* What a restart leaves behind in the FIFO spoils at most three datagrams. *)
Realigns == bad <= 3

(* A dropped sample is reported by FIFO_OVERFLOW in one of the next two       *)
(* headers.                                                                   *)
OverflowReported == owed < 3

(* A stream that is on keeps completing transfers. *)
StreamFlows == <>[](rxOn /\ todo = <<>> /\ armed) => []<>(dma = "done")
===============================================================================
