------------------------------- MODULE MCDevices -------------------------------
(* The devices behind the control protocol, for TLC: the co-simulation server's  *)
(* session with two clients, and its clocking of the RTL with packets of two     *)
(* header words and two samples; the PS program's control side with two clients; *)
(* and the board's IQ path, with packets of one header word and two samples, and *)
(* a FIFO of one packet and a word, so that both ends stall and packets straddle *)
(* it.  bench names the one that takes steps.                                    *)
EXTENDS CosimServer

CONSTANTS Tunings, LineSize

VARIABLES
  bench,
  state, index, count, seq, first, latched, tvalid, word, ddc, ovfSeen, ovfNew, pktNew, owed,
  stream, pulses, gap, packet, sent,
  open, used, peer_ip, addr, asked, hello_seen, psRx, core, psDma, fault, out,
  pl_state, pl_index, pl_count, pl_seq, pl_first, pl_latched, pl_tvalid, pl_word, pl_ddc, pl_seen, pl_ovf, pl_new,
  pl_owed, pl_gap, tail, cfg, crossing, fifo, buf, got, dma, running, armed, todo, sets, rxOn, datagram, bad

coreVars == <<state, index, count, seq, first, latched, tvalid, word, ddc, ovfSeen, ovfNew, pktNew, owed,
              stream, pulses, gap, packet, sent>>
psVars == <<open, used, peer_ip, addr, asked, hello_seen, psRx, core, psDma, fault, out>>
iqVars == <<pl_state, pl_index, pl_count, pl_seq, pl_first, pl_latched, pl_tvalid, pl_word, pl_ddc, pl_seen,
            pl_ovf, pl_new, pl_owed, pl_gap, tail, cfg, crossing, fifo, buf, got, dma, running, armed, todo, sets,
            rxOn, datagram, bad>>
benchVars == <<bench, vars, coreVars, psVars, iqVars>>

Core == INSTANCE CosimCore WITH
          HeaderWords <- 2, FrameSamples <- 2, SeqSpan <- 3, SampleGap <- 4, Pulses <- 3, rx <- stream
Ps == INSTANCE PsBridge WITH rx <- psRx, dma <- psDma
Iq == INSTANCE IqPath WITH
        HeaderWords <- 1, FrameSamples <- 2, SeqSpan <- 4, FifoDepth <- 4, SampleGap <- 2, MaxSetRx <- 1,
        state <- pl_state, index <- pl_index, count <- pl_count, seq <- pl_seq, first <- pl_first,
        latched <- pl_latched, tvalid <- pl_tvalid, word <- pl_word, ddc <- pl_ddc, ovfSeen <- pl_seen,
        ovfNew <- pl_ovf, pktNew <- pl_new, owed <- pl_owed, gap <- pl_gap, sent <- datagram

BenchInit == bench \in {"session", "core", "ps", "iq"} /\ Init /\ Core!Init /\ Ps!Init /\ Iq!Init

OnSession(step) == bench = "session" /\ step /\ UNCHANGED <<bench, coreVars, psVars, iqVars>>
OnCore(step) == bench = "core" /\ step /\ UNCHANGED <<bench, vars, psVars, iqVars>>
OnPs(step) == bench = "ps" /\ step /\ UNCHANGED <<bench, vars, coreVars, iqVars>>
OnIq(step) == bench = "iq" /\ step /\ UNCHANGED <<bench, vars, coreVars, psVars>>
BenchNext == OnSession(Next) \/ OnCore(Core!Next) \/ OnPs(Ps!Next) \/ OnIq(Iq!Next)

(* The clocks run, an update arrives, the DDC keeps producing, the DMA keeps   *)
(* moving and the main loop keeps polling.                                     *)
BenchSpec ==
  /\ BenchInit /\ [][BenchNext]_benchVars
  /\ WF_benchVars(OnIq(\E arrives, sat \in BOOLEAN : Iq!AdcClock(arrives, sat)))
  /\ WF_benchVars(OnIq(\E sat \in BOOLEAN : Iq!AdcClock(TRUE, sat)))
  /\ WF_benchVars(OnIq(\E arrives \in BOOLEAN : Iq!AdcClock(arrives, TRUE)))
  /\ WF_benchVars(OnIq(Iq!DmaWord))
  /\ WF_benchVars(OnIq(Iq!StopDma \/ Iq!WriteReg \/ \E ok \in BOOLEAN : Iq!StartDma(ok) \/ Iq!Poll(ok)))
-------------------------------------------------------------------------------
(* What the PS program takes the stream to be and what the hardware does       *)
(* agree, also after a DMA that failed to start.                               *)
HardwareAgrees == Ps!HardwareAgrees

(* IQ datagrams, the board's and those of step_rtl, are complete packets, and  *)
(* those of a stream are its packets in order, from the flagged packet 0 on,   *)
(* none missing: back-pressure drops samples, never packets.                   *)
PacketsInOrder == Iq!WholePackets /\ Iq!InOrder /\ Core!SentInOrder

(* A stream that is on keeps completing transfers.                             *)
StreamFlows == bench = "iq" => Iq!StreamFlows
===============================================================================
