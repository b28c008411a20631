------------------------------ MODULE IqPacketizer ------------------------------
(* The ADC-clock end of the IQ path: the output register of ddc_core.v, the       *)
(* packetizer iq_packetizer.v and the over-run flag of sdr_pl_core.v.  A word of  *)
(* the stream is [pos, hdr, last]: its place in its packet, what that packet's    *)
(* header says, and TLAST.  A header says [seq, first, ovf, gen]: the sequence    *)
(* number, DISCONTINUITY | CONFIG_CHANGED, FIFO_OVERFLOW, and the configuration   *)
(* whose frequency and rate it carries.                                           *)
EXTENDS Naturals

CONSTANTS HeaderWords,    \* 16
          FrameSamples,   \* FRAME_SAMPLES = 256
          SeqSpan         \* 2^32: packet_seq counts modulo SeqSpan

ASSUME HeaderWordsAssumption == HeaderWords \in Nat \ {0}
ASSUME FrameSamplesAssumption == FrameSamples \in Nat \ {0}
ASSUME IqSeqSpanAssumption == SeqSpan \in Nat \ {0, 1}

VARIABLES
  state, index, count,    \* state, header_index, payload_count
  seq, first,             \* packet_seq, first_packet
  latched,                \* [gen, ovf]: frequency_latched etc., flags_latched
  tvalid, word,           \* m_axis_tvalid, m_axis_tdata and m_axis_tlast
  ddc,                    \* ddc_core's output register holds a sample
  ovfSeen, ovfNew,        \* iq_overflow_seen, ddc0_overflow_count # its delayed copy
  pktNew,                 \* iq_packet_count # its delayed copy
  owed                    \* 0: no drop to report; n > 0: n - 1 headers passed over it

packetizerVars ==
  <<state, index, count, seq, first, latched, tvalid, word, ddc, ovfSeen, ovfNew, pktNew, owed>>

PacketWords == HeaderWords + FrameSamples
Header == [seq |-> seq, first |-> first, ovf |-> latched.ovf, gen |-> latched.gen]
NoHeader == [seq |-> 0, first |-> FALSE, ovf |-> FALSE, gen |-> 0]
NoWord == [pos |-> 0, hdr |-> NoHeader, last |-> FALSE]

PacketizerInit ==
  /\ state = "idle" /\ index = 0 /\ count = 0 /\ seq = 0 /\ first = TRUE
  /\ latched = [gen |-> 0, ovf |-> FALSE]
  /\ tvalid = FALSE /\ word = NoWord /\ ddc = FALSE
  /\ ovfSeen = FALSE /\ ovfNew = FALSE /\ pktNew = FALSE /\ owed = 0

out_ready(tready) == ~tvalid \/ tready
s_axis_tready(tready) == state = "payload" /\ out_ready(tready)

(* ddc_core: a sample replaces the one that waits if that is gone or taken   *)
(* now; it is dropped, and counted, otherwise.                               *)
load_output(tready) == ~ddc \/ s_axis_tready(tready)
Dropped(sat, tready) == sat /\ ~load_output(tready)
DdcOutput(sat, tready) ==
  ddc' = (sat \/ (ddc /\ ~s_axis_tready(tready)))

(* The packetizer's always block: a word is put in the output register, or  *)
(* the one there is handed over.                                             *)
Emit(pos, last) ==
  tvalid' = TRUE /\ word' = [pos |-> pos, hdr |-> Header, last |-> last]
NoEmit(tready) == tvalid' = (tvalid /\ ~tready) /\ UNCHANGED word

Disabled(tready) ==
  /\ state' = "idle" /\ index' = 0 /\ count' = 0 /\ first' = TRUE
  /\ NoEmit(tready) /\ UNCHANGED <<seq, latched>>

Reconfigured(tready) ==
  /\ state' = "idle" /\ index' = 0 /\ count' = 0 /\ first' = TRUE /\ seq' = 0
  /\ NoEmit(tready) /\ UNCHANGED latched

StartPacket(gen, tready) ==
  /\ state = "idle" /\ state' = "header" /\ index' = 0 /\ count' = 0
  /\ latched' = [gen |-> gen, ovf |-> ovfSeen]
  /\ NoEmit(tready) /\ UNCHANGED <<seq, first>>

HeaderWord ==
  /\ state = "header"
  /\ Emit(index + 1, FALSE)
  /\ IF index = HeaderWords - 1 THEN state' = "payload" /\ index' = 0
                                ELSE index' = index + 1 /\ UNCHANGED state
  /\ UNCHANGED <<count, seq, first, latched>>

LastSample == count = FrameSamples - 1
Payload(tready, last, next) ==
  /\ state = "payload"
  /\ IF ~ddc
       THEN NoEmit(tready) /\ UNCHANGED <<state, count, seq, first>>
       ELSE /\ Emit(HeaderWords + count + 1, last)
            /\ IF LastSample
                 THEN /\ state' = "idle" /\ count' = 0 /\ seq' = next /\ first' = FALSE
                 ELSE count' = count + 1 /\ UNCHANGED <<state, seq, first>>
  /\ UNCHANGED <<index, latched>>

(* Variants: the payload ends without TLAST; packet_seq stays. *)
PayloadWordNoLast(tready) == Payload(tready, FALSE, (seq + 1) % SeqSpan)
PayloadWordKeepsSeq(tready) == Payload(tready, LastSample, seq)

PayloadWord(tready) == Payload(tready, LastSample, (seq + 1) % SeqSpan)

Stalled == UNCHANGED <<state, index, count, seq, first, latched, tvalid, word>>

(* The branches in order: a disabled packetizer does not see config_changed. *)
Packetizer(enable, changed, gen, tready) ==
  \/ ~enable /\ Disabled(tready)
  \/ enable /\ changed /\ Reconfigured(tready)
  \/ /\ enable /\ ~changed /\ out_ready(tready)
     /\ StartPacket(gen, tready) \/ HeaderWord \/ PayloadWord(tready)
  \/ enable /\ ~changed /\ ~out_ready(tready) /\ Stalled

(* sdr_pl_core: iq_overflow_seen collects drops and starts over the cycle    *)
(* after a packet is complete.  owed is what the headers have yet to report. *)
Starts == state = "idle" /\ state' = "header"
Completes(enable, changed, tready) ==
  enable /\ ~changed /\ s_axis_tready(tready) /\ ddc /\ LastSample
OverflowFlag(sat, tready) ==
  /\ ovfNew' = Dropped(sat, tready)
  /\ ovfSeen' = IF pktNew THEN ovfNew ELSE ovfSeen \/ ovfNew
  /\ owed' = IF Starts /\ owed > 0
               THEN IF ovfSeen THEN (IF Dropped(sat, tready) THEN 1 ELSE 0)
                               ELSE IF owed < 3 THEN owed + 1 ELSE 3
               ELSE IF owed = 0 /\ Dropped(sat, tready) THEN 1 ELSE owed

(* One rising edge of the ADC clock. *)
AdcEdge(enable, changed, gen, sat, tready) ==
  /\ Packetizer(enable, changed, gen, tready)
  /\ DdcOutput(sat, tready)
  /\ OverflowFlag(sat, tready)
  /\ pktNew' = Completes(enable, changed, tready)
===============================================================================
