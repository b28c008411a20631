--------------------------------- MODULE IqStats ---------------------------------
(* rpi/backend: AppState.ingest_iq_header behind the UDP receiver thread.  The    *)
(* device sends IQ packets with a sequence number and a timestamp; the network    *)
(* loses some, one thread receives them and hands them to the event loop in       *)
(* order, and the statistics of the stream are kept from the headers alone.       *)
EXTENDS Naturals, Sequences

CONSTANTS SeqSpan,       \* 2^32 in the code
          TsSpan,        \* 2^64 in the code
          Delta,         \* decimation * sample_count
          MaxPackets,    \* bound: packets sent
          MaxWaiting,    \* bound: datagrams and callbacks that wait
          MaxLost,       \* bound: packets lost
          MaxRestarts    \* bound: reconfigurations of the stream

VARIABLES
  seq, ts,         \* of the next packet
  sent, lost, restarts,
  breaks,          \* packets lost since the last one that arrived
  socket,          \* datagrams in the socket
  calls,           \* callbacks handed to the event loop
  stats,           \* StreamStats: [packets, lost_packets, timestamp_gaps, last_seq, last_timestamp]
  missed           \* packets known to be lost by the packets ingested

device == <<seq, ts, sent, restarts>>
vars == <<device, lost, breaks, socket, calls, stats, missed>>

None == SeqSpan + TsSpan

Init ==
  /\ seq \in 0 .. SeqSpan - 1 /\ ts = 0
  /\ sent = 0 /\ lost = 0 /\ restarts = 0
  /\ breaks = 0
  /\ socket = <<>> /\ calls = <<>>
  /\ stats = [packets |-> 0, lost_packets |-> 0, timestamp_gaps |-> 0, last_seq |-> None, last_timestamp |-> None]
  /\ missed = 0
-------------------------------------------------------------------------------
(* The device sends a packet, which reaches the socket or is lost.  Its lost,   *)
(* which the code does not see, tells how many went missing before it.          *)
Send(arrives) ==
  /\ sent < MaxPackets
  /\ sent' = sent + 1
  /\ seq' = (seq + 1) % SeqSpan /\ ts' = (ts + Delta) % TsSpan
  /\ \/ /\ arrives /\ Len(socket) < MaxWaiting
        /\ socket' = Append(socket, [seq |-> seq, ts |-> ts, lost |-> breaks])
        /\ breaks' = 0
        /\ UNCHANGED lost
     \/ /\ ~arrives /\ lost < MaxLost
        /\ lost' = lost + 1
        /\ breaks' = breaks + 1
        /\ UNCHANGED socket
  /\ UNCHANGED <<restarts, calls, stats, missed>>

(* The stream is reconfigured (config_changed): seq is reset and the timestamp  *)
(* set to the present.                                                          *)
Restart ==
  /\ restarts < MaxRestarts
  /\ restarts' = restarts + 1
  /\ seq' = 0 /\ ts' = (ts + 1) % TsSpan
  /\ UNCHANGED <<sent, lost, breaks, socket, calls, stats, missed>>

(* The receiver thread: _loop, _handle_iq and _thread_iq. *)
Receive ==
  /\ socket # <<>> /\ Len(calls) < MaxWaiting
  /\ calls' = Append(calls, Head(socket)) /\ socket' = Tail(socket)
  /\ UNCHANGED <<device, lost, breaks, stats, missed>>

(* ingest_iq_header.  Variant: a wrap of seq is overlooked. *)
SeqLossPlain(s, h) ==
  IF s.last_seq = None THEN 0 ELSE IF h.seq > s.last_seq THEN h.seq - s.last_seq - 1 ELSE h.seq
SeqLoss(s, h) ==
  IF s.last_seq = None THEN 0 ELSE (h.seq + SeqSpan - ((s.last_seq + 1) % SeqSpan)) % SeqSpan

Gap(s, h) == s.last_timestamp # None /\ h.ts # (s.last_timestamp + Delta) % TsSpan

Ingested(s, h) ==
  [packets |-> s.packets + 1,
   lost_packets |-> s.lost_packets + SeqLoss(s, h),
   timestamp_gaps |-> s.timestamp_gaps + IF Gap(s, h) THEN 1 ELSE 0,
   last_seq |-> h.seq, last_timestamp |-> h.ts]

Handle ==
  /\ calls # <<>> /\ calls' = Tail(calls)
  /\ LET h == Head(calls) IN
     /\ stats' = Ingested(stats, h)
     /\ missed' = missed + IF stats.packets = 0 THEN 0 ELSE h.lost
  /\ UNCHANGED <<device, lost, breaks, socket>>

Next == (\E arrives \in BOOLEAN : Send(arrives)) \/ Restart \/ Receive \/ Handle
Spec == Init /\ [][Next]_vars
-------------------------------------------------------------------------------
(* The sequence number and the timestamp keep their widths. *)
TypeOK ==
  /\ seq \in 0 .. SeqSpan - 1 /\ ts \in 0 .. TsSpan - 1
  /\ stats.last_seq \in (0 .. SeqSpan - 1) \cup {None}
  /\ Len(socket) <= MaxWaiting /\ Len(calls) <= MaxWaiting

(* lost_packets is the number of packets that went missing between the first    *)
(* and the last one ingested. A reconfiguration breaks this: seq falls back to  *)
(* 0, and all the numbers in between count as lost.                             *)
LossExact == stats.lost_packets = missed

(* As long as the stream is not reconfigured, lost_packets is exact, also where *)
(* seq wraps.                                                                   *)
LossExactInOneRun == restarts = 0 => LossExact

===============================================================================
