------------------------------- MODULE MCBackend -------------------------------
(* What the backend does with what arrives, for TLC: PSD segments become spectra *)
(* (PsdPipeline), IQ packets audio and local spectra (IqDigest), their headers   *)
(* statistics (IqStats), and publications go to the browsers (WebFeed).  bench   *)
(* names the one that takes steps.  PSD segments                                 *)
(* cross three networks: "in_order" only loses them, with frame_seq wrapping;    *)
(* "reorder" loses, duplicates and reorders, with one set_psd that enables; and  *)
(* "reconfigure" has two of these.                                               *)
EXTENDS PsdPipeline

CONSTANTS
  OrderedFrames, OrderedLost,           \* bounds of "in_order"
  IqSpan, IqTsSpan, IqDelta, IqPackets, IqWaiting, IqLost, IqRestarts,   \* of IqStats
  Browsers, Talkers, MaxQueue, MaxPublish    \* of WebFeed

(* In order, fewer frames than half of frame_seq's range are lost; without     *)
(* order, frame_seq does not wrap within a configuration.                      *)
ASSUME OrderedAssumption ==
  OrderedFrames \in Nat /\ OrderedLost \in Nat /\ OrderedLost + 1 < SeqSpan \div 2
ASSUME ReorderAssumption == MaxConfigs = 1 /\ MaxFrames <= SeqSpan

(* Fewer packets are lost than seq has values, and a queue holds something. *)
ASSUME IqAssumption ==
  /\ IqSpan \in Nat \ {0} /\ IqTsSpan \in Nat \ {0} /\ IqDelta \in Nat
  /\ {IqPackets, IqWaiting, IqLost, IqRestarts} \subseteq Nat /\ IqLost < IqSpan
ASSUME QueueAssumption == MaxQueue \in Nat \ {0} /\ MaxPublish \in Nat

VARIABLES
  bench,
  iq_seq, iq_ts, iq_sent, iq_lost, restarts, breaks, socket, calls, iq_stats, missed,
  loop, queues, hand, received, publications, delivered, since, dropped,
  tuning, place, gaps, sampleLoss, retunes, answer, packets, mode, demod, made, heard, window, audio, spectrum

iqVars == <<iq_seq, iq_ts, iq_sent, iq_lost, restarts, breaks, socket, calls, iq_stats, missed>>
webVars == <<loop, queues, hand, received, publications, delivered, since, dropped>>
digestVars ==
  <<tuning, place, gaps, sampleLoss, retunes, answer, packets, mode, demod, made, heard, window, audio, spectrum>>
benchVars == <<bench, vars, iqVars, webVars, digestVars>>

Ordered == INSTANCE PsdPipeline WITH
             MaxCommands <- 1, MaxFrames <- OrderedFrames, MaxLost <- OrderedLost, MaxCopies <- 0, Reordering <- FALSE
Reconfigure == INSTANCE PsdPipeline WITH
             MaxCommands <- 3, MaxConfigs <- 2, MaxCopies <- 0, Reordering <- FALSE
Iq == INSTANCE IqStats WITH
        SeqSpan <- IqSpan, TsSpan <- IqTsSpan, Delta <- IqDelta, MaxPackets <- IqPackets,
        MaxWaiting <- IqWaiting, MaxLost <- IqLost, MaxRestarts <- IqRestarts,
        seq <- iq_seq, ts <- iq_ts, sent <- iq_sent, lost <- iq_lost, stats <- iq_stats
Web == INSTANCE WebFeed WITH Snapshot <- TRUE, published <- publications

(* Two samples a packet: one audio sample at the fast rate, two at the slow;   *)
(* frames and chunks of three.  The third tuning has the other rate.          *)
Digest == INSTANCE IqDigest WITH
            Modes <- {"WFM", "AM"}, FmModes <- {"WFM"}, DefaultMode <- "WFM", Tunings <- 3, Slow <- {3},
            PacketLen <- 2, Up <- 1, DownFast <- 2, DownSlow <- 1, Scipy <- TRUE, FrameLen <- 3, FftSize <- 3,
            Places <- 5, MaxWaiting <- 2, MaxLost <- 1, MaxCommands <- 2,
            lost <- sampleLoss, commands <- retunes, buffer <- window

(* An idle bench starts from one state. *)
BenchInit ==
  /\ bench \in {"in_order", "reorder", "reconfigure", "iq", "web", "digest"}
  /\ Init /\ Iq!Init /\ Web!Init /\ Digest!Init
  /\ bench # "iq" => iq_seq = 0

OnPsd(name, step) == bench = name /\ step /\ UNCHANGED <<bench, iqVars, webVars, digestVars>>
OnIq(step) == bench = "iq" /\ step /\ UNCHANGED <<bench, vars, webVars, digestVars>>
OnWeb(step) == bench = "web" /\ step /\ UNCHANGED <<bench, vars, iqVars, digestVars>>
OnDigest(step) == bench = "digest" /\ step /\ UNCHANGED <<bench, vars, iqVars, webVars>>
BenchNext ==
  \/ OnPsd("in_order", Ordered!Next) \/ OnPsd("reorder", Next) \/ OnPsd("reconfigure", Reconfigure!Next)
  \/ OnIq(Iq!Next) \/ OnWeb(Web!Next) \/ OnDigest(Digest!Next)

(* The device answers and keeps sending frames, what is in the network       *)
(* arrives, and the event loop runs every task that can run.                 *)
BenchSpec ==
  /\ BenchInit /\ [][BenchNext]_benchVars
  /\ WF_benchVars(OnPsd("reconfigure", Reconfigure!DeviceEnable \/ Reconfigure!DeviceDisable))
  /\ WF_benchVars(OnPsd("reconfigure", Reconfigure!CommandDone))
  /\ WF_benchVars(OnPsd("reconfigure", Reconfigure!SendFrame))
  /\ WF_benchVars(OnPsd("reconfigure", Reconfigure!Deliver(1)))
  /\ \A b \in Browsers : WF_benchVars(OnWeb(Web!Step(b)))
-------------------------------------------------------------------------------
(* A published spectrum is made of the segments of one frame: ingest, which  *)
(* keys them by frame_seq alone, mixes no frames of one configuration,       *)
(* whatever order they arrive in.                                            *)
WholeFrameOfOneConfig == bench \in {"in_order", "reorder"} => WholeFrame

(* Without reordering, every frame of which a segment has arrived is         *)
(* counted once, as complete or as dropped, or waits in the reassembler.     *)
FramesCounted == bench = "in_order" => AccountsExact

(* Without reordering, spectra are published in the order of their frames,   *)
(* also when frame_seq wraps.                                                *)
SpectraInOrder == [][bench = "in_order" => PublishesNext]_vars

(* After set_psd a spectrum of the new configuration is published, whatever  *)
(* segments and frames of the one before are still about.                    *)
SpectrumAppearsAgain == bench = "reconfigure" => Reconfigure!SpectrumAppears

(* While the stream is not reconfigured, lost_packets is the number of       *)
(* packets missing between those ingested, also when seq wraps.              *)
LossExactInOneRun == Iq!LossExactInOneRun

(* Audio frames are of one mode and rate and carry all the audio there is; a *)
(* local spectrum is of successive samples, labelled with its last one's     *)
(* tuning.                                                                   *)
ChunksWhole == Digest!FramesWhole /\ Digest!SpectrumWhole

(* Broadcaster.publish loses nothing but what it drops from a full queue,    *)
(* for a browser that stays and does not send.                               *)
OnlyOverflowDrops == Web!OnlyOverflowDrops

(* The last publication reaches every subscribed browser that stays.         *)
LastArrives == bench = "web" => Web!LastArrives
===============================================================================
