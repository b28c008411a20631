------------------------------ MODULE PsdPipeline ------------------------------
(* The PSD path end to end: the set_psd / stop_all exchange over TCP, the AC920  *)
(* sending frames of Segs segments over UDP (simulator/fake_ac920/server.py),    *)
(* the network, and the backend (runtime.py with psd.py).  UDP and TCP are not   *)
(* ordered with respect to each other.                                           *)
EXTENDS PsdReassembler, Sequences

CONSTANTS Commands,      \* the commands the backend may send
          MaxCommands,   \* bound: commands per behaviour
          MaxConfigs,    \* bound: set_psd commands that enable
          MaxFrames,     \* bound: frames sent per configuration
          MaxLost,       \* bound: segments the network loses
          MaxCopies,     \* bound: segments the network duplicates
          MaxInFlight,   \* bound: segments in the network
          Reordering     \* whether the network may overtake

ASSUME CommandsAssumption == Commands \subseteq {"enable", "disable", "stop_all"}
ASSUME BoundsAssumption ==
  /\ {MaxCommands, MaxConfigs, MaxFrames, MaxLost, MaxCopies, MaxInFlight} \subseteq Nat
  /\ Reordering \in BOOLEAN

VARIABLES
  request, response,     \* the control exchange; None when there is none
  commands,              \* commands sent so far
  enabled, frameSeq,     \* the device: _psd_config["enable"], _psd_frame_seq
  config, frameCount,    \* which configuration is in force, frames it has sent
  net,                   \* segments in flight
  lost, copies,          \* how many segments were lost and duplicated
  arrived, shown         \* frames of which a segment arrived / that were published

deviceVars == <<enabled, frameSeq, config, frameCount>>
netVars == <<net, lost, copies>>
seenVars == <<arrived, shown>>
vars == <<psdVars, request, response, commands, deviceVars, netVars, seenVars>>

None == "none"
(* The network without its i-th segment, and with that segment twice. *)
Without(i) == [j \in 1 .. Len(net) - 1 |-> net[IF j < i THEN j ELSE j + 1]]
Twice(i) == [j \in 1 .. Len(net) + 1 |-> net[IF j <= i THEN j ELSE j - 1]]

Segment(i) == [seq |-> frameSeq, index |-> i, tag |-> <<config, frameCount>>]

Init ==
  /\ PsdInit
  /\ request = None /\ response = None /\ commands = 0
  /\ enabled = FALSE /\ frameSeq = 0 /\ config = 0 /\ frameCount = 0
  /\ net = <<>> /\ lost = 0 /\ copies = 0
  /\ arrived = {} /\ shown = {}

(* runtime.set_psd and stop_all up to the await: one request at a time, as   *)
(* DeviceClient.request holds its lock until the response.                   *)
SendCommand(c) ==
  /\ request = None /\ response = None
  /\ commands < MaxCommands /\ (c = "enable" => config < MaxConfigs)
  /\ request' = c /\ commands' = commands + 1
  /\ UNCHANGED <<psdVars, response, deviceVars, netVars, seenVars>>

(* _cmd_set_psd with enable: a new configuration restarts frame_seq at 0. *)
DeviceEnable ==
  /\ request = "enable"
  /\ enabled' = TRUE /\ frameSeq' = 0 /\ frameCount' = 0 /\ config' = config + 1
  /\ request' = None /\ response' = request
  /\ UNCHANGED <<psdVars, commands, netVars, seenVars>>

(* _cmd_set_psd without enable, and _stop_all. *)
DeviceDisable ==
  /\ request \in {"disable", "stop_all"}
  /\ enabled' = FALSE
  /\ request' = None /\ response' = request
  /\ UNCHANGED <<psdVars, commands, frameSeq, config, frameCount, netVars, seenVars>>

(* set_psd and stop_all after the await: the reassembler is reset unless the *)
(* device now has PSD enabled.                                               *)
CommandDone ==
  /\ response # None /\ response' = None
  /\ IF response = "enable"
       THEN UNCHANGED <<psdVars, seenVars>>
       ELSE ResetReassembler /\ arrived' = {} /\ shown' = {}
  /\ UNCHANGED <<request, commands, deviceVars, netVars>>

(* _send_psd_frame: all segments of a frame leave in one step of the loop. *)
SendFrame ==
  /\ enabled /\ frameCount < MaxFrames /\ Len(net) + Segs <= MaxInFlight
  /\ net' = net \o [i \in 1 .. Segs |-> Segment(i - 1)]
  /\ frameSeq' = (frameSeq + 1) % SeqSpan
  /\ frameCount' = frameCount + 1
  /\ UNCHANGED <<psdVars, request, response, commands, enabled, config, lost, copies, seenVars>>

(* _handle_psd for the i-th segment in flight. *)
Deliver(i) ==
  /\ i \in 1 .. Len(net)
  /\ i = 1 \/ Reordering
  /\ Ingest(net[i])
  /\ net' = Without(i)
  /\ arrived' = arrived \cup {net[i].tag}
  /\ shown' = IF stats'.complete > stats.complete THEN shown \cup {net[i].tag} ELSE shown
  /\ UNCHANGED <<request, response, commands, deviceVars, lost, copies>>

Lose(i) ==
  /\ i \in 1 .. Len(net) /\ lost < MaxLost
  /\ net' = Without(i) /\ lost' = lost + 1
  /\ UNCHANGED <<psdVars, request, response, commands, deviceVars, copies, seenVars>>

Duplicate(i) ==
  /\ i \in 1 .. Len(net) /\ copies < MaxCopies
  /\ net' = Twice(i) /\ copies' = copies + 1
  /\ UNCHANGED <<psdVars, request, response, commands, deviceVars, lost, seenVars>>

Next ==
  \/ \E c \in Commands : SendCommand(c)
  \/ DeviceEnable \/ DeviceDisable \/ CommandDone \/ SendFrame
  \/ \E i \in 1 .. MaxInFlight + MaxCopies : Deliver(i) \/ Lose(i) \/ Duplicate(i)

Spec == Init /\ [][Next]_vars

(* The device's loop and the event loop run, and the network delivers; a     *)
(* loss or a duplicate never has to happen.                                  *)
FairSpec ==
  /\ Spec
  /\ WF_vars(DeviceEnable) /\ WF_vars(DeviceDisable) /\ WF_vars(CommandDone)
  /\ WF_vars(SendFrame) /\ WF_vars(Deliver(1))
-------------------------------------------------------------------------------
(* Reassembler, commands and network have their types; one command is under  *)
(* way at a time.                                                            *)
TypeOK ==
  /\ DOMAIN frames \subseteq Seqs
  /\ \A k \in DOMAIN frames : DOMAIN frames[k] \subseteq Indices
  /\ stats \in [complete : Nat, dropped : Nat, missing : Nat]
  /\ request \in Commands \cup {None} /\ response \in Commands \cup {None}
  /\ request = None \/ response = None
  /\ enabled \in BOOLEAN /\ frameSeq \in Seqs
  /\ Len(net) <= MaxInFlight + MaxCopies

(* A published spectrum is one transmitted frame: all its segments, and the  *)
(* header they are displayed under, come from the same frame.                *)
WholeFrame ==
  published # NoFrame =>
    /\ DOMAIN published.segments = Indices
    /\ \A i \in Indices : published.segments[i] = published.header

(* Every frame that began to arrive is published, waiting, or counted as     *)
(* dropped, and only one of these.                                           *)
AccountsExact == stats.complete + stats.dropped + Cardinality(DOMAIN frames) = Cardinality(arrived)

(* Spectra are published in the order of their frames, also where frame_seq  *)
(* wraps.                                                                    *)
PublishesNext == published' # published /\ published # NoFrame => SeqLess(published.seq, published'.seq)

(* After set_psd enables a configuration, a spectrum of it is published      *)
(* although segments were lost and parts of frames of the configuration      *)
(* before it are still waiting or in flight - unless PSD is turned off, or   *)
(* reconfigured, before that.                                                *)
SpectrumAppears ==
  \A c \in 1 .. MaxConfigs :
    (enabled /\ config = c)
      ~> (~enabled \/ config # c \/ (published # NoFrame /\ published.header[1] = c))
===============================================================================
