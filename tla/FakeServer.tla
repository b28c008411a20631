------------------------------- MODULE FakeServer -------------------------------
(* simulator/fake_ac920/server.py: the simulated AC920.  One _handle_client task  *)
(* per control connection and the _iq_loop task share the owner, the stream       *)
(* states and the UDP destinations (PsdPipeline has the frames of _psd_loop).  A  *)
(* step of a task runs from one await to the next; _stop_all and the set commands *)
(* await nothing.                                                                 *)
(*                                                                                *)
(* A stream's frequency, rate and bandwidth are one value: 1 .. Tunings, Odd (a   *)
(* rate the server refuses) or Zero (a rate of 0).  Loss by drop_every, the       *)
(* front end, the status object and the signal itself are left out.               *)
EXTENDS Naturals, FiniteSetsExt, Sequences

CONSTANTS Clients, None,
          StreamIds,   \* the keys of _streams
          Psd,         \* the PSD stream
          Tunings,     \* configurations set_rx accepts
          SeqMod,      \* seq counts modulo 2^32
          MaxInbox,    \* bound: requests a client sends ahead of the answers
          Resets,      \* connections may be reset, not only closed
          Refusals     \* set_rx requests with an unsupported rate occur

ASSUME NoneAssumption == None \notin Clients
ASSUME StreamIdsAssumption == StreamIds \subseteq Nat /\ IsFiniteSet(StreamIds) /\ StreamIds # {}
ASSUME PsdAssumption == Psd \notin StreamIds
ASSUME TuningsAssumption == Tunings \in Nat \ {0}
ASSUME SeqModAssumption == SeqMod \in Nat \ {0}
ASSUME MaxInboxAssumption == MaxInbox \in Nat
ASSUME FlagsAssumption == Resets \in BOOLEAN /\ Refusals \in BOOLEAN

VARIABLES
  handler,   \* client -> its task: "none", "ready" (not begun) or "serving"
  link,      \* client -> its connection: "up", "eof" or "reset"
  inbox,     \* client -> requests received and not yet read
  owner,     \* _owner, or None
  dest,      \* port -> the client whose hello set it, or None
  rx,        \* _streams: [on, cfg, seq, first]
  psd,       \* _psd_config["enable"]
  tx,        \* _tx_task: "none", "running" or "dead"
  out        \* stream -> the last datagram since it was set, or NoDatagram;
             \* changed: it is the first, or tuned or sent elsewhere than the one before

vars == <<handler, link, inbox, owner, dest, rx, psd, tx, out>>

Ports == {"iq", "psd", "status"}
Odd == Tunings + 1
Zero == Tunings + 2
Streams == StreamIds \cup {Psd}
Configs == 1 .. Tunings \cup (IF Refusals THEN {Odd, Zero} ELSE {})

Ops == {"hello", "hello_bad", "hello_crash", "rx_off", "psd_on", "psd_off", "stop_all", "other"}
Requests ==
  {[op |-> o, id |-> i, cfg |-> 0] : o \in Ops, i \in {Min(StreamIds)}} \cup
  {[op |-> "rx_off", id |-> i, cfg |-> 0] : i \in StreamIds} \cup
  {[op |-> "rx_on", id |-> i, cfg |-> g] : i \in StreamIds, g \in Configs}

NoDatagram == [to |-> None, cfg |-> 0, seq |-> 0, first |-> FALSE, changed |-> FALSE]
On == {s \in StreamIds : rx[s].on} \cup (IF psd THEN {Psd} ELSE {})
closing(c) == link[c] = "reset"

Init ==
  /\ handler = [c \in Clients |-> "none"] /\ link = [c \in Clients |-> "eof"]
  /\ inbox = [c \in Clients |-> <<>>]
  /\ owner = None /\ dest = [p \in Ports |-> None]
  /\ rx = [s \in StreamIds |-> [on |-> FALSE, cfg |-> 1, seq |-> 0, first |-> TRUE]]
  /\ psd = FALSE /\ tx = "none"
  /\ out = [s \in StreamIds |-> NoDatagram]
-------------------------------------------------------------------------------
(* The network: a client connects, sends requests and ends its connection,    *)
(* after which it may connect anew.                                           *)
server == <<owner, dest, rx, psd, tx, out>>

Connect(c) ==
  /\ handler[c] = "none"
  /\ handler' = [handler EXCEPT ![c] = "ready"]
  /\ link' = [link EXCEPT ![c] = "up"] /\ inbox' = [inbox EXCEPT ![c] = <<>>]
  /\ UNCHANGED server

Send(c, r) ==
  /\ handler[c] # "none" /\ link[c] = "up" /\ Len(inbox[c]) < MaxInbox
  /\ inbox' = [inbox EXCEPT ![c] = Append(@, r)]
  /\ UNCHANGED <<handler, link, server>>

Drop(c) ==
  /\ handler[c] # "none" /\ link[c] = "up"
  /\ link' \in {[link EXCEPT ![c] = how] : how \in {"eof"} \cup (IF Resets THEN {"reset"} ELSE {})}
  /\ UNCHANGED <<handler, inbox, server>>
-------------------------------------------------------------------------------
Closed(c) ==
  /\ handler' = [handler EXCEPT ![c] = "none"]
  /\ link' = [link EXCEPT ![c] = "eof"] /\ inbox' = [inbox EXCEPT ![c] = <<>>]

(* _handle_client up to its first await: busy, or the new owner (variant: any  *)
(* client becomes the owner).                                                  *)
BusyNever == FALSE
Busy == owner # None /\ ~closing(owner)

Refuse(c) ==
  /\ handler[c] = "ready" /\ Busy
  /\ Closed(c)
  /\ UNCHANGED server

Accept(c) ==
  /\ handler[c] = "ready" /\ ~Busy
  /\ handler' = [handler EXCEPT ![c] = "serving"]
  /\ owner' = c
  /\ UNCHANGED <<link, inbox, dest, rx, psd, tx, out>>

(* reset_for_enable, and a variant that keeps the old marks. *)
reset_for_enable_not(s, g) == [rx[s] EXCEPT !.on = TRUE, !.cfg = g]
reset_for_enable(s, g) == [on |-> TRUE, cfg |-> g, seq |-> 0, first |-> TRUE]

(* The commands.  int(udp["psd_port"]) may fail once the IQ port is set: a    *)
(* ValueError is answered, a KeyError ends the handler (see Crash).           *)
cmd_hello(c, r) ==
  /\ dest' = IF r.op = "hello" THEN [p \in Ports |-> c] ELSE [dest EXCEPT !["iq"] = c]
  /\ UNCHANGED <<rx, psd, tx, out>>

set_rx_off(r) ==
  /\ rx' = [rx EXCEPT ![r.id].on = FALSE]
  /\ out' = [out EXCEPT ![r.id] = NoDatagram]
  /\ UNCHANGED <<dest, psd, tx>>

(* The fields are assigned before the rate is looked at. *)
cmd_set_rx(c, r) ==
  /\ IF r.cfg \in 1 .. Tunings
       THEN /\ rx' = [rx EXCEPT ![r.id] = reset_for_enable(r.id, r.cfg)]
            /\ tx' = "running"
            /\ out' = [out EXCEPT ![r.id] = NoDatagram]
       ELSE rx' = [rx EXCEPT ![r.id].cfg = r.cfg] /\ UNCHANGED <<tx, out>>
  /\ UNCHANGED <<dest, psd>>

cmd_set_psd(c, r) ==
  /\ psd' = (r.op = "psd_on")
  /\ UNCHANGED <<dest, rx, tx, out>>

StopAll ==
  /\ rx' = [s \in StreamIds |-> [rx[s] EXCEPT !.on = FALSE]]
  /\ psd' = FALSE
  /\ out' = [s \in StreamIds |-> NoDatagram]

dispatch(c, r) ==
  \/ r.op \in {"hello", "hello_bad"} /\ cmd_hello(c, r)
  \/ r.op = "rx_off" /\ set_rx_off(r)
  \/ r.op = "rx_on" /\ cmd_set_rx(c, r)
  \/ r.op \in {"psd_on", "psd_off"} /\ cmd_set_psd(c, r)
  \/ r.op = "stop_all" /\ StopAll /\ UNCHANGED <<dest, tx>>
  \/ r.op = "other" /\ UNCHANGED <<dest, rx, psd, tx, out>>

(* readline returned a request; once the connection is reset it raises. *)
Serve(c) ==
  /\ handler[c] = "serving" /\ ~closing(c) /\ inbox[c] # <<>>
  /\ dispatch(c, Head(inbox[c]))
  /\ inbox' = [inbox EXCEPT ![c] = Tail(@)]
  /\ UNCHANGED <<handler, link, owner>>
-------------------------------------------------------------------------------
(* The end of _handle_client: the finally block, up to wait_closed.  Variants: *)
(* the streams go on; the destinations stay.                                   *)
ReleaseNoStop(c) ==
  IF owner = c
    THEN owner' = None /\ dest' = [p \in Ports |-> None] /\ UNCHANGED <<rx, psd, out>>
    ELSE UNCHANGED <<owner, dest, rx, psd, out>>
ReleaseKeepsDest(c) ==
  IF owner = c THEN StopAll /\ owner' = None /\ UNCHANGED dest ELSE UNCHANGED <<owner, dest, rx, psd, out>>

Release(c) ==
  IF owner = c
    THEN StopAll /\ owner' = None /\ dest' = [p \in Ports |-> None]
    ELSE UNCHANGED <<owner, dest, rx, psd, out>>

Ends(c) ==
  /\ Closed(c)
  /\ Release(c)
  /\ UNCHANGED tx

Crash(c) ==
  /\ handler[c] = "serving" /\ ~closing(c) /\ inbox[c] # <<>> /\ Head(inbox[c]).op = "hello_crash"
  /\ Ends(c)

Finish(c) ==
  /\ handler[c] = "serving"
  /\ link[c] = "reset" \/ (link[c] = "eof" /\ inbox[c] = <<>>)
  /\ Ends(c)
-------------------------------------------------------------------------------
(* A turn of _iq_loop.  decimation divides by the rate: a stream with rate 0  *)
(* ends the task, after the streams before it have sent.                      *)
Active == {s \in StreamIds : rx[s].on}
Failing == {s \in Active : rx[s].cfg = Zero}
Sending == {s \in Active : \A z \in Failing : s < z}

Datagram(s) ==
  [to |-> dest["iq"], cfg |-> rx[s].cfg, seq |-> rx[s].seq, first |-> rx[s].first,
   changed |-> out[s] = NoDatagram \/ out[s].cfg # rx[s].cfg \/ out[s].to # dest["iq"]]

IqLoop ==
  /\ tx = "running" /\ Active # {} /\ dest["iq"] # None
  /\ rx' = [s \in StreamIds |->
              IF s \in Sending THEN [rx[s] EXCEPT !.first = FALSE, !.seq = (@ + 1) % SeqMod]
              ELSE IF s \in Failing /\ (\A z \in Failing : s <= z) THEN [rx[s] EXCEPT !.first = FALSE]
              ELSE rx[s]]
  /\ out' = [s \in StreamIds |-> IF s \in Sending THEN Datagram(s) ELSE out[s]]
  /\ tx' = IF Failing = {} THEN tx ELSE "dead"
  /\ UNCHANGED <<handler, link, inbox, owner, dest, psd>>

Handle(c) == Refuse(c) \/ Accept(c) \/ Serve(c) \/ Crash(c) \/ Finish(c)
Next ==
  \/ \E c \in Clients : Connect(c) \/ Drop(c) \/ Handle(c)
  \/ \E c \in Clients, r \in Requests : Send(c, r)
  \/ IqLoop
Spec == Init /\ [][Next]_vars
-------------------------------------------------------------------------------
(* The values have their types; a handler that is not serving owns nothing. *)
TypeOK ==
  /\ handler \in [Clients -> {"none", "ready", "serving"}]
  /\ link \in [Clients -> {"up", "eof", "reset"}]
  /\ \A c \in Clients : Len(inbox[c]) <= MaxInbox /\ \A i \in 1 .. Len(inbox[c]) : inbox[c][i] \in Requests
  /\ owner \in Clients \cup {None} /\ (owner # None => handler[owner] = "serving")
  /\ dest \in [Ports -> Clients \cup {None}]
  /\ rx \in [StreamIds -> [on : BOOLEAN, cfg : Configs, seq : 0 .. SeqMod - 1, first : BOOLEAN]]
  /\ psd \in BOOLEAN /\ tx \in {"none", "running", "dead"}

(* No stream is on and no destination is set while nobody owns the device,    *)
(* however the owner before went away.                                        *)
StreamsOwned == owner = None => On = {} /\ \A p \in Ports : dest[p] = None

(* Only the owner is served: a handler whose connection was taken over by     *)
(* another client's executes no further command.                              *)
OnlyOwnerServes == \A c \in Clients : handler[c] = "serving" /\ ~closing(c) => owner = c

(* A stream's datagram that follows a set_rx, a change of the tuning or of    *)
(* the destination begins a new sequence and carries CONFIG_CHANGED.          *)
Marked == \A s \in StreamIds : out[s].changed => out[s].first /\ out[s].seq = 0

(* The session of the control protocol, which the server is to implement. *)
Contract == INSTANCE Session WITH on <- On
===============================================================================
