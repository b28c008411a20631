--------------------------------- MODULE WebFeed ---------------------------------
(* rpi/backend: Broadcaster and the WebSocket loop of app.py that feeds one       *)
(* browser from it.  All of it runs in one event loop; what can happen between    *)
(* two awaits is a step.  Publications are numbered.  Each browser has a bounded  *)
(* queue that drops its oldest item, a task that takes from it, and a send that   *)
(* waits while the connection is slow.                                            *)
EXTENDS Naturals, Sequences

CONSTANTS Browsers,
          MaxQueue,     \* max_queue
          MaxPublish,   \* bound: publications
          Talkers,      \* those that send messages (the pages in frontend/ never do)
          Snapshot      \* /ws/status: a snapshot is sent before the subscription

VARIABLES
  loop,        \* where a browser's _websocket is
  queues,      \* its queue
  hand,        \* the item queue_task or send holds, 0 when none
  received,    \* receive_task: "none", "message" or "disconnect"
  published,   \* the number of the last publication
  delivered,   \* what the browser has got, in order
  since,       \* the last publication before it subscribed
  dropped      \* the items that were dropped from its full queue

session == <<loop, hand, received, delivered, since>>
vars == <<session, queues, published, dropped>>

None == 0
Items(q) == {q[i] : i \in DOMAIN q}
Subscribed == {b \in Browsers : loop[b] \in {"wait", "sending"}}

Init ==
  /\ loop = [b \in Browsers |-> "closed"] /\ queues = [b \in Browsers |-> <<>>]
  /\ hand = [b \in Browsers |-> None] /\ received = [b \in Browsers |-> "none"]
  /\ published = 1 /\ delivered = [b \in Browsers |-> <<>>]
  /\ since = [b \in Browsers |-> 0] /\ dropped = [b \in Browsers |-> {}]
-------------------------------------------------------------------------------
(* publish: into every queue; a full one loses its oldest item. Variant: it    *)
(* loses the new one.                                                          *)
PutKeepOldest(q, item) == IF Len(q) < MaxQueue THEN Append(q, item) ELSE q
Put(q, item) == IF Len(q) < MaxQueue THEN Append(q, item) ELSE Append(Tail(q), item)

publish ==
  /\ published < MaxPublish
  /\ published' = published + 1
  /\ queues' = [b \in Browsers |-> IF b \in Subscribed THEN Put(queues[b], published') ELSE queues[b]]
  /\ dropped' = [b \in Browsers |-> IF b \in Subscribed
                     THEN dropped[b] \cup ((Items(queues[b]) \cup {published'}) \ Items(queues'[b])) ELSE dropped[b]]
  /\ UNCHANGED session

(* _websocket: accepted; a status snapshot starts being sent. *)
Connect(b) ==
  /\ loop[b] = "closed" /\ delivered[b] = <<>>
  /\ loop' = [loop EXCEPT ![b] = IF Snapshot THEN "snapshot" ELSE "accepted"]
  /\ hand' = [hand EXCEPT ![b] = IF Snapshot THEN published ELSE None]
  /\ UNCHANGED <<received, delivered, since, queues, published, dropped>>

(* The snapshot is sent and the subscription made. *)
Subscribe(b) ==
  /\ loop[b] \in {"snapshot", "accepted"}
  /\ loop' = [loop EXCEPT ![b] = "wait"]
  /\ delivered' = [delivered EXCEPT ![b] = IF hand[b] = None THEN @ ELSE Append(@, hand[b])]
  /\ hand' = [hand EXCEPT ![b] = None]
  /\ queues' = [queues EXCEPT ![b] = <<>>]
  /\ since' = [since EXCEPT ![b] = published]
  /\ UNCHANGED <<received, published, dropped>>

(* queue_task takes an item; the loop does not know yet. Variant: it skips to   *)
(* the newest one.                                                              *)
GetNewest(b) ==
  /\ loop[b] = "wait" /\ hand[b] = None /\ queues[b] # <<>>
  /\ hand' = [hand EXCEPT ![b] = queues[b][Len(queues[b])]]
  /\ queues' = [queues EXCEPT ![b] = <<>>]
  /\ UNCHANGED <<loop, received, delivered, since, published, dropped>>
GetItem(b) ==
  /\ loop[b] = "wait" /\ hand[b] = None /\ queues[b] # <<>>
  /\ hand' = [hand EXCEPT ![b] = Head(queues[b])]
  /\ queues' = [queues EXCEPT ![b] = Tail(@)]
  /\ UNCHANGED <<loop, received, delivered, since, published, dropped>>

(* receive_task ends: the browser went away, or said something. *)
Receive(b) ==
  /\ loop[b] \in {"wait", "sending"} /\ received[b] = "none"
  /\ \E m \in {"disconnect"} \cup (IF b \in Talkers THEN {"message"} ELSE {}) : received' = [received EXCEPT ![b] = m]
  /\ UNCHANGED <<loop, hand, delivered, since, queues, published, dropped>>

(* asyncio.wait returns. A message makes the loop start over, with an item that *)
(* was taken at the same time lost.                                             *)
Wake(b) ==
  /\ loop[b] = "wait"
  /\ \/ /\ received[b] = "disconnect"
        /\ loop' = [loop EXCEPT ![b] = "gone"]
        /\ UNCHANGED <<hand, received>>
     \/ /\ received[b] = "message"
        /\ received' = [received EXCEPT ![b] = "none"]
        /\ hand' = [hand EXCEPT ![b] = None]
        /\ UNCHANGED loop
     \/ /\ received[b] = "none" /\ hand[b] # None
        /\ loop' = [loop EXCEPT ![b] = "sending"]
        /\ UNCHANGED <<hand, received>>
  /\ UNCHANGED <<delivered, since, queues, published, dropped>>

(* send returns: delivered, or an error when the browser is gone. *)
Sent(b) ==
  /\ loop[b] = "sending"
  /\ \/ /\ loop' = [loop EXCEPT ![b] = "wait"]
        /\ hand' = [hand EXCEPT ![b] = None]
        /\ delivered' = [delivered EXCEPT ![b] = Append(@, hand[b])]
     \/ /\ received[b] = "disconnect"
        /\ loop' = [loop EXCEPT ![b] = "gone"]
        /\ UNCHANGED <<hand, delivered>>
  /\ UNCHANGED <<received, since, queues, published, dropped>>

Step(b) == Subscribe(b) \/ GetItem(b) \/ Wake(b) \/ Sent(b)
Next == publish \/ \E b \in Browsers : Connect(b) \/ Receive(b) \/ Step(b)
Spec == Init /\ [][Next]_vars

(* The event loop runs what is ready, and a connection that stands takes data. *)
FairSpec == Spec /\ \A b \in Browsers : WF_vars(Step(b))
-------------------------------------------------------------------------------
(* Queues stay within max_queue. *)
TypeOK ==
  /\ loop \in [Browsers -> {"closed", "snapshot", "accepted", "wait", "sending", "gone"}]
  /\ \A b \in Browsers : Len(queues[b]) <= MaxQueue /\ hand[b] \in 0 .. published
  /\ received \in [Browsers -> {"none", "message", "disconnect"}]

(* A browser sees publications in order and none twice, its snapshot included.  *)
InOrder ==
  \A b \in Browsers : \A i, j \in DOMAIN delivered[b] : i < j => delivered[b][i] < delivered[b][j]

(* What was published since a silent browser subscribed has been delivered, is  *)
(* on its way, or was dropped from its own full queue: a slow browser costs the *)
(* others nothing.                                                              *)
OnlyOverflowDrops ==
  \A b \in Subscribed \ Talkers :
    since[b] + 1 .. published \subseteq
      Items(delivered[b]) \cup Items(queues[b]) \cup {hand[b]} \cup dropped[b]

(* The last publication reaches every browser that stays, if it was subscribed. *)
LastArrives ==
  \A b \in Browsers \ Talkers :
    (b \in Subscribed /\ published = MaxPublish /\ since[b] < published)
      ~> (loop[b] = "gone" \/ (delivered[b] # <<>> /\ delivered[b][Len(delivered[b])] = MaxPublish))
===============================================================================
