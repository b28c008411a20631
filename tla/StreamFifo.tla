------------------------------ MODULE StreamFifo ------------------------------
(* What every stream buffer of the design promises its two ends: words come   *)
(* out once each, unchanged, in the order they went in, and never more than   *)
(* Depth of them wait inside.  A flush (reset) may discard the waiting words. *)
(* axis_async_fifo, axis_fifo and skid_buffer are shown to implement it.      *)
EXTENDS Naturals, Sequences

CONSTANTS Data, Depth

VARIABLES q,          \* the words inside, oldest first
          delivered   \* the last word the consumer accepted

Init == q = <<>> /\ delivered \in Data

Push(d) ==
  /\ Len(q) < Depth
  /\ q' = Append(q, d)
  /\ UNCHANGED delivered

Pop ==
  /\ q # <<>>
  /\ delivered' = Head(q)
  /\ q' = Tail(q)

(* Both ends move in one instant. *)
PushPop(d) ==
  /\ q # <<>>
  /\ Len(q) <= Depth
  /\ delivered' = Head(q)
  /\ q' = Append(Tail(q), d)

Flush == q' = <<>> /\ UNCHANGED delivered

Next ==
  \/ \E d \in Data : Push(d) \/ PushPop(d)
  \/ Pop
  \/ Flush

Spec == Init /\ [][Next]_<<q, delivered>>
===============================================================================
