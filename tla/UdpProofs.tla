------------------------------- MODULE UdpProofs -------------------------------
(* The receiver threads, for any ports, forms of datagrams and bounds: only stop  *)
(* ends a thread, and a callback has the payload of its own datagram.             *)
EXTENDS UdpReceivers, TLAPS

(* The sockets are closed, and stop() goes on, only after _stop is set. *)
StopFirst ==
  /\ main.at \in {"close", "join", "down", "gone"} => stop
  /\ \A p \in Port : socket[p] = "closed" \/ thread[p] = "ended" => stop
ThreadInv ==
  /\ main \in [at : Blocked \cup {"new", "up", "failed", "closing", "down", "gone"}, i : Nat]
  /\ socket \in [Port -> {"none", "open", "closed"}]
  /\ thread \in [Port -> {"none", "recv", "handle", "ended"}]
  /\ StopFirst

LEMMA ThreadInit == Init => ThreadInv
BY DEF Init, ThreadInv, StopFirst, Blocked

LEMMA ThreadNext == ThreadInv /\ [Next]_vars => ThreadInv'
<1> SUFFICES ASSUME ThreadInv, [Next]_vars PROVE ThreadInv' OBVIOUS
<1> USE DEF ThreadInv, StopFirst, Blocked
<1>1. ASSUME NEW p \in Port, Receive(p) PROVE ThreadInv'
  BY <1>1 DEF Receive
<1>2. ASSUME NEW p \in Port, ReceiveFails(p) PROVE ThreadInv'
  BY <1>2 DEF ReceiveFails
<1>3. ASSUME NEW p \in Port, Handle(p) PROVE ThreadInv'
  <2> DEFINE raises == main.at = "gone" /\ Posted(p, buffer[p]) # <<>>
  <2>1. /\ thread' = [thread EXCEPT ![p] = IF stop \/ raises THEN "ended" ELSE "recv"]
        /\ UNCHANGED <<main, socket, stop>>
    BY <1>3 DEF Handle
  <2>2. raises => stop OBVIOUS
  <2> HIDE DEF raises
  <2> QED BY <2>1, <2>2
<1>4. CASE DeviceClosed
  BY <1>4 DEF DeviceClosed
<1>5. CASE CloseSockets
  BY <1>5 DEF CloseSockets
<1>6. CASE Join
  BY <1>6 DEF Join
<1>7. CASE start_socket
  <2> DEFINE q == Ports[main.i]
  <2>1. socket' = [socket EXCEPT ![q] = "open"] /\ thread' = [thread EXCEPT ![q] = "recv"] /\ stop' = stop
    BY <1>7 DEF start_socket
  <2>2. main'.at \in {"up", "start"} /\ main' \in [at : {"up", "start"}, i : Nat]
    BY <1>7 DEF start_socket
  <2> HIDE DEF q
  <2>3. /\ socket' \in [Port -> {"none", "open", "closed"}]
        /\ thread' \in [Port -> {"none", "recv", "handle", "ended"}]
    BY <2>1
  <2>4. \A p \in Port : socket'[p] = "closed" \/ thread'[p] = "ended" => stop'
    BY <2>1
  <2> QED BY <2>2, <2>3, <2>4
<1>8. CASE Startup \/ BindFails \/ Shutdown \/ LoopCloses
  BY <1>8 DEF Startup, BindFails, Shutdown, LoopCloses
<1>9. CASE RunCallback \/ \E p \in Port, form \in Forms : Arrive(p, form)
  BY <1>9 DEF RunCallback, Arrive
<1>10. CASE UNCHANGED vars
  BY <1>10 DEF vars
<1> QED
  BY <1>1, <1>2, <1>3, <1>4, <1>5, <1>6, <1>7, <1>8, <1>9, <1>10 DEF Next, Thread, Stopping

(* Whatever datagrams arrive, and whenever start() fails or shutdown comes, a     *)
(* thread in _loop ends only once stop() has begun.                               *)
THEOREM UdpOnlyStopEnds == Spec => []OnlyStopEnds
<1>1. Init => ThreadInv BY ThreadInit
<1>2. ThreadInv /\ [Next]_vars => ThreadInv' BY ThreadNext
<1>3. ThreadInv => OnlyStopEnds BY DEF ThreadInv, StopFirst, OnlyStopEnds
<1> QED BY <1>1, <1>2, <1>3, PTL DEF Spec
-------------------------------------------------------------------------------
(* Datagrams are numbered as they arrive, and a port's keep their order: what has *)
(* been handled comes before what waits in calls, that before what is in the      *)
(* buffer, that before what is in the socket.                                     *)
Received == {Datagram(p, n, form) : p \in Port, n \in Nat, form \in Forms}
Calls == [port : Port, error : BOOLEAN, header : Nat, payload : Nat]
IdTypes ==
  /\ arrived \in Nat /\ queue \in [Port -> Seq(Received)] /\ buffer \in [Port -> Received \cup {None}]
  /\ calls \in Seq(Calls) /\ handled \in [Port -> [header : Nat, payload : Nat]]
  /\ thread \in [Port -> {"none", "recv", "handle", "ended"}]
QueueOrder(q, b, a) ==
  /\ \A i \in 1 .. Len(q) : b < q[i].id /\ q[i].id <= a
  /\ \A i, j \in 1 .. Len(q) : i < j => q[i].id < q[j].id
BufferOrder ==
  \A p \in Port :
    /\ QueueOrder(queue[p], buffer[p].id, arrived)
    /\ buffer[p].id <= arrived /\ handled[p].header <= buffer[p].id
    /\ thread[p] = "handle" => handled[p].header < buffer[p].id
CallOrder ==
  /\ \A i \in 1 .. Len(calls) :
       /\ calls[i].payload = calls[i].header
       /\ handled[calls[i].port].header < calls[i].header
       /\ calls[i].header <= buffer[calls[i].port].id
       /\ thread[calls[i].port] = "handle" => calls[i].header < buffer[calls[i].port].id
  /\ \A i, j \in 1 .. Len(calls) :
       i < j /\ calls[i].port = calls[j].port => calls[i].header < calls[j].header
IdInv == IdTypes /\ BufferOrder /\ CallOrder

LEMMA DatagramId == ASSUME NEW p, NEW n, NEW form PROVE Datagram(p, n, form).id = n
BY DEF Datagram, Good

LEMMA DatagramReceived ==
  ASSUME NEW p \in Port, NEW n \in Nat, NEW form \in Forms PROVE Datagram(p, n, form) \in Received
BY DEF Received

LEMMA ReceivedIds == \A d \in Received \cup {None} : d.id \in Nat
BY DatagramId DEF Received, None

LEMMA IdInit == Init => IdInv
BY DEF Init, IdInv, IdTypes, BufferOrder, CallOrder, QueueOrder, None

(* The callback that runs is the oldest of its port that has not. *)
LEMMA RunsNext ==
  ASSUME IdInv, RunCallback
  PROVE  OwnPayloads /\ IdInv'
<1> DEFINE c == Head(calls)
<1>1. c \in Calls /\ c = calls[1] /\ Len(calls) \in Nat /\ Len(calls) >= 1
  BY DEF IdInv, IdTypes, RunCallback
<1>2. c.payload = c.header /\ handled[c.port].header < c.header /\ c.header <= buffer[c.port].id
  BY <1>1 DEF IdInv, CallOrder
<1>3. thread[c.port] = "handle" => c.header < buffer[c.port].id
  BY <1>1 DEF IdInv, CallOrder
<1>4. c.port \in Port /\ c.header \in Nat /\ handled[c.port].header \in Nat
  BY <1>1 DEF IdInv, IdTypes, Calls
<1>5. c.payload # View BY <1>2, <1>4 DEF View
<1>6. /\ calls' = Tail(calls) /\ UNCHANGED <<thread, queue, buffer, arrived>>
      /\ handled' = IF c.error THEN handled
                    ELSE [handled EXCEPT ![c.port] = [header |-> c.header, payload |-> c.header]]
  BY <1>2, <1>5 DEF RunCallback
<1>7. calls' \in Seq(Calls) /\ Len(calls') = Len(calls) - 1 /\ \A i \in 1 .. Len(calls') : calls'[i] = calls[i + 1]
  BY <1>1, <1>6 DEF IdInv, IdTypes
<1>8. \A i \in 1 .. Len(calls') : i + 1 \in 1 .. Len(calls) /\ 1 < i + 1
  BY <1>1, <1>7
<1> HIDE DEF c
<1>9. \A p \in Port : handled'[p].header = handled[p].header \/ (p = c.port /\ handled'[p].header = c.header)
  BY <1>4, <1>6 DEF IdInv, IdTypes
<1>10. OwnPayloads
  BY <1>2, <1>4, <1>6 DEF OwnPayloads, IdInv, IdTypes
<1>11. IdTypes' BY <1>4, <1>6, <1>7 DEF IdInv, IdTypes
<1>12. BufferOrder' BY <1>2, <1>3, <1>6, <1>9 DEF IdInv, BufferOrder, QueueOrder
<1>13. CallOrder'
  <2>1. \A i \in 1 .. Len(calls') : calls'[i].port \in Port
    <3>1. \A i \in 1 .. Len(calls') : calls'[i] \in Calls BY <1>7
    <3> QED BY <3>1 DEF Calls
  <2>2. ASSUME NEW i \in 1 .. Len(calls') PROVE handled'[calls'[i].port].header < calls'[i].header
    BY <1>1, <1>7, <1>8, <1>9, <2>1, <2>2 DEF IdInv, CallOrder
  <2> QED BY <1>6, <1>7, <1>8, <2>2 DEF IdInv, CallOrder
<1> QED BY <1>10, <1>11, <1>12, <1>13 DEF IdInv

(* The handler's callback is the newest of its port. *)
LEMMA PostsLast ==
  ASSUME IdInv, NEW p \in Port, Handle(p)
  PROVE  IdInv'
<1> DEFINE n == buffer[p].id
           m == Callback(p, buffer[p], n)[1]
<1>1. n \in Nat /\ handled[p].header < n
  BY ReceivedIds DEF IdInv, IdTypes, BufferOrder, Handle
<1>2. m \in Calls /\ m.port = p /\ m.header = n /\ m.payload = n /\ Callback(p, buffer[p], n) = <<m>>
  <2>1. Raises(p, buffer[p]) \in BOOLEAN BY DEF Raises
  <2> QED BY <1>1, <2>1 DEF Callback, Calls
<1>3. /\ calls' = calls \/ calls' = Append(calls, m)
      /\ UNCHANGED <<queue, buffer, arrived, handled>>
      /\ thread' \in [Port -> {"none", "recv", "handle", "ended"}]
      /\ \A q \in Port : thread'[q] = IF q = p THEN thread'[p] ELSE thread[q]
      /\ thread'[p] # "handle"
  <2> DEFINE posted == Posted(p, buffer[p])
             raises == main.at = "gone" /\ posted # <<>>
  <2>1. /\ calls' = IF raises THEN calls ELSE calls \o posted
        /\ thread' = [thread EXCEPT ![p] = IF stop \/ raises THEN "ended" ELSE "recv"]
        /\ UNCHANGED <<queue, buffer, arrived, handled>>
    BY DEF Handle
  <2>2. posted = <<>> \/ posted = <<m>> BY <1>2 DEF Posted
  <2>3. calls \in Seq(Calls) /\ thread \in [Port -> {"none", "recv", "handle", "ended"}]
    BY DEF IdInv, IdTypes
  <2> HIDE DEF posted, raises, m
  <2>4. calls' = calls \/ calls' = Append(calls, m)
    <3>1. CASE raises BY <2>1, <3>1
    <3>2. CASE ~raises /\ posted = <<>> BY <2>1, <2>3, <3>2
    <3>3. CASE ~raises /\ posted = <<m>> BY <1>2, <2>1, <2>3, <3>3
    <3> QED BY <2>2, <3>1, <3>2, <3>3
  <2> QED BY <2>1, <2>3, <2>4
<1> HIDE DEF n, m
<1>4. calls' \in Seq(Calls)
  <2>1. calls \in Seq(Calls) BY DEF IdInv, IdTypes
  <2> QED BY <1>2, <1>3, <2>1
<1>5. IdTypes' BY <1>3, <1>4 DEF IdInv, IdTypes
<1>6. BufferOrder' BY <1>3 DEF IdInv, BufferOrder, QueueOrder
<1>7. \A i \in 1 .. Len(calls) : calls[i] \in Calls /\ calls[i].port \in Port
  <2>1. \A i \in 1 .. Len(calls) : calls[i] \in Calls BY DEF IdInv, IdTypes
  <2> QED BY <2>1 DEF Calls
<1>8. \A i \in 1 .. Len(calls) : calls[i].port = p => calls[i].header < n
  BY <1>7 DEF IdInv, CallOrder, n, Handle
<1>9. ASSUME calls' = calls PROVE CallOrder'
  BY <1>3, <1>7, <1>9 DEF IdInv, CallOrder
<1>10. ASSUME calls' = Append(calls, m) PROVE CallOrder'
  <2>1. /\ Len(calls) \in Nat /\ Len(calls') = Len(calls) + 1 /\ calls'[Len(calls) + 1] = m
        /\ \A i \in 1 .. Len(calls) : calls'[i] = calls[i]
    BY <1>10 DEF IdInv, IdTypes
  <2>2. ASSUME NEW i \in 1 .. Len(calls')
        PROVE  /\ calls'[i].payload = calls'[i].header
               /\ handled'[calls'[i].port].header < calls'[i].header
               /\ calls'[i].header <= buffer'[calls'[i].port].id
               /\ thread'[calls'[i].port] = "handle" => calls'[i].header < buffer'[calls'[i].port].id
    <3>1. CASE i = Len(calls) + 1
      BY <1>1, <1>2, <1>3, <2>1, <3>1 DEF n
    <3>2. CASE i \in 1 .. Len(calls)
      BY <1>3, <1>7, <2>1, <3>2 DEF IdInv, CallOrder
    <3> QED BY <2>1, <3>1, <3>2
  <2>3. ASSUME NEW i \in 1 .. Len(calls'), NEW j \in 1 .. Len(calls'), i < j, calls'[i].port = calls'[j].port
        PROVE  calls'[i].header < calls'[j].header
    <3>1. i \in 1 .. Len(calls) BY <2>1, <2>3
    <3>2. CASE j = Len(calls) + 1
      BY <1>2, <1>8, <2>1, <2>3, <3>1, <3>2
    <3>3. CASE j \in 1 .. Len(calls)
      BY <2>1, <2>3, <3>1, <3>3 DEF IdInv, CallOrder
    <3> QED BY <2>1, <3>2, <3>3
  <2> QED BY <2>2, <2>3 DEF CallOrder
<1> QED BY <1>3, <1>5, <1>6, <1>9, <1>10 DEF IdInv

(* The thread takes the oldest datagram of its socket. *)
LEMMA ReceivesNext ==
  ASSUME IdInv, NEW p \in Port, Receive(p)
  PROVE  IdInv'
<1> DEFINE d == Head(queue[p])
<1>1. queue[p] \in Seq(Received) /\ queue[p] # <<>>
  BY DEF IdInv, IdTypes, Receive
<1>2. /\ d \in Received /\ d = queue[p][1] /\ Len(queue[p]) \in Nat /\ Len(queue[p]) >= 1
      /\ Tail(queue[p]) \in Seq(Received) /\ Len(Tail(queue[p])) = Len(queue[p]) - 1
      /\ \A i \in 1 .. Len(Tail(queue[p])) : Tail(queue[p])[i] = queue[p][i + 1] /\ i + 1 \in 1 .. Len(queue[p]) /\ 1 < i + 1
  BY <1>1
<1>3. /\ buffer' = [buffer EXCEPT ![p] = d] /\ queue' = [queue EXCEPT ![p] = Tail(queue[p])]
      /\ thread' = [thread EXCEPT ![p] = "handle"] /\ UNCHANGED <<calls, arrived, handled>>
  BY DEF Receive
<1>4. d.id \in Nat /\ buffer[p].id \in Nat /\ buffer[p].id < d.id /\ d.id <= arrived
  BY <1>2, ReceivedIds DEF IdInv, IdTypes, BufferOrder, QueueOrder
<1> HIDE DEF d
<1>5. IdTypes' BY <1>2, <1>3 DEF IdInv, IdTypes
<1>6. \A q \in Port : q # p => buffer'[q] = buffer[q] /\ queue'[q] = queue[q] /\ thread'[q] = thread[q]
  BY <1>3 DEF IdInv, IdTypes
<1>7. buffer'[p] = d /\ queue'[p] = Tail(queue[p]) /\ thread'[p] = "handle"
  BY <1>3 DEF IdInv, IdTypes
<1>8. handled[p].header \in Nat /\ handled[p].header <= buffer[p].id
  BY DEF IdInv, IdTypes, BufferOrder
<1>9. BufferOrder'
  <2>1. ASSUME NEW q \in Port, q # p
        PROVE  /\ QueueOrder(queue'[q], buffer'[q].id, arrived')
               /\ buffer'[q].id <= arrived' /\ handled'[q].header <= buffer'[q].id
               /\ thread'[q] = "handle" => handled'[q].header < buffer'[q].id
    BY <1>3, <1>6, <2>1 DEF IdInv, BufferOrder, QueueOrder
  <2>2. QueueOrder(queue[p], buffer[p].id, arrived) BY DEF IdInv, BufferOrder
  <2>3. QueueOrder(queue'[p], buffer'[p].id, arrived')
    <3> DEFINE r == Tail(queue[p])
    <3>1. queue'[p] = r /\ buffer'[p].id = d.id /\ arrived' = arrived BY <1>3, <1>7
    <3>2. \A i \in 1 .. Len(r) : r[i] = queue[p][i + 1] /\ i + 1 \in 1 .. Len(queue[p]) /\ 1 < i + 1
      BY <1>2
    <3>3. d = queue[p][1] /\ 1 \in 1 .. Len(queue[p]) BY <1>2
    <3> HIDE DEF r
    <3>4. \A i \in 1 .. Len(r) : d.id < r[i].id /\ r[i].id <= arrived
      BY <2>2, <3>2, <3>3 DEF QueueOrder
    <3>5. ASSUME NEW i \in 1 .. Len(r), NEW j \in 1 .. Len(r), i < j PROVE r[i].id < r[j].id
      <4>1. i + 1 < j + 1 BY <3>5
      <4> QED BY <2>2, <3>2, <4>1 DEF QueueOrder
    <3> QED BY <3>1, <3>4, <3>5 DEF QueueOrder
  <2>4. buffer'[p].id <= arrived' /\ handled'[p].header < buffer'[p].id /\ handled'[p].header <= buffer'[p].id
    BY <1>3, <1>4, <1>7, <1>8
  <2> QED BY <2>1, <2>3, <2>4 DEF BufferOrder
<1>10. CallOrder'
  <2>1. \A i \in 1 .. Len(calls) : calls[i] \in Calls BY DEF IdInv, IdTypes
  <2>2. \A i \in 1 .. Len(calls) : calls[i].port \in Port /\ calls[i].header \in Nat BY <2>1 DEF Calls
  <2>3. ASSUME NEW i \in 1 .. Len(calls)
        PROVE  calls[i].header <= buffer'[calls[i].port].id
               /\ (thread'[calls[i].port] = "handle" => calls[i].header < buffer'[calls[i].port].id)
    <3>1. CASE calls[i].port = p
      BY <1>4, <1>7, <2>2, <3>1, SMTT(30) DEF IdInv, CallOrder
    <3>2. CASE calls[i].port # p
      BY <1>6, <2>2, <3>2 DEF IdInv, CallOrder
    <3> QED BY <3>1, <3>2
  <2> QED BY <1>3, <2>3 DEF IdInv, CallOrder
<1> QED BY <1>5, <1>9, <1>10 DEF IdInv

(* A datagram that arrives is the newest of all. *)
LEMMA ArrivesLast ==
  ASSUME IdInv, NEW p \in Port, NEW form \in Forms, Arrive(p, form)
  PROVE  IdInv'
<1> DEFINE d == Datagram(p, arrived + 1, form)
<1>1. arrived \in Nat /\ queue[p] \in Seq(Received) BY DEF IdInv, IdTypes
<1>2. d \in Received /\ d.id = arrived + 1
  <2>1. d.id = arrived + 1 BY DatagramId
  <2>2. arrived + 1 \in Nat BY <1>1
  <2>3. d \in Received BY <2>2, DatagramReceived
  <2> QED BY <2>1, <2>3
<1>3. /\ arrived' = arrived + 1 /\ queue' = [queue EXCEPT ![p] = Append(queue[p], d)]
      /\ UNCHANGED <<thread, buffer, calls, handled>>
  BY DEF Arrive
<1> HIDE DEF d
<1>4. IdTypes' BY <1>1, <1>2, <1>3 DEF IdInv, IdTypes
<1>5. \A q \in Port : buffer[q].id \in Nat /\ buffer[q].id <= arrived
  BY ReceivedIds DEF IdInv, IdTypes, BufferOrder
<1>6. ASSUME NEW q \in Port PROVE QueueOrder(queue'[q], buffer[q].id, arrived')
  <2>1. QueueOrder(queue[q], buffer[q].id, arrived) BY DEF IdInv, BufferOrder
  <2>2. \A i \in 1 .. Len(queue[q]) : queue[q][i] \in Received BY DEF IdInv, IdTypes
  <2>3. \A i \in 1 .. Len(queue[q]) : queue[q][i].id \in Nat BY <2>2, ReceivedIds
  <2>4. CASE q # p
    BY <1>1, <1>3, <2>1, <2>3, <2>4 DEF QueueOrder, IdInv, IdTypes
  <2>5. CASE q = p
    <3>1. queue'[p] = Append(queue[p], d) BY <1>3 DEF IdInv, IdTypes
    <3>2. /\ Len(queue[p]) \in Nat /\ Len(queue'[p]) = Len(queue[p]) + 1 /\ queue'[p][Len(queue[p]) + 1] = d
          /\ \A i \in 1 .. Len(queue[p]) : queue'[p][i] = queue[p][i]
      BY <1>1, <1>2, <3>1
    <3>3. \A i \in 1 .. Len(queue'[p]) : i \in 1 .. Len(queue[p]) \/ i = Len(queue[p]) + 1 BY <3>2
    <3>4. \A i \in 1 .. Len(queue'[p]) : buffer[p].id < queue'[p][i].id /\ queue'[p][i].id <= arrived'
      BY <1>1, <1>2, <1>3, <1>5, <2>1, <2>3, <2>5, <3>2, <3>3 DEF QueueOrder
    <3>5. \A i, j \in 1 .. Len(queue'[p]) : i < j => queue'[p][i].id < queue'[p][j].id
      <4> SUFFICES ASSUME NEW i \in 1 .. Len(queue'[p]), NEW j \in 1 .. Len(queue'[p]), i < j
                   PROVE  queue'[p][i].id < queue'[p][j].id
        OBVIOUS
      <4>1. i \in 1 .. Len(queue[p]) BY <3>2
      <4>2. CASE j \in 1 .. Len(queue[p]) BY <2>1, <2>5, <3>2, <4>1, <4>2 DEF QueueOrder
      <4>3. CASE j = Len(queue[p]) + 1
        <5>1. queue'[p][i].id \in Nat /\ queue'[p][i].id <= arrived BY <2>1, <2>3, <2>5, <3>2, <4>1 DEF QueueOrder
        <5>2. queue'[p][j].id = arrived + 1 BY <1>2, <3>2, <4>3
        <5> QED BY <1>1, <5>1, <5>2
      <4> QED BY <3>3, <4>2, <4>3
    <3> QED BY <1>3, <2>5, <3>4, <3>5 DEF QueueOrder
  <2> QED BY <2>4, <2>5
<1>7. BufferOrder' BY <1>1, <1>3, <1>5, <1>6 DEF IdInv, BufferOrder
<1>8. CallOrder' BY <1>3 DEF IdInv, CallOrder
<1> QED BY <1>4, <1>7, <1>8 DEF IdInv

(* The other steps of the threads and of start() and stop() only let go of        *)
(* datagrams, or start or end threads.                                            *)
LEMMA OthersKeepOrder ==
  ASSUME IdInv, UNCHANGED <<buffer, calls, arrived, handled>>,
         queue' = queue \/ queue' = [p \in Port |-> <<>>],
         thread' \in [Port -> {"none", "recv", "handle", "ended"}],
         \A p \in Port : thread'[p] = "handle" => thread[p] = "handle"
  PROVE  IdInv'
<1>1. queue' \in [Port -> Seq(Received)]
  <2>1. <<>> \in Seq(Received) OBVIOUS
  <2> QED BY <2>1 DEF IdInv, IdTypes
<1>2. IdTypes' BY <1>1 DEF IdInv, IdTypes
<1>3. \A p \in Port : QueueOrder(queue'[p], buffer'[p].id, arrived')
  BY DEF IdInv, BufferOrder, QueueOrder
<1>4. BufferOrder' BY <1>3 DEF IdInv, BufferOrder
<1>5. \A i \in 1 .. Len(calls) : calls[i] \in Calls BY DEF IdInv, IdTypes
<1>6. \A i \in 1 .. Len(calls) : calls[i].port \in Port BY <1>5 DEF Calls
<1>7. CallOrder' BY <1>6 DEF IdInv, CallOrder
<1> QED BY <1>2, <1>4, <1>7 DEF IdInv

LEMMA IdNext == IdInv /\ [Next]_vars => IdInv' /\ (OwnPayloads \/ handled' = handled)
<1> SUFFICES ASSUME IdInv, [Next]_vars PROVE IdInv' /\ (OwnPayloads \/ handled' = handled) OBVIOUS
<1>0. thread \in [Port -> {"none", "recv", "handle", "ended"}] BY DEF IdInv, IdTypes
<1>1. CASE RunCallback BY <1>1, RunsNext
<1>2. ASSUME NEW p \in Port, Receive(p) PROVE IdInv' /\ handled' = handled
  BY <1>2, ReceivesNext DEF Receive
<1>3. ASSUME NEW p \in Port, Handle(p) PROVE IdInv' /\ handled' = handled
  BY <1>3, PostsLast DEF Handle
<1>4. ASSUME NEW p \in Port, NEW form \in Forms, Arrive(p, form) PROVE IdInv' /\ handled' = handled
  BY <1>4, ArrivesLast DEF Arrive
<1>5. ASSUME NEW p \in Port, ReceiveFails(p) PROVE IdInv' /\ handled' = handled
  BY <1>0, <1>5, OthersKeepOrder DEF ReceiveFails
<1>6. CASE start_socket
  <2> DEFINE q == Ports[main.i]
  <2>1. thread' = [thread EXCEPT ![q] = "recv"] /\ UNCHANGED <<queue, buffer, calls, arrived, handled>>
    BY <1>6 DEF start_socket
  <2> HIDE DEF q
  <2> QED BY <1>0, <2>1, OthersKeepOrder
<1>7. CASE CloseSockets
  BY <1>0, <1>7, OthersKeepOrder DEF CloseSockets
<1>8. CASE DeviceClosed \/ Join \/ Startup \/ BindFails \/ Shutdown \/ LoopCloses
  <2>1. UNCHANGED <<thread, queue, buffer, calls, arrived, handled>>
    BY <1>8 DEF DeviceClosed, Join, Startup, BindFails, Shutdown, LoopCloses
  <2> QED BY <1>0, <2>1, OthersKeepOrder
<1>9. CASE UNCHANGED vars
  <2>1. UNCHANGED <<thread, queue, buffer, calls, arrived, handled>> BY <1>9 DEF vars
  <2> QED BY <1>0, <2>1, OthersKeepOrder
<1> QED
  BY <1>1, <1>2, <1>3, <1>4, <1>5, <1>6, <1>7, <1>8, <1>9 DEF Next, Thread, Stopping

(* _handle_iq, _handle_psd and _handle_status run with the payload that came with *)
(* their header, and in the order of their port's datagrams: bytes(...) copies    *)
(* before the thread fills its buffer again.                                      *)
THEOREM UdpOwnPayload == Spec => OwnPayload
<1>1. Init => IdInv BY IdInit
<1>2. IdInv /\ [Next]_vars => IdInv' BY IdNext
<1>3. IdInv /\ [Next]_vars => [OwnPayloads]_handled BY IdNext
<1> QED BY <1>1, <1>2, <1>3, PTL DEF Spec, OwnPayload
===============================================================================
