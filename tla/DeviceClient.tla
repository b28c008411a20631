------------------------------ MODULE DeviceClient ------------------------------
(* rpi/backend/sdr_backend/device_client.py: the asyncio client of the AC920's    *)
(* control connection.  API handlers (Callers), connect() calls (Connectors) and  *)
(* heartbeat tasks (Beats) run concurrently and share _reader/_writer, the lock   *)
(* and _heartbeat_task.  A step of a task runs from one await to the next.  The   *)
(* device answers the requests of a connection in order, arbitrarily late, and    *)
(* may refuse, or drop, a connection at any time.                                 *)
(*                                                                                *)
(* A request_id is only ever compared with the ids of requests still unanswered   *)
(* or answers still unread, so ids are drawn afresh from a small set.  Event-loop *)
(* callbacks that are ready run before the network is polled: a connection does   *)
(* not open while a task that has the lock is ready to run.                       *)
EXTENDS Naturals, Sequences, Functions, FiniteSets

CONSTANTS Callers, Connectors, Beats,
          Conns,      \* connections that may exist at once
          MaxStale,   \* bound: no new call while so many earlier requests are unread
          MaxIds      \* bound: request ids, taken up again once they are read

ASSUME TasksAssumption ==
  /\ IsFiniteSet(Callers) /\ IsFiniteSet(Connectors) /\ IsFiniteSet(Beats)
  /\ Callers \cap Connectors = {} /\ Callers \cap Beats = {} /\ Connectors \cap Beats = {}
ASSUME BoundsAssumption == MaxStale \in Nat /\ MaxIds \in Nat
ASSUME NoneAssumption == "none" \notin Beats \cup Conns

VARIABLES
  task,     \* task -> [pc, conn, id, then]
  lockq,    \* _lock: the holder first, then its waiters in order
  cur,      \* the connection _reader and _writer belong to, or None
  beat,     \* _heartbeat_task, or None
  conn      \* connection -> [state, eof, asked, answers, first]

vars == <<task, lockq, cur, beat, conn>>

None == "none"
Tasks == Callers \cup Connectors \cup Beats
Idle == [pc |-> "idle", conn |-> None, id |-> 0, then |-> None]
NoConn == [state |-> "free", eof |-> FALSE, asked |-> <<>>, answers |-> <<>>, first |-> None]

At(t, pc) == task[t].pc = pc
Goto(pc) == [Idle EXCEPT !.pc = pc]
Live(c) == conn[c].state = "open" /\ ~conn[c].eof

(* The connected property: a writer that is not closing. *)
connected == cur # None /\ conn[cur].state = "open"

(* Requests of connection c that are unanswered or unread, and the ones of   *)
(* them nobody waits for any more.                                           *)
Unread(c) == Range(conn[c].asked) \cup {a.id : a \in Range(conn[c].answers)}
Waiting(c) == {t \in Tasks : At(t, "wait") /\ task[t].conn = c}
Stale(c) == Unread(c) \ ({0} \cup {task[t].id : t \in Waiting(c)})

Init ==
  /\ task = [t \in Tasks |-> Idle] /\ lockq = <<>>
  /\ cur = None /\ beat = None
  /\ conn = [c \in Conns |-> NoConn]
-------------------------------------------------------------------------------
(* request(), holding the lock: write, then wait in readline() on the reader *)
(* of this moment.  A transport that is closing discards what is written.    *)
(* _request_id is that of no unread request; all such ids are alike.         *)
NewIds(c) == 1 .. MaxIds \ Unread(c)
Kind(t) == IF t \in Connectors THEN "hello" ELSE "other"
Write(t, c, cs) ==
  LET i == IF cs[c].state = "open" THEN CHOOSE i \in NewIds(c) : TRUE ELSE 0
  IN  /\ NewIds(c) # {}
      /\ task' = [task EXCEPT ![t] = [pc |-> "wait", conn |-> c, id |-> i, then |-> None]]
      /\ conn' = [cs EXCEPT
           ![c].asked = IF cs[c].state = "open" /\ ~cs[c].eof THEN Append(@, i) ELSE @,
           ![c].first = IF @ = None /\ cs[c].state = "open" THEN Kind(t) ELSE @]

(* request() up to its first await: take the lock if nobody holds or awaits  *)
(* it, else queue.                                                           *)
Request(t, c, cs) ==
  /\ lockq' = Append(lockq, t)
  /\ IF lockq = <<>>
       THEN Write(t, c, cs)
       ELSE task' = [task EXCEPT ![t] = Goto("lock")] /\ conn' = cs

(* The part of close() after the heartbeat, up to its next await; then says  *)
(* what the task does once it is closed.                                     *)
After(then) == IF then = "open" THEN Goto("opening") ELSE Idle
CloseWriter(t, then, cs) ==
  IF cur # None
    THEN /\ task' = [task EXCEPT ![t] = [pc |-> "await_close", conn |-> cur, id |-> 0, then |-> then]]
         /\ conn' = [cs EXCEPT ![cur].state = "closing", ![cur].asked = <<>>]
    ELSE task' = [task EXCEPT ![t] = After(then)] /\ conn' = cs

(* The queue without t, whatever t's place in it. *)
Leave(q, t) ==
  LET i == CHOOSE i \in DOMAIN q : q[i] = t
  IN  IF t \notin Range(q) THEN q
      ELSE [j \in 1 .. Len(q) - 1 |-> IF j < i THEN q[j] ELSE q[j + 1]]

(* close() up to its first await.  A heartbeat that is cancelled leaves the  *)
(* lock, or the queue for it, and is gone.                                   *)
Close(t, then, q, cs) ==
  /\ beat' = None
  /\ IF beat \notin {None, t}
       THEN /\ task' = [task EXCEPT ![beat] = Idle, ![t] = [Goto("await_beat") EXCEPT !.then = then]]
            /\ lockq' = Leave(q, beat)
            /\ conn' = cs
       ELSE CloseWriter(t, then, cs) /\ lockq' = q

BeatGone(t) ==
  /\ At(t, "await_beat")
  /\ CloseWriter(t, task[t].then, conn)
  /\ UNCHANGED <<lockq, cur, beat>>

(* The transport is closed: everyone in wait_closed() on it resumes in the   *)
(* same pass of the event loop and clears _reader and _writer.               *)
ConnLost(c) ==
  LET waiters == {t \in Tasks : At(t, "await_close") /\ task[t].conn = c}
  IN  /\ conn[c].state = "closing"
      /\ task' = [t \in Tasks |-> IF t \in waiters THEN After(task[t].then) ELSE task[t]]
      /\ cur' = IF waiters = {} THEN cur ELSE None
      /\ conn' = [conn EXCEPT ![c].state = "closed", ![c].eof = TRUE]
      /\ UNCHANGED <<lockq, beat>>

(* A closed connection nobody refers to is forgotten. *)
Forget(c) ==
  /\ conn[c].state = "closed" /\ Waiting(c) = {} /\ cur # c
  /\ conn' = [conn EXCEPT ![c] = NoConn]
  /\ UNCHANGED <<task, lockq, cur, beat>>

(* t holds the lock and has nothing to wait for. *)
HasEof(c) == conn[c].eof \/ conn[c].state \in {"reset", "closed"}
Ready(t) ==
  \/ At(t, "lock") /\ lockq # <<>> /\ t = Head(lockq)
  \/ At(t, "wait") /\ (conn[task[t].conn].answers # <<>> \/ HasEof(task[t].conn))
-------------------------------------------------------------------------------
(* Variant of connect() that does not close the connection it replaces. *)
ConnectNoClose(t) ==
  /\ t \in Connectors /\ At(t, "idle")
  /\ task' = [task EXCEPT ![t] = Goto("opening")]
  /\ UNCHANGED <<lockq, beat, conn, cur>>

(* connect(): close what there is, then open. *)
Connect(t) ==
  /\ t \in Connectors /\ At(t, "idle")
  /\ Close(t, "open", lockq, conn)
  /\ UNCHANGED cur

(* open_connection succeeded: the new streams replace whatever is there, and *)
(* hello is requested.  All free connections are alike.                      *)
Opened(t) ==
  LET c == CHOOSE c \in Conns : conn[c].state = "free"
  IN  /\ At(t, "opening") /\ \E d \in Conns : conn[d].state = "free"
      /\ \A u \in Tasks : ~Ready(u)
      /\ cur' = c
      /\ Request(t, c, [conn EXCEPT ![c].state = "open"])
      /\ UNCHANGED beat

(* open_connection failed or took 5 s: close() and raise. *)
OpenFails(t) ==
  /\ At(t, "opening")
  /\ Close(t, "fail", lockq, conn)
  /\ UNCHANGED cur

(* An API handler issues a command; the None check comes before the lock. *)
Call(t) ==
  /\ t \in Callers /\ At(t, "idle") /\ cur # None /\ Cardinality(Stale(cur)) < MaxStale
  /\ Request(t, cur, conn)
  /\ UNCHANGED <<cur, beat>>

(* _heartbeat_loop, every 2 s. *)
Ping(t) ==
  /\ At(t, "sleep") /\ connected
  /\ Request(t, cur, conn)
  /\ UNCHANGED <<cur, beat>>

(* A request ends well: hello starts the heartbeat and overwrites            *)
(* _heartbeat_task.                                                          *)
Succeed(t, cs) ==
  /\ lockq' = Tail(lockq) /\ conn' = cs
  /\ IF t \in Connectors
       THEN LET b == CHOOSE b \in Beats : At(b, "idle")
            IN  /\ \E d \in Beats : At(d, "idle")
                /\ beat' = b /\ task' = [task EXCEPT ![t] = Idle, ![b] = Goto("sleep")]
       ELSE /\ task' = [task EXCEPT ![t] = IF t \in Beats THEN Goto("sleep") ELSE Idle]
            /\ UNCHANGED beat

(* Variant: a heartbeat whose ping fails ends without closing the client. *)
FailSilent(t, cs) ==
  IF t \in Connectors
    THEN Close(t, "fail", Tail(lockq), cs)
    ELSE /\ task' = [task EXCEPT ![t] = Idle] /\ lockq' = Tail(lockq)
         /\ conn' = cs /\ UNCHANGED beat

(* A request raises: connect() and the heartbeat close the client, an API    *)
(* handler passes the error on.                                              *)
Fail(t, cs) ==
  IF t \in Callers
    THEN /\ task' = [task EXCEPT ![t] = Idle] /\ lockq' = Tail(lockq)
         /\ conn' = cs /\ UNCHANGED beat
    ELSE Close(t, IF t \in Beats THEN "die" ELSE "fail", Tail(lockq), cs)

(* The next task in the queue has the lock; _writer may be gone by now. *)
Granted(t) ==
  /\ At(t, "lock") /\ lockq # <<>> /\ t = Head(lockq)
  /\ IF cur = None THEN Fail(t, conn)
                   ELSE Write(t, cur, conn) /\ UNCHANGED <<lockq, beat>>
  /\ UNCHANGED cur

(* Variant without the check of request_id. *)
AcceptsAny(t, a) == a.ok

(* readline() returns a line: the answer is the task's own only if the ids   *)
(* agree.                                                                    *)
Accepts(t, a) == a.id = task[t].id /\ a.ok
ReadAnswer(t) ==
  LET c == task[t].conn
      a == Head(conn[c].answers)
      cs == [conn EXCEPT ![c].answers = Tail(@)]
  IN  /\ At(t, "wait") /\ conn[c].answers # <<>>
      /\ IF Accepts(t, a) THEN Succeed(t, cs) ELSE Fail(t, cs)
      /\ UNCHANGED cur

(* readline() returns nothing: the connection is gone. *)
ReadEof(t) ==
  /\ At(t, "wait") /\ conn[task[t].conn].answers = <<>> /\ HasEof(task[t].conn)
  /\ Fail(t, conn)
  /\ UNCHANGED cur

(* Variant: only connect() and the heartbeat give up waiting. *)
TimeoutNotCallers(t) ==
  /\ At(t, "wait") /\ conn[task[t].conn].answers = <<>> /\ t \notin Callers
  /\ Fail(t, conn)
  /\ UNCHANGED cur

(* 5 s without an answer: the lock is released and the request stays in the  *)
(* connection.                                                               *)
Timeout(t) ==
  /\ At(t, "wait") /\ conn[task[t].conn].answers = <<>>
  /\ Fail(t, conn)
  /\ UNCHANGED cur
-------------------------------------------------------------------------------
(* The device: it answers in order, refuses a second owner, closes, or its   *)
(* connection is reset.                                                      *)
Device(c, cs) == conn' = cs /\ UNCHANGED <<task, lockq, cur, beat>>
Answer(c, ok) ==
  /\ Live(c) /\ conn[c].asked # <<>>
  /\ Device(c, [conn EXCEPT ![c].asked = Tail(@),
                            ![c].answers = Append(@, [id |-> Head(conn[c].asked), ok |-> ok])])
Refuse(c) ==
  /\ Live(c) /\ conn[c].answers = <<>> /\ Len(conn[c].asked) <= 1
  /\ Device(c, [conn EXCEPT ![c].eof = TRUE, ![c].asked = <<>>,
                            ![c].answers = <<[id |-> 0, ok |-> FALSE]>>])
Hangup(c) == Live(c) /\ Device(c, [conn EXCEPT ![c].eof = TRUE, ![c].asked = <<>>])
ResetConn(c) ==
  /\ conn[c].state = "open"
  /\ Device(c, [conn EXCEPT ![c].state = "reset", ![c].asked = <<>>, ![c].answers = <<>>])

TaskStep(t) ==
  \/ BeatGone(t) \/ Granted(t) \/ ReadAnswer(t) \/ ReadEof(t) \/ Timeout(t)
Next ==
  \/ \E t \in Tasks : TaskStep(t) \/ OpenFails(t) \/ Opened(t)
  \/ \E t \in Connectors : Connect(t)
  \/ \E t \in Callers : Call(t)
  \/ \E t \in Beats : Ping(t)
  \/ \E c \in Conns : ConnLost(c) \/ Forget(c) \/ Refuse(c) \/ Hangup(c) \/ ResetConn(c)
  \/ \E c \in Conns, ok \in BOOLEAN : Answer(c, ok)

Spec == Init /\ [][Next]_vars

(* Ready tasks run, timers fire, a closed transport is torn down; connecting *)
(* ends one way or the other.  Nothing is assumed of the device.             *)
FairSpec ==
  /\ Spec
  /\ \A t \in Tasks : WF_vars(TaskStep(t)) /\ WF_vars(OpenFails(t))
  /\ \A t \in Beats : WF_vars(Ping(t))
  /\ \A c \in Conns : WF_vars(ConnLost(c)) /\ WF_vars(Forget(c))
-------------------------------------------------------------------------------
(* Every field has its type, and the lock's queue holds exactly the tasks in  *)
(* request(), of which only the holder has written.                          *)
TypeOK ==
  /\ DOMAIN task = Tasks /\ DOMAIN conn = Conns
  /\ \A t \in Tasks :
       /\ task[t].pc \in {"idle", "lock", "wait", "sleep", "await_beat", "await_close", "opening"}
       /\ task[t].conn \in Conns \cup {None} /\ task[t].id \in Nat
  /\ IsInjective(lockq) /\ Range(lockq) = {t \in Tasks : At(t, "lock") \/ At(t, "wait")}
  /\ \A i \in 2 .. Len(lockq) : At(lockq[i], "lock")
  /\ cur \in Conns \cup {None} /\ beat \in Beats \cup {None}
  /\ \A c \in Conns : conn[c].state \in {"free", "open", "reset", "closing", "closed"}

(* request() never takes the late answer to a request that timed out, or was *)
(* cancelled, for the answer to its own: when it accepts an answer, this is  *)
(* all there is on the connection, and no request is unanswered.             *)
OwnAnswers ==
  \A t \in Tasks :
    LET c == task[t].conn
    IN  At(t, "wait") /\ conn[c].answers # <<>> /\ Accepts(t, Head(conn[c].answers)) =>
          Len(conn[c].answers) = 1 /\ conn[c].asked = <<>>

(* The first command on a connection is hello. *)
HelloFirst == \A c \in Conns : conn[c].first # "other"

(* No connection is left open at the device once the client has let go of    *)
(* it: an open connection is the client's.                                   *)
NoLeak == \A c \in Conns : conn[c].state \in {"open", "closing"} => cur = c

(* An answer nobody waits for makes every later request read its             *)
(* predecessor's answer; the heartbeat notices and the connection is closed. *)
ResyncByClosing ==
  \A c \in Conns : (cur = c /\ connected /\ Stale(c) # {}) ~> (cur # c \/ ~connected)

(* Every request comes to an end. *)
CallsEnd == \A t \in Callers : ~At(t, "idle") ~> At(t, "idle")
===============================================================================
