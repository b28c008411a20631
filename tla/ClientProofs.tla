------------------------------ MODULE ClientProofs ------------------------------
(* The control connection's client, for any tasks and connections: request()      *)
(* takes no answer but its own (OwnAnswers); and, while connect() is called by    *)
(* one task at a time, the client leaks no connection (NoLeak) and hello is the   *)
(* first command on each (HelloFirst).                                            *)
EXTENDS DeviceClient, TLAPS

Places == {"idle", "lock", "wait", "sleep", "await_beat", "await_close", "opening"}
TaskType == [pc : Places, conn : Conns \cup {None}, id : Nat, then : {None, "open", "fail", "die"}]
States == {"free", "open", "reset", "closing", "closed"}
Lines == [id : Nat, ok : BOOLEAN]
ConnType ==
  [state : States, eof : BOOLEAN, asked : Seq(Nat), answers : Seq(Lines), first : {None, "hello", "other"}]
Types ==
  /\ task \in [Tasks -> TaskType] /\ conn \in [Conns -> ConnType]
  /\ lockq \in Seq(Tasks)
  /\ cur \in Conns \cup {None} /\ beat \in Beats \cup {None}

(* Only the holder of the lock waits for an answer. *)
Holder ==
  \A t \in Tasks : At(t, "wait") => lockq # <<>> /\ lockq[1] = t /\ task[t].conn \in Conns

(* Zero is the id of no request, and of no answer but a refusal; and what the    *)
(* waiting task wrote comes last on its connection, if it is there at all.       *)
Refusal == [id |-> 0, ok |-> FALSE]
NoZero(r) ==
  /\ \A i \in 1 .. Len(r.asked) : r.asked[i] # 0
  /\ \A i \in 1 .. Len(r.answers) : r.answers[i].id = 0 => r.answers[i] = Refusal
Last(n, r) ==
  /\ \A i \in 1 .. Len(r.asked) : r.asked[i] = n => i = Len(r.asked)
  /\ \A i \in 1 .. Len(r.answers) : r.answers[i].id = n => i = Len(r.answers) /\ r.asked = <<>>
NoneZero == \A c \in Conns : NoZero(conn[c])
OwnLast == \A t \in Tasks : At(t, "wait") /\ task[t].id # 0 => Last(task[t].id, conn[task[t].conn])

AnswerInv == Types /\ Holder /\ NoneZero /\ OwnLast

(* The queue of the lock: each task in it once, and in request(). *)
Queue ==
  /\ IsInjective(lockq)
  /\ \A i \in 1 .. Len(lockq) : At(lockq[i], "lock") \/ At(lockq[i], "wait")

(* Connections are the client's from the moment they open; connect() opens one   *)
(* only when there is none.                                                      *)
Owned ==
  /\ NoLeak
  /\ \A t \in Tasks : At(t, "opening") => t \in Connectors /\ cur = None
  /\ \A t \in Tasks : task[t].then = "open" => t \in Connectors
  /\ cur # None => conn[cur].state # "free"
  /\ \A t \in Tasks : At(t, "wait") => conn[task[t].conn].state # "free"
Greeted == \A c \in Conns : conn[c].first # "other" /\ (conn[c].state = "open" => conn[c].first # None)

SessionInv == AnswerInv /\ Queue /\ Owned /\ Greeted
-------------------------------------------------------------------------------
(* Leaving the queue. *)
LEMMA LeaveFacts ==
  ASSUME NEW q \in Seq(Tasks), NEW b \in Tasks
  PROVE  /\ Leave(q, b) \in Seq(Tasks)
         /\ q # <<>> /\ q[1] # b => Leave(q, b) # <<>> /\ Leave(q, b)[1] = q[1]
<1>1. CASE b \notin Range(q) BY <1>1 DEF Leave
<1>2. CASE b \in Range(q)
  <2> DEFINE i == CHOOSE i \in DOMAIN q : q[i] = b
             n == Len(q)
  <2>1. n \in Nat /\ DOMAIN q = 1 .. n /\ \A k \in 1 .. n : q[k] \in Tasks OBVIOUS
  <2>2. i \in 1 .. n /\ q[i] = b BY <1>2, <2>1 DEF Range
  <2>3. Leave(q, b) = [j \in 1 .. n - 1 |-> IF j < i THEN q[j] ELSE q[j + 1]] BY <1>2 DEF Leave
  <2> HIDE DEF i, n
  <2>4. \A j \in 1 .. n - 1 : (IF j < i THEN q[j] ELSE q[j + 1]) \in Tasks BY <2>1, <2>2
  <2>5. n - 1 \in Nat BY <2>1, <2>2
  <2>6. Leave(q, b) \in Seq(Tasks) BY <2>3, <2>4, <2>5
  <2>7. ASSUME q # <<>>, q[1] # b PROVE Leave(q, b) # <<>> /\ Leave(q, b)[1] = q[1]
    <3>1. i > 1 /\ n > 1 BY <2>1, <2>2, <2>7
    <3>2. 1 \in 1 .. n - 1 BY <2>1, <3>1
    <3>3. 1 < i BY <2>1, <2>2, <3>1
    <3>4. Leave(q, b)[1] = q[1] BY <2>3, <3>2, <3>3
    <3>5. DOMAIN Leave(q, b) = 1 .. n - 1 BY <2>3
    <3>6. Len(Leave(q, b)) > 0
      <4>1. Len(Leave(q, b)) \in Nat /\ DOMAIN Leave(q, b) = 1 .. Len(Leave(q, b)) BY <2>6
      <4>2. 1 \in 1 .. Len(Leave(q, b)) BY <3>2, <3>5, <4>1, Zenon
      <4> QED BY <4>1, <4>2
    <3>7. Leave(q, b) # <<>> BY <2>6, <3>6
    <3> QED BY <3>4, <3>7
  <2> QED BY <2>6, <2>7
<1> QED BY <1>1, <1>2-------------------------------------------------------------------------------
(* t leaves request(), or close() up to its next await, or both: q is the queue    *)
(* and cs the connections it leaves to close(), and then what it goes on with.     *)
LeftBy(t, q) ==
  \/ q = lockq /\ task[t].pc \notin {"lock", "wait"}
  \/ lockq # <<>> /\ lockq[1] = t /\ q = Tail(lockq)
Ends(t, then, q, cs) ==
  /\ Types' /\ cur' = cur
  /\ task'[t].pc \notin {"lock", "wait"}
  /\ task'[t].pc = "opening" => then = "open" /\ cur = None
  /\ task'[t].then = "open" => then = "open"
  /\ \A u \in Tasks \ {t} :
       \/ task'[u] = task[u]
       \/ At(u, "idle") /\ task'[u] = Goto("sleep")
       \/ task'[u] = Idle /\ lockq' = Leave(q, u)
  /\ lockq' = q \/ \E b \in Tasks \ {t} : task'[b] = Idle /\ lockq' = Leave(q, b)
  /\ \A c \in Conns :
       /\ conn'[c].asked \in {cs[c].asked, <<>>} /\ conn'[c].answers = cs[c].answers
       /\ conn'[c].first = cs[c].first
       /\ conn'[c].state = cs[c].state \/ (c = cur /\ conn'[c].state = "closing")

LEMMA IdleTypes == Idle \in TaskType /\ Goto("sleep") \in TaskType /\ Goto("lock") \in TaskType /\ Goto("opening") \in TaskType
BY DEF Idle, Goto, TaskType, Places, None

(* Updates of a connection keep its type. *)
LEMMA ConnUpdates ==
  ASSUME NEW r \in ConnType
  PROVE  /\ \A s \in States : [r EXCEPT !.state = s] \in ConnType
         /\ \A a \in Seq(Lines) : [r EXCEPT !.answers = a] \in ConnType
         /\ \A s \in States : [r EXCEPT !.state = s, !.eof = TRUE] \in ConnType
         /\ \A s \in States : [r EXCEPT !.state = s, !.asked = <<>>] \in ConnType
         /\ \A q \in Seq(Nat), f \in {None, "hello", "other"} : [r EXCEPT !.asked = q, !.first = f] \in ConnType
         /\ \A q \in Seq(Nat), a \in Seq(Lines) : [r EXCEPT !.asked = q, !.answers = a] \in ConnType
         /\ [r EXCEPT !.eof = TRUE, !.asked = <<>>] \in ConnType
         /\ \A a \in Seq(Lines) : [r EXCEPT !.eof = TRUE, !.asked = <<>>, !.answers = a] \in ConnType
         /\ \A s \in States : [r EXCEPT !.state = s, !.asked = <<>>, !.answers = <<>>] \in ConnType
<1>1. <<>> \in Seq(Nat) /\ <<>> \in Seq(Lines) OBVIOUS
<1> QED BY <1>1, Zenon DEF ConnType

Thens == {None, "open", "fail", "die"}
LEMMA CloseWriterEnds ==
  ASSUME Types, NEW t \in Tasks, NEW then \in Thens, NEW q \in Seq(Tasks), NEW cs \in [Conns -> ConnType],
         CloseWriter(t, then, cs), lockq' = q, cur' = cur, beat' \in Beats \cup {None}
  PROVE  Ends(t, then, q, cs)
<1>1. CASE cur # None
  <2> DEFINE r == [pc |-> "await_close", conn |-> cur, id |-> 0, then |-> then]
  <2>1. cur \in Conns BY <1>1 DEF Types
  <2>2. r \in TaskType BY <2>1 DEF TaskType, Places, Thens
  <2>3. task' = [task EXCEPT ![t] = r] BY <1>1 DEF CloseWriter
  <2> HIDE DEF r
  <2>4. task' \in [Tasks -> TaskType] /\ task'[t] = r /\ \A u \in Tasks \ {t} : task'[u] = task[u]
    BY <2>2, <2>3 DEF Types
  <2>5. conn' = [cs EXCEPT ![cur] = [cs[cur] EXCEPT !.state = "closing", !.asked = <<>>]]
    BY <1>1, <2>1, Zenon DEF CloseWriter
  <2>6. [cs[cur] EXCEPT !.state = "closing", !.asked = <<>>] \in ConnType
    <3>1. cs[cur] \in ConnType BY <2>1
    <3> QED BY <3>1, ConnUpdates, Zenon DEF States
  <2>7. conn' \in [Conns -> ConnType] BY <2>1, <2>5, <2>6
  <2>8. Types' BY <2>4, <2>7 DEF Types
  <2>9. r.pc = "await_close" /\ r.then = then BY DEF r
  <2>10. \A c \in Conns :
       /\ conn'[c].asked \in {cs[c].asked, <<>>} /\ conn'[c].answers = cs[c].answers
       /\ conn'[c].first = cs[c].first
       /\ conn'[c].state = cs[c].state \/ (c = cur /\ conn'[c].state = "closing")
    BY <2>1, <2>5 DEF ConnType
  <2> QED BY <2>4, <2>8, <2>9, <2>10 DEF Ends
<1>2. CASE cur = None
  <2>1. After(then) \in TaskType /\ After(then).pc \in {"idle", "opening"}
        /\ (After(then).pc = "opening" => then = "open") /\ After(then).then = None
    BY IdleTypes DEF After, Idle, Goto, None
  <2>2. task' = [task EXCEPT ![t] = After(then)] /\ conn' = cs BY <1>2 DEF CloseWriter
  <2>3. task' \in [Tasks -> TaskType] /\ task'[t] = After(then) /\ \A u \in Tasks \ {t} : task'[u] = task[u]
    BY <2>1, <2>2 DEF Types
  <2>4. Types' BY <2>2, <2>3 DEF Types
  <2> QED BY <1>2, <2>1, <2>2, <2>3, <2>4 DEF Ends, None
<1> QED BY <1>1, <1>2

LEMMA CloseEnds ==
  ASSUME Types, NEW t \in Tasks, NEW then \in Thens, NEW q \in Seq(Tasks), NEW cs \in [Conns -> ConnType],
         Close(t, then, q, cs), cur' = cur
  PROVE  Ends(t, then, q, cs)
<1>1. CASE beat \in {None, t}
  BY <1>1, CloseWriterEnds DEF Close
<1>2. CASE beat \notin {None, t}
  <2> DEFINE r == [Goto("await_beat") EXCEPT !.then = then]
  <2>1. beat \in Beats /\ beat \in Tasks \ {t} BY <1>2 DEF Types, Tasks
  <2>2. r \in TaskType /\ r.pc = "await_beat" /\ r.then = then BY Zenon DEF TaskType, Places, Thens, Goto, Idle, None
  <2>3. /\ task' = [task EXCEPT ![beat] = Idle, ![t] = r] /\ beat' = None
        /\ lockq' = Leave(q, beat) /\ conn' = cs
    BY <1>2 DEF Close
  <2> HIDE DEF r
  <2>4. /\ task' \in [Tasks -> TaskType] /\ task'[t] = r /\ task'[beat] = Idle
        /\ \A u \in Tasks \ {t, beat} : task'[u] = task[u]
    BY <2>1, <2>2, <2>3, IdleTypes DEF Types
  <2>5. Types' BY <2>1, <2>3, <2>4, LeaveFacts, Zenon DEF Types
  <2>6. \A u \in Tasks \ {t} : task'[u] = task[u] \/ (task'[u] = Idle /\ lockq' = Leave(q, u))
    BY <2>3, <2>4
  <2>7. \E b \in Tasks \ {t} : task'[b] = Idle /\ lockq' = Leave(q, b) BY <2>1, <2>3, <2>4
  <2> QED BY <2>2, <2>3, <2>4, <2>5, <2>6, <2>7 DEF Ends
<1> QED BY <1>1, <1>2
LEMMA FailEnds ==
  ASSUME Types, NEW t \in Tasks, NEW cs \in [Conns -> ConnType], lockq # <<>>, Fail(t, cs), cur' = cur
  PROVE  \E then \in {"fail", "die"} : Ends(t, then, Tail(lockq), cs)
<1>1. Tail(lockq) \in Seq(Tasks) BY DEF Types
<1>2. CASE t \in Callers
  <2>1. task' = [task EXCEPT ![t] = Idle] /\ lockq' = Tail(lockq) /\ conn' = cs /\ beat' = beat
    BY <1>2 DEF Fail
  <2>2. task' \in [Tasks -> TaskType] /\ task'[t] = Idle /\ \A u \in Tasks \ {t} : task'[u] = task[u]
    BY <2>1, IdleTypes DEF Types
  <2>3. Types' BY <1>1, <2>1, <2>2 DEF Types
  <2>4. Idle.pc = "idle" /\ Idle.then = None BY DEF Idle
  <2> QED BY <2>1, <2>2, <2>3, <2>4 DEF Ends, None
<1>3. CASE t \in Beats /\ t \notin Callers
  BY <1>1, <1>3, CloseEnds, Zenon DEF Fail, Thens
<1>4. CASE t \notin Beats /\ t \notin Callers
  BY <1>1, <1>4, CloseEnds, Zenon DEF Fail, Thens
<1> QED BY <1>2, <1>3, <1>4

LEMMA SucceedEnds ==
  ASSUME Types, NEW t \in Tasks, NEW cs \in [Conns -> ConnType], lockq # <<>>, At(t, "wait"), Succeed(t, cs), cur' = cur
  PROVE  Ends(t, "fail", Tail(lockq), cs)
<1>1. Tail(lockq) \in Seq(Tasks) BY DEF Types
<1>2. lockq' = Tail(lockq) /\ conn' = cs BY DEF Succeed
<1>3. Idle.pc = "idle" /\ Idle.then = None /\ Goto("sleep").pc = "sleep" /\ Goto("sleep").then = None
  BY DEF Idle, Goto
<1>4. CASE t \in Connectors
  <2>1. PICK b \in Beats : /\ At(b, "idle") /\ beat' = b
                           /\ task' = [task EXCEPT ![t] = Idle, ![b] = Goto("sleep")]
    BY <1>4, Zenon DEF Succeed
  <2>2. b \in Tasks /\ b # t BY <2>1 DEF Tasks, At
  <2>3. /\ task' \in [Tasks -> TaskType] /\ task'[t] = Idle /\ task'[b] = Goto("sleep")
        /\ \A u \in Tasks \ {t, b} : task'[u] = task[u]
    BY <2>1, <2>2, IdleTypes DEF Types
  <2>4. Types' BY <1>1, <1>2, <2>1, <2>3 DEF Types
  <2> QED BY <1>2, <1>3, <2>1, <2>2, <2>3, <2>4 DEF Ends, None
<1>5. CASE t \notin Connectors
  <2> DEFINE r == IF t \in Beats THEN Goto("sleep") ELSE Idle
  <2>1. task' = [task EXCEPT ![t] = r] /\ beat' = beat BY <1>5 DEF Succeed
  <2>2. r \in TaskType /\ r.pc \notin {"lock", "wait", "opening"} /\ r.then = None BY <1>3, IdleTypes
  <2> HIDE DEF r
  <2>3. task' \in [Tasks -> TaskType] /\ task'[t] = r /\ \A u \in Tasks \ {t} : task'[u] = task[u]
    BY <2>1, <2>2 DEF Types
  <2>4. Types' BY <1>1, <1>2, <2>1, <2>3 DEF Types
  <2> QED BY <1>2, <2>2, <2>3, <2>4 DEF Ends, None
<1> QED BY <1>4, <1>5
-------------------------------------------------------------------------------
(* Nothing is written: what is waited for stays last, or is gone. *)
Reads(r, s) ==
  /\ s.asked \in {r.asked, <<>>}
  /\ \/ s.answers \in {r.answers, <<>>}
     \/ r.answers # <<>> /\ s.answers = Tail(r.answers)

LEMMA ReadsLast ==
  ASSUME NEW r \in ConnType, NEW s \in ConnType, Reads(r, s)
  PROVE  /\ NoZero(r) => NoZero(s)
         /\ \A n \in Nat : Last(n, r) => Last(n, s)
<1>1. r.asked \in Seq(Nat) /\ r.answers \in Seq(Lines) BY DEF ConnType
<1>2. /\ \A i \in 1 .. Len(s.asked) : s.asked = r.asked /\ i \in 1 .. Len(r.asked)
      /\ r.asked = <<>> => s.asked = <<>>
  BY <1>1 DEF Reads
<1>3. CASE s.answers = r.answers \/ s.answers = <<>>
  <2>1. \A i \in 1 .. Len(s.answers) : s.answers = r.answers /\ i \in 1 .. Len(r.answers) BY <1>1, <1>3
  <2>2. NoZero(r) => NoZero(s) BY <1>2, <2>1 DEF NoZero
  <2>3. ASSUME NEW n \in Nat, Last(n, r) PROVE Last(n, s) BY <1>2, <2>1, <2>3 DEF Last
  <2> QED BY <2>2, <2>3
<1>4. CASE r.answers # <<>> /\ s.answers = Tail(r.answers)
  <2>1. Len(s.answers) = Len(r.answers) - 1 BY <1>1, <1>4
  <2>2. \A i \in 1 .. Len(s.answers) : i + 1 \in 1 .. Len(r.answers) /\ s.answers[i] = r.answers[i + 1]
    BY <1>1, <1>4
  <2>3. Len(r.answers) \in Nat BY <1>1
  <2>4. NoZero(r) => NoZero(s) BY <1>2, <2>2, Zenon DEF NoZero
  <2>5. ASSUME NEW n \in Nat, Last(n, r) PROVE Last(n, s)
    <3>1. \A i \in 1 .. Len(s.asked) : s.asked[i] = n => i = Len(s.asked) BY <1>2, <2>5 DEF Last
    <3>2. \A i \in 1 .. Len(s.answers) : s.answers[i].id = n => i + 1 = Len(r.answers) /\ r.asked = <<>>
      BY <2>2, <2>5 DEF Last
    <3>3. \A i \in 1 .. Len(s.answers) : s.answers[i].id = n => i = Len(s.answers) /\ s.asked = <<>>
      BY <1>2, <2>1, <2>3, <3>2
    <3> QED BY <3>1, <3>3 DEF Last
  <2> QED BY <2>4, <2>5
<1> QED BY <1>3, <1>4 DEF Reads

LEMMA ReadsKeep ==
  ASSUME AnswerInv, Types', Holder', \A c \in Conns : Reads(conn[c], conn'[c]),
         \A t \in Tasks : task'[t].pc = "wait" => task'[t] = task[t]
  PROVE  AnswerInv'
<1>1. ASSUME NEW c \in Conns
      PROVE  NoZero(conn'[c]) /\ \A n \in Nat : Last(n, conn[c]) => Last(n, conn'[c])
  <2>1. conn[c] \in ConnType /\ conn'[c] \in ConnType BY DEF AnswerInv, Types
  <2>2. NoZero(conn[c]) BY DEF AnswerInv, NoneZero
  <2> QED BY <2>1, <2>2, ReadsLast
<1>2. NoneZero' BY <1>1 DEF NoneZero
<1>3. OwnLast'
  <2> SUFFICES ASSUME NEW t \in Tasks, task'[t].pc = "wait", task'[t].id # 0
               PROVE  Last(task'[t].id, conn'[task'[t].conn])
    BY DEF OwnLast, At
  <2>1. task'[t] = task[t] /\ At(t, "wait") /\ task[t].id # 0 BY DEF At
  <2>2. task[t].conn \in Conns /\ task[t].id \in Nat BY <2>1 DEF AnswerInv, Holder, Types, TaskType
  <2>3. Last(task[t].id, conn[task[t].conn]) BY <2>1 DEF AnswerInv, OwnLast
  <2> QED BY <1>1, <2>1, <2>2, <2>3
<1> QED BY <1>2, <1>3 DEF AnswerInv
LEMMA EndsHolder ==
  ASSUME AnswerInv, NEW t \in Tasks, NEW then, NEW q, NEW cs, LeftBy(t, q), Ends(t, then, q, cs)
  PROVE  Holder'
<1> SUFFICES ASSUME NEW u \in Tasks, task'[u].pc = "wait"
             PROVE  lockq' # <<>> /\ lockq'[1] = u /\ task'[u].conn \in Conns
  BY DEF Holder, At
<1>1. Idle.pc = "idle" /\ Goto("sleep").pc = "sleep" BY DEF Idle, Goto
<1>2. u # t /\ task'[u] = task[u] BY <1>1 DEF Ends
<1>3. lockq # <<>> /\ lockq[1] = u /\ task[u].conn \in Conns BY <1>2 DEF AnswerInv, Holder, At
<1>4. q = lockq BY <1>2, <1>3 DEF LeftBy
<1>5. CASE lockq' = q BY <1>2, <1>3, <1>4, <1>5
<1>6. ASSUME NEW b \in Tasks \ {t}, task'[b] = Idle, lockq' = Leave(q, b) PROVE lockq' # <<>> /\ lockq'[1] = u
  <2>1. b # u BY <1>1, <1>6
  <2>2. lockq \in Seq(Tasks) BY DEF AnswerInv, Types
  <2> QED BY <1>3, <1>4, <1>6, <2>1, <2>2, LeaveFacts, Zenon
<1> QED BY <1>2, <1>3, <1>5, <1>6 DEF Ends

LEMMA EndsKeepsAnswers ==
  ASSUME AnswerInv, NEW t \in Tasks, NEW then, NEW q, NEW cs, LeftBy(t, q), Ends(t, then, q, cs),
         \A c \in Conns : Reads(conn[c], cs[c])
  PROVE  AnswerInv'
<1>1. Holder' BY EndsHolder
<1>2. ASSUME NEW c \in Conns PROVE Reads(conn[c], conn'[c])
  BY DEF Ends, Reads
<1>3. ASSUME NEW u \in Tasks, task'[u].pc = "wait" PROVE task'[u] = task[u]
  <2>1. Idle.pc = "idle" /\ Goto("sleep").pc = "sleep" BY DEF Idle, Goto
  <2> QED BY <1>3, <2>1 DEF Ends
<1>4. Types' BY DEF Ends
<1> QED BY <1>1, <1>2, <1>3, <1>4, ReadsKeep

(* What writing a request does: the new id is not on the connection, so it is    *)
(* last there.                                                                   *)
Alike(cs) == \A d \in Conns : cs[d].asked = conn[d].asked /\ cs[d].answers = conn[d].answers
Wrote(t, c, cs) ==
  /\ task' \in [Tasks -> TaskType] /\ conn' \in [Conns -> ConnType]
  /\ \A u \in Tasks \ {t} : task'[u] = task[u]
  /\ \A d \in Conns \ {c} : conn'[d] = cs[d]
  /\ task'[t].pc = "wait" /\ task'[t].conn = c /\ task'[t].then = None /\ task'[t].id \in Nat
  /\ conn'[c].answers = conn[c].answers /\ conn'[c].state = cs[c].state
  /\ \/ conn'[c].asked = conn[c].asked /\ (task'[t].id = 0 \/ task'[t].id \notin Unread(c))
     \/ /\ task'[t].id # 0 /\ task'[t].id \notin Unread(c)
        /\ conn'[c].asked = Append(conn[c].asked, task'[t].id)
  /\ conn'[c].first = IF cs[c].first = None /\ cs[c].state = "open" THEN Kind(t) ELSE cs[c].first

LEMMA WriteTypes ==
  ASSUME Types, NEW t \in Tasks, NEW c \in Conns, NEW cs \in [Conns -> ConnType], Write(t, c, cs), Alike(cs)
  PROVE  Wrote(t, c, cs)
<1> DEFINE i == IF cs[c].state = "open" THEN CHOOSE i \in NewIds(c) : TRUE ELSE 0
           r == [pc |-> "wait", conn |-> c, id |-> i, then |-> None]
           asked == IF cs[c].state = "open" /\ ~cs[c].eof THEN Append(cs[c].asked, i) ELSE cs[c].asked
           first == IF cs[c].first = None /\ cs[c].state = "open" THEN Kind(t) ELSE cs[c].first
<1>1. i \in Nat /\ (cs[c].state = "open" => i # 0 /\ i \notin Unread(c)) /\ (cs[c].state # "open" => i = 0)
  <2>1. NewIds(c) # {} BY DEF Write
  <2>2. (CHOOSE n \in NewIds(c) : TRUE) \in NewIds(c) BY <2>1
  <2>3. \A n \in NewIds(c) : n \in Nat /\ n # 0 /\ n \notin Unread(c) BY BoundsAssumption DEF NewIds
  <2> QED BY <2>2, <2>3
<1>2. cs[c] \in ConnType /\ cs[c].asked \in Seq(Nat) /\ cs[c].first \in {None, "hello", "other"} BY DEF ConnType
<1>3. first \in {None, "hello", "other"} BY <1>2 DEF Kind
<1>4. asked \in Seq(Nat) BY <1>1, <1>2
<1>5. task' = [task EXCEPT ![t] = r] /\ conn' = [cs EXCEPT ![c] = [cs[c] EXCEPT !.asked = asked, !.first = first]]
  BY Zenon DEF Write
<1>6. r \in TaskType /\ r.pc = "wait" /\ r.conn = c /\ r.then = None /\ r.id = i BY <1>1 DEF TaskType, Places
<1>7. \/ asked = conn[c].asked /\ (i = 0 \/ i \notin Unread(c))
      \/ i # 0 /\ i \notin Unread(c) /\ asked = Append(conn[c].asked, i)
  BY <1>1 DEF Alike
<1>8. first = IF cs[c].first = None /\ cs[c].state = "open" THEN Kind(t) ELSE cs[c].first OBVIOUS
<1> HIDE DEF i, r, asked, first
<1>9. task' \in [Tasks -> TaskType] /\ task'[t] = r /\ \A u \in Tasks \ {t} : task'[u] = task[u]
  BY <1>5, <1>6 DEF Types
<1>10. [cs[c] EXCEPT !.asked = asked, !.first = first] \in ConnType BY <1>2, <1>3, <1>4, ConnUpdates, Zenon
<1>11. /\ conn' \in [Conns -> ConnType] /\ \A d \in Conns \ {c} : conn'[d] = cs[d]
       /\ conn'[c] = [cs[c] EXCEPT !.asked = asked, !.first = first]
  BY <1>5, <1>10
<1>12. /\ conn'[c].answers = conn[c].answers /\ conn'[c].state = cs[c].state
       /\ conn'[c].asked = asked /\ conn'[c].first = first
  BY <1>2, <1>11 DEF ConnType, Alike
<1> QED BY <1>1, <1>6, <1>7, <1>8, <1>9, <1>11, <1>12 DEF Wrote

LEMMA WriteKeepsAnswers ==
  ASSUME AnswerInv, NEW t \in Tasks, NEW c \in Conns, NEW cs \in [Conns -> ConnType], Write(t, c, cs), Alike(cs),
         lockq' \in Seq(Tasks), lockq' # <<>>, lockq'[1] = t,
         cur' \in Conns \cup {None}, beat' \in Beats \cup {None}, \A u \in Tasks \ {t} : ~At(u, "wait")
  PROVE  AnswerInv'
<1> DEFINE n == task'[t].id
<1>0. Types BY DEF AnswerInv
<1>1. /\ task' \in [Tasks -> TaskType] /\ conn' \in [Conns -> ConnType]
      /\ \A u \in Tasks \ {t} : task'[u] = task[u]
      /\ \A d \in Conns \ {c} : conn'[d] = cs[d]
      /\ task'[t].pc = "wait" /\ task'[t].conn = c /\ n \in Nat
      /\ conn'[c].answers = conn[c].answers
      /\ \/ conn'[c].asked = conn[c].asked /\ (n = 0 \/ n \notin Unread(c))
         \/ n # 0 /\ n \notin Unread(c) /\ conn'[c].asked = Append(conn[c].asked, n)
  <2>1. Wrote(t, c, cs) BY <1>0, WriteTypes
  <2> QED BY <2>1, SMT DEF Wrote
<1> HIDE DEF n
<1>2. Types' BY <1>1 DEF Types
<1>3. \A u \in Tasks : task'[u].pc = "wait" => u = t BY <1>1 DEF At
<1>4. Holder' BY <1>1, <1>3 DEF Holder, At
<1>5. conn[c].asked \in Seq(Nat) /\ conn[c].answers \in Seq(Lines) BY <1>0 DEF Types, ConnType
<1>6. ASSUME n \notin Unread(c)
      PROVE  /\ \A i \in 1 .. Len(conn[c].asked) : conn[c].asked[i] # n
             /\ \A i \in 1 .. Len(conn[c].answers) : conn[c].answers[i].id # n
  <2>1. DOMAIN conn[c].asked = 1 .. Len(conn[c].asked) /\ DOMAIN conn[c].answers = 1 .. Len(conn[c].answers) BY <1>5
  <2> QED BY <1>6, <2>1 DEF Unread, Range
<1>7. /\ Len(conn[c].asked) \in Nat /\ Len(Append(conn[c].asked, n)) = Len(conn[c].asked) + 1
      /\ \A i \in 1 .. Len(conn[c].asked) : Append(conn[c].asked, n)[i] = conn[c].asked[i]
      /\ Append(conn[c].asked, n)[Len(conn[c].asked) + 1] = n
  BY <1>1, <1>5, SMTT(30)
<1>8. \A i \in 1 .. Len(conn[c].asked) + 1 : i \in 1 .. Len(conn[c].asked) \/ i = Len(conn[c].asked) + 1
  BY <1>7
<1>9. NoZero(conn[c]) BY DEF AnswerInv, NoneZero
<1>a. conn'[c].answers = conn[c].answers BY <1>1
<1>b. \/ conn'[c].asked = conn[c].asked /\ (n = 0 \/ n \notin Unread(c))
      \/ n # 0 /\ n \notin Unread(c) /\ conn'[c].asked = Append(conn[c].asked, n)
  BY <1>1
<1>c. ASSUME NEW i \in 1 .. Len(conn'[c].asked)
      PROVE  \/ i \in 1 .. Len(conn[c].asked) /\ conn'[c].asked[i] = conn[c].asked[i]
             \/ n # 0 /\ i = Len(conn'[c].asked) /\ conn'[c].asked[i] = n
  <2>1. CASE conn'[c].asked = conn[c].asked BY <2>1
  <2>2. CASE n # 0 /\ conn'[c].asked = Append(conn[c].asked, n) BY <1>7, <1>8, <2>2
  <2> QED BY <1>b, <2>1, <2>2
<1>10. NoZero(conn'[c]) BY <1>9, <1>a, <1>c, Zenon DEF NoZero
<1>11. NoneZero'
  <2> SUFFICES ASSUME NEW d \in Conns PROVE NoZero(conn'[d]) BY DEF NoneZero
  <2>1. CASE d = c BY <1>10, <2>1
  <2>2. CASE d # c
    <3>1. conn'[d].asked = conn[d].asked /\ conn'[d].answers = conn[d].answers BY <1>1, <2>2 DEF Alike
    <3>2. NoZero(conn[d]) BY DEF AnswerInv, NoneZero
    <3> QED BY <3>1, <3>2 DEF NoZero
  <2> QED BY <2>1, <2>2
<1>12. ASSUME n # 0 PROVE Last(n, conn'[c])
  <2>1. /\ \A i \in 1 .. Len(conn[c].asked) : conn[c].asked[i] # n
        /\ \A i \in 1 .. Len(conn[c].answers) : conn[c].answers[i].id # n
    BY <1>b, <1>6, <1>12
  <2>2. \A i \in 1 .. Len(conn'[c].asked) : conn'[c].asked[i] = n => i = Len(conn'[c].asked) BY <1>c, <2>1, Zenon
  <2> QED BY <1>a, <2>1, <2>2 DEF Last
<1>13. OwnLast'
  <2> SUFFICES ASSUME NEW u \in Tasks, task'[u].pc = "wait", task'[u].id # 0
               PROVE  Last(task'[u].id, conn'[task'[u].conn])
    BY DEF OwnLast, At
  <2> QED BY <1>1, <1>3, <1>12 DEF n
<1> QED BY <1>2, <1>4, <1>11, <1>13 DEF AnswerInv

LEMMA RequestKeepsAnswers ==
  ASSUME AnswerInv, NEW t \in Tasks, task[t].pc \notin {"lock", "wait"}, NEW c \in Conns,
         NEW cs \in [Conns -> ConnType], Alike(cs), Request(t, c, cs), cur' \in Conns \cup {None}, beat' = beat
  PROVE  AnswerInv'
<1>1. lockq \in Seq(Tasks) /\ beat \in Beats \cup {None} /\ task \in [Tasks -> TaskType] BY DEF AnswerInv, Types
<1>2. lockq' = Append(lockq, t) BY DEF Request
<1>3. lockq' \in Seq(Tasks) /\ lockq' # <<>> BY <1>1, <1>2
<1>4. CASE lockq = <<>>
  <2>1. lockq'[1] = t BY <1>2, <1>4
  <2>2. \A u \in Tasks : ~At(u, "wait") BY <1>4 DEF AnswerInv, Holder
  <2>3. Write(t, c, cs) BY <1>4 DEF Request
  <2> QED BY <1>1, <1>3, <2>1, <2>2, <2>3, WriteKeepsAnswers
<1>5. CASE lockq # <<>>
  <2>1. task' = [task EXCEPT ![t] = Goto("lock")] /\ conn' = cs BY <1>5 DEF Request
  <2>2. Goto("lock").pc = "lock" BY DEF Goto, Idle
  <2>3. task' \in [Tasks -> TaskType] /\ \A u \in Tasks : task'[u].pc = "wait" => task'[u] = task[u]
    BY <1>1, <2>1, <2>2, IdleTypes
  <2>4. Types' BY <1>1, <1>3, <2>1, <2>3 DEF Types
  <2>5. lockq'[1] = lockq[1] BY <1>1, <1>2, <1>5
  <2>6. Holder' BY <1>3, <2>3, <2>5 DEF AnswerInv, Holder, At
  <2>7. \A d \in Conns : Reads(conn[d], conn'[d]) BY <2>1 DEF Alike, Reads
  <2> QED BY <2>3, <2>4, <2>6, <2>7, ReadsKeep
<1> QED BY <1>4, <1>5-------------------------------------------------------------------------------
(* Steps of the device and of the transport: nobody starts to wait. *)
LEMMA DeviceKeepsAnswers ==
  ASSUME AnswerInv, NEW c \in Conns, NEW r \in ConnType, Reads(conn[c], r), conn' = [conn EXCEPT ![c] = r],
         lockq' = lockq, beat' = beat, cur' \in Conns \cup {None}, task' \in [Tasks -> TaskType],
         \A t \in Tasks : task'[t].pc = "wait" => task'[t] = task[t]
  PROVE  AnswerInv'
<1>1. conn \in [Conns -> ConnType] BY DEF AnswerInv, Types
<1>2. conn' \in [Conns -> ConnType] /\ conn'[c] = r /\ \A d \in Conns \ {c} : conn'[d] = conn[d] BY <1>1
<1>3. Types' BY <1>2 DEF AnswerInv, Types
<1>4. Holder' BY DEF AnswerInv, Holder, At
<1>5. \A d \in Conns : Reads(conn[d], conn'[d]) BY <1>2 DEF Reads
<1> QED BY <1>3, <1>4, <1>5, ReadsKeep

LEMMA AnswerKeepsAnswers ==
  ASSUME AnswerInv, NEW c \in Conns, NEW ok \in BOOLEAN, Answer(c, ok) PROVE AnswerInv'
<1> DEFINE asked == conn[c].asked
           answers == conn[c].answers
           a == [id |-> Head(asked), ok |-> ok]
           r == [conn[c] EXCEPT !.asked = Tail(asked), !.answers = Append(answers, a)]
<1>1. Types /\ conn[c] \in ConnType BY DEF AnswerInv, Types
<1>2. asked \in Seq(Nat) /\ answers \in Seq(Lines) /\ asked # <<>> BY <1>1 DEF ConnType, Answer
<1>3. Head(asked) \in Nat /\ Tail(asked) \in Seq(Nat) /\ Head(asked) = asked[1] BY <1>2
<1>4. a \in Lines BY <1>3 DEF Lines
<1>5. conn' = [conn EXCEPT ![c] = r] /\ task' = task /\ lockq' = lockq /\ cur' = cur /\ beat' = beat
  BY Zenon DEF Answer, Device
<1>6. r.asked = Tail(asked) /\ r.answers = Append(answers, a) BY <1>1 DEF ConnType
<1>7. r \in ConnType
  <2>1. Append(answers, a) \in Seq(Lines) BY <1>2, <1>4
  <2> QED BY <1>1, <1>3, <2>1, ConnUpdates, Zenon
<1> HIDE DEF r
<1>8. conn' \in [Conns -> ConnType] /\ conn'[c] = r /\ \A d \in Conns \ {c} : conn'[d] = conn[d]
  BY <1>1, <1>5, <1>7 DEF Types
<1>9. Types' BY <1>5, <1>8 DEF AnswerInv, Types
<1>10. Holder' BY <1>5 DEF AnswerInv, Holder, At
<1>11. /\ Len(Tail(asked)) = Len(asked) - 1 /\ Len(asked) \in Nat \ {0} /\ Len(answers) \in Nat
       /\ \A i \in 1 .. Len(Tail(asked)) : i + 1 \in 1 .. Len(asked) /\ Tail(asked)[i] = asked[i + 1]
  BY <1>2
<1>12. /\ Len(Append(answers, a)) = Len(answers) + 1
       /\ \A i \in 1 .. Len(answers) : Append(answers, a)[i] = answers[i]
       /\ Append(answers, a)[Len(answers) + 1] = a
  BY <1>2, <1>4
<1>13. \A i \in 1 .. Len(answers) + 1 : i \in 1 .. Len(answers) \/ i = Len(answers) + 1 BY <1>11
<1>14. NoZero(conn[c]) /\ a.id = asked[1] BY <1>3 DEF AnswerInv, NoneZero
<1>15. NoZero(r)
  <2>1. asked[1] # 0 BY <1>11, <1>14 DEF NoZero
  <2>2. \A i \in 1 .. Len(r.asked) : r.asked[i] # 0 BY <1>6, <1>11, <1>14 DEF NoZero
  <2>3. \A i \in 1 .. Len(r.answers) : r.answers[i].id = 0 => r.answers[i] = Refusal
    BY <1>6, <1>12, <1>13, <1>14, <2>1 DEF NoZero
  <2> QED BY <2>2, <2>3 DEF NoZero
<1>16. ASSUME NEW n \in Nat, Last(n, conn[c]) PROVE Last(n, r)
  <2>1. \A i \in 1 .. Len(r.asked) : r.asked[i] = n => i = Len(r.asked) BY <1>6, <1>11, <1>16, SMTT(30) DEF Last
  <2>2. \A i \in 1 .. Len(answers) : answers[i].id # n BY <1>2, <1>16 DEF Last
  <2>3. a.id = n => Len(asked) = 1
    <3>1. 1 \in 1 .. Len(asked) BY <1>11
    <3>2. asked[1] = n => 1 = Len(asked) BY <1>16, <3>1, Zenon DEF Last
    <3> QED BY <1>14, <3>2
  <2>4. Len(asked) = 1 => Tail(asked) = <<>>
    <3>1. Len(asked) = 1 => asked = <<asked[1]>> BY <1>2
    <3>2. Tail(<<asked[1]>>) = <<>> OBVIOUS
    <3> QED BY <3>1, <3>2, Zenon
  <2>5. \A i \in 1 .. Len(r.answers) : r.answers[i].id = n => i = Len(r.answers) /\ r.asked = <<>>
    BY <1>6, <1>12, <1>13, <2>2, <2>3, <2>4
  <2> QED BY <2>1, <2>5 DEF Last
<1>17. NoneZero' BY <1>8, <1>15 DEF AnswerInv, NoneZero
<1>18. OwnLast'
  <2> SUFFICES ASSUME NEW t \in Tasks, At(t, "wait"), task[t].id # 0
               PROVE  Last(task[t].id, conn'[task[t].conn])
    BY <1>5 DEF OwnLast, At
  <2>1. task[t].conn \in Conns /\ task[t].id \in Nat /\ Last(task[t].id, conn[task[t].conn])
    BY DEF AnswerInv, Holder, OwnLast, Types, TaskType
  <2> QED BY <1>8, <1>16, <2>1
<1> QED BY <1>9, <1>10, <1>17, <1>18 DEF AnswerInv
(* A refusal comes alone, and is nobody's own answer. *)
LEMMA RefuseKeepsAnswers == ASSUME AnswerInv, NEW c \in Conns, Refuse(c) PROVE AnswerInv'
<1> DEFINE r == [conn[c] EXCEPT !.eof = TRUE, !.asked = <<>>, !.answers = <<Refusal>>]
<1>1. conn \in [Conns -> ConnType] /\ conn[c] \in ConnType BY DEF AnswerInv, Types
<1>2. conn' = [conn EXCEPT ![c] = r] /\ task' = task /\ lockq' = lockq /\ cur' = cur /\ beat' = beat
  BY Zenon DEF Refuse, Device, Refusal
<1>3. r \in ConnType
  <2>1. Refusal \in Lines BY DEF Refusal, Lines
  <2>2. <<Refusal>> \in Seq(Lines) BY <2>1
  <2> QED BY <1>1, <2>2, ConnUpdates, Zenon
<1>4. r.asked = <<>> /\ r.answers = <<Refusal>> BY <1>1 DEF ConnType
<1> HIDE DEF r
<1>5. conn' \in [Conns -> ConnType] /\ conn'[c] = r /\ \A d \in Conns \ {c} : conn'[d] = conn[d]
  BY <1>1, <1>2, <1>3
<1>6. Types' BY <1>2, <1>5 DEF AnswerInv, Types
<1>7. Holder' BY <1>2 DEF AnswerInv, Holder, At
<1>8. NoZero(r) BY <1>4 DEF NoZero
<1>9. \A n \in Nat : Last(n, r) BY <1>4 DEF Last
<1>10. NoneZero' BY <1>5, <1>8 DEF AnswerInv, NoneZero
<1>11. OwnLast'
  <2> SUFFICES ASSUME NEW t \in Tasks, At(t, "wait"), task[t].id # 0
               PROVE  Last(task[t].id, conn'[task[t].conn])
    BY <1>2 DEF OwnLast, At
  <2>1. task[t].conn \in Conns /\ task[t].id \in Nat /\ Last(task[t].id, conn[task[t].conn])
    BY DEF AnswerInv, Holder, OwnLast, Types, TaskType
  <2> QED BY <1>5, <1>9, <2>1
<1> QED BY <1>6, <1>7, <1>10, <1>11 DEF AnswerInv

LEMMA AnswerInit == Init => AnswerInv
<1> SUFFICES ASSUME Init PROVE AnswerInv OBVIOUS
<1>1. NoConn \in ConnType
  <2>1. <<>> \in Seq(Nat) /\ <<>> \in Seq(Lines) OBVIOUS
  <2> QED BY <2>1, Zenon DEF NoConn, ConnType, States
<1>2. lockq \in Seq(Tasks) BY DEF Init
<1>3. Types BY <1>1, <1>2, IdleTypes DEF Init, Types
<1>4. \A t \in Tasks : task[t].pc = "idle" BY DEF Init, Idle
<1>5. Holder /\ OwnLast BY <1>4 DEF Holder, OwnLast, At
<1>6. NoneZero BY DEF Init, NoneZero, NoZero, NoConn
<1> QED BY <1>3, <1>5, <1>6 DEF AnswerInv

LEMMA AnswerNext == AnswerInv /\ [Next]_vars => AnswerInv'
<1> SUFFICES ASSUME AnswerInv, [Next]_vars PROVE AnswerInv' OBVIOUS
<1>0. Types /\ conn \in [Conns -> ConnType] /\ task \in [Tasks -> TaskType] /\ lockq \in Seq(Tasks)
      /\ cur \in Conns \cup {None} /\ beat \in Beats \cup {None}
  BY DEF AnswerInv, Types
<1>a. \A c \in Conns : Reads(conn[c], conn[c]) BY DEF Reads
<1>b. Alike(conn) BY DEF Alike
<1>1. ASSUME NEW t \in Tasks, BeatGone(t) PROVE AnswerInv'
  <2>1. task[t].then \in Thens BY <1>0 DEF TaskType, Thens
  <2>2. Ends(t, task[t].then, lockq, conn) BY <1>0, <1>1, <2>1, CloseWriterEnds DEF BeatGone
  <2>3. LeftBy(t, lockq) BY <1>1 DEF BeatGone, LeftBy, At
  <2> QED BY <1>a, <2>2, <2>3, EndsKeepsAnswers
<1>2. ASSUME NEW t \in Tasks, Connect(t) PROVE AnswerInv'
  <2>1. Ends(t, "open", lockq, conn) BY <1>0, <1>2, CloseEnds DEF Connect, Thens
  <2>2. LeftBy(t, lockq) BY <1>2 DEF Connect, LeftBy, At
  <2> QED BY <1>a, <2>1, <2>2, EndsKeepsAnswers
<1>3. ASSUME NEW t \in Tasks, OpenFails(t) PROVE AnswerInv'
  <2>1. Ends(t, "fail", lockq, conn) BY <1>0, <1>3, CloseEnds DEF OpenFails, Thens
  <2>2. LeftBy(t, lockq) BY <1>3 DEF OpenFails, LeftBy, At
  <2> QED BY <1>a, <2>1, <2>2, EndsKeepsAnswers
<1>4. ASSUME NEW t \in Tasks, Opened(t) PROVE AnswerInv'
  <2> DEFINE c == CHOOSE c \in Conns : conn[c].state = "free"
             cs == [conn EXCEPT ![c] = [conn[c] EXCEPT !.state = "open"]]
  <2>1. c \in Conns BY <1>4 DEF Opened
  <2>2. Request(t, c, cs) /\ cur' = c /\ beat' = beat /\ At(t, "opening") BY <1>4 DEF Opened
  <2> HIDE DEF c
  <2>3. [conn[c] EXCEPT !.state = "open"] \in ConnType BY <1>0, <2>1, ConnUpdates, Zenon DEF States
  <2>4. cs \in [Conns -> ConnType] BY <1>0, <2>1, <2>3
  <2>5. Alike(cs) BY <1>0, <2>1 DEF Alike, ConnType
  <2> HIDE DEF cs
  <2>6. task[t].pc \notin {"lock", "wait"} BY <2>2 DEF At
  <2> QED BY <2>1, <2>2, <2>4, <2>5, <2>6, RequestKeepsAnswers
<1>5. ASSUME NEW t \in Tasks, Call(t) \/ Ping(t) PROVE AnswerInv'
  <2>1. cur \in Conns BY <1>0, <1>5 DEF Call, Ping, connected
  <2>2. Request(t, cur, conn) /\ cur' = cur /\ beat' = beat BY <1>5 DEF Call, Ping
  <2>3. task[t].pc \notin {"lock", "wait"} BY <1>5 DEF Call, Ping, At
  <2> QED BY <1>0, <1>b, <2>1, <2>2, <2>3, RequestKeepsAnswers
<1>6. ASSUME NEW t \in Tasks, Granted(t) PROVE AnswerInv'
  <2>1. lockq # <<>> /\ lockq[1] = t /\ cur' = cur /\ At(t, "lock") BY <1>0, <1>6 DEF Granted
  <2>2. CASE cur = None
    <3>1. Fail(t, conn) BY <1>6, <2>2 DEF Granted
    <3>2. PICK then \in {"fail", "die"} : Ends(t, then, Tail(lockq), conn) BY <1>0, <2>1, <3>1, FailEnds
    <3>3. LeftBy(t, Tail(lockq)) BY <2>1 DEF LeftBy
    <3> QED BY <1>a, <3>2, <3>3, EndsKeepsAnswers
  <2>3. CASE cur # None
    <3>1. cur \in Conns BY <1>0, <2>3
    <3>2. Write(t, cur, conn) /\ lockq' = lockq /\ beat' = beat BY <1>6, <2>3 DEF Granted
    <3>3. \A u \in Tasks \ {t} : ~At(u, "wait") BY <2>1 DEF AnswerInv, Holder
    <3> QED BY <1>0, <1>b, <2>1, <3>1, <3>2, <3>3, WriteKeepsAnswers
  <2> QED BY <2>2, <2>3
<1>7. ASSUME NEW t \in Tasks, ReadAnswer(t) PROVE AnswerInv'
  <2> DEFINE c == task[t].conn
             r == [conn[c] EXCEPT !.answers = Tail(conn[c].answers)]
             cs == [conn EXCEPT ![c] = r]
  <2>1. At(t, "wait") /\ conn[c].answers # <<>> /\ cur' = cur /\ (Succeed(t, cs) \/ Fail(t, cs))
    BY <1>7 DEF ReadAnswer
  <2>2. c \in Conns /\ lockq # <<>> /\ lockq[1] = t BY <2>1 DEF AnswerInv, Holder
  <2> HIDE DEF c
  <2>3. conn[c] \in ConnType /\ conn[c].answers \in Seq(Lines) BY <1>0, <2>2 DEF ConnType
  <2>4. r \in ConnType
    <3>1. Tail(conn[c].answers) \in Seq(Lines) BY <2>1, <2>3
    <3> QED BY <2>3, <3>1, ConnUpdates, Zenon
  <2>5. r.asked = conn[c].asked /\ r.answers = Tail(conn[c].answers) BY <2>3 DEF ConnType
  <2> HIDE DEF r
  <2>6. cs \in [Conns -> ConnType] /\ cs[c] = r /\ \A d \in Conns \ {c} : cs[d] = conn[d] BY <1>0, <2>2, <2>4
  <2> HIDE DEF cs
  <2>7. \A d \in Conns : Reads(conn[d], cs[d]) BY <2>1, <2>5, <2>6 DEF Reads
  <2>8. \E then : Ends(t, then, Tail(lockq), cs) BY <1>0, <2>1, <2>2, <2>6, FailEnds, SucceedEnds
  <2>9. LeftBy(t, Tail(lockq)) BY <2>2 DEF LeftBy
  <2> QED BY <2>7, <2>8, <2>9, EndsKeepsAnswers
<1>8. ASSUME NEW t \in Tasks, ReadEof(t) \/ Timeout(t) PROVE AnswerInv'
  <2>1. At(t, "wait") /\ cur' = cur /\ Fail(t, conn) BY <1>8 DEF ReadEof, Timeout
  <2>2. lockq # <<>> /\ lockq[1] = t BY <2>1 DEF AnswerInv, Holder
  <2>3. PICK then \in {"fail", "die"} : Ends(t, then, Tail(lockq), conn) BY <1>0, <2>1, <2>2, FailEnds
  <2>4. LeftBy(t, Tail(lockq)) BY <2>2 DEF LeftBy
  <2> QED BY <1>a, <2>3, <2>4, EndsKeepsAnswers
<1>9. ASSUME NEW c \in Conns, ConnLost(c) PROVE AnswerInv'
  <2> DEFINE r == [conn[c] EXCEPT !.state = "closed", !.eof = TRUE]
  <2>1. conn' = [conn EXCEPT ![c] = r] /\ lockq' = lockq /\ beat' = beat /\ cur' \in {cur, None} BY <1>9, Zenon DEF ConnLost
  <2>2. r \in ConnType BY <1>0, ConnUpdates, Zenon DEF States
  <2>3. Reads(conn[c], r) BY <1>0 DEF Reads, ConnType
  <2> HIDE DEF r
  <2>4. \A t \in Tasks : After(task[t].then) \in TaskType /\ After(task[t].then).pc # "wait"
    BY IdleTypes DEF After, Idle, Goto
  <2>5. \A t \in Tasks : task'[t] \in {task[t], After(task[t].then)} BY <1>9 DEF ConnLost
  <2>6. task' \in [Tasks -> TaskType]
    <3>1. \A t \in Tasks : task'[t] \in TaskType BY <1>0, <2>4, <2>5
    <3>2. task' = [t \in Tasks |-> task'[t]] BY <1>9 DEF ConnLost
    <3> QED BY <3>1, <3>2
  <2> QED BY <1>0, <2>1, <2>2, <2>3, <2>4, <2>5, <2>6, DeviceKeepsAnswers, Zenon
<1>10. ASSUME NEW c \in Conns, Forget(c) PROVE AnswerInv'
  <2>1. conn' = [conn EXCEPT ![c] = NoConn] /\ UNCHANGED <<task, lockq, cur, beat>> BY <1>10 DEF Forget
  <2>2. NoConn \in ConnType /\ Reads(conn[c], NoConn)
    <3>1. <<>> \in Seq(Nat) /\ <<>> \in Seq(Lines) OBVIOUS
    <3>2. NoConn \in ConnType BY <3>1, Zenon DEF NoConn, ConnType, States
    <3> QED BY <3>2 DEF NoConn, Reads
  <2> QED BY <1>0, <2>1, <2>2, DeviceKeepsAnswers, Zenon
<1>11. ASSUME NEW c \in Conns, Hangup(c) PROVE AnswerInv'
  <2> DEFINE r == [conn[c] EXCEPT !.eof = TRUE, !.asked = <<>>]
  <2>1. conn' = [conn EXCEPT ![c] = r] /\ UNCHANGED <<task, lockq, cur, beat>> BY <1>11, Zenon DEF Hangup, Device
  <2>2. r \in ConnType BY <1>0, ConnUpdates, Zenon
  <2>3. Reads(conn[c], r) BY <1>0 DEF Reads, ConnType
  <2> QED BY <1>0, <2>1, <2>2, <2>3, DeviceKeepsAnswers, Zenon
<1>12. ASSUME NEW c \in Conns, ResetConn(c) PROVE AnswerInv'
  <2> DEFINE r == [conn[c] EXCEPT !.state = "reset", !.asked = <<>>, !.answers = <<>>]
  <2>1. conn' = [conn EXCEPT ![c] = r] /\ UNCHANGED <<task, lockq, cur, beat>> BY <1>12, Zenon DEF ResetConn, Device
  <2>2. r \in ConnType BY <1>0, ConnUpdates, Zenon DEF States
  <2>3. Reads(conn[c], r) BY <1>0 DEF Reads, ConnType
  <2> QED BY <1>0, <2>1, <2>2, <2>3, DeviceKeepsAnswers, Zenon
<1>13. ASSUME NEW c \in Conns, Refuse(c) PROVE AnswerInv' BY <1>13, RefuseKeepsAnswers
<1>14. ASSUME NEW c \in Conns, NEW ok \in BOOLEAN, Answer(c, ok) PROVE AnswerInv' BY <1>14, AnswerKeepsAnswers
<1>15. CASE UNCHANGED vars
  BY <1>15 DEF vars, AnswerInv, Types, Holder, NoneZero, OwnLast, At
<1> QED
  BY <1>1, <1>2, <1>3, <1>4, <1>5, <1>6, <1>7, <1>8, <1>9, <1>10, <1>11, <1>12, <1>13, <1>14, <1>15
  DEF Next, TaskStep, Tasks
(* An answer that request() accepts is alone on its connection, with no request    *)
(* unanswered: for any number of tasks and connections, and however late or how    *)
(* many of the earlier answers are.                                                *)
THEOREM ClientOwnAnswers == Spec => []OwnAnswers
<1>1. AnswerInv => OwnAnswers
  <2> SUFFICES ASSUME AnswerInv, NEW t \in Tasks, NEW c, c = task[t].conn, At(t, "wait"),
                      conn[c].answers # <<>>, Accepts(t, Head(conn[c].answers))
               PROVE  Len(conn[c].answers) = 1 /\ conn[c].asked = <<>>
    BY Zenon DEF OwnAnswers
  <2>1. c \in Conns /\ conn[c] \in ConnType BY DEF AnswerInv, Holder, Types
  <2>2. conn[c].answers \in Seq(Lines) BY <2>1 DEF ConnType
  <2>3. 1 \in 1 .. Len(conn[c].answers) /\ Head(conn[c].answers) = conn[c].answers[1] BY <2>2, SMTT(30)
  <2>4. conn[c].answers[1].id = task[t].id /\ conn[c].answers[1] # Refusal
    <3>1. Head(conn[c].answers).ok BY DEF Accepts
    <3>2. Refusal.ok = FALSE BY DEF Refusal
    <3>3. Head(conn[c].answers) # Refusal BY <3>1, <3>2
    <3> QED BY <2>3, <3>3 DEF Accepts
  <2>5. task[t].id # 0 BY <2>1, <2>3, <2>4 DEF AnswerInv, NoneZero, NoZero
  <2>6. Last(task[t].id, conn[c]) BY <2>5 DEF AnswerInv, OwnLast
  <2> QED BY <2>3, <2>4, <2>6, Zenon DEF Last
<1> QED BY <1>1, AnswerInit, AnswerNext, PTL DEF Spec
-------------------------------------------------------------------------------
(* From here on one task at a time calls connect(). *)
OneConnector == \A k, l \in Connectors : k = l

LEMMA LeaveQueue ==
  ASSUME NEW q \in Seq(Tasks), NEW b \in Tasks, IsInjective(q)
  PROVE  /\ IsInjective(Leave(q, b))
         /\ \A j \in 1 .. Len(Leave(q, b)) : Leave(q, b)[j] # b /\ \E i \in 1 .. Len(q) : Leave(q, b)[j] = q[i]
<1>1. CASE b \notin Range(q)
  <2>1. Leave(q, b) = q BY <1>1 DEF Leave
  <2>2. DOMAIN q = 1 .. Len(q) OBVIOUS
  <2> QED BY <1>1, <2>1, <2>2 DEF Range
<1>2. CASE b \in Range(q)
  <2> DEFINE i == CHOOSE i \in DOMAIN q : q[i] = b
             n == Len(q)
             s == Leave(q, b)
  <2>1. n \in Nat /\ DOMAIN q = 1 .. n OBVIOUS
  <2>2. i \in 1 .. n /\ q[i] = b BY <1>2, <2>1 DEF Range
  <2>3. s = [j \in 1 .. n - 1 |-> IF j < i THEN q[j] ELSE q[j + 1]] BY <1>2 DEF Leave
  <2>4. s \in Seq(Tasks) BY LeaveFacts
  <2>5. \A j, k \in 1 .. n : q[j] = q[k] => j = k BY <2>1 DEF IsInjective
  <2> HIDE DEF i, n, s
  <2>6. DOMAIN s = 1 .. n - 1 BY <2>3
  <2>7. Len(s) = n - 1 BY <2>1, <2>2, <2>4, <2>6
  <2>8. ASSUME NEW j \in 1 .. n - 1 PROVE \E k \in 1 .. n : k # i /\ s[j] = q[k] /\ k = IF j < i THEN j ELSE j + 1
    BY <2>1, <2>2, <2>3
  <2>9. \A j \in 1 .. Len(s) : s[j] # b /\ \E k \in 1 .. n : s[j] = q[k] BY <2>2, <2>5, <2>7, <2>8
  <2>10. ASSUME NEW j \in 1 .. n - 1, NEW k \in 1 .. n - 1, s[j] = s[k] PROVE j = k
    <3>1. PICK jj \in 1 .. n : s[j] = q[jj] /\ jj = IF j < i THEN j ELSE j + 1 BY <2>8
    <3>2. PICK kk \in 1 .. n : s[k] = q[kk] /\ kk = IF k < i THEN k ELSE k + 1 BY <2>8
    <3>3. jj = kk BY <2>5, <2>10, <3>1, <3>2, Zenon
    <3> QED BY <2>1, <2>2, <3>1, <3>2, <3>3
  <2>11. IsInjective(s) BY <2>6, <2>10 DEF IsInjective
  <2> QED BY <2>9, <2>11 DEF s, n
<1> QED BY <1>1, <1>2

LEMMA EndsQueue ==
  ASSUME SessionInv, NEW t \in Tasks, NEW then, NEW q, NEW cs, LeftBy(t, q), Ends(t, then, q, cs)
  PROVE  Queue'
<1>1. /\ lockq \in Seq(Tasks) /\ IsInjective(lockq)
      /\ \A i \in 1 .. Len(lockq) : task[lockq[i]].pc \in {"lock", "wait"}
  BY DEF SessionInv, AnswerInv, Types, Queue, At
<1>2. /\ q \in Seq(Tasks) /\ IsInjective(q)
      /\ \A i \in 1 .. Len(q) : q[i] # t /\ task[q[i]].pc \in {"lock", "wait"}
  <2>1. CASE q = lockq /\ task[t].pc \notin {"lock", "wait"} BY <1>1, <2>1
  <2>2. CASE lockq # <<>> /\ lockq[1] = t /\ q = Tail(lockq)
    <3>1. q \in Seq(Tasks) /\ Len(q) = Len(lockq) - 1 /\ Len(lockq) \in Nat BY <1>1, <2>2
    <3>2. DOMAIN q = 1 .. Len(q) /\ DOMAIN lockq = 1 .. Len(lockq) BY <1>1, <3>1
    <3>3. \A i \in 1 .. Len(q) : i + 1 \in 1 .. Len(lockq) /\ q[i] = lockq[i + 1] BY <1>1, <2>2
    <3>4. \A i, j \in 1 .. Len(lockq) : lockq[i] = lockq[j] => i = j BY <1>1, <3>2 DEF IsInjective
    <3>5. IsInjective(q) BY <3>1, <3>2, <3>3, <3>4 DEF IsInjective
    <3>6. \A i \in 1 .. Len(q) : q[i] # t
      <4>1. 1 \in 1 .. Len(lockq) BY <1>1, <2>2
      <4>2. \A i \in 1 .. Len(q) : i + 1 # 1 BY <3>1
      <4> QED BY <2>2, <3>3, <3>4, <4>1, <4>2
    <3> QED BY <1>1, <3>1, <3>3, <3>5, <3>6
  <2> QED BY <2>1, <2>2 DEF LeftBy
<1>3. /\ IsInjective(lockq')
      /\ \A j \in 1 .. Len(lockq') : \E i \in 1 .. Len(q) : lockq'[j] = q[i]
      /\ \A u \in Tasks : lockq' = Leave(q, u) => \A j \in 1 .. Len(lockq') : lockq'[j] # u
  <2>1. CASE lockq' = q
    <3>1. \A u \in Tasks : lockq' = Leave(q, u) => \A j \in 1 .. Len(lockq') : lockq'[j] # u BY <1>2, LeaveQueue
    <3> QED BY <1>2, <2>1, <3>1
  <2>2. ASSUME NEW b \in Tasks, lockq' = Leave(q, b)
        PROVE  IsInjective(lockq') /\ \A j \in 1 .. Len(lockq') : \E i \in 1 .. Len(q) : lockq'[j] = q[i]
    <3>1. /\ IsInjective(Leave(q, b))
          /\ \A j \in 1 .. Len(Leave(q, b)) : Leave(q, b)[j] # b /\ \E i \in 1 .. Len(q) : Leave(q, b)[j] = q[i]
      BY <1>2, LeaveQueue
    <3> QED BY <2>2, <3>1, Zenon
  <2>3. \A u \in Tasks : lockq' = Leave(q, u) => \A j \in 1 .. Len(lockq') : lockq'[j] # u BY <1>2, LeaveQueue
  <2> QED BY <2>1, <2>2, <2>3 DEF Ends
<1>4. ASSUME NEW j \in 1 .. Len(lockq') PROVE task'[lockq'[j]].pc \in {"lock", "wait"}
  <2> DEFINE u == lockq'[j]
  <2>1. u \in Tasks \ {t} /\ task[u].pc \in {"lock", "wait"} BY <1>2, <1>3
  <2>2. lockq' # Leave(q, u) BY <1>3, <2>1
  <2>3. task'[u] = task[u] BY <2>1, <2>2 DEF Ends, At
  <2> QED BY <2>1, <2>3
<1> QED BY <1>3, <1>4 DEF Queue, At
LEMMA EndsKeepsSession ==
  ASSUME SessionInv, AnswerInv', NEW t \in Tasks, NEW then, NEW q, NEW cs, LeftBy(t, q), Ends(t, then, q, cs),
         \A c \in Conns : cs[c].state = conn[c].state /\ cs[c].first = conn[c].first,
         then = "open" => t \in Connectors
  PROVE  SessionInv'
<1>1. Idle.pc = "idle" /\ Idle.then = None /\ Goto("sleep").pc = "sleep" /\ Goto("sleep").then = None
  BY DEF Idle, Goto
<1>2. cur' = cur /\ \A c \in Conns : /\ conn'[c].state = conn[c].state \/ (c = cur /\ conn'[c].state = "closing")
                                     /\ conn'[c].first = conn[c].first
  BY DEF Ends
<1>3. Owned'
  <2>1. NoLeak' BY <1>2 DEF SessionInv, Owned, NoLeak
  <2>2. ASSUME NEW u \in Tasks, task'[u].pc = "opening" PROVE u \in Connectors /\ cur' = None
    BY <1>1, <1>2, <2>2 DEF Ends, SessionInv, Owned, At
  <2>3. ASSUME NEW u \in Tasks, task'[u].then = "open" PROVE u \in Connectors
    BY <1>1, <2>3 DEF Ends, SessionInv, Owned, None
  <2>4. cur' # None => conn'[cur'].state # "free"
    BY <1>2 DEF SessionInv, Owned, AnswerInv, Types
  <2>5. ASSUME NEW u \in Tasks, task'[u].pc = "wait" PROVE conn'[task'[u].conn].state # "free"
    <3>1. task'[u] = task[u] /\ At(u, "wait") BY <1>1, <2>5 DEF Ends, At
    <3>2. task[u].conn \in Conns BY <3>1 DEF SessionInv, AnswerInv, Holder
    <3> QED BY <1>2, <3>1, <3>2 DEF SessionInv, Owned
  <2> QED BY <2>1, <2>2, <2>3, <2>4, <2>5 DEF Owned, At
<1>4. Greeted' BY <1>2 DEF SessionInv, Greeted
<1> QED BY <1>3, <1>4, EndsQueue DEF SessionInv

LEMMA AppendQueue ==
  ASSUME SessionInv, NEW t \in Tasks, task[t].pc \notin {"lock", "wait"}, lockq' = Append(lockq, t),
         task'[t].pc \in {"lock", "wait"}, \A u \in Tasks \ {t} : task'[u] = task[u]
  PROVE  Queue'
<1>1. /\ lockq \in Seq(Tasks) /\ IsInjective(lockq) /\ Len(lockq) \in Nat /\ DOMAIN lockq = 1 .. Len(lockq)
      /\ \A i \in 1 .. Len(lockq) : task[lockq[i]].pc \in {"lock", "wait"} /\ lockq[i] \in Tasks
  BY DEF SessionInv, AnswerInv, Types, Queue, At
<1>2. /\ lockq' \in Seq(Tasks) /\ Len(lockq') = Len(lockq) + 1 /\ lockq'[Len(lockq) + 1] = t
      /\ \A i \in 1 .. Len(lockq) : lockq'[i] = lockq[i]
  BY <1>1
<1>3. DOMAIN lockq' = 1 .. Len(lockq) + 1 BY <1>2
<1>4. \A i \in 1 .. Len(lockq) + 1 : i \in 1 .. Len(lockq) \/ i = Len(lockq) + 1 BY <1>1
<1>5. \A i \in 1 .. Len(lockq) : lockq[i] # t BY <1>1
<1>6. IsInjective(lockq')
  <2>1. \A i, j \in 1 .. Len(lockq) : lockq[i] = lockq[j] => i = j BY <1>1 DEF IsInjective
  <2> QED BY <1>2, <1>3, <1>4, <1>5, <2>1 DEF IsInjective
<1>7. \A i \in 1 .. Len(lockq') : task'[lockq'[i]].pc \in {"lock", "wait"} BY <1>1, <1>2, <1>4, <1>5
<1> QED BY <1>6, <1>7 DEF Queue, At

LEMMA WriteKeepsOwned ==
  ASSUME SessionInv, NEW t \in Tasks, NEW c \in Conns, cur = c, cur' = cur, Write(t, c, conn)
  PROVE  Owned' /\ Greeted'
<1>1. Types BY DEF SessionInv, AnswerInv
<1>2. conn \in [Conns -> ConnType] BY <1>1 DEF Types
<1>3. /\ \A u \in Tasks \ {t} : task'[u] = task[u]
      /\ \A d \in Conns \ {c} : conn'[d] = conn[d]
      /\ task'[t].pc = "wait" /\ task'[t].conn = c /\ task'[t].then = None
      /\ conn'[c].state = conn[c].state
      /\ conn'[c].first = IF conn[c].first = None /\ conn[c].state = "open" THEN Kind(t) ELSE conn[c].first
  <2>1. Wrote(t, c, conn) BY <1>1, <1>2, WriteTypes DEF Alike
  <2> QED BY <2>1, Zenon DEF Wrote
<1>4. conn'[c].first = conn[c].first BY <1>3 DEF SessionInv, Greeted
<1>5. Greeted' BY <1>3, <1>4 DEF SessionInv, Greeted
<1>6. \A d \in Conns : conn'[d].state = conn[d].state BY <1>3
<1>7. NoLeak' BY <1>6 DEF SessionInv, Owned, NoLeak
<1>8. \A u \in Tasks : task'[u].pc = "opening" => u \in Connectors /\ cur' = None BY <1>3 DEF SessionInv, Owned, At
<1>9. \A u \in Tasks : task'[u].then = "open" => u \in Connectors BY <1>3 DEF SessionInv, Owned, None
<1>10. conn[c].state # "free"
  <2>1. c # None BY NoneAssumption DEF None
  <2> QED BY <2>1 DEF SessionInv, Owned
<1>11. \A u \in Tasks : task'[u].pc = "wait" => conn'[task'[u].conn].state # "free"
  <2> SUFFICES ASSUME NEW u \in Tasks, task'[u].pc = "wait" PROVE conn'[task'[u].conn].state # "free" OBVIOUS
  <2>1. CASE u = t BY <1>3, <1>10, <2>1
  <2>2. CASE u # t
    <3>1. task'[u] = task[u] /\ At(u, "wait") BY <1>3, <2>2 DEF At
    <3>2. task[u].conn \in Conns BY <3>1 DEF SessionInv, AnswerInv, Holder
    <3> QED BY <1>6, <3>1, <3>2 DEF SessionInv, Owned
  <2> QED BY <2>1, <2>2
<1>12. Owned' BY <1>6, <1>7, <1>8, <1>9, <1>10, <1>11 DEF Owned, At
<1> QED BY <1>5, <1>12

LEMMA RequestKeepsSession ==
  ASSUME SessionInv, AnswerInv', NEW t \in Tasks, task[t].pc \notin {"lock", "wait"}, cur \in Conns,
         Request(t, cur, conn), cur' = cur
  PROVE  SessionInv'
<1>1. Types BY DEF SessionInv, AnswerInv
<1>2. lockq' = Append(lockq, t) BY DEF Request
<1>3. CASE lockq = <<>>
  <2>1. Write(t, cur, conn) BY <1>3 DEF Request
  <2>2. Wrote(t, cur, conn) BY <1>1, <2>1, WriteTypes DEF Types, Alike
  <2>3. task'[t].pc = "wait" /\ \A u \in Tasks \ {t} : task'[u] = task[u] BY <2>2, Zenon DEF Wrote
  <2> QED BY <1>2, <2>1, <2>3, WriteKeepsOwned, AppendQueue DEF SessionInv
<1>4. CASE lockq # <<>>
  <2>1. task' = [task EXCEPT ![t] = Goto("lock")] /\ conn' = conn BY <1>4 DEF Request
  <2>2. Goto("lock").pc = "lock" /\ Goto("lock").then = None BY DEF Goto, Idle
  <2>3. task'[t] = Goto("lock") /\ \A u \in Tasks \ {t} : task'[u] = task[u] BY <1>1, <2>1 DEF Types
  <2>4. Queue' BY <1>2, <2>2, <2>3, AppendQueue
  <2>5. Owned'
    <3>1. NoLeak' BY <2>1 DEF SessionInv, Owned, NoLeak
    <3>2. \A u \in Tasks : task'[u].pc \in {"opening", "wait"} \/ task'[u].then = "open" => task'[u] = task[u]
      BY <2>2, <2>3 DEF None
    <3> QED BY <2>1, <3>1, <3>2 DEF SessionInv, Owned, At
  <2>6. Greeted' BY <2>1 DEF SessionInv, Greeted
  <2> QED BY <2>4, <2>5, <2>6 DEF SessionInv
<1> QED BY <1>3, <1>4
(* connect() opens a connection when there is none, and no request is under way:   *)
(* hello is written at once.                                                       *)
LEMMA OpenedKeepsSession ==
  ASSUME OneConnector, SessionInv, AnswerInv', NEW t \in Tasks, Opened(t)
  PROVE  SessionInv'
<1> DEFINE c == CHOOSE c \in Conns : conn[c].state = "free"
           cs == [conn EXCEPT ![c] = [conn[c] EXCEPT !.state = "open"]]
<1>1. Types BY DEF SessionInv, AnswerInv
<1>2. c \in Conns /\ conn[c].state = "free" BY DEF Opened
<1>3. Request(t, c, cs) /\ cur' = c /\ beat' = beat /\ At(t, "opening") BY DEF Opened
<1> HIDE DEF c
<1>4. t \in Connectors /\ cur = None BY <1>3 DEF SessionInv, Owned
<1>5. \A d \in Conns : conn[d].state \notin {"open", "closing"}
  BY <1>4, NoneAssumption DEF SessionInv, Owned, NoLeak, None
<1>6. [conn[c] EXCEPT !.state = "open"] \in ConnType BY <1>1, <1>2, ConnUpdates, Zenon DEF States, Types
<1>7. cs \in [Conns -> ConnType] /\ cs[c].state = "open" /\ cs[c].first = conn[c].first
      /\ \A d \in Conns \ {c} : cs[d] = conn[d]
  BY <1>1, <1>2, <1>6 DEF Types, ConnType
<1>8. \A d \in Conns : cs[d].asked = conn[d].asked /\ cs[d].answers = conn[d].answers
  BY <1>1, <1>2 DEF Types, ConnType
<1> HIDE DEF cs
<1>9. lockq = <<>>
  <2> SUFFICES ASSUME lockq # <<>> PROVE FALSE OBVIOUS
  <2> DEFINE u == lockq[1]
  <2>1. u = Head(lockq) /\ u \in Tasks /\ 1 \in 1 .. Len(lockq) BY <1>1 DEF Types
  <2>2. At(u, "lock") \/ At(u, "wait") BY <2>1 DEF SessionInv, Queue
  <2>3. ~Ready(u) BY <2>1 DEF Opened
  <2>4. At(u, "wait") /\ ~HasEof(task[u].conn) BY <2>1, <2>2, <2>3 DEF Ready
  <2>5. task[u].conn \in Conns BY <2>1, <2>4 DEF SessionInv, AnswerInv, Holder
  <2>6. conn[task[u].conn].state # "free" BY <2>1, <2>4 DEF SessionInv, Owned
  <2>7. conn[task[u].conn].state \in States BY <1>1, <2>5 DEF Types, ConnType
  <2> QED BY <1>5, <2>4, <2>5, <2>6, <2>7 DEF HasEof, States
<1>10. Write(t, c, cs) /\ lockq' = Append(lockq, t) BY <1>3, <1>9 DEF Request
<1>11. /\ \A u \in Tasks \ {t} : task'[u] = task[u]
       /\ \A d \in Conns \ {c} : conn'[d] = cs[d]
       /\ task'[t].pc = "wait" /\ task'[t].conn = c /\ task'[t].then = None
       /\ conn'[c].state = cs[c].state
       /\ conn'[c].first = IF cs[c].first = None /\ cs[c].state = "open" THEN Kind(t) ELSE cs[c].first
  <2>1. Alike(cs) BY <1>1, <1>7, <1>8 DEF Alike
  <2>2. Wrote(t, c, cs) BY <1>1, <1>2, <1>7, <1>10, <2>1, WriteTypes
  <2> QED BY <2>2, Zenon DEF Wrote
<1>12. Queue' BY <1>3, <1>10, <1>11, AppendQueue, Zenon DEF At
<1>13. Greeted'
  <2>1. conn[c].first # "other" BY <1>2 DEF SessionInv, Greeted
  <2>2. conn'[c].first \notin {None, "other"} BY <1>4, <1>7, <1>11, <2>1 DEF Kind, None
  <2> QED BY <1>7, <1>11, <2>2 DEF SessionInv, Greeted
<1>14. NoLeak' BY <1>3, <1>5, <1>7, <1>11, SMTT(30) DEF NoLeak
<1>15. \A u \in Tasks : task'[u].pc # "opening"
  BY <1>3, <1>4, <1>11, SMTT(30) DEF SessionInv, Owned, At, OneConnector
<1>16. \A u \in Tasks : task'[u].then = "open" => u \in Connectors BY <1>11 DEF SessionInv, Owned, None
<1>17. \A u \in Tasks : task'[u].pc = "wait" => u = t BY <1>9, <1>11 DEF SessionInv, AnswerInv, Holder, At
<1>18. Owned' BY <1>3, <1>7, <1>11, <1>14, <1>15, <1>16, <1>17 DEF Owned, At
<1> QED BY <1>12, <1>13, <1>18 DEF SessionInv

(* The device's steps and Forget: only the state of one connection changes. *)
LEMMA DeviceKeepsSession ==
  ASSUME SessionInv, AnswerInv', NEW c \in Conns, task' = task, lockq' = lockq, cur' = cur,
         \A d \in Conns \ {c} : conn'[d] = conn[d],
         \/ conn'[c].state \in {conn[c].state, "reset"} /\ conn'[c].first = conn[c].first
            /\ (conn'[c].state = "reset" => conn[c].state # "free")
         \/ conn'[c] = NoConn /\ cur # c /\ Waiting(c) = {}
  PROVE  SessionInv'
<1>1. NoConn.state = "free" /\ NoConn.first = None BY DEF NoConn
<1>2. Queue' BY DEF SessionInv, Queue, At
<1>3. Greeted' BY <1>1 DEF SessionInv, Greeted, None
<1>4. NoLeak' BY <1>1 DEF SessionInv, Owned, NoLeak
<1>5. cur' # None => conn'[cur'].state # "free" BY DEF SessionInv, Owned, AnswerInv, Types
<1>6. ASSUME NEW t \in Tasks, At(t, "wait") PROVE conn'[task[t].conn].state # "free"
  <2>1. task[t].conn \in Conns /\ conn[task[t].conn].state # "free" BY <1>6 DEF SessionInv, AnswerInv, Holder, Owned
  <2>2. task[t].conn = c => Waiting(c) # {} BY <1>6 DEF Waiting
  <2> QED BY <2>1, <2>2
<1>7. Owned' BY <1>4, <1>5, <1>6 DEF SessionInv, Owned, At
<1> QED BY <1>2, <1>3, <1>7 DEF SessionInv
LEMMA LostKeepsSession ==
  ASSUME SessionInv, AnswerInv', NEW c \in Conns, ConnLost(c)
  PROVE  SessionInv'
<1> DEFINE waiters == {t \in Tasks : At(t, "await_close") /\ task[t].conn = c}
<1>1. Types BY DEF SessionInv, AnswerInv
<1>2. /\ conn[c].state = "closing" /\ lockq' = lockq /\ cur' = IF waiters = {} THEN cur ELSE None
      /\ conn' = [conn EXCEPT ![c] = [conn[c] EXCEPT !.state = "closed", !.eof = TRUE]]
  BY Zenon DEF ConnLost
<1>3. \A t \in Tasks : task'[t] = IF t \in waiters THEN After(task[t].then) ELSE task[t] BY DEF ConnLost
<1>4. \A t \in Tasks : t \in waiters => task[t].pc = "await_close" BY DEF At
<1> HIDE DEF waiters
<1>5. conn'[c].state = "closed" /\ conn'[c].first = conn[c].first /\ \A d \in Conns \ {c} : conn'[d] = conn[d]
  BY <1>1, <1>2 DEF Types, ConnType
<1>6. \A t \in Tasks : /\ After(task[t].then).pc \in {"idle", "opening"} /\ After(task[t].then).then = None
                       /\ After(task[t].then).pc = "opening" => task[t].then = "open"
  BY DEF After, Goto, Idle
<1>7. cur = c BY <1>2 DEF SessionInv, Owned, NoLeak
<1>8. Queue'
  <2>1. \A i \in 1 .. Len(lockq) : task[lockq[i]].pc \in {"lock", "wait"} /\ lockq[i] \in Tasks
    BY <1>1 DEF SessionInv, Queue, At, Types
  <2>2. \A i \in 1 .. Len(lockq) : task'[lockq[i]] = task[lockq[i]] BY <1>3, <1>4, <2>1
  <2> QED BY <1>2, <2>1, <2>2 DEF SessionInv, Queue, At
<1>9. Greeted' BY <1>5 DEF SessionInv, Greeted
<1>10. NoLeak' BY <1>2, <1>5, <1>7 DEF SessionInv, Owned, NoLeak
<1>11. ASSUME NEW t \in Tasks, task'[t].pc = "opening" PROVE t \in Connectors /\ cur' = None
  <2>1. c # None BY NoneAssumption DEF None
  <2>2. task[t].pc # "opening" BY <1>7, <2>1 DEF SessionInv, Owned, At
  <2>3. t \in waiters /\ task[t].then = "open" BY <1>3, <1>6, <1>11, <2>2
  <2> QED BY <1>2, <2>3 DEF SessionInv, Owned
<1>12. \A t \in Tasks : task'[t].then = "open" => t \in Connectors BY <1>3, <1>6 DEF SessionInv, Owned, None
<1>13. cur' # None => conn'[cur'].state # "free" BY <1>2, <1>5, <1>7
<1>14. ASSUME NEW t \in Tasks, task'[t].pc = "wait" PROVE conn'[task'[t].conn].state # "free"
  <2>1. task'[t] = task[t] /\ At(t, "wait") BY <1>3, <1>6, <1>14 DEF At
  <2>2. task[t].conn \in Conns /\ conn[task[t].conn].state # "free" BY <2>1 DEF SessionInv, AnswerInv, Holder, Owned
  <2> QED BY <1>5, <2>1, <2>2
<1>15. Owned' BY <1>10, <1>11, <1>12, <1>13, <1>14 DEF Owned, At
<1> QED BY <1>8, <1>9, <1>15 DEF SessionInv

LEMMA SessionInit == Init => SessionInv
<1> SUFFICES ASSUME Init PROVE SessionInv OBVIOUS
<1>1. \A t \in Tasks : task[t].pc = "idle" /\ task[t].then = None BY DEF Init, Idle
<1>2. \A c \in Conns : conn[c].state = "free" /\ conn[c].first = None BY DEF Init, NoConn
<1>3. Queue BY DEF Init, Queue, IsInjective
<1>4. Owned BY <1>1, <1>2 DEF Init, Owned, NoLeak, At, None
<1>5. Greeted BY <1>2 DEF Greeted, None
<1> QED BY <1>3, <1>4, <1>5, AnswerInit DEF SessionInv

LEMMA SessionNext == ASSUME OneConnector PROVE SessionInv /\ [Next]_vars => SessionInv'
<1> SUFFICES ASSUME SessionInv, [Next]_vars PROVE SessionInv' OBVIOUS
<1>0. Types /\ conn \in [Conns -> ConnType] /\ task \in [Tasks -> TaskType] /\ lockq \in Seq(Tasks)
      /\ cur \in Conns \cup {None}
  BY DEF SessionInv, AnswerInv, Types
<1>a. AnswerInv' BY AnswerNext DEF SessionInv
<1>b. ASSUME NEW t \in Tasks, NEW then \in {"open", "fail", "die"}, NEW q, LeftBy(t, q), Ends(t, then, q, conn),
             then = "open" => t \in Connectors
      PROVE  SessionInv'
  BY <1>a, <1>b, EndsKeepsSession
<1>1. ASSUME NEW t \in Tasks, BeatGone(t) PROVE SessionInv'
  <2>1. task[t].then \in Thens BY <1>0 DEF TaskType, Thens
  <2>2. Ends(t, task[t].then, lockq, conn) BY <1>0, <1>1, <2>1, CloseWriterEnds DEF BeatGone, Types
  <2>3. LeftBy(t, lockq) BY <1>1 DEF BeatGone, LeftBy, At
  <2>4. task[t].then = "open" => t \in Connectors BY DEF SessionInv, Owned
  <2> QED BY <1>a, <2>2, <2>3, <2>4, EndsKeepsSession
<1>2. ASSUME NEW t \in Connectors, Connect(t) PROVE SessionInv'
  <2>0. t \in Tasks BY DEF Tasks
  <2>1. Ends(t, "open", lockq, conn) BY <1>0, <1>2, <2>0, CloseEnds DEF Connect, Thens
  <2>2. LeftBy(t, lockq) BY <1>2 DEF Connect, LeftBy, At
  <2> QED BY <1>b, <2>0, <2>1, <2>2
<1>3. ASSUME NEW t \in Tasks, OpenFails(t) PROVE SessionInv'
  <2>1. Ends(t, "fail", lockq, conn) BY <1>0, <1>3, CloseEnds DEF OpenFails, Thens
  <2>2. LeftBy(t, lockq) BY <1>3 DEF OpenFails, LeftBy, At
  <2> QED BY <1>b, <2>1, <2>2
<1>4. ASSUME NEW t \in Tasks, Opened(t) PROVE SessionInv' BY <1>a, <1>4, OpenedKeepsSession
<1>5. ASSUME NEW t \in Tasks, Call(t) \/ Ping(t) PROVE SessionInv'
  <2>1. cur \in Conns BY <1>0, <1>5 DEF Call, Ping, connected
  <2>2. Request(t, cur, conn) /\ cur' = cur BY <1>5 DEF Call, Ping
  <2>3. task[t].pc \notin {"lock", "wait"} BY <1>5 DEF Call, Ping, At
  <2> QED BY <1>a, <2>1, <2>2, <2>3, RequestKeepsSession
<1>6. ASSUME NEW t \in Tasks, Granted(t) PROVE SessionInv'
  <2>1. lockq # <<>> /\ lockq[1] = t /\ cur' = cur /\ At(t, "lock") BY <1>0, <1>6 DEF Granted
  <2>2. CASE cur = None
    <3>1. Fail(t, conn) BY <1>6, <2>2 DEF Granted
    <3>2. PICK then \in {"fail", "die"} : Ends(t, then, Tail(lockq), conn) BY <1>0, <2>1, <3>1, FailEnds
    <3>3. LeftBy(t, Tail(lockq)) BY <2>1 DEF LeftBy
    <3> QED BY <1>b, <3>2, <3>3
  <2>3. CASE cur # None
    <3>1. cur \in Conns BY <1>0, <2>3
    <3>2. Write(t, cur, conn) /\ lockq' = lockq BY <1>6, <2>3 DEF Granted
    <3>3. task'[t].pc = "wait" /\ \A u \in Tasks \ {t} : task'[u] = task[u]
      <4>1. Wrote(t, cur, conn) BY <1>0, <3>1, <3>2, WriteTypes DEF Alike
      <4> QED BY <4>1, Zenon DEF Wrote
    <3>4. Queue'
      <4>1. Queue BY DEF SessionInv
      <4>2. IsInjective(lockq') BY <3>2, <4>1 DEF Queue
      <4>3. ASSUME NEW i \in 1 .. Len(lockq') PROVE (At(lockq[i], "lock") \/ At(lockq[i], "wait"))'
        <5>1. lockq' = lockq /\ i \in 1 .. Len(lockq) BY <3>2
        <5>2. lockq[i] \in Tasks BY <1>0, <5>1
        <5>3. At(lockq[i], "lock") \/ At(lockq[i], "wait") BY <4>1, <5>1 DEF Queue
        <5>4. CASE lockq[i] = t BY <3>3, <5>1, <5>4, Zenon DEF At
        <5>5. CASE lockq[i] # t
          <6>1. task'[lockq[i]] = task[lockq[i]] BY <3>3, <5>2, <5>5, Zenon
          <6> QED BY <5>1, <5>3, <6>1, Zenon DEF At
        <5> QED BY <5>4, <5>5
      <4> QED BY <4>2, <4>3, Zenon DEF Queue
    <3> QED BY <1>a, <2>1, <3>1, <3>2, <3>4, WriteKeepsOwned DEF SessionInv
  <2> QED BY <2>2, <2>3
<1>7. ASSUME NEW t \in Tasks, ReadAnswer(t) PROVE SessionInv'
  <2> DEFINE c == task[t].conn
             cs == [conn EXCEPT ![c] = [conn[c] EXCEPT !.answers = Tail(conn[c].answers)]]
  <2>1. At(t, "wait") /\ conn[c].answers # <<>> /\ cur' = cur /\ (Succeed(t, cs) \/ Fail(t, cs))
    BY <1>7 DEF ReadAnswer
  <2>2. c \in Conns /\ lockq # <<>> /\ lockq[1] = t BY <2>1 DEF SessionInv, AnswerInv, Holder
  <2> HIDE DEF c
  <2>3. [conn[c] EXCEPT !.answers = Tail(conn[c].answers)] \in ConnType
    <3>1. conn[c] \in ConnType /\ conn[c].answers \in Seq(Lines) BY <1>0, <2>2 DEF ConnType
    <3>2. Tail(conn[c].answers) \in Seq(Lines) BY <2>1, <3>1
    <3> QED BY <3>1, <3>2, ConnUpdates, Zenon
  <2>4. cs \in [Conns -> ConnType] BY <1>0, <2>2, <2>3
  <2>5. \A d \in Conns : cs[d].state = conn[d].state /\ cs[d].first = conn[d].first BY <1>0, <2>2 DEF ConnType
  <2> HIDE DEF cs
  <2>6. PICK then \in {"fail", "die"} : Ends(t, then, Tail(lockq), cs)
    BY <1>0, <2>1, <2>2, <2>4, FailEnds, SucceedEnds
  <2>7. LeftBy(t, Tail(lockq)) BY <2>2 DEF LeftBy
  <2> QED BY <1>a, <2>5, <2>6, <2>7, EndsKeepsSession
<1>8. ASSUME NEW t \in Tasks, ReadEof(t) \/ Timeout(t) PROVE SessionInv'
  <2>1. At(t, "wait") /\ cur' = cur /\ Fail(t, conn) BY <1>8 DEF ReadEof, Timeout
  <2>2. lockq # <<>> /\ lockq[1] = t BY <2>1 DEF SessionInv, AnswerInv, Holder
  <2>3. PICK then \in {"fail", "die"} : Ends(t, then, Tail(lockq), conn) BY <1>0, <2>1, <2>2, FailEnds
  <2>4. LeftBy(t, Tail(lockq)) BY <2>2 DEF LeftBy
  <2> QED BY <1>b, <2>3, <2>4
<1>9. ASSUME NEW c \in Conns, ConnLost(c) PROVE SessionInv' BY <1>a, <1>9, LostKeepsSession
<1>10. ASSUME NEW c \in Conns, Forget(c) PROVE SessionInv'
  <2>1. conn' = [conn EXCEPT ![c] = NoConn] /\ cur # c /\ Waiting(c) = {} BY <1>10 DEF Forget
  <2>2. conn'[c] = NoConn /\ \A d \in Conns \ {c} : conn'[d] = conn[d] BY <1>0, <2>1
  <2> QED BY <1>10, <1>a, <2>1, <2>2, DeviceKeepsSession DEF Forget
<1>11. ASSUME NEW c \in Conns, Refuse(c) \/ Hangup(c) \/ ResetConn(c) \/ \E ok \in BOOLEAN : Answer(c, ok)
       PROVE  SessionInv'
  <2>1. task' = task /\ lockq' = lockq /\ cur' = cur
    BY <1>11, Zenon DEF Refuse, Hangup, ResetConn, Answer, Device
  <2>2. /\ conn'[c].state \in {conn[c].state, "reset"} /\ conn'[c].first = conn[c].first
        /\ conn[c].state = "open" /\ \A d \in Conns \ {c} : conn'[d] = conn[d]
    <3>1. CASE Refuse(c) BY <1>0, <3>1 DEF Refuse, Device, Live, ConnType
    <3>2. CASE Hangup(c) BY <1>0, <3>2 DEF Hangup, Device, Live, ConnType
    <3>3. CASE ResetConn(c) BY <1>0, <3>3 DEF ResetConn, Device, ConnType
    <3>4. CASE \E ok \in BOOLEAN : Answer(c, ok)
      <4>1. PICK ok \in BOOLEAN : Answer(c, ok) BY <3>4
      <4> DEFINE a == Append(conn[c].answers, [id |-> Head(conn[c].asked), ok |-> ok])
      <4>2. conn' = [conn EXCEPT ![c] = [conn[c] EXCEPT !.asked = Tail(conn[c].asked), !.answers = a]]
        BY <4>1, Zenon DEF Answer, Device
      <4>3. conn[c].state = "open" BY <4>1 DEF Answer, Live
      <4> HIDE DEF a
      <4> QED BY <1>0, <4>2, <4>3 DEF ConnType
    <3> QED BY <1>11, <3>1, <3>2, <3>3, <3>4
  <2> QED BY <1>a, <2>1, <2>2, DeviceKeepsSession
<1>12. CASE UNCHANGED vars
  BY <1>a, <1>12 DEF vars, SessionInv, Queue, Owned, NoLeak, Greeted, At
<1> QED
  BY <1>1, <1>2, <1>3, <1>4, <1>5, <1>6, <1>7, <1>8, <1>9, <1>10, <1>11, <1>12 DEF Next, TaskStep, Tasks

(* With one connect() at a time, an open or closing connection is the client's own *)
(* at every moment: none is left open at the device when the client has let go.    *)
THEOREM ClientNoLeak == ASSUME OneConnector PROVE Spec => []NoLeak
<1>1. SessionInv => NoLeak BY DEF SessionInv, Owned
<1>2. SessionInv /\ [Next]_vars => SessionInv' BY SessionNext
<1> QED BY <1>1, <1>2, SessionInit, PTL DEF Spec

(* With one connect() at a time, the first command on every connection is hello,   *)
(* though API handlers and heartbeats that were queued for the lock may get it     *)
(* around the moment the connection opens.                                         *)
THEOREM ClientHelloFirst == ASSUME OneConnector PROVE Spec => []HelloFirst
<1>1. SessionInv => HelloFirst BY DEF SessionInv, Greeted, HelloFirst
<1>2. SessionInv /\ [Next]_vars => SessionInv' BY SessionNext
<1> QED BY <1>1, <1>2, SessionInit, PTL DEF Spec
===============================================================================
