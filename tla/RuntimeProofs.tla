----------------------------- MODULE RuntimeProofs -----------------------------
(* What the browsers are shown and told is what the device has done, for any      *)
(* number of handlers and any settings, whatever the connection does.             *)
EXTENDS MCControl, TLAPS

(* Facts about the lock's queue, the wire and the answers as sequences. *)
LEMMA EmptySequence == ASSUME NEW S PROVE <<>> \in Seq(S) /\ \A q \in Seq(S) : q = <<>> <=> Len(q) = 0
OBVIOUS

LEMMA LengthOfSequence == ASSUME NEW S, NEW q \in Seq(S) PROVE Len(q) \in Nat /\ q \in [1 .. Len(q) -> S]
OBVIOUS

LEMMA HeadAndTail ==
  ASSUME NEW S, NEW q \in Seq(S), q # <<>>
  PROVE  /\ Head(q) \in S /\ Head(q) = q[1] /\ Tail(q) \in Seq(S) /\ Len(Tail(q)) = Len(q) - 1
         /\ \A i \in 1 .. Len(Tail(q)) : Tail(q)[i] = q[i + 1]
OBVIOUS

Vals == Rx \cup {"on", "off"} \cup Frontends
Cmds == [do : {"set", "hello", "stop_all"}, of : SUBSET Settings, to : Vals]
Jobs == [pc : {"idle", "lock", "wait", "opening"}, cmd : Cmds, auto : BOOLEAN]
Requests == [who : Handlers \cup {Nobody}, cmd : Cmds]
Answers == [who : Handlers \cup {Nobody}, cmd : Cmds, ok : BOOLEAN]
AppState == [connected : BOOLEAN, rx : Vals, psd : Vals, frontend : Vals, error : BOOLEAN]
Types ==
  /\ job \in [Handlers -> Jobs] /\ lock \in Seq(Handlers) /\ up \in BOOLEAN
  /\ wire \in Seq(Requests) /\ answers \in Seq(Answers)
  /\ state \in AppState /\ pushed = Shown(state)

(* Only the holder of the lock waits for an answer. *)
Holder == \A t \in Handlers : At(t, "wait") => lock # <<>> /\ t = Head(lock)

(* At most one request or answer has somebody waiting for it, and it is the last  *)
(* of all: a handler that reads its own answer has read everything.               *)
Waits(m) == m.who \in Handlers /\ At(m.who, "wait") /\ job[m.who].cmd = m.cmd
LiveLast ==
  /\ \A i \in 1 .. Len(wire) : wire[i].who # Nobody => i = Len(wire) /\ Waits(wire[i])
  /\ \A i \in 1 .. Len(answers) : answers[i].who # Nobody => i = Len(answers) /\ wire = <<>> /\ Waits(answers[i])

(* The device has done what it answers to somebody who waits. *)
Done ==
  \A i \in 1 .. Len(answers) :
    up /\ answers[i].ok /\ answers[i].who # Nobody => \A x \in answers[i].cmd.of : dev[x] = answers[i].cmd.to

(* What is known is shown, or about to be: no request for it was given up. *)
Shows(x) ==
  /\ up
  /\ (\A i \in 1 .. Len(wire) : x \notin wire[i].cmd.of) /\ (\A i \in 1 .. Len(answers) : x \notin answers[i].cmd.of)
       => pushed[x] = dev[x]
  /\ \A i \in 1 .. Len(wire) : x \in wire[i].cmd.of => wire[i].who # Nobody
  /\ \A i \in 1 .. Len(answers) : x \in answers[i].cmd.of => answers[i].who # Nobody
KnownShown == \A x \in Settings \cap known : Shows(x)

(* The PSD is never switched on against the configuration. *)
Allowed(c) == "psd" \in c.of => c.to = "off"
PsdOff ==
  ~PsdEnable =>
    /\ dev.psd = "off" /\ \A t \in Handlers : Allowed(job[t].cmd)
    /\ \A i \in 1 .. Len(wire) : Allowed(wire[i].cmd)
    /\ \A i \in 1 .. Len(answers) : Allowed(answers[i].cmd)

(* One handler connects at a time, with no connection meanwhile. *)
Opening ==
  \A t \in Handlers : At(t, "opening") => ~up /\ job[t].cmd = Hello /\ \A u \in Handlers : At(u, "opening") => u = t

Messages == LiveLast /\ Done /\ KnownShown /\ PsdOff
RuntimeInv == Types /\ Holder /\ Opening /\ Messages
-------------------------------------------------------------------------------
LEMMA CmdTypes ==
  /\ Hello \in Cmds /\ StopAll \in Cmds /\ Allowed(Hello) /\ Allowed(StopAll) /\ Hello.of = {}
  /\ \A x \in Settings, v \in Vals : Set(x, v) \in Cmds
  /\ Idle \in Jobs /\ Idle.pc = "idle" /\ Idle.cmd = Hello
BY DEF Hello, StopAll, Cmds, Vals, Settings, Set, Idle, Jobs, Allowed

LEMMA Elements ==
  ASSUME Types
  PROVE  /\ \A i \in 1 .. Len(wire) : wire[i] \in Requests
         /\ \A i \in 1 .. Len(answers) : answers[i] \in Answers
         /\ Len(wire) \in Nat /\ Len(answers) \in Nat
BY DEF Types

(* Only connected and error change: what is shown stays. *)
LEMMA SameShown ==
  ASSUME Types, NEW s, s.rx = state.rx, s.psd = state.psd, s.frontend = state.frontend
  PROVE  Shown(s) = pushed
BY DEF Types, Shown, Settings

LEMMA RaiseFacts ==
  ASSUME Types, NEW t \in Handlers, NEW code \in {"500", "502"}, Raise(t, code)
  PROVE  /\ job' = [job EXCEPT ![t] = Idle] /\ (reply' = "ok" => job[t].auto)
         /\ state' \in AppState /\ pushed' = Shown(state') /\ pushed' = pushed
<1>1. CASE job[t].auto
  <2>1. reply' = "ok" /\ job' = [job EXCEPT ![t] = Idle] /\ state' = [state EXCEPT !.error = TRUE] /\ pushed' = Shown(state')
    BY <1>1, Zenon DEF Raise, Respond, Publish
  <2>2. state' \in AppState /\ state'.rx = state.rx /\ state'.psd = state.psd /\ state'.frontend = state.frontend
    BY <2>1, Zenon DEF Types, AppState
  <2> QED BY <1>1, <2>1, <2>2, SameShown, Zenon
<1>2. CASE ~job[t].auto /\ job[t].cmd = Hello
  <2>1. /\ reply' = "502" /\ job' = [job EXCEPT ![t] = Idle] /\ pushed' = Shown(state')
        /\ state' = [state EXCEPT !.connected = FALSE, !.error = TRUE]
    BY <1>2 DEF Raise, Respond, Publish
  <2>2. state' \in AppState /\ state'.rx = state.rx /\ state'.psd = state.psd /\ state'.frontend = state.frontend
    BY <2>1, Zenon DEF Types, AppState
  <2> QED BY <2>1, <2>2, SameShown, Zenon
<1>3. CASE ~job[t].auto /\ job[t].cmd # Hello
  BY <1>3 DEF Raise, Respond, Types
<1> QED BY <1>1, <1>2, <1>3

(* Whoever waits holds the lock. *)
LEMMA OneWaits ==
  ASSUME Holder, NEW t \in Handlers, lock # <<>>, t = Head(lock), NEW u \in Handlers, At(u, "wait")
  PROVE  u = t
BY DEF Holder

(* A handler that reads its own answer has read everything. *)
LEMMA OwnIsAll ==
  ASSUME RuntimeInv, NEW t \in Handlers, answers # <<>>, Head(answers).who = t
  PROVE  /\ wire = <<>> /\ Tail(answers) = <<>> /\ Len(answers) = 1 /\ Head(answers) = answers[1]
         /\ Head(answers).cmd = job[t].cmd
         /\ up /\ Head(answers).ok => \A x \in job[t].cmd.of : dev[x] = job[t].cmd.to
<1>1. answers \in Seq(Answers) BY DEF RuntimeInv, Types
<1>2. Head(answers) = answers[1] /\ 1 \in 1 .. Len(answers) BY <1>1
<1>3. answers[1].who # Nobody BY <1>2, HandlersAssumption
<1>4. 1 = Len(answers) /\ wire = <<>> /\ Waits(answers[1]) BY <1>2, <1>3 DEF RuntimeInv, Messages, LiveLast
<1>5. answers[1].cmd = job[t].cmd BY <1>2, <1>4 DEF Waits
<1>6. up /\ answers[1].ok => \A x \in answers[1].cmd.of : dev[x] = answers[1].cmd.to
  BY <1>2, <1>3 DEF RuntimeInv, Messages, Done
<1>7. Tail(answers) \in Seq(Answers) /\ Len(Tail(answers)) = 0 BY <1>1, <1>4, HeadAndTail
<1>8. Tail(answers) = <<>> BY <1>7, EmptySequence, Zenon
<1> QED BY <1>2, <1>4, <1>5, <1>6, <1>8

(* A step that leaves the connection alone, and after which t waits for nothing. *)
LEMMA Aside ==
  ASSUME RuntimeInv, NEW t \in Handlers, ~At(t, "wait"),
         NEW j \in Jobs, job' = [job EXCEPT ![t] = j], j.pc \in {"idle", "lock"}, ~PsdEnable => Allowed(j.cmd),
         lock' \in Seq(Handlers), \A u \in Handlers : At(u, "wait") => lock' # <<>> /\ u = Head(lock'),
         UNCHANGED <<up, wire, answers, dev>>, known' \subseteq known,
         state' \in AppState, pushed' = Shown(state'), pushed' = pushed
  PROVE  RuntimeInv'
<1> USE DEF RuntimeInv
<1>1. Types' BY DEF Types
<1>2. \A u \in Handlers : u # t => job'[u] = job[u] BY DEF Types
<1>3. job'[t] = j BY DEF Types
<1>4. Holder' BY <1>2, <1>3 DEF Holder, At
<1>5. Opening' BY <1>2, <1>3 DEF Opening, At
<1>7. LiveLast'
  <2>1. \A i \in 1 .. Len(wire) : wire[i].who # Nobody => i = Len(wire) /\ Waits(wire[i])'
    BY <1>2, SMTT(30) DEF LiveLast, Messages, Waits, At
  <2>2. \A i \in 1 .. Len(answers) :
          answers[i].who # Nobody => i = Len(answers) /\ wire = <<>> /\ Waits(answers[i])'
    BY <1>2, SMTT(30) DEF LiveLast, Messages, Waits, At
  <2> QED BY <2>1, <2>2 DEF LiveLast, Waits, At
<1>8. Done' BY DEF Messages, Done
<1>9. KnownShown' BY DEF Messages, KnownShown, Shows
<1>10. PsdOff' BY <1>2, <1>3 DEF Messages, PsdOff
<1> QED BY <1>1, <1>4, <1>5, <1>7, <1>8, <1>9, <1>10 DEF Messages

(* A step of nobody's that touches neither the connection nor what is shown. *)
LEMMA Elsewhere ==
  ASSUME RuntimeInv, UNCHANGED <<job, link, dev, known>>,
         state' \in AppState, pushed' = Shown(state'), pushed' = pushed
  PROVE  RuntimeInv'
<1> USE DEF RuntimeInv, link
<1>1. Types' BY DEF Types
<1>2. Holder' /\ Opening' BY DEF Holder, Opening, At
<1>3. LiveLast' BY DEF Messages, LiveLast, Waits, At
<1>4. Done' /\ PsdOff' BY DEF Messages, Done, PsdOff
<1>5. KnownShown' BY DEF Messages, KnownShown, Shows
<1> QED BY <1>1, <1>2, <1>3, <1>4, <1>5 DEF Messages

(* The holder of the lock is through, and nothing is under way. *)
LEMMA Cleared ==
  ASSUME RuntimeInv, NEW t \in Handlers, At(t, "wait"),
         NEW j \in Jobs, job' = [job EXCEPT ![t] = j], j.pc \in {"idle", "lock"}, ~PsdEnable => Allowed(j.cmd),
         lock' \in Seq(Handlers), wire' = <<>>, answers' = <<>>, up' \in BOOLEAN, up' => up,
         state' \in AppState, pushed' = Shown(state'),
         \A x \in Settings \cap known' : up' /\ pushed'[x] = dev'[x], ~PsdEnable => dev'.psd = "off"
  PROVE  RuntimeInv'
<1> USE DEF RuntimeInv
<1>1. lock # <<>> /\ t = Head(lock) BY DEF Holder
<1>3. Types' BY DEF Types
<1>4. /\ \A u \in Handlers : u # t => job'[u] = job[u] /\ ~At(u, "wait")
      /\ job'[t] = j
  BY <1>1 DEF Types, Holder
<1>5. Holder' BY <1>4 DEF At, Holder
<1>6. Opening' BY <1>4 DEF Opening, At
<1>7. Len(wire') = 0 /\ Len(answers') = 0 OBVIOUS
<1>8. LiveLast' /\ Done' BY <1>7 DEF LiveLast, Done
<1>9. KnownShown' BY <1>7 DEF KnownShown, Shows
<1>10. PsdOff' BY <1>4, <1>7 DEF Messages, PsdOff
<1> QED BY <1>3, <1>5, <1>6, <1>8, <1>9, <1>10 DEF Messages

(* t sends the first request of all. *)
LEMMA SendsFirst ==
  ASSUME RuntimeInv, NEW t \in Handlers, \A u \in Handlers : At(u, "wait") => u = t,
         \A u \in Handlers : At(u, "opening") => u = t \/ ~up',
         NEW j \in Jobs, job' = [job EXCEPT ![t] = j], j.pc = "wait", ~PsdEnable => Allowed(j.cmd),
         lock' = <<t>>, wire' = <<[who |-> t, cmd |-> j.cmd]>>, answers' = <<>>, up' \in BOOLEAN, dev' = dev,
         Settings \cap known' = {}, state' \in AppState, pushed' = Shown(state')
  PROVE  RuntimeInv'
<1> USE DEF RuntimeInv
<1>1. [who |-> t, cmd |-> j.cmd] \in Requests BY DEF Requests, Jobs
<1>2. lock' \in Seq(Handlers) /\ wire' \in Seq(Requests) BY <1>1
<1>3. Types' BY <1>2 DEF Types
<1>4. (\A u \in Handlers : u # t => job'[u] = job[u]) /\ job'[t] = j BY DEF Types
<1>5. Holder' BY <1>4 DEF At, Holder
<1>6. Opening' BY <1>4 DEF Opening, At
<1>7. Len(wire') = 1 /\ Len(answers') = 0 /\ wire'[1] = [who |-> t, cmd |-> j.cmd] OBVIOUS
<1>8. LiveLast' /\ Done' BY <1>4, <1>7 DEF LiveLast, Done, Waits, At
<1>9. KnownShown' BY DEF KnownShown
<1>10. PsdOff' BY <1>4, <1>7 DEF Messages, PsdOff
<1> QED BY <1>3, <1>5, <1>6, <1>8, <1>9, <1>10 DEF Messages

(* Nobody waits, so whatever is under way was given up. *)
LEMMA NoneLive ==
  ASSUME RuntimeInv, \A u \in Handlers : ~At(u, "wait")
  PROVE  /\ \A i \in 1 .. Len(wire) : wire[i].who = Nobody
         /\ \A i \in 1 .. Len(answers) : answers[i].who = Nobody
BY DEF RuntimeInv, Messages, LiveLast, Waits

(* t sends the last request of all. *)
LEMMA SendsLast ==
  ASSUME RuntimeInv, NEW t \in Handlers, \A u \in Handlers : ~At(u, "wait"),
         NEW j \in Jobs, job' = [job EXCEPT ![t] = j], j.pc = "wait", ~PsdEnable => Allowed(j.cmd),
         lock' \in Seq(Handlers), lock' # <<>>, Head(lock') = t, wire' = Append(wire, [who |-> t, cmd |-> j.cmd]),
         UNCHANGED <<up, answers, dev, state, pushed, known>>
  PROVE  RuntimeInv'
<1> USE DEF RuntimeInv
<1> DEFINE r == [who |-> t, cmd |-> j.cmd]
<1>1. r \in Requests BY DEF Requests, Jobs
<1>2. /\ wire' \in Seq(Requests) /\ Len(wire') = Len(wire) + 1 /\ Len(wire) \in Nat
      /\ \A i \in 1 .. Len(wire) : wire'[i] = wire[i]
      /\ wire'[Len(wire) + 1] = r
  BY <1>1 DEF Types
<1>3. Types' BY <1>2 DEF Types
<1>4. (\A u \in Handlers : u # t => job'[u] = job[u]) /\ job'[t] = j BY DEF Types
<1>5. Holder' BY <1>4 DEF At, Holder
<1>6. Opening' BY <1>4 DEF Opening, At
<1>7. \A i \in 1 .. Len(wire') : i \in 1 .. Len(wire) \/ i = Len(wire) + 1 BY <1>2
<1>8. r.who = t /\ r.cmd = j.cmd /\ t # Nobody BY HandlersAssumption
<1> HIDE DEF r
<1>9. Waits(r)' BY <1>4, <1>8 DEF Waits, At
<1>10. LiveLast'
  <2>1. (\A i \in 1 .. Len(wire) : wire[i].who # Nobody => i = Len(wire) /\ Waits(wire[i]))'
    <3> SUFFICES ASSUME NEW i \in 1 .. Len(wire'), wire'[i].who # Nobody
                 PROVE  i = Len(wire') /\ Waits(wire[i])'
      OBVIOUS
    <3>1. i = Len(wire) + 1 /\ wire'[i] = r BY <1>2, <1>7, NoneLive
    <3> QED BY <1>2, <1>9, <3>1 DEF Waits, At
  <2>2. \A i \in 1 .. Len(answers') : answers'[i].who = Nobody BY NoneLive
  <2> QED BY <2>1, <2>2 DEF LiveLast
<1>11. Done' BY DEF Messages, Done
<1>12. KnownShown'
  <2> SUFFICES ASSUME NEW x \in Settings \cap known PROVE Shows(x)' BY DEF KnownShown
  <2>1. Shows(x) BY DEF KnownShown, Messages
  <2>2. up /\ pushed[x] = dev[x] BY <2>1, NoneLive, Zenon DEF Shows
  <2>3. \A i \in 1 .. Len(wire') : x \in wire'[i].cmd.of => wire'[i].who # Nobody
    BY <1>2, <1>7, <1>8, <2>1 DEF Shows
  <2> QED BY <2>1, <2>2, <2>3 DEF Shows
<1>13. PsdOff' BY <1>2, <1>4, <1>7, <1>8 DEF Messages, PsdOff
<1> QED BY <1>3, <1>5, <1>6, <1>10, <1>11, <1>12, <1>13 DEF Messages

(* The live request or answer is the one of the handler that waits. *)
LEMMA LiveIsOwn ==
  ASSUME RuntimeInv, NEW t \in Handlers, At(t, "wait")
  PROVE  /\ \A i \in 1 .. Len(wire) : wire[i].who # Nobody => wire[i].who = t /\ wire[i].cmd = job[t].cmd
         /\ \A i \in 1 .. Len(answers) : answers[i].who # Nobody => answers[i].who = t /\ answers[i].cmd = job[t].cmd
<1>1. lock # <<>> /\ t = Head(lock) BY DEF RuntimeInv, Holder
<1>2. \A u \in Handlers : At(u, "wait") => u = t BY <1>1, OneWaits DEF RuntimeInv
<1> QED BY <1>2 DEF RuntimeInv, Messages, LiveLast, Waits

LEMMA AbandonFacts ==
  ASSUME NEW t \in Handlers
  PROVE  /\ \A s \in Seq(Requests) :
              /\ Abandon(t, s) \in Seq(Requests) /\ Len(Abandon(t, s)) = Len(s)
              /\ \A i \in 1 .. Len(s) : /\ Abandon(t, s)[i].cmd = s[i].cmd
                                        /\ Abandon(t, s)[i].who = IF s[i].who = t THEN Nobody ELSE s[i].who
         /\ \A s \in Seq(Answers) :
              /\ Abandon(t, s) \in Seq(Answers) /\ Len(Abandon(t, s)) = Len(s)
              /\ \A i \in 1 .. Len(s) : /\ Abandon(t, s)[i].cmd = s[i].cmd
                                        /\ Abandon(t, s)[i].who = IF s[i].who = t THEN Nobody ELSE s[i].who
<1> DEFINE g(m) == [m EXCEPT !.who = IF @ = t THEN Nobody ELSE @]
<1>1. \A m \in Requests : g(m) \in Requests /\ g(m).cmd = m.cmd /\ g(m).who = IF m.who = t THEN Nobody ELSE m.who
  BY DEF Requests
<1>2. \A m \in Answers : g(m) \in Answers /\ g(m).cmd = m.cmd /\ g(m).who = IF m.who = t THEN Nobody ELSE m.who
  BY DEF Answers
<1>3. \A s : Abandon(t, s) = [i \in 1 .. Len(s) |-> g(s[i])] BY DEF Abandon
<1> HIDE DEF g
<1>4. ASSUME NEW s \in Seq(Requests)
      PROVE  /\ Abandon(t, s) \in Seq(Requests) /\ Len(Abandon(t, s)) = Len(s)
             /\ \A i \in 1 .. Len(s) : Abandon(t, s)[i] = g(s[i]) /\ s[i] \in Requests
  <2>1. Len(s) \in Nat /\ \A i \in 1 .. Len(s) : s[i] \in Requests OBVIOUS
  <2>2. \A i \in 1 .. Len(s) : g(s[i]) \in Requests BY <1>1, <2>1
  <2>3. [i \in 1 .. Len(s) |-> g(s[i])] \in Seq(Requests) BY <2>1, <2>2
  <2>4. DOMAIN Abandon(t, s) = 1 .. Len(s) /\ \A i \in 1 .. Len(s) : Abandon(t, s)[i] = g(s[i]) BY <1>3
  <2> QED BY <1>3, <2>1, <2>3, <2>4, LengthOfSequence
<1>5. ASSUME NEW s \in Seq(Answers)
      PROVE  /\ Abandon(t, s) \in Seq(Answers) /\ Len(Abandon(t, s)) = Len(s)
             /\ \A i \in 1 .. Len(s) : Abandon(t, s)[i] = g(s[i]) /\ s[i] \in Answers
  <2>1. Len(s) \in Nat /\ \A i \in 1 .. Len(s) : s[i] \in Answers OBVIOUS
  <2>2. \A i \in 1 .. Len(s) : g(s[i]) \in Answers BY <1>2, <2>1
  <2>3. [i \in 1 .. Len(s) |-> g(s[i])] \in Seq(Answers) BY <2>1, <2>2
  <2>4. DOMAIN Abandon(t, s) = 1 .. Len(s) /\ \A i \in 1 .. Len(s) : Abandon(t, s)[i] = g(s[i]) BY <1>3
  <2> QED BY <1>3, <2>1, <2>3, <2>4, LengthOfSequence
<1> QED BY <1>1, <1>2, <1>4, <1>5

(* t stops waiting; what it waited for is given up, and so is what it knew. *)
LEMMA GivesUp ==
  ASSUME RuntimeInv, NEW t \in Handlers, At(t, "wait"), job' = [job EXCEPT ![t] = Idle], lock' = Tail(lock),
         wire' \in Seq(Requests), answers' \in Seq(Answers),
         \A i \in 1 .. Len(wire') : wire'[i].who = Nobody /\ \E k \in 1 .. Len(wire) : wire'[i].cmd = wire[k].cmd,
         \A i \in 1 .. Len(answers') :
           answers'[i].who = Nobody /\ \E k \in 1 .. Len(answers) : answers'[i].cmd = answers[k].cmd,
         UNCHANGED <<up, dev>>, known' = known \ (job[t].cmd.of \cup {"hello"}),
         state' \in AppState, pushed' = Shown(state'), pushed' = pushed
  PROVE  RuntimeInv'
<1> USE DEF RuntimeInv
<1>1. lock # <<>> /\ t = Head(lock) BY DEF Holder
<1>2. lock' \in Seq(Handlers) BY <1>1 DEF Types
<1>3. Types' BY <1>2, CmdTypes DEF Types
<1>4. /\ \A u \in Handlers : u # t => job'[u] = job[u] /\ ~At(u, "wait")
      /\ job'[t] = Idle
  BY <1>1 DEF Types, Holder
<1>5. Holder' BY <1>4, CmdTypes DEF At, Holder
<1>6. Opening' BY <1>4, CmdTypes, SMTT(30) DEF Opening, At
<1>7. LiveLast' /\ Done' BY DEF LiveLast, Done
<1>8. KnownShown'
  <2> SUFFICES ASSUME NEW x \in Settings \cap known' PROVE Shows(x)' BY DEF KnownShown
  <2>1. Shows(x) /\ x \notin job[t].cmd.of BY DEF KnownShown, Messages
  <2>2. \A k \in 1 .. Len(wire) : x \notin wire[k].cmd.of BY <2>1, LiveIsOwn DEF Shows
  <2>3. \A k \in 1 .. Len(answers) : x \notin answers[k].cmd.of BY <2>1, LiveIsOwn DEF Shows
  <2> QED BY <2>1, <2>2, <2>3, Zenon DEF Shows
<1>9. PsdOff' BY <1>4, CmdTypes, Zenon DEF Messages, PsdOff
<1> QED BY <1>3, <1>5, <1>6, <1>7, <1>8, <1>9 DEF Messages

(* The connection is dropped; answers that arrived may be left. *)
LEMMA Drops ==
  ASSUME RuntimeInv, Types', Holder', Opening', Drop(Arrived),
         \A u \in Handlers : At(u, "wait") => job'[u] = job[u],
         ~PsdEnable => \A u \in Handlers : Allowed(job'[u].cmd)
  PROVE  RuntimeInv'
<1> USE DEF RuntimeInv
<1>1. up' = FALSE /\ wire' = <<>> /\ known' = {} /\ dev'.psd = "off" BY DEF Drop
<1>2. answers' = answers \/ answers' = <<>> BY DEF Drop, Arrived
<1>3. Len(wire') = 0 BY <1>1
<1>4. \A i \in 1 .. Len(answers') : i \in 1 .. Len(answers) /\ answers' = answers BY <1>2
<1>5. LiveLast' BY <1>1, <1>3, <1>4, SMTT(30) DEF Messages, LiveLast, Waits, At
<1>6. Done' /\ KnownShown' BY <1>1 DEF Done, KnownShown
<1>7. PsdOff' BY <1>1, <1>3, <1>4 DEF Messages, PsdOff
<1> QED BY <1>5, <1>6, <1>7 DEF Messages
-------------------------------------------------------------------------------
(* One lemma per action. *)
LEMMA CommandKeeps ==
  ASSUME RuntimeInv, NEW t \in Handlers, NEW c \in Cmds, ~PsdEnable => Allowed(c), Command(t, c)
  PROVE  RuntimeInv'
<1>1. At(t, "idle") /\ UNCHANGED <<dev, state, pushed, known>> /\ ~At(t, "wait") BY DEF Command, At
<1>2. state' \in AppState /\ pushed' = Shown(state') BY <1>1 DEF RuntimeInv, Types
<1>3. CASE ~up
  <2>1. job' = [job EXCEPT ![t] = Idle] /\ UNCHANGED link BY <1>3 DEF Command, Respond
  <2>2. lock' \in Seq(Handlers) /\ \A u \in Handlers : At(u, "wait") => lock' # <<>> /\ u = Head(lock')
    BY <2>1 DEF link, RuntimeInv, Types, Holder
  <2> QED BY <1>1, <1>2, <2>1, <2>2, CmdTypes, Aside, Zenon DEF link
<1> DEFINE j == [pc |-> IF lock = <<>> THEN "wait" ELSE "lock", cmd |-> c, auto |-> FALSE]
<1>4. j \in Jobs /\ j.cmd = c BY DEF Jobs
<1>5. ASSUME up
      PROVE  /\ job' = [job EXCEPT ![t] = j] /\ lock' = Append(lock, t) /\ UNCHANGED <<up, answers>>
             /\ wire' = IF lock = <<>> THEN Append(wire, [who |-> t, cmd |-> c]) ELSE wire
  BY <1>5 DEF Command, Request
<1>6. lock' = Append(lock, t) => /\ lock' \in Seq(Handlers) /\ lock' # <<>>
                                 /\ Head(lock') = IF lock = <<>> THEN t ELSE Head(lock)
  BY DEF RuntimeInv, Types
<1>7. CASE up /\ lock = <<>>
  <2>1. j.pc = "wait" /\ \A u \in Handlers : ~At(u, "wait") BY <1>7 DEF RuntimeInv, Holder
  <2> HIDE DEF j
  <2> QED BY <1>1, <1>4, <1>5, <1>6, <1>7, <2>1, SendsLast
<1>8. CASE up /\ lock # <<>>
  <2>1. j.pc = "lock" BY <1>8
  <2>2. \A u \in Handlers : At(u, "wait") => lock' # <<>> /\ u = Head(lock')
    BY <1>5, <1>6, <1>8 DEF RuntimeInv, Holder
  <2> HIDE DEF j
  <2> QED BY <1>1, <1>2, <1>4, <1>5, <1>6, <1>8, <2>1, <2>2, Aside
<1> QED BY <1>3, <1>7, <1>8

LEMMA BodyTypes ==
  ASSUME RuntimeInv
  PROVE  \A x \in Settings : \A v \in Bodies(x) : Body(x, v) \in Vals
<1>1. state.frontend \in Vals BY DEF RuntimeInv, Types, AppState
<1>2. \A v \in Bodies("rx") : Body("rx", v) \in Vals BY DefaultsAssumption, Zenon DEF Bodies, Body, Values, Vals
<1>3. \A v \in Bodies("psd") : Body("psd", v) \in Vals BY Zenon DEF Bodies, Body, Values, Vals
<1>4. \A v \in Bodies("frontend") : Body("frontend", v) \in Vals BY <1>1, Zenon DEF Bodies, Body, Values, Vals
<1> QED BY <1>2, <1>3, <1>4 DEF Settings

LEMMA PostPsdKeeps ==
  ASSUME RuntimeInv, NEW t \in Handlers, NEW v \in Bodies("psd"), PostPsd(t, v)
  PROVE  RuntimeInv'
<1>1. CASE Body("psd", v) = "on" /\ ~PsdEnable
  <2>1. /\ At(t, "idle") /\ job' = [job EXCEPT ![t] = Idle] /\ UNCHANGED <<link, dev, known>>
        /\ state' = [state EXCEPT !.psd = "off", !.error = TRUE] /\ pushed' = Shown(state')
    BY <1>1 DEF PostPsd, Respond, Publish
  <2> USE DEF RuntimeInv, link
  <2>2. state' \in AppState /\ state'.rx = state.rx /\ state'.psd = "off" /\ state'.frontend = state.frontend
    BY <2>1, Zenon DEF Types, AppState, Vals
  <2>3. (\A u \in Handlers : u # t => job'[u] = job[u]) /\ job'[t] = Idle BY <2>1 DEF Types
  <2>4. Types' BY <2>1, <2>2, CmdTypes DEF Types
  <2>5. Holder' /\ Opening' BY <2>1, <2>3, CmdTypes DEF Holder, Opening, At
  <2>6. LiveLast' BY <2>1, <2>3, SMTT(30) DEF Messages, LiveLast, Waits, At
  <2>7. Done' /\ PsdOff' BY <2>1, <2>3, CmdTypes DEF Messages, Done, PsdOff
  <2>8. KnownShown'
    <3>1. dev.psd = "off" BY <1>1 DEF Messages, PsdOff
    <3>2. pushed'["rx"] = pushed["rx"] /\ pushed'["frontend"] = pushed["frontend"] /\ pushed'["psd"] = dev["psd"]
      BY <2>1, <2>2, <3>1, Zenon DEF Types, Shown, Settings
    <3> QED BY <2>1, <3>2 DEF Messages, KnownShown, Shows, Settings
  <2> QED BY <2>4, <2>5, <2>6, <2>7, <2>8 DEF Messages
<1>2. CASE ~(Body("psd", v) = "on" /\ ~PsdEnable)
  <2>1. Command(t, Set("psd", Body("psd", v))) BY <1>2 DEF PostPsd
  <2>2. Body("psd", v) \in {"on", "off"} BY Zenon DEF Bodies, Body, Values
  <2>3. Set("psd", Body("psd", v)) \in Cmds BY <2>2, CmdTypes DEF Vals, Settings
  <2>4. ~PsdEnable => Allowed(Set("psd", Body("psd", v))) BY <1>2, <2>2 DEF Allowed, Set
  <2> QED BY <2>1, <2>3, <2>4, CommandKeeps
<1> QED BY <1>1, <1>2

LEMMA OpenKeeps ==
  ASSUME RuntimeInv, NEW t \in Handlers, Opened(t) \/ OpenFails(t)
  PROVE  RuntimeInv'
<1> USE DEF RuntimeInv
<1>1. At(t, "opening") /\ ~At(t, "wait") BY DEF Opened, OpenFails, At
<1>2. CASE Opened(t)
  <2> DEFINE j == [job[t] EXCEPT !.pc = "wait"]
  <2>1. job[t] \in Jobs /\ (~PsdEnable => Allowed(job[t].cmd)) BY DEF Types, Messages, PsdOff
  <2>2. j \in Jobs /\ j.pc = "wait" /\ j.cmd = job[t].cmd BY <2>1 DEF Jobs
  <2>3. job' = [job EXCEPT ![t] = j] BY <1>2 DEF Opened, Types
  <2>4. job[t].cmd = Hello BY <1>1 DEF Opening
  <2>5. Settings \cap known = {} BY <1>1 DEF Opening, Messages, KnownShown, Shows
  <2>6. \A u \in Handlers : ~At(u, "wait") BY <1>2 DEF Opened, Holder
  <2>7. \A u \in Handlers : At(u, "opening") => u = t BY <1>1 DEF Opening
  <2>8. /\ up' \in BOOLEAN /\ lock' = <<t>> /\ answers' = <<>> /\ UNCHANGED <<dev, state, pushed, known>>
        /\ wire' = <<[who |-> t, cmd |-> j.cmd]>>
    BY <1>2, <2>2, <2>4 DEF Opened
  <2> HIDE DEF j
  <2> QED BY <2>1, <2>2, <2>3, <2>5, <2>6, <2>7, <2>8, SendsFirst, Zenon DEF Types
<1>3. CASE OpenFails(t)
  <2>1. /\ job' = [job EXCEPT ![t] = Idle] /\ UNCHANGED <<link, dev, known>>
        /\ state' \in AppState /\ pushed' = Shown(state') /\ pushed' = pushed
    BY <1>3, RaiseFacts DEF OpenFails
  <2>2. lock' \in Seq(Handlers) /\ \A u \in Handlers : At(u, "wait") => lock' # <<>> /\ u = Head(lock')
    BY <2>1 DEF link, Types, Holder
  <2> QED BY <1>1, <2>1, <2>2, CmdTypes, Aside, Zenon DEF link
<1> QED BY <1>2, <1>3

LEMMA CloseKeeps ==
  ASSUME RuntimeInv, Lost \/ \E t \in Handlers : PostConnect(t)
  PROVE  RuntimeInv'
<1> USE DEF RuntimeInv
<1>1. Drop(Arrived) /\ UNCHANGED <<lock, state, pushed>> BY DEF Lost, PostConnect
<1>2. up' = FALSE /\ wire' = <<>> /\ (answers' = answers \/ answers' = <<>>) BY <1>1 DEF Drop, Arrived
<1>3. wire' \in Seq(Requests) /\ answers' \in Seq(Answers) BY <1>2, EmptySequence, Zenon DEF Types
<1>4. CASE Lost
  <2>1. job' = job BY <1>4 DEF Lost
  <2>2. Types' BY <1>1, <1>2, <1>3, <2>1, Zenon DEF Types
  <2>3. Holder' BY <1>1, <2>1 DEF Holder, At
  <2>4. Opening' BY <1>2, <2>1 DEF Opening, At
  <2>5. ~PsdEnable => \A u \in Handlers : Allowed(job'[u].cmd) BY <2>1 DEF Messages, PsdOff
  <2> QED BY <1>1, <2>1, <2>2, <2>3, <2>4, <2>5, Drops
<1>5. ASSUME NEW t \in Handlers, PostConnect(t) PROVE RuntimeInv'
  <2> DEFINE j == [pc |-> "opening", cmd |-> Hello, auto |-> FALSE]
  <2>1. /\ At(t, "idle") /\ \A u \in Handlers : ~At(u, "opening")
        /\ job' = [job EXCEPT ![t] = j]
    BY <1>5 DEF PostConnect
  <2>2. j \in Jobs /\ j.pc = "opening" /\ j.cmd = Hello BY CmdTypes DEF Jobs
  <2> HIDE DEF j
  <2>3. (\A u \in Handlers : u # t => job'[u] = job[u]) /\ job'[t] = j BY <2>1 DEF Types
  <2>4. Types' BY <1>1, <1>2, <1>3, <2>1, <2>2, Zenon DEF Types
  <2>5. Holder' BY <1>1, <2>2, <2>3 DEF Holder, At
  <2>6. Opening' BY <1>2, <2>1, <2>2, <2>3 DEF Opening, At
  <2>7. \A u \in Handlers : At(u, "wait") => job'[u] = job[u] BY <2>1, <2>3 DEF At
  <2>8. ~PsdEnable => \A u \in Handlers : Allowed(job'[u].cmd) BY <2>2, <2>3, CmdTypes DEF Messages, PsdOff
  <2> QED BY <1>1, <2>4, <2>5, <2>6, <2>7, <2>8, Drops
<1> QED BY <1>4, <1>5

LEMMA GrantedKeeps ==
  ASSUME RuntimeInv, NEW t \in Handlers, Granted(t)
  PROVE  RuntimeInv'
<1> USE DEF RuntimeInv
<1>1. At(t, "lock") /\ lock # <<>> /\ t = Head(lock) /\ UNCHANGED <<up, answers, dev>> BY DEF Granted
<1>2. \A u \in Handlers : ~At(u, "wait") BY <1>1 DEF Holder, At
<1>3. job[t] \in Jobs /\ (~PsdEnable => Allowed(job[t].cmd)) BY DEF Types, Messages, PsdOff
<1>4. CASE up
  <2> DEFINE j == [job[t] EXCEPT !.pc = "wait"]
  <2>1. j \in Jobs /\ j.pc = "wait" /\ j.cmd = job[t].cmd BY <1>3 DEF Jobs
  <2>2. /\ job' = [job EXCEPT ![t] = j] /\ wire' = Append(wire, [who |-> t, cmd |-> j.cmd])
        /\ UNCHANGED <<lock, state, pushed, known>>
    BY <1>4, <2>1 DEF Granted, Types
  <2> HIDE DEF j
  <2> QED BY <1>1, <1>2, <1>3, <2>1, <2>2, SendsLast, Zenon DEF Types
<1>5. CASE ~up
  <2>1. /\ Raise(t, "500") /\ lock' = Tail(lock) /\ wire' = wire /\ known' \subseteq known
    BY <1>5 DEF Granted, Forget
  <2>2. /\ job' = [job EXCEPT ![t] = Idle] /\ state' \in AppState /\ pushed' = Shown(state') /\ pushed' = pushed
    BY <2>1, RaiseFacts
  <2>3. lock' \in Seq(Handlers) BY <1>1, <2>1 DEF Types
  <2> QED BY <1>1, <1>2, <2>1, <2>2, <2>3, CmdTypes, Aside, Zenon
<1> QED BY <1>4, <1>5

(* A good answer is published as the device has it. *)
LEMMA AnswerGoodKeeps ==
  ASSUME RuntimeInv, NEW t \in Handlers, AnswerGood(t)
  PROVE  RuntimeInv'
<1> USE DEF RuntimeInv
<1>1. /\ At(t, "wait") /\ answers # <<>> /\ Head(answers).who = t /\ Head(answers).ok
      /\ answers' = Tail(answers) /\ UNCHANGED <<up, dev>>
  BY Zenon DEF AnswerGood, Own
<1>2. /\ wire = <<>> /\ answers' = <<>> /\ Len(answers) = 1 /\ answers[1].cmd = job[t].cmd
      /\ up => \A x \in job[t].cmd.of : dev[x] = job[t].cmd.to
  BY <1>1, OwnIsAll
<1>3. lock # <<>> /\ t = Head(lock) BY <1>1 DEF Holder
<1>4. Tail(lock) \in Seq(Handlers) BY <1>3 DEF Types
<1>5. ~PsdEnable => dev'.psd = "off" BY <1>1 DEF Messages, PsdOff
<1>6. CASE job[t].cmd = Hello
  <2>1. Connected(t) /\ Settings \cap known' = {} BY <1>6 DEF AnswerGood, Settings
  <2>2. state' = [state EXCEPT !.connected = TRUE, !.error = FALSE] /\ pushed' = Shown(state')
    BY <2>1 DEF Connected, Publish
  <2>3. state' \in AppState BY <2>2, Zenon DEF Types, AppState
  <2>4. CASE ~PsdEnable
    <3>1. job' = [job EXCEPT ![t] = Idle] /\ lock' = Tail(lock) /\ wire' = wire
      BY <2>1, <2>4 DEF Connected, Respond
    <3> QED BY <1>1, <1>2, <1>4, <1>5, <2>1, <2>2, <2>3, <3>1, CmdTypes, Cleared, Zenon DEF Types
  <2> DEFINE j == [pc |-> IF Tail(lock) = <<>> THEN "wait" ELSE "lock", cmd |-> Set("psd", "on"), auto |-> TRUE]
  <2>5. j \in Jobs /\ j.cmd = Set("psd", "on") BY CmdTypes DEF Jobs, Vals, Settings
  <2>6. CASE PsdEnable
    <3>1. /\ job' = [job EXCEPT ![t] = j] /\ lock' = Append(Tail(lock), t)
          /\ wire' = IF Tail(lock) = <<>> THEN Append(wire, [who |-> t, cmd |-> j.cmd]) ELSE wire
      BY <2>1, <2>5, <2>6 DEF Connected, Request
    <3>2. lock' \in Seq(Handlers) BY <1>4, <3>1
    <3>3. CASE Tail(lock) = <<>>
      <4>1. j.pc = "wait" BY <3>3
      <4> HIDE DEF j
      <4>2. lock' = <<t>> /\ wire' = <<[who |-> t, cmd |-> j.cmd]>>
        <5>1. \A m : Append(<<>>, m) = <<m>> OBVIOUS
        <5> QED BY <1>2, <3>1, <3>3, <5>1, Zenon
      <4>3. \A u \in Handlers : At(u, "wait") => u = t BY <1>3 DEF Holder
      <4>4. \A u \in Handlers : At(u, "opening") => ~up' BY <1>1 DEF Opening
      <4> QED BY <1>1, <1>2, <2>1, <2>2, <2>3, <2>5, <2>6, <3>1, <4>1, <4>2, <4>3, <4>4, SendsFirst, Zenon DEF Types
    <3>4. CASE Tail(lock) # <<>>
      <4>1. j.pc = "lock" BY <3>4
      <4> HIDE DEF j
      <4> QED BY <1>1, <1>2, <1>5, <2>1, <2>2, <2>3, <2>5, <2>6, <3>1, <3>2, <3>4, <4>1, Cleared, Zenon DEF Types
    <3> QED BY <3>3, <3>4
  <2> QED BY <2>4, <2>6
<1>7. CASE job[t].cmd # Hello
  <2>1. /\ job' = [job EXCEPT ![t] = Idle] /\ lock' = Tail(lock) /\ wire' = wire
        /\ state' = Applied(state, job[t].cmd) /\ pushed' = Shown(state')
        /\ known' = IF up THEN known \cup job[t].cmd.of ELSE {}
    BY <1>7 DEF AnswerGood, Publish, Respond
  <2>2. job[t].cmd \in Cmds BY DEF Types, Jobs
  <2>3. state' \in AppState BY <2>1, <2>2, Zenon DEF Types, AppState, Applied, Cmds
  <2>4. \A x \in Settings : pushed'[x] = IF x \in job[t].cmd.of THEN job[t].cmd.to ELSE pushed[x]
    BY <2>1, Zenon DEF Types, AppState, Applied, Shown, Settings
  <2>5. ASSUME NEW x \in Settings \cap known' PROVE up' /\ pushed'[x] = dev'[x]
    <3>1. up BY <2>1, <2>5
    <3>2. CASE x \in job[t].cmd.of BY <1>1, <1>2, <2>4, <3>1, <3>2, Zenon
    <3>3. CASE x \notin job[t].cmd.of
      <4>1. Shows(x) BY <2>1, <3>3, <3>1, <2>5 DEF Messages, KnownShown
      <4>2. Len(wire) = 0 /\ Len(answers) = 1 BY <1>2
      <4>3. pushed[x] = dev[x] BY <1>2, <3>3, <4>1, <4>2, SMTT(30) DEF Shows
      <4> QED BY <1>1, <2>4, <3>1, <3>3, <4>3
    <3> QED BY <3>2, <3>3
  <2> QED BY <1>1, <1>2, <1>4, <1>5, <2>1, <2>3, <2>5, CmdTypes, Cleared, Zenon DEF Types
<1> QED BY <1>6, <1>7

(* An answer that is no use, or none in time. *)
LEMMA RaisesKeeps ==
  ASSUME RuntimeInv, NEW t \in Handlers, AnswerBad(t) \/ NoAnswer(t)
  PROVE  RuntimeInv' /\ (reply' = "ok" => job[t].auto)
<1> USE DEF RuntimeInv
<1>1. At(t, "wait") /\ lock' = Tail(lock) /\ \E code \in {"500", "502"} : Raise(t, code) BY DEF AnswerBad, NoAnswer
<1>2. /\ job' = [job EXCEPT ![t] = Idle] /\ (reply' = "ok" => job[t].auto)
      /\ state' \in AppState /\ pushed' = Shown(state') /\ pushed' = pushed
  BY <1>1, RaiseFacts
<1>3. lock # <<>> BY <1>1 DEF Holder
<1>4. lock' \in Seq(Handlers) BY <1>1, <1>3 DEF Types
<1>5. CASE job[t].cmd = Hello
  <2>1. Drop({<<>>}) BY <1>5 DEF AnswerBad, NoAnswer
  <2>2. up' = FALSE /\ wire' = <<>> /\ answers' = <<>> /\ known' = {} /\ dev'.psd = "off" BY <2>1 DEF Drop
  <2> QED BY <1>1, <1>2, <1>4, <2>2, CmdTypes, Cleared, Zenon
<1>6. CASE job[t].cmd # Hello
  <2>1. /\ wire' = Abandon(t, wire) /\ UNCHANGED <<up, dev>> /\ known' = known \ (job[t].cmd.of \cup {"hello"})
    BY <1>6 DEF AnswerBad, NoAnswer, Forget
  <2>2. wire \in Seq(Requests) /\ answers \in Seq(Answers) BY DEF Types
  <2>3. /\ wire' \in Seq(Requests)
        /\ \A i \in 1 .. Len(wire') : wire'[i].who = Nobody /\ \E k \in 1 .. Len(wire) : wire'[i].cmd = wire[k].cmd
    <3> DEFINE s == wire
    <3>1. /\ Abandon(t, s) \in Seq(Requests) /\ Len(Abandon(t, s)) = Len(s)
          /\ \A i \in 1 .. Len(s) : /\ Abandon(t, s)[i].cmd = s[i].cmd
                                    /\ Abandon(t, s)[i].who = IF s[i].who = t THEN Nobody ELSE s[i].who
      BY <2>2, AbandonFacts, SMTT(30)
    <3>2. \A i \in 1 .. Len(s) : s[i].who = Nobody \/ s[i].who = t BY <1>1, LiveIsOwn
    <3>3. Len(wire') = Len(s) /\ wire' \in Seq(Requests) BY <2>1, <3>1
    <3>4. \A i \in 1 .. Len(s) : wire'[i].who = Nobody BY <2>1, <3>1, <3>2
    <3>5. \A i \in 1 .. Len(s) : wire'[i].cmd = wire[i].cmd BY <2>1, <3>1
    <3> QED BY ONLY <3>3, <3>4, <3>5
  <2>4. /\ answers' \in Seq(Answers)
        /\ \A i \in 1 .. Len(answers') :
             answers'[i].who = Nobody /\ \E k \in 1 .. Len(answers) : answers'[i].cmd = answers[k].cmd
    <3>1. CASE NoAnswer(t)
      <4>1. answers = <<>> /\ answers' = <<>> BY <1>6, <3>1 DEF NoAnswer
      <4>2. Len(answers') = 0 BY <4>1
      <4> QED BY <4>1, <4>2, EmptySequence
    <3>2. CASE AnswerBad(t)
      <4> DEFINE s == Tail(answers)
      <4>1. answers # <<>> /\ answers' = Abandon(t, s) BY <1>6, <3>2 DEF AnswerBad
      <4>2. s \in Seq(Answers) /\ Len(s) = Len(answers) - 1 /\ \A i \in 1 .. Len(s) : s[i] = answers[i + 1]
        BY <2>2, <4>1, HeadAndTail
      <4>3. \A i \in 1 .. Len(s) : i + 1 \in 1 .. Len(answers) BY <2>2, <4>2
      <4> HIDE DEF s
      <4>4. /\ Abandon(t, s) \in Seq(Answers) /\ Len(Abandon(t, s)) = Len(s)
            /\ \A i \in 1 .. Len(s) : /\ Abandon(t, s)[i].cmd = s[i].cmd
                                      /\ Abandon(t, s)[i].who = IF s[i].who = t THEN Nobody ELSE s[i].who
        BY <4>2, AbandonFacts, SMTT(30)
      <4>5. \A i \in 1 .. Len(s) : s[i].who = Nobody \/ s[i].who = t BY <1>1, <4>2, <4>3, LiveIsOwn, SMTT(30)
      <4>6. \A i \in 1 .. Len(s) : s[i].cmd = answers[i + 1].cmd BY <4>2
      <4>7. \A i \in 1 .. Len(s) : \E k \in 1 .. Len(answers) : s[i].cmd = answers[k].cmd BY <4>3, <4>6
      <4>8. Len(answers') = Len(s) /\ answers' \in Seq(Answers) BY <4>1, <4>4
      <4>9. \A i \in 1 .. Len(s) : answers'[i].who = Nobody BY <4>1, <4>4, <4>5
      <4>10. \A i \in 1 .. Len(s) : answers'[i].cmd = s[i].cmd BY <4>1, <4>4
      <4>11. \A i \in 1 .. Len(s) : \E k \in 1 .. Len(answers) : answers'[i].cmd = answers[k].cmd BY <4>7, <4>10
      <4> QED BY ONLY <4>8, <4>9, <4>11
    <3> QED BY <3>1, <3>2
  <2> QED BY <1>1, <1>2, <2>1, <2>3, <2>4, GivesUp, Zenon
<1> QED BY <1>5, <1>6

(* The device does what is asked, or part of it, and says so. *)
LEMMA ExecuteKeeps ==
  ASSUME RuntimeInv, NEW ok \in BOOLEAN, Execute(ok)
  PROVE  RuntimeInv'
<1> USE DEF RuntimeInv
<1> DEFINE w == wire[1]
           a == [who |-> w.who, cmd |-> w.cmd, ok |-> ok]
           done == [x \in Settings |-> IF x \in w.cmd.of THEN w.cmd.to ELSE dev[x]]
<1>1. wire \in Seq(Requests) /\ answers \in Seq(Answers) /\ wire # <<>> /\ up /\ Head(wire) = wire[1]
  BY SMTT(30) DEF Types, Execute
<1>2. /\ wire' = Tail(wire) /\ answers' = Append(answers, a) /\ dev' \in (IF ok THEN {done} ELSE {dev, done})
      /\ UNCHANGED <<job, lock, up, state, pushed, known>>
  BY <1>1 DEF Execute
<1>3. w \in Requests /\ 1 \in 1 .. Len(wire) /\ Len(wire) \in Nat /\ Len(answers) \in Nat BY <1>1
<1>4. a \in Answers /\ a.who = w.who /\ a.cmd = w.cmd /\ a.ok = ok BY <1>3 DEF Requests, Answers
<1>5. /\ wire' \in Seq(Requests) /\ Len(wire') = Len(wire) - 1
      /\ \A i \in 1 .. Len(wire') : wire'[i] = wire[i + 1] /\ i + 1 \in 1 .. Len(wire)
  BY <1>1, <1>2, <1>3, HeadAndTail, SMTT(30)
<1> HIDE DEF a
<1>6. /\ answers' \in Seq(Answers) /\ Len(answers') = Len(answers) + 1
      /\ \A i \in 1 .. Len(answers) : answers'[i] = answers[i]
      /\ answers'[Len(answers) + 1] = a
      /\ \A i \in 1 .. Len(answers') : i \in 1 .. Len(answers) \/ i = Len(answers) + 1
  BY <1>1, <1>2, <1>3, <1>4, SMTT(30)
<1> HIDE DEF w
<1>7. \A i \in 1 .. Len(answers) : answers[i].who = Nobody BY <1>1 DEF Messages, LiveLast
<1>8. w.who # Nobody => Len(wire) = 1 /\ Waits(w) BY <1>3, Zenon DEF Messages, LiveLast, w
<1>9. w.who # Nobody => wire' = <<>> BY <1>5, <1>8, EmptySequence
<1>10. (\A x \in Settings : dev'[x] = dev[x] \/ (x \in w.cmd.of /\ dev'[x] = w.cmd.to))
       /\ (ok => \A x \in w.cmd.of \cap Settings : dev'[x] = w.cmd.to)
  BY <1>2
<1>11. w.cmd \in Cmds BY <1>3 DEF Requests
<1> HIDE DEF done
<1>12. Types' BY <1>2, <1>5, <1>6 DEF Types
<1>13. Holder' /\ Opening' BY <1>2 DEF Holder, Opening, At
<1>14. LiveLast'
  <2>1. (\A i \in 1 .. Len(wire) : wire[i].who # Nobody => i = Len(wire) /\ Waits(wire[i]))'
    <3> SUFFICES ASSUME NEW i \in 1 .. Len(wire'), wire'[i].who # Nobody
                 PROVE  i = Len(wire') /\ Waits(wire[i])'
      OBVIOUS
    <3>1. i + 1 = Len(wire) /\ Waits(wire[i + 1]) BY <1>5 DEF Messages, LiveLast
    <3>2. Waits(wire[i])' BY <1>2, <1>5, <3>1 DEF Waits, At
    <3> QED BY <1>3, <1>5, <3>1, <3>2
  <2>2. (\A i \in 1 .. Len(answers) : answers[i].who # Nobody => i = Len(answers) /\ wire = <<>> /\ Waits(answers[i]))'
    BY <1>2, <1>4, <1>6, <1>7, <1>8, <1>9, SMTT(30) DEF Waits, At
  <2> QED BY <2>1, <2>2 DEF LiveLast
<1>15. Done'
  <2>1. w.cmd.of \subseteq Settings BY <1>11 DEF Cmds
  <2> QED BY <1>4, <1>6, <1>7, <1>10, <2>1 DEF Done
<1>16. KnownShown'
  <2> SUFFICES ASSUME NEW x \in Settings \cap known PROVE Shows(x)' BY <1>2 DEF KnownShown
  <2>1. Shows(x) BY DEF KnownShown, Messages
  <2>2. x \in w.cmd.of => w.who # Nobody BY <1>3, <2>1 DEF Shows, w
  <2>3. \A i \in 1 .. Len(wire') : x \in wire'[i].cmd.of => wire'[i].who # Nobody BY <1>5, <2>1, Zenon DEF Shows
  <2>4. \A i \in 1 .. Len(answers') : x \in answers'[i].cmd.of => answers'[i].who # Nobody
    BY <1>4, <1>6, <2>1, <2>2 DEF Shows
  <2>5. ASSUME \A i \in 1 .. Len(wire') : x \notin wire'[i].cmd.of,
               \A i \in 1 .. Len(answers') : x \notin answers'[i].cmd.of
        PROVE  pushed'[x] = dev'[x]
    <3>1. Len(answers) + 1 \in 1 .. Len(answers') /\ \A i \in 1 .. Len(answers) : i \in 1 .. Len(answers')
      BY <1>3, <1>6
    <3>2. x \notin w.cmd.of BY <1>4, <1>6, <2>5, <3>1
    <3>3. \A i \in 1 .. Len(answers) : x \notin answers[i].cmd.of BY <1>6, <2>5, <3>1
    <3>4. \A i \in 1 .. Len(wire) : i = 1 \/ (i - 1 \in 1 .. Len(wire') /\ wire[i] = wire'[i - 1]) BY <1>3, <1>5
    <3>5. \A i \in 1 .. Len(wire) : x \notin wire[i].cmd.of BY <2>5, <3>2, <3>4 DEF w
    <3> QED BY <1>2, <1>10, <2>1, <3>2, <3>3, <3>5 DEF Shows
  <2> QED BY <1>1, <1>2, <2>3, <2>4, <2>5, Zenon DEF Shows
<1>17. PsdOff'
  <2> SUFFICES ASSUME ~PsdEnable PROVE PsdOff' BY DEF PsdOff
  <2>1. Allowed(w.cmd) BY <1>3 DEF Messages, PsdOff, w
  <2>2. dev'.psd = "off" BY <1>10, <2>1 DEF Messages, PsdOff, Allowed, Settings
  <2> QED BY <1>2, <1>4, <1>5, <1>6, <2>1, <2>2 DEF Messages, PsdOff
<1> QED BY <1>12, <1>13, <1>14, <1>15, <1>16, <1>17 DEF Messages
-------------------------------------------------------------------------------
LEMMA InitInv == Init => RuntimeInv
<1> SUFFICES ASSUME Init PROVE RuntimeInv OBVIOUS
<1> USE DEF Init
<1>1. state \in AppState
  <2>1. dev.frontend \in Frontends OBVIOUS
  <2> QED BY <2>1, DefaultsAssumption DEF AppState, Vals
<1>2. Types
  <2>1. job \in [Handlers -> Jobs] BY CmdTypes
  <2>2. lock \in Seq(Handlers) /\ wire \in Seq(Requests) /\ answers \in Seq(Answers) BY EmptySequence
  <2> QED BY <1>1, <2>1, <2>2, Zenon DEF Types
<1>3. \A t \in Handlers : job[t] = Idle OBVIOUS
<1>4. Holder /\ Opening BY <1>3, CmdTypes DEF Holder, Opening, At
<1>5. Len(wire) = 0 /\ Len(answers) = 0 /\ known = {} /\ dev.psd = "off" OBVIOUS
<1> HIDE DEF Init
<1>6. LiveLast /\ Done /\ KnownShown BY <1>5, SMTT(30) DEF LiveLast, Done, KnownShown
<1>7. PsdOff
  <2>1. \A t \in Handlers : Allowed(job[t].cmd) BY <1>3, CmdTypes, Zenon
  <2>2. \A i \in 1 .. Len(wire) : Allowed(wire[i].cmd) BY <1>5
  <2>3. \A i \in 1 .. Len(answers) : Allowed(answers[i].cmd) BY <1>5
  <2> QED BY <1>5, <2>1, <2>2, <2>3, Zenon DEF PsdOff
<1> QED BY <1>2, <1>4, <1>6, <1>7 DEF RuntimeInv, Messages

LEMMA NextInv == RuntimeInv /\ [Next]_vars => RuntimeInv'
<1> SUFFICES ASSUME RuntimeInv, [Next]_vars PROVE RuntimeInv' OBVIOUS
<1>1. ASSUME NEW t \in Handlers, NEW v \in Bodies("rx"), PostRx(t, v) PROVE RuntimeInv'
  <2>1. Set("rx", Body("rx", v)) \in Cmds BY BodyTypes, CmdTypes DEF Settings
  <2>2. Allowed(Set("rx", Body("rx", v))) BY DEF Allowed, Set
  <2> QED BY <1>1, <2>1, <2>2, CommandKeeps DEF PostRx
<1>2. ASSUME NEW t \in Handlers, NEW v \in Bodies("frontend"), PostFrontend(t, v) PROVE RuntimeInv'
  <2>1. Set("frontend", Body("frontend", v)) \in Cmds BY BodyTypes, CmdTypes DEF Settings
  <2>2. Allowed(Set("frontend", Body("frontend", v))) BY DEF Allowed, Set
  <2> QED BY <1>2, <2>1, <2>2, CommandKeeps DEF PostFrontend
<1>3. ASSUME NEW t \in Handlers, PostStop(t) PROVE RuntimeInv'
  BY <1>3, CmdTypes, CommandKeeps DEF PostStop
<1>4. ASSUME GetStatus \/ handle_status \/ handle_error PROVE RuntimeInv'
  <2>1. UNCHANGED <<job, link, dev, known>> BY <1>4 DEF GetStatus, handle_status, handle_error
  <2>2. state \in AppState /\ pushed = Shown(state) /\ up \in BOOLEAN BY DEF RuntimeInv, Types
  <2>3. \/ state' = state
        \/ state' = [state EXCEPT !.connected = up]
        \/ state' = [state EXCEPT !.error = TRUE]
    BY <1>4 DEF GetStatus, handle_status, handle_error, Publish
  <2>4. state' \in AppState /\ state'.rx = state.rx /\ state'.psd = state.psd /\ state'.frontend = state.frontend
    BY <2>2, <2>3, Zenon DEF AppState
  <2>5. Shown(state') = pushed BY <2>4, SameShown DEF RuntimeInv
  <2>6. pushed' = pushed BY <1>4, <2>2, <2>5, Zenon DEF GetStatus, handle_status, handle_error, Publish
  <2> QED BY <2>1, <2>4, <2>5, <2>6, Elsewhere
<1>5. CASE UNCHANGED vars
  <2>1. UNCHANGED <<job, link, dev, known, state, pushed>> BY <1>5 DEF vars
  <2> QED BY <2>1, Elsewhere DEF RuntimeInv, Types
<1> QED BY <1>1, <1>2, <1>3, <1>4, <1>5, PostPsdKeeps, CloseKeeps, OpenKeeps, GrantedKeeps, AnswerGoodKeeps,
           RaisesKeeps, ExecuteKeeps DEF Next, Post, Resume

LEMMA RuntimeInvariant == Spec => []RuntimeInv
BY InitInv, NextInv, PTL DEF Spec

(* What the browsers are shown is what the device has, for every setting the      *)
(* device confirmed and nothing is under way for: any number of handlers, any     *)
(* settings, PSD configured or not, however often the connection is lost.         *)
THEOREM RuntimeShowsDevice == Spec => []ShowsDevice
<1>1. RuntimeInv => ShowsDevice
  <2> SUFFICES ASSUME RuntimeInv, NEW x \in Settings \cap known, ~Pending(x) PROVE pushed[x] = dev[x]
    BY DEF ShowsDevice
  <2>1. Shows(x) BY DEF RuntimeInv, Messages, KnownShown
  <2>2. wire \in Seq(Requests) /\ answers \in Seq(Answers) BY DEF RuntimeInv, Types
  <2>3. \A i \in 1 .. Len(wire) : wire[i] \in Range(wire) BY <2>2 DEF Range
  <2>4. \A i \in 1 .. Len(answers) : answers[i] \in Range(answers) BY <2>2 DEF Range
  <2> QED BY <2>1, <2>3, <2>4 DEF Pending, Shows
<1> QED BY <1>1, RuntimeInvariant, PTL

(* A browser is told "ok" only when the device has what it asked for: an answer   *)
(* to a request that was given up is never taken for the answer to a later one.   *)
THEOREM RuntimeDoneMeansDone == Spec => DoneMeansDone
<1>1. RuntimeInv /\ [Next]_vars => [DoneIsDone]_vars
  <2> SUFFICES ASSUME RuntimeInv, Next,
                      NEW t \in Handlers, up, At(t, "wait"), job'[t] = Idle, reply' = "ok", ~job[t].auto
               PROVE  \A x \in job[t].cmd.of : dev[x] = job[t].cmd.to
    BY DEF DoneIsDone, At
  <2>1. job \in [Handlers -> Jobs] /\ job'[t] # job[t] BY CmdTypes DEF RuntimeInv, Types, At
  <2>2. CASE AnswerGood(t) BY <2>2, OwnIsAll, Zenon DEF AnswerGood, Own
  <2>3. ~(AnswerBad(t) \/ NoAnswer(t)) BY RaisesKeeps
  <2>4. ASSUME NEW u \in Handlers, u # t
        PROVE  ~(\/ Post(u) \/ Resume(u) \/ Opened(u) \/ OpenFails(u))
    <3>1. \A j : job' = [job EXCEPT ![u] = j] => job'[t] = job[t] BY <2>1, <2>4
    <3>2. \A c : ~Command(u, c) BY <2>1, <3>1 DEF Command, Request, Respond
    <3>3. \A c : ~Raise(u, c) BY <2>1, <3>1 DEF Raise, Respond
    <3>4. ~Post(u) BY <2>1, <3>1, <3>2 DEF Post, PostRx, PostPsd, PostFrontend, PostStop, PostConnect, Respond
    <3>5. ~Opened(u) /\ ~OpenFails(u) BY <2>1, <2>4, <3>3 DEF Opened, OpenFails
    <3>6. ~Granted(u) BY <2>1, <2>4, <3>3 DEF Granted
    <3>7. ~AnswerGood(u) BY <2>1, <3>1, Zenon DEF AnswerGood, Connected, Request, Respond
    <3>8. ~AnswerBad(u) /\ ~NoAnswer(u) BY <3>3, Zenon DEF AnswerBad, NoAnswer
    <3> QED BY <3>4, <3>5, <3>6, <3>7, <3>8 DEF Resume
  <2>5. ~Post(t) BY DEF Post, PostRx, PostPsd, PostFrontend, PostStop, PostConnect, Command, At
  <2>6. ~Granted(t) /\ ~Opened(t) /\ ~OpenFails(t) BY DEF Granted, Opened, OpenFails, At
  <2>7. ~(GetStatus \/ Lost \/ handle_status \/ handle_error \/ \E ok \in BOOLEAN : Execute(ok))
    BY <2>1 DEF GetStatus, Lost, handle_status, handle_error, Execute
  <2> QED BY <2>2, <2>3, <2>4, <2>5, <2>6, <2>7 DEF Next, Resume
<1> QED BY <1>1, RuntimeInvariant, PTL DEF Spec, DoneMeansDone
-------------------------------------------------------------------------------
(* A step of either half of the process is a step of the receivers, or none.  *)
LEMMA UdpStep == [BenchNext]_benchVars => [Udp!Next]_(Udp!vars)
BY DEF BenchNext, OnRuntime, OnUdp, benchVars, udpVars, Udp!vars

(* However datagrams are formed, and whatever the handlers do meanwhile, only  *)
(* stop() and the end of the event loop end a receiver thread.                 *)
THEOREM ControlOnlyStopEnds == BenchSpec => []OnlyStopEnds
<1>1. BenchInit => Udp!ThreadInv BY Udp!ThreadInit DEF BenchInit
<1>2. Udp!ThreadInv /\ [BenchNext]_benchVars => Udp!ThreadInv' BY UdpStep, Udp!ThreadNext
<1>3. Udp!ThreadInv => OnlyStopEnds BY DEF Udp!ThreadInv, Udp!StopFirst, Udp!OnlyStopEnds, OnlyStopEnds
<1> QED BY <1>1, <1>2, <1>3, PTL DEF BenchSpec

(* _handle_iq, _handle_psd and _handle_status run with the payload that came   *)
(* with their header, in the order of their port's datagrams.                  *)
THEOREM ControlOwnPayload == BenchSpec => OwnPayload
<1>1. BenchInit => Udp!IdInv BY Udp!IdInit DEF BenchInit
<1>2. Udp!IdInv /\ [BenchNext]_benchVars => Udp!IdInv' BY UdpStep, Udp!IdNext
<1>3. Udp!IdInv /\ [BenchNext]_benchVars => [Udp!OwnPayloads]_handled BY UdpStep, Udp!IdNext
<1> QED BY <1>1, <1>2, <1>3, PTL DEF BenchSpec, OwnPayload, Udp!OwnPayload
===============================================================================
