------------------------------- MODULE CsrProofs -------------------------------
(* The register path of the RTL library, for every number of writes and every  *)
(* ratio of the clocks from two on: its inductive invariant.                   *)
EXTENDS CsrPath, TLAPS

(* The register path.  A write is pending while ddc0_config_changed or         *)
(* clear_counts is high, and due while its toggle is between two flops.        *)
Held(hold, n) == IF hold = 0 THEN n = Len(done) ELSE n = Len(done) + 1 /\ hold = n
Due(a, b) == IF a = b THEN 0 ELSE 1
ConfigsDue == Due(tog, meta) + Due(meta, sync) + Due(sync, sync_d)
ClearsDue == Due(ptog, pmeta) + Due(pmeta, psync) + Due(psync, psync_d)
Pending(flag) == IF flag THEN 1 ELSE 0
Nth(n) == IF n = 0 THEN 0 ELSE configs[n].write
NoHolds == aw_hold = 0 /\ w_hold = 0
Bit01 == {0, 1}
Entries == [write : Nat, clears : Nat]

CsrTypes ==
  /\ Ratio \in Nat \ {0, 1}
  /\ aws \in Nat /\ ws \in Nat /\ aw_hold \in Nat /\ w_hold \in Nat /\ bvalid \in BOOLEAN
  /\ done \in Seq(Nat \X Nat) /\ configs \in Seq(Entries) /\ cleared \in Nat
  /\ changed \in BOOLEAN /\ clear \in BOOLEAN
  /\ tog \in Bit01 /\ meta \in Bit01 /\ sync \in Bit01 /\ sync_d \in Bit01
  /\ ptog \in Bit01 /\ pmeta \in Bit01 /\ psync \in Bit01 /\ psync_d \in Bit01
  /\ phase \in 0 .. Ratio /\ updates \in Nat /\ clears \in Nat

(* The slave holds the write after the last one it executed, or none. *)
CsrOrder == Held(aw_hold, aws) /\ Held(w_hold, ws) /\ WritesOnce

(* Every write that was executed has arrived, is due or is pending, and at     *)
(* most one has not arrived.                                                   *)
CsrCounts ==
  /\ Len(configs) = updates + ConfigsDue + Pending(changed)
  /\ cleared = clears + ClearsDue + Pending(clear)
  /\ ConfigsDue + ClearsDue + Pending(changed) + Pending(clear) <= 1

(* Where a write can be, by the ADC edges since the last AXI edge: it arrives  *)
(* before the slave, which has to answer it first, can execute the next.       *)
CsrTiming ==
  /\ changed \/ clear => bvalid /\ NoHolds
  /\ tog # meta \/ ptog # pmeta => phase = 0 /\ NoHolds
  /\ meta # sync \/ pmeta # psync => phase <= 1 /\ NoHolds
  /\ sync # sync_d \/ psync # psync_d => phase = 0 \/ NoHolds

(* What the words hold: src_hold is the configuration that is due, dst_data    *)
(* the one that has arrived.                                                   *)
CsrData ==
  /\ src_hold = Nth(updates + ConfigsDue)
  /\ changed => regs = Nth(Len(configs))
  /\ dst_data = Nth(updates)
  /\ \A i \in 1 .. Len(configs) : configs[i].clears <= cleared
  /\ ClearsFirst

CsrInv == CsrTypes /\ CsrOrder /\ CsrCounts /\ CsrTiming /\ CsrData

LEMMA CsrInit == ASSUME Ratio \in Nat \ {0, 1}, Init PROVE CsrInv
<1> USE DEF Init
<1>1. CsrTypes
  <2>1. done \in Seq(Nat \X Nat) /\ configs \in Seq(Entries) OBVIOUS
  <2>2. phase \in 0 .. Ratio OBVIOUS
  <2> QED BY <2>1, <2>2 DEF CsrTypes, Bit01
<1>2. CsrOrder BY DEF CsrOrder, Held, WritesOnce
<1>3. CsrCounts BY DEF CsrCounts, ConfigsDue, ClearsDue, Due, Pending
<1>4. CsrTiming BY DEF CsrTiming
<1>5. CsrData BY DEF CsrData, Nth, ConfigsDue, Due, ClearsFirst
<1> QED BY <1>1, <1>2, <1>3, <1>4, <1>5 DEF CsrInv

(* The AXI side of an edge: types, and the order of the writes. *)
LEMMA SlaveOrder ==
  ASSUME CsrTypes, CsrOrder, NEW v \in BOOLEAN, NEW w \in BOOLEAN, NEW b \in BOOLEAN, Slave(v, w, b), Regfile
  PROVE  /\ aws' \in Nat /\ ws' \in Nat /\ aw_hold' \in Nat /\ w_hold' \in Nat /\ bvalid' \in BOOLEAN
         /\ done' \in Seq(Nat \X Nat) /\ configs' \in Seq(Entries) /\ cleared' \in Nat
         /\ changed' \in BOOLEAN /\ clear' \in BOOLEAN
         /\ CsrOrder'
<1> USE DEF CsrTypes
<1>1. aws' \in Nat /\ ws' \in Nat /\ aw_hold' \in Nat /\ w_hold' \in Nat
  BY DEF Slave
<1>2. bvalid' \in BOOLEAN BY DEF Slave, wr_fire
<1>3. changed' \in BOOLEAN /\ clear' \in BOOLEAN BY DEF Regfile, Writing, wr_fire
<1>4. configs' \in Seq(Entries) /\ cleared' \in Nat
  <2>1. [write |-> aw_hold, clears |-> cleared] \in Entries BY DEF Entries
  <2> QED BY <2>1 DEF Regfile
<1>5. CASE wr_fire
  <2>1. aw_hold = Len(done) + 1 /\ w_hold = Len(done) + 1 /\ aws = aw_hold /\ ws = w_hold
    BY <1>5 DEF CsrOrder, Held, wr_fire
  <2>2. done' = Append(done, <<aw_hold, w_hold>>) BY <1>5 DEF Regfile
  <2>3. <<aw_hold, w_hold>> \in Nat \X Nat OBVIOUS
  <2>4. done' \in Seq(Nat \X Nat) /\ Len(done') = Len(done) + 1 BY <2>2, <2>3
  <2>5. \A i \in 1 .. Len(done) : done'[i] = done[i] BY <2>2, <2>3
  <2>6. done'[Len(done) + 1] = <<aw_hold, w_hold>> BY <2>2, <2>3
  <2>7. WritesOnce'
    <3>1. \A i \in 1 .. Len(done') : i \in 1 .. Len(done) \/ i = Len(done) + 1 BY <2>4
    <3>2. \A i \in 1 .. Len(done) : done'[i] = <<i, i>> BY <2>5 DEF CsrOrder, WritesOnce
    <3>3. done'[Len(done) + 1] = <<Len(done) + 1, Len(done) + 1>> BY <2>1, <2>6
    <3> QED BY <3>1, <3>2, <3>3 DEF WritesOnce
  <2>8. aws' = aws /\ ws' = ws /\ aw_hold' = 0 /\ w_hold' = 0
    BY <1>5 DEF Slave, wr_fire, awready, wready
  <2>9. Held(aw_hold, aws)' /\ Held(w_hold, ws)' BY <2>1, <2>4, <2>8 DEF Held
  <2> QED BY <1>1, <1>2, <1>3, <1>4, <2>4, <2>7, <2>9 DEF CsrOrder
<1>6. CASE ~wr_fire
  <2>1. done' = done BY <1>6 DEF Regfile
  <2>2. Held(aw_hold, aws)' /\ Held(w_hold, ws)'
    BY <1>6, <2>1 DEF CsrOrder, Held, Slave, awready, wready
  <2>3. WritesOnce' BY <2>1 DEF CsrOrder, WritesOnce
  <2> QED BY <1>1, <1>2, <1>3, <1>4, <2>1, <2>2, <2>3 DEF CsrOrder
<1> QED BY <1>5, <1>6

(* Where the pieces of a write are when the AXI clock ticks: nothing has just  *)
(* left the AXI side, and a write is executed only once the one before it has  *)
(* taken effect.                                                               *)
LEMMA AtEdge ==
  ASSUME CsrInv, phase = Ratio
  PROVE  /\ tog = meta /\ meta = sync /\ ptog = pmeta /\ pmeta = psync
         /\ wr_fire \/ changed \/ clear => sync = sync_d /\ psync = psync_d
         /\ wr_fire => ~changed /\ ~clear
         /\ sync # sync_d \/ psync # psync_d => NoHolds
         /\ ~(changed /\ clear)
<1> USE DEF CsrInv, CsrTypes, Bit01
<1>1. tog = meta /\ meta = sync /\ ptog = pmeta /\ pmeta = psync
  BY DEF CsrTiming
<1>2. sync # sync_d \/ psync # psync_d => NoHolds BY DEF CsrTiming
<1>3. wr_fire => sync = sync_d /\ psync = psync_d BY <1>2 DEF NoHolds, wr_fire
<1>4. wr_fire => ~changed /\ ~clear BY DEF CsrTiming, wr_fire
<1>5. /\ changed \/ clear => sync = sync_d /\ psync = psync_d
      /\ ~(changed /\ clear)
  BY DEF CsrCounts, ConfigsDue, ClearsDue, Due, Pending
<1> QED BY <1>1, <1>2, <1>3, <1>4, <1>5

(* An edge of the AXI clock executes a write, hands the last one over, or      *)
(* does neither.                                                               *)
Executes ==
  /\ wr_fire /\ UNCHANGED <<tog, ptog, src_hold>> /\ bvalid' /\ NoHolds' /\ ~(changed' /\ clear')
  /\ configs' = IF changed' THEN Append(configs, [write |-> regs', clears |-> cleared]) ELSE configs
  /\ cleared' = cleared + Pending(clear')
HandsOver ==
  /\ (changed \/ clear) /\ ~changed' /\ ~clear' /\ NoHolds' /\ UNCHANGED <<configs, cleared>>
  /\ tog' = (IF changed THEN 1 - tog ELSE tog) /\ ptog' = (IF clear THEN 1 - ptog ELSE ptog)
  /\ src_hold' = IF changed THEN regs ELSE src_hold
Rests == ~changed /\ ~clear /\ ~changed' /\ ~clear' /\ UNCHANGED <<tog, ptog, src_hold, configs, cleared>>

LEMMA SourceEffect ==
  ASSUME CsrInv, phase = Ratio, SrcEdge
  PROVE  /\ aws' \in Nat /\ ws' \in Nat /\ aw_hold' \in Nat /\ w_hold' \in Nat /\ bvalid' \in BOOLEAN
         /\ done' \in Seq(Nat \X Nat) /\ configs' \in Seq(Entries) /\ cleared' \in Nat
         /\ changed' \in BOOLEAN /\ clear' \in BOOLEAN /\ tog' \in Bit01 /\ ptog' \in Bit01
         /\ CsrOrder'
         /\ Executes \/ HandsOver \/ Rests
<1>1. PICK v \in BOOLEAN, w \in BOOLEAN, b \in BOOLEAN : Slave(v, w, b) /\ Regfile /\ SyncSource
  BY DEF SrcEdge
<1>2. CsrTypes /\ CsrOrder BY DEF CsrInv
<1>3. tog' \in Bit01 /\ ptog' \in Bit01 BY <1>1, <1>2 DEF SyncSource, CsrTypes, Bit01
<1>4. changed' = Writing("config") /\ clear' = Writing("clear") BY <1>1 DEF Regfile
<1>5. CASE wr_fire
  <2>1. ~changed /\ ~clear BY <1>5, AtEdge
  <2>2. UNCHANGED <<tog, ptog, src_hold>> BY <1>1, <2>1 DEF SyncSource
  <2>3. bvalid' BY <1>1, <1>5 DEF Slave
  <2>4. NoHolds' BY <1>1, <1>5 DEF Slave, NoHolds
  <2>5. ~(changed' /\ clear') BY <1>4 DEF Writing
  <2>6. configs' = IF changed' THEN Append(configs, [write |-> regs', clears |-> cleared]) ELSE configs
    BY <1>1, <1>4 DEF Regfile
  <2>7. cleared' = cleared + Pending(clear') BY <1>1, <1>2, <1>4 DEF Regfile, Pending, CsrTypes
  <2> QED BY <1>1, <1>2, <1>3, <1>5, <2>2, <2>3, <2>4, <2>5, <2>6, <2>7, SlaveOrder DEF Executes
<1>6. CASE ~wr_fire
  <2>1. ~changed' /\ ~clear' /\ UNCHANGED <<configs, cleared>>
    BY <1>1, <1>4, <1>6 DEF Regfile, Writing
  <2>2. CASE changed \/ clear
    <3>1. bvalid /\ NoHolds BY <2>2 DEF CsrInv, CsrTiming
    <3>2. NoHolds' BY <1>1, <1>6, <3>1 DEF NoHolds, Slave, awready, wready
    <3>3. HandsOver BY <1>1, <2>1, <2>2, <3>2 DEF HandsOver, SyncSource
    <3> QED BY <1>1, <1>2, <1>3, <3>3, SlaveOrder
  <2>3. CASE ~changed /\ ~clear
    <3>1. Rests BY <1>1, <2>1, <2>3 DEF Rests, SyncSource
    <3> QED BY <1>1, <1>2, <1>3, <3>1, SlaveOrder
  <2> QED BY <2>2, <2>3
<1> QED BY <1>5, <1>6

(* The flops of the ADC domain take one step and sample what is stable. *)
Moves ==
  /\ meta' = tog /\ sync' = meta /\ sync_d' = sync /\ pmeta' = ptog /\ psync' = pmeta /\ psync_d' = psync
  /\ dst_data' = (IF sync # sync_d THEN src_hold ELSE dst_data)
  /\ updates' = (IF sync # sync_d THEN updates + 1 ELSE updates)
  /\ clears' = (IF psync # psync_d THEN clears + 1 ELSE clears)
Stable == UNCHANGED <<changed, clear, src_hold, tog, ptog, configs, cleared>> /\ (changed => regs' = regs)

LEMMA CountsMove == ASSUME CsrInv, Moves, Stable PROVE CsrCounts'
<1> DEFINE due1 == ConfigsDue  left1 == ConfigsDue'  e1 == Due(sync, sync_d)  p1 == Pending(changed)
           due2 == ClearsDue  left2 == ClearsDue'  e2 == Due(psync, psync_d)  p2 == Pending(clear)
<1>1. updates' = updates + e1 /\ clears' = clears + e2 BY DEF CsrInv, CsrTypes, Due, Moves
<1>2. due1 = left1 + e1 /\ due2 = left2 + e2
  BY DEF ConfigsDue, ClearsDue, Due, Moves, Stable
<1>3. left1 \in Nat /\ left2 \in Nat /\ due1 \in Nat /\ due2 \in Nat /\ e1 \in Nat /\ e2 \in Nat
  BY DEF ConfigsDue, ClearsDue, Due
<1>4. configs' = configs /\ cleared' = cleared /\ Pending(changed)' = p1 /\ Pending(clear)' = p2
  BY DEF Pending, Stable
<1>5. p1 \in Nat /\ p2 \in Nat BY DEF Pending
<1>6. Len(configs) \in Nat /\ updates \in Nat /\ clears \in Nat /\ cleared \in Nat BY DEF CsrInv, CsrTypes
<1>7. Len(configs) = updates + due1 + p1 /\ cleared = clears + due2 + p2 /\ due1 + due2 + p1 + p2 <= 1
  BY DEF CsrInv, CsrCounts
<1>8. SUFFICES Len(configs) = updates' + left1 + p1 /\ cleared = clears' + left2 + p2 /\ left1 + left2 + p1 + p2 <= 1
  BY <1>4 DEF CsrCounts
<1> HIDE DEF due1, due2, left1, left2, e1, e2, p1, p2
<1> QED BY <1>1, <1>2, <1>3, <1>5, <1>6, <1>7

LEMMA DataMove == ASSUME CsrInv, Moves, Stable PROVE CsrData'
<1> USE DEF CsrInv
<1>1. updates' = updates + Due(sync, sync_d) BY DEF CsrTypes, Due, Moves
<1>2. ConfigsDue = ConfigsDue' + Due(sync, sync_d) BY DEF ConfigsDue, Due, Moves, Stable
<1>3. ConfigsDue' \in Nat /\ ConfigsDue \in Nat /\ ClearsDue \in Nat /\ Due(sync, sync_d) \in Nat
  BY DEF ConfigsDue, ClearsDue, Due
<1>4. \A i \in 1 .. Len(configs) : configs[i].clears \in Nat
  <2>1. \A i \in 1 .. Len(configs) : configs[i] \in Entries BY DEF CsrTypes
  <2> QED BY <2>1 DEF Entries
<1>5. updates <= Len(configs)
  <2>1. Len(configs) = updates + ConfigsDue + Pending(changed) /\ updates \in Nat BY DEF CsrCounts, CsrTypes
  <2>2. Pending(changed) \in Nat BY DEF Pending
  <2> HIDE DEF CsrInv
  <2> QED BY <1>3, <2>1, <2>2
<1>6. src_hold' = Nth(updates + ConfigsDue)'
  <2>1. src_hold' = src_hold /\ configs' = configs /\ src_hold = Nth(updates + ConfigsDue) /\ updates \in Nat
    BY DEF CsrData, CsrTypes, Stable
  <2> DEFINE left == ConfigsDue'  due == ConfigsDue  e == Due(sync, sync_d)
  <2>2. left \in Nat /\ due \in Nat /\ e \in Nat /\ due = left + e /\ updates' = updates + e BY <1>1, <1>2, <1>3
  <2> HIDE DEF left, due, e, CsrInv
  <2>3. updates' + left = updates + due BY <2>1, <2>2
  <2> QED BY <2>1, <2>3 DEF Nth, left, due
<1>7. (changed => regs = Nth(Len(configs)))' BY DEF CsrData, Nth, Stable
<1>8. (\A i \in 1 .. Len(configs) : configs[i].clears <= cleared)' BY DEF CsrData, Stable
<1>9. CASE sync = sync_d
  <2>1. dst_data' = Nth(updates)' BY <1>9 DEF CsrData, Nth, Moves, Stable
  <2>2. updates' = updates /\ configs' = configs /\ clears' \in Nat /\ clears' >= clears
    BY <1>9 DEF CsrTypes, Moves, Stable
  <2>3. updates > 0 => configs[updates].clears \in Nat BY <1>4, <1>5 DEF CsrTypes
  <2>4. ClearsFirst' BY <2>2, <2>3 DEF CsrData, ClearsFirst, CsrTypes
  <2> QED BY <1>6, <1>7, <1>8, <2>1, <2>4 DEF CsrData
<1>10. CASE sync # sync_d
  <2>1. ConfigsDue = 1 /\ ClearsDue = 0 /\ ~changed /\ ~clear
    BY <1>10 DEF CsrCounts, ConfigsDue, ClearsDue, Due, Pending, CsrTypes
  <2>2. Len(configs) = updates + 1 /\ clears = cleared BY <2>1 DEF CsrCounts, Pending, CsrTypes
  <2>3. updates' = updates + 1 /\ dst_data' = src_hold /\ clears' >= clears /\ clears' \in Nat
    BY <1>10 DEF CsrTypes, Moves
  <2>4. dst_data' = Nth(updates)' BY <2>1, <2>3 DEF CsrData, Nth, Stable
  <2>5. configs[updates + 1].clears <= cleared BY <2>2 DEF CsrData, CsrTypes
  <2>6. configs[updates + 1].clears \in Nat BY <1>4, <2>2 DEF CsrTypes
  <2>7. ClearsFirst' BY <2>2, <2>3, <2>5, <2>6 DEF ClearsFirst, CsrTypes, Stable
  <2> QED BY <1>6, <1>7, <1>8, <2>4, <2>7 DEF CsrData
<1> QED BY <1>9, <1>10

(* The ADC clock alone moves what is on its way one flop further. *)
LEMMA AdcKeeps == ASSUME CsrInv, AdcClock PROVE CsrInv'
<1> USE DEF CsrInv
<1>1. Moves BY DEF AdcClock, DstEdge, dst_update, dst_pulse, Moves
<1>2. UNCHANGED <<aws, ws, aw_hold, w_hold, bvalid, done, regs, changed, clear, src_hold, tog, ptog, configs, cleared>>
      /\ phase' = IF phase < Ratio THEN phase + 1 ELSE phase
  BY DEF AdcClock, axi
<1>3. Stable BY <1>2 DEF Stable
<1>4. CsrTypes' BY <1>1, <1>2 DEF CsrTypes, Moves
<1>5. CsrOrder' BY <1>2 DEF CsrOrder, Held, WritesOnce
<1>6. CsrTiming' BY <1>1, <1>2 DEF CsrTiming, CsrTypes, NoHolds, Moves
<1> QED BY <1>1, <1>3, <1>4, <1>5, <1>6, CountsMove, DataMove
(* The AXI edge: types and order come from SourceEffect; the rest, case by     *)
(* case.                                                                       *)
Edge ==
  /\ phase = Ratio /\ phase' = 0
  /\ aws' \in Nat /\ ws' \in Nat /\ aw_hold' \in Nat /\ w_hold' \in Nat /\ bvalid' \in BOOLEAN
  /\ done' \in Seq(Nat \X Nat) /\ configs' \in Seq(Entries) /\ cleared' \in Nat
  /\ changed' \in BOOLEAN /\ clear' \in BOOLEAN /\ tog' \in Bit01 /\ ptog' \in Bit01
  /\ CsrOrder'

(* When a write is executed, nothing is on its way. *)
LEMMA ExecutesKeeps == ASSUME CsrInv, Edge, Executes, UNCHANGED adc PROVE CsrInv'
<1>1. UNCHANGED <<meta, sync, sync_d, dst_data, pmeta, psync, psync_d, updates, clears>> BY DEF adc
<1>2. tog = meta /\ meta = sync /\ sync = sync_d /\ ptog = pmeta /\ pmeta = psync /\ psync = psync_d /\ ~changed /\ ~clear
  BY AtEdge DEF Edge, Executes
<1>3. UNCHANGED <<tog, ptog, src_hold>> /\ bvalid' /\ NoHolds' /\ ~(changed' /\ clear')
  BY DEF Executes
<1>4. CsrTypes' BY <1>1 DEF CsrInv, CsrTypes, Edge
<1>5. CsrOrder' BY DEF Edge
<1>6. CsrTiming' BY <1>1, <1>2, <1>3 DEF CsrTiming
<1>7. ConfigsDue = 0 /\ ClearsDue = 0 /\ ConfigsDue' = 0 /\ ClearsDue' = 0
  BY <1>1, <1>2, <1>3 DEF ConfigsDue, ClearsDue, Due
<1>8. Len(configs) = updates /\ cleared = clears /\ updates \in Nat /\ clears \in Nat /\ configs \in Seq(Entries)
  BY <1>2, <1>7 DEF CsrInv, CsrCounts, CsrTypes, Pending
<1>9. ASSUME changed' PROVE [write |-> regs', clears |-> cleared] \in Entries
  <2>1. configs' = Append(configs, [write |-> regs', clears |-> cleared]) BY <1>9 DEF Executes
  <2>2. Len(configs') = Len(configs) + 1 /\ configs'[Len(configs) + 1] = [write |-> regs', clears |-> cleared]
    BY <1>8, <2>1
  <2>3. Len(configs) + 1 \in 1 .. Len(configs') /\ configs' \in Seq(Entries) BY <1>8, <2>2 DEF Edge
  <2> QED BY <2>2, <2>3
<1>10. CASE changed'
  <2>1. configs' = Append(configs, [write |-> regs', clears |-> cleared]) /\ ~clear' BY <1>3, <1>10 DEF Executes
  <2>2. cleared' = cleared BY <1>3, <1>8, <1>10 DEF Executes, Pending
  <2>3. /\ Len(configs') = Len(configs) + 1
        /\ configs'[Len(configs) + 1] = [write |-> regs', clears |-> cleared]
        /\ \A i \in 1 .. Len(configs) : configs'[i] = configs[i]
    BY <1>8, <1>9, <1>10, <2>1
  <2>4. CsrCounts' BY <1>1, <1>7, <1>8, <1>10, <2>1, <2>2, <2>3 DEF CsrCounts, Pending
  <2>5. Nth(updates)' = Nth(updates) BY <1>1, <1>8, <2>3 DEF Nth
  <2>6. src_hold' = Nth(updates + ConfigsDue)' /\ dst_data' = Nth(updates)'
    BY <1>1, <1>3, <1>7, <1>8, <2>5 DEF CsrInv, CsrData, Nth
  <2>7. regs' = Nth(Len(configs))' BY <1>8, <2>3 DEF Nth
  <2>8. (\A i \in 1 .. Len(configs) : configs[i].clears <= cleared)'
    <3>1. \A i \in 1 .. Len(configs') : i \in 1 .. Len(configs) \/ i = Len(configs) + 1 BY <1>8, <2>3
    <3>2. \A i \in 1 .. Len(configs) : configs'[i].clears <= cleared BY <2>3 DEF CsrInv, CsrData
    <3>3. configs'[Len(configs) + 1].clears <= cleared BY <1>8, <2>3
    <3> QED BY <2>2, <3>1, <3>2, <3>3
  <2>9. ClearsFirst' BY <1>1, <1>8, <2>3 DEF CsrInv, CsrData, ClearsFirst
  <2> QED BY <1>4, <1>5, <1>6, <2>4, <2>6, <2>7, <2>8, <2>9 DEF CsrInv, CsrData
<1>11. CASE ~changed'
  <2>1. configs' = configs /\ cleared' = cleared + Pending(clear') BY <1>11 DEF Executes
  <2>2. Pending(clear') \in {0, 1} BY DEF Pending
  <2>3. CsrCounts' BY <1>1, <1>7, <1>8, <1>11, <2>1, <2>2 DEF CsrCounts, Pending
  <2>4. src_hold' = Nth(updates + ConfigsDue)' /\ dst_data' = Nth(updates)'
    BY <1>1, <1>3, <1>7, <1>8, <2>1 DEF CsrInv, CsrData, Nth
  <2>5. \A i \in 1 .. Len(configs) : configs[i].clears \in Nat
    <3>1. \A i \in 1 .. Len(configs) : configs[i] \in Entries BY <1>8
    <3> QED BY <3>1 DEF Entries
  <2>6. (\A i \in 1 .. Len(configs) : configs[i].clears <= cleared)'
    BY <1>8, <2>1, <2>2, <2>5 DEF CsrInv, CsrData
  <2>7. ClearsFirst' BY <1>1, <2>1 DEF CsrInv, CsrData, ClearsFirst
  <2> QED BY <1>4, <1>5, <1>6, <1>11, <2>3, <2>4, <2>6, <2>7 DEF CsrInv, CsrData
<1> QED BY <1>10, <1>11
(* When a write is handed over, the first flop may already see its toggle. *)
LEMMA HandsOverKeeps ==
  ASSUME CsrInv, Edge, HandsOver, meta' \in {tog, tog'}, pmeta' \in {ptog, ptog'},
         UNCHANGED <<sync, sync_d, dst_data, psync, psync_d, updates, clears>>
  PROVE  CsrInv'
<1>1. tog = meta /\ meta = sync /\ sync = sync_d /\ ptog = pmeta /\ pmeta = psync /\ psync = psync_d /\ ~(changed /\ clear)
  BY AtEdge DEF Edge, HandsOver
<1>2. (changed \/ clear) /\ ~changed' /\ ~clear' /\ NoHolds' /\ UNCHANGED <<configs, cleared>> BY DEF HandsOver
<1>3. tog \in Bit01 /\ ptog \in Bit01 /\ changed \in BOOLEAN /\ clear \in BOOLEAN BY DEF CsrInv, CsrTypes
<1>4. ConfigsDue = 0 /\ ClearsDue = 0 BY <1>1 DEF ConfigsDue, ClearsDue, Due
<1>5. ConfigsDue' = Pending(changed) /\ ClearsDue' = Pending(clear)
  <2>1. CASE changed
    <3>1. tog' # tog /\ ptog' = ptog BY <1>1, <1>3, <2>1 DEF HandsOver, Bit01
    <3> QED BY <1>1, <2>1, <3>1 DEF ConfigsDue, ClearsDue, Due, Pending
  <2>2. CASE clear
    <3>1. ptog' # ptog /\ tog' = tog BY <1>1, <1>3, <2>2 DEF HandsOver, Bit01
    <3> QED BY <1>1, <2>2, <3>1 DEF ConfigsDue, ClearsDue, Due, Pending
  <2> QED BY <1>2, <2>1, <2>2
<1>6. CsrTypes' BY <1>3 DEF CsrInv, CsrTypes, Edge
<1>7. CsrTiming' BY <1>1, <1>2 DEF CsrTiming, Edge
<1>8. /\ Len(configs) = updates + Pending(changed) /\ cleared = clears + Pending(clear)
      /\ Pending(changed) + Pending(clear) <= 1 /\ updates \in Nat /\ clears \in Nat
      /\ Pending(changed) \in {0, 1} /\ Pending(clear) \in {0, 1}
  BY <1>4 DEF CsrInv, CsrCounts, CsrTypes, Pending
<1>9. Pending(changed)' = 0 /\ Pending(clear)' = 0 BY <1>2 DEF Pending
<1>10. CsrCounts' BY <1>2, <1>5, <1>8, <1>9 DEF CsrCounts
<1>11. src_hold' = Nth(updates + ConfigsDue)'
  <2>1. CASE changed
    <3>1. src_hold' = regs /\ regs = Nth(Len(configs)) BY <2>1 DEF HandsOver, CsrInv, CsrData
    <3>2. (updates + ConfigsDue)' = Len(configs) BY <1>5, <1>8
    <3> QED BY <1>2, <3>1, <3>2 DEF Nth
  <2>2. CASE ~changed
    <3>1. src_hold' = src_hold /\ src_hold = Nth(updates) BY <1>4, <1>8, <2>2 DEF HandsOver, CsrInv, CsrData
    <3>2. (updates + ConfigsDue)' = updates BY <1>5, <1>8, <2>2 DEF Pending
    <3> QED BY <1>2, <3>1, <3>2 DEF Nth
  <2> QED BY <2>1, <2>2
<1>12. CsrData' BY <1>2, <1>11 DEF CsrInv, CsrData, Nth, ClearsFirst
<1> QED BY <1>6, <1>7, <1>10, <1>12 DEF CsrInv, Edge

(* When neither happens, the ADC side stands still or moves on. *)
LEMMA RestsKeeps ==
  ASSUME CsrInv, Edge, Rests, UNCHANGED adc \/ Moves
  PROVE  CsrInv'
<1>1. tog = meta /\ meta = sync /\ ptog = pmeta /\ pmeta = psync BY AtEdge DEF Edge
<1>2. Stable
  <2>1. changed \in BOOLEAN /\ changed' \in BOOLEAN /\ clear \in BOOLEAN /\ clear' \in BOOLEAN
    BY DEF CsrInv, CsrTypes, Edge
  <2>2. changed' = changed /\ clear' = clear BY <2>1 DEF Rests
  <2> QED BY <2>2 DEF Stable, Rests
<1>3. UNCHANGED <<meta, sync, sync_d, dst_data, pmeta, psync, psync_d, updates, clears>> \/ Moves BY DEF adc
<1>4. ~changed' /\ ~clear' /\ UNCHANGED <<tog, ptog, src_hold, configs, cleared>> BY DEF Rests
<1>5. CsrTypes' BY <1>3, <1>4, SMTT(30) DEF CsrInv, CsrTypes, Edge, Moves
<1>6. CsrTiming' BY <1>1, <1>3, <1>4 DEF CsrTiming, Edge, Moves
<1>7. CASE Moves BY <1>2, <1>5, <1>6, <1>7, CountsMove, DataMove DEF CsrInv, Edge
<1>8. CASE UNCHANGED <<meta, sync, sync_d, dst_data, pmeta, psync, psync_d, updates, clears>>
  <2>1. ConfigsDue' = ConfigsDue /\ ClearsDue' = ClearsDue BY <1>4, <1>8 DEF ConfigsDue, ClearsDue
  <2>2. Pending(changed)' = Pending(changed) /\ Pending(clear)' = Pending(clear) BY DEF Rests, Pending
  <2>3. CsrCounts' BY <1>4, <1>8, <2>1, <2>2 DEF CsrInv, CsrCounts
  <2>4. CsrData' BY <1>4, <1>8, <2>1 DEF CsrInv, CsrData, Nth, ClearsFirst
  <2> QED BY <1>5, <1>6, <2>3, <2>4 DEF CsrInv, Edge
<1> QED BY <1>3, <1>7, <1>8

(* An edge of the AXI clock, apart from the ADC clock's or with it. *)
LEMMA AxiKeeps == ASSUME CsrInv, AxiClock PROVE CsrInv'
<1>1. phase = Ratio /\ phase' = 0 /\ SrcEdge /\ UNCHANGED adc BY DEF AxiClock
<1>2. Edge /\ (Executes \/ HandsOver \/ Rests) BY <1>1, SourceEffect DEF Edge
<1>3. CASE HandsOver
  <2>1. tog = meta /\ ptog = pmeta BY <1>1, AtEdge
  <2>2. UNCHANGED <<meta, pmeta, sync, sync_d, dst_data, psync, psync_d, updates, clears>> BY <1>1 DEF adc
  <2> QED BY <1>2, <1>3, <2>1, <2>2, HandsOverKeeps
<1> QED BY <1>1, <1>2, <1>3, ExecutesKeeps, RestsKeeps

LEMMA BothKeep == ASSUME CsrInv, BothClocks PROVE CsrInv'
<1>1. phase = Ratio /\ phase' = 0 /\ SrcEdge BY DEF BothClocks
<1>2. PICK toggle \in {tog, tog'}, ptoggle \in {ptog, ptog'},
           hold \in {src_hold, src_hold'} \cup (IF src_hold = src_hold' THEN {} ELSE {Torn}) :
        DstEdge(toggle, ptoggle, hold)
  BY DEF BothClocks
<1>3. /\ meta' = toggle /\ sync' = meta /\ sync_d' = sync
      /\ dst_data' = (IF sync # sync_d THEN hold ELSE dst_data)
      /\ pmeta' = ptoggle /\ psync' = pmeta /\ psync_d' = psync
      /\ updates' = (IF sync # sync_d THEN updates + 1 ELSE updates)
      /\ clears' = (IF psync # psync_d THEN clears + 1 ELSE clears)
  BY <1>2 DEF DstEdge, dst_update, dst_pulse
<1>4. Edge /\ (Executes \/ HandsOver \/ Rests) BY <1>1, SourceEffect DEF Edge
<1>5. tog = meta /\ meta = sync /\ ptog = pmeta /\ pmeta = psync BY <1>1, AtEdge
<1>6. CASE Executes
  <2>1. sync = sync_d /\ psync = psync_d BY <1>1, <1>6, AtEdge DEF Executes
  <2>2. toggle = tog /\ ptoggle = ptog BY <1>6 DEF Executes
  <2>3. UNCHANGED adc BY <1>3, <1>5, <2>1, <2>2 DEF adc
  <2> QED BY <1>4, <1>6, <2>3, ExecutesKeeps
<1>7. CASE HandsOver
  <2>1. sync = sync_d /\ psync = psync_d BY <1>1, <1>7, AtEdge DEF HandsOver
  <2>2. UNCHANGED <<sync, sync_d, dst_data, psync, psync_d, updates, clears>> BY <1>3, <1>5, <2>1
  <2>3. meta' \in {tog, tog'} /\ pmeta' \in {ptog, ptog'} BY <1>3
  <2> QED BY <1>4, <1>7, <2>2, <2>3, HandsOverKeeps
<1>8. CASE Rests
  <2>1. toggle = tog /\ ptoggle = ptog /\ hold = src_hold BY <1>8 DEF Rests
  <2>2. Moves BY <1>3, <2>1 DEF Moves
  <2> QED BY <1>4, <1>8, <2>2, RestsKeeps
<1> QED BY <1>4, <1>6, <1>7, <1>8

LEMMA CsrStep == CsrInv /\ [Next]_vars => CsrInv'
<1> SUFFICES ASSUME CsrInv, [Next]_vars PROVE CsrInv' OBVIOUS
<1>1. CASE UNCHANGED vars
  <2>1. UNCHANGED axi /\ UNCHANGED adc /\ UNCHANGED phase BY <1>1 DEF vars
  <2>2. CsrTypes' /\ CsrOrder' BY <2>1 DEF axi, adc, CsrInv, CsrTypes, CsrOrder, Held, WritesOnce
  <2>3. CsrCounts' BY <2>1 DEF axi, adc, CsrInv, CsrCounts, ConfigsDue, ClearsDue, Pending
  <2>4. CsrTiming' BY <2>1 DEF axi, adc, CsrInv, CsrTiming, NoHolds
  <2>5. CsrData' BY <2>1 DEF axi, adc, CsrInv, CsrData, Nth, ClearsFirst, ConfigsDue
  <2> QED BY <2>2, <2>3, <2>4, <2>5 DEF CsrInv
<1> QED BY <1>1, AxiKeeps, AdcKeeps, BothKeep DEF Next

LEMMA CsrCrosses == CsrInv => WritesOnce /\ NoTornConfig /\ ClearsFirst
BY DEF CsrInv, CsrOrder, CsrData, Nth, NoTornConfig
===============================================================================
