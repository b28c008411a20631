-------------------------------- MODULE CsrPath --------------------------------
(* How a register write of the PS takes effect in the ADC clock domain:          *)
(* axi_lite_slave.v accepts it, csr_regfile.v stores it and raises                *)
(* ddc0_config_changed or clear_counts, and config_sync.v or pulse_sync.v carries *)
(* it over.  The n-th write of a run is named n: n stands for its address, its    *)
(* data, and the contents of the whole configuration once it is executed.         *)
(*                                                                                *)
(* The two clocks are unrelated.  At least Ratio edges of the ADC clock (4 ns)    *)
(* fall between two edges of the AXI clock (10 ns).  A flip-flop whose input      *)
(* changes on the edge that samples it takes the old value or the new one, and a  *)
(* word sampled while it changes may be Torn.                                     *)
EXTENDS Naturals, Sequences

CONSTANTS Ratio, MaxWrites

VARIABLES
  kind,             \* n -> what the n-th write is to: "config", "clear" or "other"
  aws, ws,          \* how many addresses and how many data the slave has accepted
  aw_hold, w_hold,  \* the write whose address, data is held, or 0
  bvalid,           \* s_axi_bvalid
  done,             \* writes executed, in order
  regs,             \* the configuration registers: the last "config" write
  changed, clear,   \* ddc0_config_changed, clear_counts_reg
  src_hold,         \* config_sync
  tog, meta, sync, sync_d,
  dst_data,
  ptog, pmeta, psync, psync_d,   \* pulse_sync
  phase,            \* ADC edges since the last AXI edge, counted up to Ratio
  updates, clears,  \* dst_update and dst_pulse pulses so far
  configs,          \* configuration writes executed: [write, clears], clears executed before
  cleared           \* CLEAR_COUNTS writes executed

axi == <<aws, ws, aw_hold, w_hold, bvalid, done, regs, changed, clear, src_hold, tog, ptog, configs, cleared>>
adc == <<meta, sync, sync_d, dst_data, pmeta, psync, psync_d, updates, clears>>
vars == <<kind, axi, adc, phase>>

Writes == 1 .. MaxWrites
Torn == MaxWrites + 1

Init ==
  /\ kind \in [Writes -> {"config", "clear", "other"}]
  /\ aws = 0 /\ ws = 0 /\ aw_hold = 0 /\ w_hold = 0 /\ bvalid = FALSE /\ done = <<>>
  /\ regs = 0 /\ changed = FALSE /\ clear = FALSE /\ src_hold = 0 /\ tog = 0 /\ ptog = 0
  /\ meta = 0 /\ sync = 0 /\ sync_d = 0 /\ dst_data = 0
  /\ pmeta = 0 /\ psync = 0 /\ psync_d = 0
  /\ phase = 0 /\ updates = 0 /\ clears = 0 /\ configs = <<>> /\ cleared = 0
-------------------------------------------------------------------------------
(* One edge of the AXI clock.  The master offers an address, data and its     *)
(* readiness for the response as it likes.                                    *)
awready == aw_hold = 0 /\ ~bvalid
wready == w_hold = 0 /\ ~bvalid
wr_fire == aw_hold # 0 /\ w_hold # 0 /\ ~bvalid

Slave(awvalid, wvalid, bready) ==
  /\ awvalid => aws < MaxWrites
  /\ wvalid => ws < MaxWrites
  /\ aws' = IF awvalid /\ awready THEN aws + 1 ELSE aws
  /\ ws' = IF wvalid /\ wready THEN ws + 1 ELSE ws
  /\ aw_hold' = IF wr_fire THEN 0 ELSE IF awvalid /\ awready THEN aws + 1 ELSE aw_hold
  /\ w_hold' = IF wr_fire THEN 0 ELSE IF wvalid /\ wready THEN ws + 1 ELSE w_hold
  /\ bvalid' = (wr_fire \/ (bvalid /\ ~bready))

Writing(what) == wr_fire /\ kind[aw_hold] = what
Regfile ==
  /\ done' = IF wr_fire THEN Append(done, <<aw_hold, w_hold>>) ELSE done
  /\ changed' = Writing("config") /\ clear' = Writing("clear")
  /\ regs' = IF Writing("config") THEN aw_hold ELSE regs
  /\ configs' = IF Writing("config") THEN Append(configs, [write |-> aw_hold, clears |-> cleared]) ELSE configs
  /\ cleared' = IF Writing("clear") THEN cleared + 1 ELSE cleared

(* Variant: clear_counts is not passed on. *)
SyncSourceNoClear ==
  /\ src_hold' = IF changed THEN regs ELSE src_hold
  /\ tog' = IF changed THEN 1 - tog ELSE tog
  /\ UNCHANGED ptog

SyncSource ==
  /\ src_hold' = IF changed THEN regs ELSE src_hold
  /\ tog' = IF changed THEN 1 - tog ELSE tog
  /\ ptog' = IF clear THEN 1 - ptog ELSE ptog

SrcEdge == \E awvalid, wvalid, bready \in BOOLEAN : Slave(awvalid, wvalid, bready) /\ Regfile /\ SyncSource

(* One edge of the ADC clock; toggle, ptoggle and hold are what it samples. *)
dst_update == sync # sync_d
dst_pulse == psync # psync_d

(* Variant: the word is taken as soon as the toggle is seen to change. *)
DstEdgeEarly(toggle, ptoggle, hold) ==
  /\ meta' = toggle /\ sync' = meta /\ sync_d' = sync
  /\ dst_data' = IF toggle # meta THEN hold ELSE dst_data
  /\ pmeta' = ptoggle /\ psync' = pmeta /\ psync_d' = psync
  /\ updates' = IF toggle # meta THEN updates + 1 ELSE updates
  /\ clears' = IF dst_pulse THEN clears + 1 ELSE clears

DstEdge(toggle, ptoggle, hold) ==
  /\ meta' = toggle /\ sync' = meta /\ sync_d' = sync
  /\ dst_data' = IF dst_update THEN hold ELSE dst_data
  /\ pmeta' = ptoggle /\ psync' = pmeta /\ psync_d' = psync
  /\ updates' = IF dst_update THEN updates + 1 ELSE updates
  /\ clears' = IF dst_pulse THEN clears + 1 ELSE clears

(* The edges in time: apart, or at once. *)
AxiClock == phase = Ratio /\ phase' = 0 /\ SrcEdge /\ UNCHANGED <<kind, adc>>
AdcClock ==
  /\ phase' = IF phase < Ratio THEN phase + 1 ELSE phase
  /\ DstEdge(tog, ptog, src_hold)
  /\ UNCHANGED <<kind, axi>>
BothClocks ==
  /\ phase = Ratio /\ phase' = 0
  /\ SrcEdge
  /\ \E toggle \in {tog, tog'}, ptoggle \in {ptog, ptog'},
        hold \in {src_hold, src_hold'} \cup (IF src_hold = src_hold' THEN {} ELSE {Torn}) :
       DstEdge(toggle, ptoggle, hold)
  /\ UNCHANGED kind

Next == AxiClock \/ AdcClock \/ BothClocks
Spec == Init /\ [][Next]_vars

(* Both clocks run, and the master takes its responses. *)
AxiProceeds ==
  /\ phase = Ratio /\ phase' = 0
  /\ Slave(aws < MaxWrites, ws < MaxWrites, TRUE) /\ Regfile /\ SyncSource
  /\ UNCHANGED <<kind, adc>>
FairSpec == Spec /\ WF_vars(AdcClock) /\ WF_vars(AxiProceeds)
-------------------------------------------------------------------------------
(* The values have their types; no more is held than was accepted. *)
TypeOK ==
  /\ aws \in 0 .. MaxWrites /\ ws \in 0 .. MaxWrites /\ aw_hold \in 0 .. aws /\ w_hold \in 0 .. ws
  /\ regs \in 0 .. MaxWrites /\ src_hold \in 0 .. MaxWrites /\ dst_data \in 0 .. Torn
  /\ phase \in 0 .. Ratio /\ updates \in 0 .. MaxWrites /\ clears \in 0 .. MaxWrites

(* Every write is executed once, in order, its address with its own data,     *)
(* whichever channel comes first.                                             *)
WritesOnce == \A i \in 1 .. Len(done) : done[i] = <<i, i>>

(* The ADC domain never works with a half-changed configuration: what it has  *)
(* is what the registers were after the last update that has arrived.         *)
NoTornConfig ==
  dst_data = IF updates = 0 THEN 0 ELSE configs[updates].write

(* A CLEAR_COUNTS that is written before a configuration also acts before it. *)
ClearsFirst == updates > 0 => clears >= configs[updates].clears

(* Every write that is executed takes effect. *)
WritesArrive == [](<>(updates = Len(configs) /\ clears = cleared))
===============================================================================
