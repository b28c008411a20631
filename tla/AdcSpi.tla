--------------------------------- MODULE AdcSpi ---------------------------------
(* fpga/rtl/adc/acfl3432_spi_config.v: the ADC's configuration at power-up.       *)
(* lut_config hands out the register writes of a table, spi_ctrl turns each into  *)
(* a request and spi_master shifts it out, all on one clock with a handshake of   *)
(* pulses (valid, wr_req, ack, done).  A step is an edge of that clock, or a      *)
(* reset.  wr_rd_en is never cleared, so the read states are never entered.       *)
EXTENDS Naturals, Sequences

CONSTANTS Table,         \* the writes of lut_config; the last one transfers them
          ADDR_BIT, DATA_BIT,   \* the highest bit of the address and of the data
          DIV_PARAM,     \* clock edges per half period of SCLK
          ConfWords,     \* writes requested through conf_en and reg_conf
          MaxConf,       \* bound: so many of them
          MaxResets      \* bound: resets after power-up

AddrSpan == 2 ^ (ADDR_BIT + 1)
DataSpan == 2 ^ (DATA_BIT + 1)
Words == 0 .. AddrSpan * DataSpan - 1

VARIABLES
  lut,        \* lut_config: [state, conf_state, valid, lut_data, conf_en_reg]
  ctl,        \* spi_ctrl: [state, valid, cmd_r, wr_req, done, wait_cnt, cmd]
  spi,        \* spi_master: [state, en, DIV_CNT, SCLK2X, odd, wait_cnt, bit, addr, data, ack, Conv_Done]
  CS, SCLK, MOSI,
  reg_conf,   \* the input of that name
  adc,        \* the ADC's receiver: [bits, value], what it has taken since CS fell
  received,   \* the words the ADC has received since the last reset
  accepted,   \* the writes asked for by conf_en since the last reset
  resets

wires == <<CS, SCLK, MOSI>>
vars == <<lut, ctl, spi, wires, reg_conf, adc, received, accepted, resets>>

Transfer == Table[Len(Table)]
NoBits == [bits |-> 0, value |-> 0]

LutReset == [state |-> 0, conf_state |-> 0, valid |-> FALSE, lut_data |-> AddrSpan * DataSpan - 1, conf_en_reg |-> FALSE]
CtlReset == [state |-> "IDLE", valid |-> FALSE, cmd_r |-> 0, wr_req |-> FALSE, done |-> FALSE, wait_cnt |-> 0, cmd |-> 0]
SpiReset == [state |-> "IDLE", en |-> FALSE, DIV_CNT |-> 0, SCLK2X |-> FALSE, odd |-> FALSE, wait_cnt |-> 0,
             bit |-> 0, addr |-> 0, data |-> 0, ack |-> FALSE, Conv_Done |-> FALSE]

Init ==
  /\ lut = LutReset /\ ctl = CtlReset /\ spi = SpiReset
  /\ CS = 1 /\ SCLK = 0 /\ MOSI = 1
  /\ reg_conf = 0 /\ adc = NoBits /\ received = <<>> /\ accepted = <<>> /\ resets = 0
-------------------------------------------------------------------------------
(* lut_config: the table, then the writes asked for, each with a transfer.   *)
(* Variant: the last entry is left out.                                       *)
Entry(i) == [lut EXCEPT !.lut_data = Table[i + 1], !.valid = TRUE]
FirstPassShort == IF lut.state + 1 < Len(Table) THEN Entry(lut.state)
                  ELSE IF lut.state + 1 = Len(Table) THEN [lut EXCEPT !.conf_state = 2, !.valid = FALSE]
                  ELSE [lut EXCEPT !.lut_data = AddrSpan * DataSpan - 1]
FirstPass == IF lut.state < Len(Table) THEN Entry(lut.state)
             ELSE IF lut.state = Len(Table) THEN [lut EXCEPT !.conf_state = 2, !.valid = FALSE]
             ELSE [lut EXCEPT !.lut_data = AddrSpan * DataSpan - 1]
ConfStep ==
  CASE lut.conf_state = 0 -> [lut EXCEPT !.conf_state = 1]
    [] lut.conf_state = 1 -> FirstPass
    [] lut.conf_state = 2 -> IF lut.conf_en_reg
                               THEN [lut EXCEPT !.lut_data = reg_conf, !.valid = TRUE, !.conf_state = 3]
                               ELSE [lut EXCEPT !.valid = FALSE]
    [] lut.conf_state = 3 -> IF ctl.done
                               THEN [lut EXCEPT !.lut_data = Transfer, !.valid = TRUE, !.conf_state = 4]
                               ELSE lut
    [] lut.conf_state = 4 -> [lut EXCEPT !.valid = FALSE, !.conf_state = IF ctl.done THEN 2 ELSE 4]

LutEdge(conf_en) ==
  lut' = [ConfStep EXCEPT !.conf_en_reg = conf_en,
                          !.state = IF ctl.done THEN (lut.state + 1) % 1024 ELSE lut.state]
-------------------------------------------------------------------------------
(* spi_ctrl. *)
CtlFsm ==
  CASE ctl.state = "IDLE"    -> IF ctl.valid THEN [ctl EXCEPT !.state = "WR_RD"] ELSE ctl
    [] ctl.state = "WR_RD"   -> [ctl EXCEPT !.wr_req = TRUE, !.cmd = ctl.cmd_r, !.state = "WR_ADDR"]
    [] ctl.state = "WR_ADDR" -> [ctl EXCEPT !.state = "WR_DATA"]
    [] ctl.state = "WR_DATA" -> IF spi.ack THEN [ctl EXCEPT !.wr_req = FALSE, !.state = "DONE"] ELSE ctl
    [] ctl.state = "DONE"    -> [ctl EXCEPT !.done = TRUE, !.state = "WAIT"]
    [] ctl.state = "WAIT"    -> IF ctl.wait_cnt = 2
                                  THEN [ctl EXCEPT !.done = FALSE, !.state = "IDLE", !.wait_cnt = 0]
                                  ELSE [ctl EXCEPT !.done = FALSE, !.wait_cnt = @ + 1]

CtlEdge ==
  ctl' = [CtlFsm EXCEPT !.cmd_r = IF lut.valid THEN lut.lut_data ELSE @,
                        !.valid = lut.valid \/ (@ /\ ~ctl.done)]
-------------------------------------------------------------------------------
(* spi_master, for CPOL = CPHA = 0 and the highest bit first.  addr and data  *)
(* are data_addr_reg and data_in_reg; bit is addr_cnt or data_cnt.            *)
Tick == spi.DIV_CNT = DIV_PARAM - 1
Shifting == spi.state \in {"WR_AD", "WR_DA"}
TopAddr == spi.addr \div 2 ^ ADDR_BIT
TopData == spi.data \div 2 ^ DATA_BIT
ShiftAddr == (2 * spi.addr) % AddrSpan
ShiftData == (2 * spi.data) % DataSpan

(* The state machine: its next registers, CS and MOSI.                         *)
Goes(s, cs, mosi) == [s |-> s, cs |-> cs, mosi |-> mosi]
Stays == Goes(spi, CS, MOSI)
Idle ==
  LET s == [spi EXCEPT !.Conv_Done = FALSE, !.wait_cnt = 0]
  IN  IF ctl.wr_req
        THEN Goes([s EXCEPT !.state = "WAIT", !.addr = ctl.cmd \div DataSpan, !.data = ctl.cmd % DataSpan], 0, MOSI)
        ELSE Goes(s, CS, MOSI)

Wait ==
  IF spi.wait_cnt < 2 THEN Goes([spi EXCEPT !.wait_cnt = @ + 1], CS, MOSI)
  ELSE IF ctl.wr_req THEN Goes([spi EXCEPT !.state = "WR_AD", !.addr = ShiftAddr], CS, TopAddr)
  ELSE Goes([spi EXCEPT !.state = "IDLE"], CS, MOSI)

WriteAddress ==
  IF spi.bit < ADDR_BIT THEN Goes([spi EXCEPT !.addr = ShiftAddr, !.bit = @ + 1], CS, TopAddr)
  ELSE Goes([spi EXCEPT !.state = "WR_DA", !.data = ShiftData, !.bit = 0], CS, TopData)

WriteData ==
  IF spi.bit < DATA_BIT THEN Goes([spi EXCEPT !.data = ShiftData, !.bit = @ + 1], CS, TopData)
  ELSE Goes([spi EXCEPT !.state = "DONE", !.ack = TRUE, !.bit = 0], CS, MOSI)

Done ==
  IF spi.SCLK2X THEN Goes([spi EXCEPT !.ack = FALSE, !.state = "IDLE", !.Conv_Done = TRUE], 1, MOSI)
  ELSE Goes([spi EXCEPT !.ack = FALSE], CS, MOSI)

(* The bus changes after a falling edge of SCLK. *)
Falling == spi.SCLK2X /\ ~spi.odd
SpiFsm ==
  CASE spi.state = "IDLE"  -> Idle
    [] spi.state = "WAIT"  -> IF spi.SCLK2X THEN Wait ELSE Stays
    [] spi.state = "WR_AD" -> IF Falling THEN WriteAddress ELSE Stays
    [] spi.state = "WR_DA" -> IF Falling THEN WriteData ELSE Stays
    [] spi.state = "DONE"  -> Done

SpiEdge ==
  LET toggles == Shifting /\ Tick IN
  /\ spi' = [SpiFsm.s EXCEPT
       !.en = ctl.wr_req \/ (@ /\ ~spi.Conv_Done),
       !.DIV_CNT = IF spi.en /\ ~Tick THEN @ + 1 ELSE 0,
       !.SCLK2X = spi.en /\ Tick,
       !.odd = IF toggles THEN ~@ ELSE @]
  /\ SCLK' = IF toggles THEN 1 - SCLK ELSE SCLK
  /\ CS' = SpiFsm.cs /\ MOSI' = SpiFsm.mosi
-------------------------------------------------------------------------------
(* The ADC: takes MOSI on a rising SCLK, and a word of the right length when  *)
(* CS rises.                                                                  *)
AdcEdge ==
  /\ adc' = IF CS' = 1 THEN NoBits
            ELSE IF SCLK = 0 /\ SCLK' = 1 THEN [bits |-> adc.bits + 1, value |-> 2 * adc.value + MOSI]
            ELSE adc
  /\ received' = IF CS = 0 /\ CS' = 1 /\ adc.bits = ADDR_BIT + DATA_BIT + 2
                   THEN Append(received, adc.value) ELSE received

(* Nothing is on its way through the three modules. *)
AtRest ==
  /\ lut.conf_state = 2 /\ ~lut.valid /\ ~lut.conf_en_reg
  /\ ctl.state = "IDLE" /\ ~ctl.valid

Edge(conf_en) == LutEdge(conf_en) /\ CtlEdge /\ SpiEdge /\ AdcEdge

Clock == Edge(FALSE) /\ UNCHANGED <<reg_conf, accepted, resets>>

(* conf_en is pulsed by someone who waits until the table has been written. *)
Configure(w) ==
  /\ AtRest /\ Len(accepted) < MaxConf
  /\ Edge(TRUE)
  /\ reg_conf' = w /\ accepted' = Append(accepted, w)
  /\ UNCHANGED resets

(* rst_n, at any moment: all registers are reset, and the ADC sees CS rise.   *)
Reset ==
  /\ resets < MaxResets
  /\ lut' = LutReset /\ ctl' = CtlReset /\ spi' = SpiReset
  /\ CS' = 1 /\ SCLK' = 0 /\ MOSI' = 1 /\ adc' = NoBits
  /\ received' = <<>> /\ accepted' = <<>> /\ resets' = resets + 1
  /\ UNCHANGED reg_conf

Next == Clock \/ (\E w \in ConfWords : Configure(w)) \/ Reset
Spec == Init /\ [][Next]_vars

(* The clock runs. *)
FairSpec == Spec /\ WF_vars(Clock)
-------------------------------------------------------------------------------
(* The registers keep their widths. *)
TypeOK ==
  /\ lut.state \in 0 .. 1023 /\ lut.conf_state \in 0 .. 4 /\ lut.lut_data \in Words
  /\ ctl.cmd_r \in Words /\ ctl.cmd \in Words /\ ctl.wait_cnt \in 0 .. 2
  /\ spi.DIV_CNT \in 0 .. DIV_PARAM - 1 /\ spi.wait_cnt \in 0 .. 2
  /\ spi.bit \in 0 .. ADDR_BIT \cup 0 .. DATA_BIT
  /\ spi.addr \in 0 .. AddrSpan - 1 /\ spi.data \in 0 .. DataSpan - 1
  /\ CS \in {0, 1} /\ SCLK \in {0, 1} /\ MOSI \in {0, 1}

(* The table in order, the last entry once more, because valid outlives it by *)
(* a cycle, then each write asked for, followed by a transfer.                *)
Asked == [i \in 1 .. 2 * Len(accepted) |-> IF i % 2 = 1 THEN accepted[(i + 1) \div 2] ELSE Transfer]
Expected == Table \o <<Transfer>> \o Asked

(* After the last reset the ADC receives, bit by bit and in order, the writes *)
(* of the table and every one asked for, and no others.                       *)
AllWritten == [](<>(received = Expected))
===============================================================================
