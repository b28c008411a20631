------------------------------ MODULE MCRtlLibrary ------------------------------
(* The RTL library for TLC.  "async" is axis_async_fifo, "sync" axis_fifo and     *)
(* skid_buffer, "csr" a register's way from the AXI bus to the ADC clock, and     *)
(* "spi" the ADC's own registers, with the widths, the divider and the table of   *)
(* the source.  bench names the one that takes steps; the others keep their       *)
(* initial states.                                                                *)
EXTENDS GrayFifo

CONSTANTS Ratio, MaxWrites, MaxConf, MaxResets

(* 10 ns of the AXI clock hold two edges of the ADC clock's 4 ns. *)
ASSUME RatioAssumption == Ratio \in Nat \ {0, 1}

VARIABLES
  bench, fifo_mem, wr_ptr, rd_ptr, fifoOut, data_reg, valid_reg, skidOut,
  lut, ctl, spi, CS, SCLK, MOSI, reg_conf, adc, received, accepted, resets,
  kind, aws, ws, aw_hold, w_hold, bvalid, done, regs, changed, clear, src_hold, tog,
  meta, sync, sync_d, dst_data, ptog, pmeta, psync, psync_d, phase, updates, clears, configs, cleared

syncVars == <<fifo_mem, wr_ptr, rd_ptr, fifoOut, data_reg, valid_reg, skidOut>>
spiVars == <<lut, ctl, spi, CS, SCLK, MOSI, reg_conf, adc, received, accepted, resets>>
csrVars == <<kind, aws, ws, aw_hold, w_hold, bvalid, done, regs, changed, clear, src_hold, tog,
             meta, sync, sync_d, dst_data, ptog, pmeta, psync, psync_d, phase, updates, clears, configs, cleared>>
benchVars == <<bench, bitVars, syncVars, spiVars, csrVars>>

Sync == INSTANCE SyncBuffers WITH mem <- fifo_mem
Spi == INSTANCE AdcSpi WITH
         Table <- <<20 * 256 + 5, 23 * 256 + 133, 11 * 256 + 0, 24 * 256 + 15, 255 * 256 + 1>>,
         ADDR_BIT <- 15, DATA_BIT <- 7, DIV_PARAM <- 16,
         ConfWords <- {13 * 256 + 4, 65535 * 256 + 254}
Csr == INSTANCE CsrProofs

BenchInit ==
  /\ bench \in {"async", "sync", "spi", "csr"}
  /\ GrayInit /\ Sync!Init /\ Spi!Init /\ Csr!Init
  /\ bench # "async" => mem = [a \in 0 .. Depth - 1 |-> 0] /\ delivered = 0
  /\ bench # "sync" => fifo_mem = [a \in 0 .. Depth - 1 |-> 0] /\ fifoOut = 0 /\ data_reg = 0 /\ skidOut = 0
  /\ bench # "csr" => kind = [n \in 1 .. MaxWrites |-> "other"]

Async(step) == bench = "async" /\ step /\ UNCHANGED <<bench, syncVars, spiVars, csrVars>>
OnSync(step) == bench = "sync" /\ step /\ UNCHANGED <<bench, bitVars, spiVars, csrVars>>
OnSpi(step) == bench = "spi" /\ step /\ UNCHANGED <<bench, bitVars, syncVars, csrVars>>
OnCsr(step) == bench = "csr" /\ step /\ UNCHANGED <<bench, bitVars, syncVars, spiVars>>
BenchNext == Async(GrayNext) \/ OnSync(Sync!Next) \/ OnSpi(Spi!Next) \/ OnCsr(Csr!Next)

(* The fairness of AsyncFifo's FairSpec; the clocks run, and the AXI master    *)
(* takes its responses.                                                        *)
BenchSpec ==
  /\ BenchInit /\ [][BenchNext]_benchVars
  /\ WF_benchVars(Async(GrayLeaveResetS)) /\ WF_benchVars(Async(GrayLeaveResetM))
  /\ WF_benchVars(Async(GraySRuns)) /\ WF_benchVars(Async(GrayMRuns))
  /\ WF_benchVars(OnSpi(Spi!Clock))
  /\ WF_benchVars(OnCsr(Csr!AdcClock)) /\ WF_benchVars(OnCsr(Csr!AxiProceeds))
-------------------------------------------------------------------------------
(* axis_fifo is a FIFO of its depth and skid_buffer one of a single word: neither *)
(* loses, repeats, reorders or overwrites a word, also when one is written and    *)
(* one read on the same edge.                                                     *)
SyncImplements == Sync!FifoImplements /\ Sync!SkidImplements

(* After the last reset the ADC receives the table of lut_config in order, bit   *)
(* by bit, then each write asked for through conf_en, followed by a transfer.    *)
AllWritten == bench = "spi" => Spi!AllWritten

(* axi_lite_slave executes every write once, its address with its own data;      *)
(* config_sync never hands the ADC domain a half-changed configuration; and a    *)
(* CLEAR_COUNTS written before a configuration also acts before it, though they  *)
(* cross through pulse_sync and config_sync.                                     *)
SettingsCross == Csr!WritesOnce /\ Csr!NoTornConfig /\ Csr!ClearsFirst

(* Every register write that is executed takes effect in the ADC domain.         *)
WritesArrive == Csr!WritesArrive
===============================================================================
