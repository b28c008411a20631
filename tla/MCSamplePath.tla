------------------------------ MODULE MCSamplePath ------------------------------
(* The stages of the sample path, from the ADC to the datagram, for TLC, each    *)
(* with inputs of its own: adc_level_monitor, the down-converter's control, its  *)
(* decimating filter, and packetizer, FIFO, DMA and firmware over a set_rx on a  *)
(* running stream.  bench names the one that takes steps; the others keep their  *)
(* initial states.  A packet is a header word and a sample, and the FIFO holds   *)
(* one packet.                                                                   *)
EXTENDS IqPath, Integers

VARIABLES
  bench,
  integrator, comb_delay, cic_count, sample_out, valid_out, cic_rate, hist, fires, retuned, retunes,
  core_enable, ddc0_enable, decim_rate, age, dc_valid, sample_delay, phase_acc, pipe, mix, decim_count,
  cic_valid, sat_valid, m_axis_tvalid, sample_count, overflow_count, lit, mixed, fired,
  window_count, peak_work, power_acc, adc_or_d, peak_abs, rms_power, or_count, clip_count, window, last, excused

cicVars == <<integrator, comb_delay, cic_count, sample_out, valid_out, cic_rate, hist, fires, retuned, retunes>>
ddcVars == <<core_enable, ddc0_enable, decim_rate, age, dc_valid, sample_delay, phase_acc, pipe, mix, decim_count,
             cic_valid, sat_valid, m_axis_tvalid, sample_count, overflow_count, lit, mixed, fired>>
levelVars == <<window_count, peak_work, power_acc, adc_or_d, peak_abs, rms_power, or_count, clip_count,
               window, last, excused>>
benchVars == <<bench, cicVars, ddcVars, levelVars, vars>>

(* Three stages, as in the source, over accumulators that overflow at once. *)
Cic == INSTANCE CicDecimator WITH
         STAGES <- 3, ACC_WIDTH <- 5, CountSpan <- 5, Samples <- {-1, 1}, Rates <- 0 .. 3,
         MaxSamples <- 10, MaxRetunes <- 1, decim_count <- cic_count, decim_rate <- cic_rate
Ddc == INSTANCE DdcCore WITH STAGES <- 2, PhaseSpan <- 7, CountSpan <- 3, TotalSpan <- 2, Rates <- {1, 2}
Level == INSTANCE LevelMonitor WITH
           WIDTH <- 3, WINDOW_LOG2 <- 2, CLIP_LEVEL <- 3, TotalSpan <- 2, Samples <- {-4, -1, 3}

(* An idle bench starts from one state. *)
BenchInit ==
  /\ bench \in {"cic", "ddc", "level", "iq"}
  /\ Cic!Init /\ Ddc!Init /\ Level!Init /\ Init
  /\ bench # "cic" => cic_rate = 1
  /\ bench # "ddc" => decim_rate = 1

BenchNext ==
  \/ bench = "cic" /\ Cic!Next /\ UNCHANGED <<bench, ddcVars, levelVars, vars>>
  \/ bench = "ddc" /\ Ddc!Next /\ UNCHANGED <<bench, cicVars, levelVars, vars>>
  \/ bench = "level" /\ Level!Next /\ UNCHANGED <<bench, cicVars, ddcVars, vars>>
  \/ bench = "iq" /\ Next /\ UNCHANGED <<bench, cicVars, ddcVars, levelVars>>

BenchSpec == BenchInit /\ [][BenchNext]_benchVars
-------------------------------------------------------------------------------
(* cic_decimator puts out the moving sums of its input whenever those fit:   *)
(* the wrap-around of the integrators, which overflow on any steady input,   *)
(* cancels.  Its outputs are decim_rate samples apart while the rate stays,  *)
(* and a new rate is taken up when decim_count has wrapped at the latest.    *)
DecimatesExactly == Cic!OutputExact /\ Cic!EvenlySpaced

(* The mixer of ddc_core uses the oscillator's phases in order, none left    *)
(* out and none twice, and each with the sample taken two edges after it,    *)
(* however the stream is switched with phases in flight; and every output of *)
(* the decimator is on its way, delivered, or counted in overflow_count.     *)
MixesInStep == Ddc!MixesInStep /\ Ddc!Accounted

(* adc_level_monitor reports peak and power of the last complete window,     *)
(* every sample of it and no other, the most negative one included; a peak   *)
(* at the clipping level comes with a clip_count, unless that was cleared or *)
(* has wrapped since the window began.                                       *)
LevelsAgree == Level!LevelsOfLastWindow /\ Level!ClippingCounted
===============================================================================
