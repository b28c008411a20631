--------------------------------- MODULE DdcCore ---------------------------------
(* fpga/rtl/dsp/ddc_core.v behind the sample path of sdr_pl_core.v: samples and   *)
(* the phases of the oscillator travel in two delay lines of different length,    *)
(* meet in the mixer, are decimated, scaled and handed to the packetizer.  A      *)
(* step is a clock edge.  A sample is represented by its age, the number of edges *)
(* since dc_offset_remove took it; a phase by its number.  The values, and the    *)
(* arithmetic on them, are left out.                                              *)
EXTENDS Naturals, Sequences, FiniteSetsExt

CONSTANTS STAGES,       \* CORDIC_STAGES
          PhaseSpan,    \* phases are numbered modulo this
          CountSpan,    \* of decim_count, 2^16 in the code
          TotalSpan,    \* of sample_count and overflow_count, 2^32 in the code
          Rates         \* values of decim_rate

(* The depth of the oscillator's pipeline. *)
Depth == STAGES + 2

VARIABLES
  core_enable, ddc0_enable, decim_rate,   \* the registers that control the path
  age,            \* of the sample in dc_offset_remove's output register
  dc_valid,       \* sample_valid_out
  sample_delay,   \* the ages of the samples in it
  phase_acc,      \* the number of the phase
  pipe,           \* cordic_sincos: [valid, phase] per register
  mix,            \* the mixer's output: [valid, phase, age]
  decim_count, cic_valid, sat_valid,
  m_axis_tvalid, sample_count, overflow_count,
  lit,            \* edges since the source was last silent, at most Depth
  mixed,          \* the number of the next phase to be mixed
  fired           \* outputs of the decimator, modulo TotalSpan

control == <<core_enable, ddc0_enable, decim_rate>>
output == <<m_axis_tvalid, sample_count, overflow_count>>
vars == <<control, age, dc_valid, sample_delay, phase_acc, pipe, mix, decim_count, cic_valid, sat_valid, output, lit, mixed, fired>>

Old == Depth + 1   \* an age that is not told apart any more
Older(a) == Min({a + 1, Old})
NoPhase == [valid |-> FALSE, phase |-> 0]

Init ==
  /\ core_enable = FALSE /\ ddc0_enable = FALSE /\ decim_rate \in Rates
  /\ age = Old /\ dc_valid = FALSE
  /\ sample_delay = [i \in 1 .. STAGES |-> Old]
  /\ phase_acc = 0 /\ pipe = [i \in 1 .. Depth |-> NoPhase]
  /\ mix = [valid |-> FALSE, phase |-> 0, age |-> Old]
  /\ decim_count = 0 /\ cic_valid = FALSE /\ sat_valid = FALSE
  /\ m_axis_tvalid = FALSE /\ sample_count = 0 /\ overflow_count = 0
  /\ lit = 0 /\ mixed = 0 /\ fired = 0
-------------------------------------------------------------------------------
(* dc_offset_remove: takes a sample, or keeps the last one. *)
adc_active_valid == core_enable
TakeSample ==
  /\ dc_valid' = adc_active_valid
  /\ age' = IF adc_active_valid THEN 0 ELSE Older(age)
  /\ lit' = IF adc_active_valid THEN Min({lit + 1, Depth}) ELSE 0

DelaySample ==
  sample_delay' = [i \in 1 .. STAGES |-> Older(IF i = 1 THEN age ELSE sample_delay[i - 1])]

(* nco and cordic_sincos. Variant: the accumulator advances while disabled. *)
advance == core_enable /\ ddc0_enable /\ dc_valid
OscillateFreely ==
  /\ phase_acc' = IF dc_valid THEN (phase_acc + 1) % PhaseSpan ELSE phase_acc
  /\ pipe' = [i \in 1 .. Depth |-> IF i = 1 THEN [valid |-> advance, phase |-> phase_acc] ELSE pipe[i - 1]]
Oscillate ==
  /\ phase_acc' = IF advance THEN (phase_acc + 1) % PhaseSpan ELSE phase_acc
  /\ pipe' = [i \in 1 .. Depth |-> IF i = 1 THEN [valid |-> advance, phase |-> phase_acc] ELSE pipe[i - 1]]

(* The mixer takes the sample that leaves its delay line with the phase that   *)
(* leaves the oscillator.                                                      *)
Mix ==
  LET trig == pipe[Depth] IN
  /\ mix' = IF trig.valid THEN [valid |-> TRUE, phase |-> trig.phase, age |-> sample_delay[STAGES]]
            ELSE [mix EXCEPT !.valid = FALSE]
  /\ mixed' = IF trig.valid THEN (mixed + 1) % PhaseSpan ELSE mixed

(* cic_decimator's counter and the register of iq_gain_sat. *)
decim_fire == mix.valid /\ decim_count = decim_rate - 1
Decimate ==
  /\ decim_count' = IF ~mix.valid THEN decim_count ELSE IF decim_fire THEN 0 ELSE (decim_count + 1) % CountSpan
  /\ cic_valid' = decim_fire
  /\ sat_valid' = cic_valid
  /\ fired' = IF decim_fire THEN (fired + 1) % TotalSpan ELSE fired

(* The output register. *)
load_output(tready) == ~m_axis_tvalid \/ tready
Output(tready) ==
  LET loads == sat_valid /\ load_output(tready) IN
  /\ m_axis_tvalid' = (loads \/ (m_axis_tvalid /\ ~tready))
  /\ sample_count' = IF loads THEN (sample_count + 1) % TotalSpan ELSE sample_count
  /\ overflow_count' = IF sat_valid /\ ~loads THEN (overflow_count + 1) % TotalSpan ELSE overflow_count

(* A clock edge; the packetizer is ready or not. *)
Edge(tready) == TakeSample /\ DelaySample /\ Oscillate /\ Mix /\ Decimate /\ Output(tready)

Clock == (\E tready \in BOOLEAN : Edge(tready)) /\ UNCHANGED control

(* A register is written between two edges. *)
Others == <<age, dc_valid, sample_delay, phase_acc, pipe, mix, decim_count, cic_valid, sat_valid, output, lit, mixed, fired>>
Switch == core_enable' = ~core_enable /\ UNCHANGED <<ddc0_enable, decim_rate, Others>>
Enable == ddc0_enable' = ~ddc0_enable /\ UNCHANGED <<core_enable, decim_rate, Others>>
Retune == \E r \in Rates \ {decim_rate} : decim_rate' = r /\ UNCHANGED <<core_enable, ddc0_enable, Others>>

Next == Clock \/ Switch \/ Enable \/ Retune
Spec == Init /\ [][Next]_vars
-------------------------------------------------------------------------------
(* Ages, phases and counters stay in their ranges. *)
TypeOK ==
  /\ age \in 0 .. Old /\ sample_delay \in [1 .. STAGES -> 0 .. Old]
  /\ phase_acc \in 0 .. PhaseSpan - 1 /\ mix.phase \in 0 .. PhaseSpan - 1
  /\ decim_count \in 0 .. CountSpan - 1
  /\ sample_count \in 0 .. TotalSpan - 1 /\ overflow_count \in 0 .. TotalSpan - 1

(* The phases are mixed in order, none left out and none twice, however the   *)
(* stream is switched off and on with phases still in the pipeline, and each  *)
(* with the sample taken two edges after its own in a steady stream, fewer at *)
(* its end, where the last sample is held.                                    *)
MixesInStep ==
  mix.valid =>
    /\ (mix.phase + 1) % PhaseSpan = mixed
    /\ mix.age \in STAGES .. Depth
    /\ lit = Depth => Depth - mix.age = 2

(* Every output of the decimator is on its way, delivered or counted as lost. *)
Flying(b) == IF b THEN 1 ELSE 0
Accounted == fired = (sample_count + overflow_count + Flying(cic_valid) + Flying(sat_valid)) % TotalSpan
===============================================================================
