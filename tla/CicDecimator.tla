------------------------------ MODULE CicDecimator ------------------------------
(* fpga/rtl/dsp/cic_decimator.v: integrators at the input rate, a counter that    *)
(* picks every decim_rate-th sample, combs at the output rate, all modulo         *)
(* 2^ACC_WIDTH.  A step is a clock edge with or without a sample, or a write of   *)
(* decim_rate from outside.  hist and fires only record what has happened.        *)
EXTENDS Integers, Sequences, SequencesExt, Functions, FiniteSets

CONSTANTS STAGES,
          ACC_WIDTH,
          CountSpan,    \* 2^16 in the code: decim_count wraps there
          Samples,      \* values of sample_in
          Rates,        \* values of decim_rate
          MaxSamples,   \* bound: samples fed
          MaxRetunes    \* bound: writes of decim_rate

VARIABLES integrator, comb_delay, decim_count, sample_out, valid_out, decim_rate,
          hist,       \* the samples fed, in order
          fires,      \* for every output: [at, rate], the sample and the rate it was made at
          retuned,    \* the number of samples fed when decim_rate was last written
          retunes
regs == <<integrator, comb_delay, decim_count, sample_out, valid_out>>
vars == <<regs, decim_rate, hist, fires, retuned, retunes>>

Span == 2 ^ ACC_WIDTH
Acc == -(Span \div 2) .. Span \div 2 - 1
Wrap(v) == ((v + Span \div 2) % Span) - (Span \div 2)

decim_safe == IF decim_rate = 0 THEN 1 ELSE decim_rate

decim_fire == decim_count = decim_safe - 1

Init ==
  /\ integrator = [i \in 1 .. STAGES |-> 0] /\ comb_delay = [i \in 1 .. STAGES |-> 0]
  /\ decim_count = 0 /\ sample_out = 0 /\ valid_out = FALSE
  /\ decim_rate \in Rates
  /\ hist = <<>> /\ fires = <<>> /\ retuned = 0 /\ retunes = 0
-------------------------------------------------------------------------------
(* Variant: the accumulators saturate. *)
Saturate(v) == IF v \in Acc THEN v ELSE IF v < 0 THEN -(Span \div 2) ELSE Span \div 2 - 1
IntegrateSaturating(x) ==
  [i \in 1 .. STAGES |-> Saturate(integrator[i] + (IF i = 1 THEN x ELSE integrator[i - 1]))]
Integrate(x) ==
  [i \in 1 .. STAGES |-> Wrap(integrator[i] + (IF i = 1 THEN x ELSE integrator[i - 1]))]

(* comb_value before comb i (comb_value[STAGES + 1] is the output). *)
comb_value ==
  LET v[i \in 1 .. STAGES + 1] ==
        IF i = 1 THEN integrator[STAGES] ELSE Wrap(v[i - 1] - comb_delay[i - 1])
  IN  v

(* A comb remembers what it was given. *)
Combs == [i \in 1 .. STAGES |-> comb_value[i]]

(* decim_count + 1 in sixteen bits. *)
Bump == (decim_count + 1) % CountSpan

Sample(x) ==
  /\ Len(hist) < MaxSamples
  /\ integrator' = Integrate(x)
  /\ hist' = Append(hist, x)
  /\ valid_out' = decim_fire
  /\ \/ /\ decim_fire
        /\ decim_count' = 0 /\ comb_delay' = Combs /\ sample_out' = comb_value[STAGES + 1]
        /\ fires' = Append(fires, [at |-> Len(hist) + 1, rate |-> decim_safe])
     \/ /\ ~decim_fire
        /\ decim_count' = Bump
        /\ UNCHANGED <<comb_delay, sample_out, fires>>
  /\ UNCHANGED <<decim_rate, retuned, retunes>>

NoSample ==
  /\ valid_out' = FALSE
  /\ UNCHANGED <<integrator, comb_delay, decim_count, sample_out, decim_rate, hist, fires, retuned, retunes>>

Retune(r) ==
  /\ retunes < MaxRetunes /\ r # decim_rate
  /\ decim_rate' = r /\ retuned' = Len(hist) /\ retunes' = retunes + 1
  /\ UNCHANGED <<regs, hist, fires>>

Next == (\E x \in Samples : Sample(x)) \/ NoSample \/ (\E r \in Rates : Retune(r))
Spec == Init /\ [][Next]_vars
-------------------------------------------------------------------------------
(* The registers keep their widths. *)
TypeOK ==
  /\ integrator \in [1 .. STAGES -> Acc] /\ comb_delay \in [1 .. STAGES -> Acc]
  /\ decim_count \in 0 .. CountSpan - 1 /\ sample_out \in Acc

FiredAt(k) == IF k = 0 THEN 0 ELSE fires[k].at
Interval(k) == FiredAt(k) - FiredAt(k - 1)

(* The last STAGES outputs were made at one rate (before the first, all is 0).  *)
Steady ==
  \A k \in Len(fires) - STAGES + 1 .. Len(fires) :
    k > 0 => fires[k].rate = Last(fires).rate /\ Interval(k) = Last(fires).rate

(* STAGES moving sums of rate samples each, one on top of the other. *)
Offset(t) == FoldFunction(+, 0, t)
MovingSums(rate, at) ==
  FoldFunction(+, 0, [t \in [1 .. STAGES -> 0 .. rate - 1] |->
                        LET n == at - STAGES - Offset(t) IN IF n < 1 THEN 0 ELSE hist[n]])

(* An output equals the moving sums whenever those fit in the accumulator: the  *)
(* wrap-around of the integrators, which overflow on any steady input, cancels. *)
OutputExact ==
  valid_out /\ Steady =>
    LET y == MovingSums(Last(fires).rate, Last(fires).at)
    IN  y \in Acc => sample_out = y

(* Outputs are decim_rate samples apart while the rate stays, so a packet of n  *)
(* samples spans n times the decimation; the first output at a new rate comes  *)
(* at the latest when the counter has wrapped once.                             *)
EvenlySpaced ==
  \A k \in 1 .. Len(fires) :
    IF FiredAt(k - 1) >= retuned \/ (FiredAt(k) <= retuned /\ retunes <= 1)
      THEN Interval(k) = fires[k].rate
      ELSE Interval(k) <= CountSpan + fires[k].rate
===============================================================================
