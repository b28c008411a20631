------------------------------ MODULE LevelMonitor ------------------------------
(* fpga/rtl/monitor/adc_level_monitor.v: peak and power of the ADC samples over   *)
(* windows of 2^WINDOW_LOG2 samples, and counters of over-range and clipping that *)
(* the host clears.  A step is a clock edge.  window, last and excused only       *)
(* record what has happened.                                                      *)
EXTENDS Integers, Sequences, SequencesExt, FiniteSetsExt, Functions

CONSTANTS WIDTH, WINDOW_LOG2, CLIP_LEVEL,
          TotalSpan,   \* of or_count and clip_count, 2^32 in the code
          Samples      \* values of sample_in

WindowSize == 2 ^ WINDOW_LOG2

VARIABLES window_count, peak_work, power_acc, adc_or_d, peak_abs, rms_power, or_count, clip_count,
          window,    \* the samples of the current window
          last,      \* those of the last complete one
          excused    \* [now, last]: clip_count fell back to 0 in the current, the last window or since

status == <<peak_abs, rms_power>>
vars == <<window_count, peak_work, power_acc, adc_or_d, status, or_count, clip_count, window, last, excused>>

Init ==
  /\ window_count = 0 /\ peak_work = 0 /\ power_acc = 0 /\ adc_or_d = FALSE
  /\ peak_abs = 0 /\ rms_power = 0 /\ or_count = 0 /\ clip_count = 0
  /\ window = <<>> /\ last = <<>>
  /\ excused = [now |-> FALSE, last |-> FALSE]
-------------------------------------------------------------------------------
(* The magnitude, in WIDTH unsigned bits. *)
abs_sample(x) == IF x < 0 THEN (-x) % 2 ^ WIDTH ELSE x
peak_next(x) == Max({abs_sample(x), peak_work})
power_next(x) == power_acc + abs_sample(x) * abs_sample(x)

(* A sample ends the window or goes into it. *)
Levels(x) ==
  \/ /\ window_count = WindowSize - 1
     /\ peak_abs' = peak_next(x) /\ rms_power' = power_next(x) \div WindowSize
     /\ window_count' = 0 /\ peak_work' = 0 /\ power_acc' = 0
     /\ last' = Append(window, x) /\ window' = <<>>
  \/ /\ window_count < WindowSize - 1
     /\ window_count' = window_count + 1 /\ peak_work' = peak_next(x) /\ power_acc' = power_next(x)
     /\ window' = Append(window, x)
     /\ UNCHANGED <<status, last>>

(* The counters: a clear wins over an event of the same edge. *)
Counts(or, clip, clear) ==
  /\ or_count' = IF clear THEN 0 ELSE IF or /\ ~adc_or_d THEN (or_count + 1) % TotalSpan ELSE or_count
  /\ clip_count' = IF clear THEN 0 ELSE IF clip THEN (clip_count + 1) % TotalSpan ELSE clip_count

(* Variant: clipping is above the level. *)
clip_hit_above(x) == abs_sample(x) > CLIP_LEVEL
clip_hit(x) == abs_sample(x) >= CLIP_LEVEL

Records(clear, ends) ==
  LET fell == clear \/ (clip_count # 0 /\ clip_count' = 0) IN
  excused' = IF ends THEN [now |-> FALSE, last |-> excused.now \/ fell]
             ELSE [now |-> excused.now \/ fell, last |-> excused.last \/ fell]

Sample(x, or, extra_clip, clear) ==
  /\ Levels(x)
  /\ Counts(or, clip_hit(x) \/ extra_clip, clear)
  /\ adc_or_d' = or
  /\ Records(clear, window_count = WindowSize - 1)

NoSample(or, extra_clip, clear) ==
  /\ Counts(or, extra_clip, clear)
  /\ adc_or_d' = or
  /\ Records(clear, FALSE)
  /\ UNCHANGED <<window_count, peak_work, power_acc, status, window, last>>

Next ==
  \E or, extra_clip, clear \in BOOLEAN :
    NoSample(or, extra_clip, clear) \/ \E x \in Samples : Sample(x, or, extra_clip, clear)
Spec == Init /\ [][Next]_vars
-------------------------------------------------------------------------------
(* The registers keep their widths. *)
TypeOK ==
  /\ window_count \in 0 .. WindowSize - 1
  /\ peak_work \in 0 .. 2 ^ (WIDTH - 1) /\ peak_abs \in 0 .. 2 ^ (WIDTH - 1)
  /\ power_acc \in 0 .. (WindowSize - 1) * 4 ^ (WIDTH - 1) /\ rms_power \in 0 .. 4 ^ (WIDTH - 1)
  /\ or_count \in 0 .. TotalSpan - 1 /\ clip_count \in 0 .. TotalSpan - 1

(* The levels reported are those of the last complete window, every sample of   *)
(* it and no other, the most negative one included.                             *)
Magnitude(x) == IF x < 0 THEN -x ELSE x
LevelsOfLastWindow ==
  last # <<>> =>
    /\ Len(last) = WindowSize
    /\ peak_abs = Max({Magnitude(x) : x \in Range(last)})
    /\ rms_power = FoldFunction(+, 0, [i \in DOMAIN last |-> last[i] * last[i]]) \div WindowSize

(* A reported peak at the clipping level comes with a clip_count, unless it was *)
(* cleared, or has wrapped, since the window began.                             *)
ClippingCounted == peak_abs >= CLIP_LEVEL => clip_count # 0 \/ excused.last
===============================================================================
