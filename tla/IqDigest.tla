-------------------------------- MODULE IqDigest --------------------------------
(* rpi/backend: what _handle_iq makes of the IQ packets - audio frames (dsp.py)   *)
(* and local spectra (waterfall.py) - while set_rx changes mode and tuning.  The  *)
(* answer to set_rx and the packets travel by TCP and UDP, so packets of the old  *)
(* tuning are handled after the new mode is in force, and the reverse.            *)
(*                                                                                *)
(* A sample is known by its place in the stream, the tuning it was taken with and *)
(* the gaps before it; its value is left out.  Places count modulo Places.        *)
EXTENDS Integers, Sequences

CONSTANTS
  Modes,        \* modes set_rx asks for
  FmModes,      \* those that need the sample before (NFM, WFM)
  DefaultMode,  \* what _handle_iq assumes when state.rx has no mode: WFM
  Tunings,      \* the device's tunings, 1 .. Tunings
  Slow,         \* tunings with the low sample rate
  PacketLen,    \* sample_count
  Up, DownFast, DownSlow,   \* audio rate / sample rate, in lowest terms
  Scipy,        \* resample_poly is installed
  FrameLen,     \* frame_samples
  FftSize,      \* fft_size
  Places,       \* places are told apart modulo this number
  MaxWaiting,   \* bound: packets between device and event loop
  MaxLost,      \* bound: gaps
  MaxCommands   \* bound: set_rx commands

VARIABLES
  tuning,     \* of the device; 0 while the stream is off
  place, gaps,   \* of the device's next sample
  lost, commands,
  answer,     \* the answer to set_rx on its way: at most one
  packets,    \* datagrams and callbacks that wait, in order
  mode,       \* state.rx["mode"], or None once set_rx has turned the stream off
  demod,      \* [mode, rate, tail, last]: _mode, _input_rate, _tail, _last_iq
  made,       \* place of the next audio sample since the demodulator was reset
  heard,      \* place of the next audio sample to be published
  buffer,     \* the waterfall's _buffer
  audio,      \* the audio frames of the last packet handled
  spectrum    \* the last local spectrum, once there is one

device == <<tuning, place, gaps, lost>>
vars == <<device, commands, answer, packets, mode, demod, made, heard, buffer, audio, spectrum>>

None == "none"
NoSample == -1
Rate(t) == IF t \in Slow THEN "slow" ELSE "fast"
After(p, n) == (p + n) % Places

Init ==
  /\ tuning = 0 /\ place = 0 /\ gaps = 0 /\ lost = 0 /\ commands = 0
  /\ answer = <<>> /\ packets = <<>>
  /\ mode = DefaultMode
  /\ demod = [mode |-> DefaultMode, rate |-> "fast", tail |-> <<>>, last |-> NoSample] /\ made = 0 /\ heard = 0
  /\ buffer = <<>> /\ audio = <<>> /\ spectrum = <<>>
-------------------------------------------------------------------------------
(* Demodulator.configure.  Variant: it keeps what it has of the old mode. *)
ConfiguredKeeping(d, m, r) == [d EXCEPT !.mode = m, !.rate = r]
Configured(d, m, r) ==
  IF m # d.mode \/ r # d.rate THEN [mode |-> m, rate |-> r, tail |-> <<>>, last |-> NoSample] ELSE d

(* _demodulate: how many values n samples give.  The first packet of an FM    *)
(* signal gives one less.                                                     *)
Demodulated(d, n) == IF d.mode \in FmModes /\ d.last = NoSample THEN n - 1 ELSE n

(* _resample, packet by packet: rounded up by resample_poly, down by the      *)
(* interpolation that stands in for it.                                       *)
Resampled(n, r) ==
  LET down == IF r = "slow" THEN DownSlow ELSE DownFast
  IN  IF n = 0 \/ Up = down THEN n
      ELSE IF Scipy THEN (n * Up + down - 1) \div down
      ELSE IF n * Up < down THEN 1 ELSE (n * Up) \div down

(* process_sc16 up to the framing: the audio samples of a packet. *)
Audio(d, p, from) ==
  [i \in 1 .. Resampled(Demodulated(d, PacketLen), d.rate) |->
     [at |-> After(from, i - 1), mode |-> d.mode, rate |-> d.rate, gaps |-> p.gaps]]

(* _frame_pcm: whole frames, and the rest for the next packet. *)
Framed(s) ==
  LET n == Len(s) \div FrameLen
  IN  [frames |-> [i \in 1 .. n |-> SubSeq(s, (i - 1) * FrameLen + 1, i * FrameLen)],
       tail |-> SubSeq(s, n * FrameLen + 1, Len(s))]

(* WaterfallEngine.compute: one chunk per packet.  Of a backlog of more than  *)
(* four chunks only the newest samples are kept, which takes packets longer   *)
(* than a chunk.                                                              *)
Trimmed(s) == IF Len(s) > 4 * FftSize THEN SubSeq(s, Len(s) - FftSize + 1, Len(s)) ELSE s
Buffered(p) ==
  buffer \o [i \in 1 .. PacketLen |-> [at |-> After(p.at, i - 1), tuning |-> p.tuning, gaps |-> p.gaps]]

compute(p) ==
  IF Len(Buffered(p)) < FftSize
    THEN buffer' = Buffered(p) /\ UNCHANGED spectrum
    ELSE /\ spectrum' = <<[samples |-> SubSeq(Buffered(p), 1, FftSize), tuning |-> p.tuning]>>
         /\ buffer' = Trimmed(SubSeq(Buffered(p), FftSize + 1, Len(Buffered(p))))

(* _handle_iq. *)
handle_iq ==
  /\ packets # <<>> /\ packets' = Tail(packets)
  /\ LET p == Head(packets)
         d == Configured(demod, IF mode = None THEN DefaultMode ELSE mode, Rate(p.tuning))
         from == IF d = demod THEN made ELSE 0
         s == Audio(d, p, from)
         f == Framed(d.tail \o s)
     IN  /\ audio' = f.frames
         /\ demod' = [d EXCEPT !.tail = f.tail, !.last = IF d.mode \in FmModes THEN p.gaps ELSE NoSample]
         /\ made' = After(from, Len(s))
         /\ heard' = After(IF d = demod THEN heard ELSE 0, FrameLen * Len(f.frames))
         /\ compute(p)
  /\ UNCHANGED <<device, commands, answer, mode>>

(* set_rx after the await.  A stream that was turned off is answered without  *)
(* a mode.                                                                    *)
SetRxDone ==
  /\ answer # <<>> /\ answer' = <<>>
  /\ LET a == Head(answer)
     IN  /\ mode' = IF a.tuning = 0 THEN None ELSE a.mode
         /\ demod' = Configured(demod, a.mode, a.rate)
  /\ made' = IF demod' = demod THEN made ELSE 0
  /\ heard' = IF demod' = demod THEN heard ELSE 0
  /\ UNCHANGED <<device, commands, packets, buffer, audio, spectrum>>
-------------------------------------------------------------------------------
(* The device executes set_rx; the next one comes after the answer is read.   *)
(* A request to turn the stream off names a mode and a rate as well.          *)
SetRx(t, m, r) ==
  /\ answer = <<>> /\ commands < MaxCommands
  /\ commands' = commands + 1 /\ tuning' = t
  /\ answer' = <<[tuning |-> t, mode |-> m, rate |-> r]>>
  /\ UNCHANGED <<place, gaps, lost, packets, mode, demod, made, heard, buffer, audio, spectrum>>

Send ==
  /\ tuning # 0 /\ Len(packets) < MaxWaiting
  /\ packets' = Append(packets, [at |-> place, tuning |-> tuning, gaps |-> gaps])
  /\ place' = After(place, PacketLen)
  /\ UNCHANGED <<tuning, gaps, lost, commands, answer, mode, demod, made, heard, buffer, audio, spectrum>>

(* A packet is lost: the samples that follow come after one gap more. *)
Lose ==
  /\ tuning # 0 /\ lost < MaxLost
  /\ lost' = lost + 1 /\ gaps' = gaps + 1
  /\ UNCHANGED <<tuning, place, commands, answer, packets, mode, demod, made, heard, buffer, audio, spectrum>>

Requests == {<<t, m, Rate(t)>> : t \in 1 .. Tunings, m \in Modes} \cup {<<0, m, r>> : m \in Modes, r \in {"fast", "slow"}}
Next ==
  \/ handle_iq \/ SetRxDone \/ Send \/ Lose
  \/ \E q \in Requests : SetRx(q[1], q[2], q[3])
Spec == Init /\ [][Next]_vars
-------------------------------------------------------------------------------
(* The demodulator holds less than a frame, the waterfall at most four chunks. *)
TypeOK ==
  /\ Len(demod.tail) < FrameLen /\ Len(buffer) <= 4 * FftSize
  /\ mode \in Modes \cup {None} /\ demod.mode \in Modes /\ tuning \in 0 .. Tunings

Consecutive(s) == \A i \in 1 .. Len(s) - 1 : s[i + 1].at = After(s[i].at, 1)
Alike(s) == \A i \in 1 .. Len(s) : s[i].mode = s[1].mode /\ s[i].rate = s[1].rate

(* Every audio frame is demodulated in one mode from samples of one rate,     *)
(* whatever order packets and answers to set_rx come in, and frames and tail  *)
(* together are the audio made since the demodulator was reset: no sample is  *)
(* lost, repeated or out of place.                                            *)
FramesWhole ==
  /\ \A i \in 1 .. Len(audio) : Len(audio[i]) = FrameLen /\ Alike(audio[i]) /\ Consecutive(audio[i])
  /\ \A i \in 2 .. Len(audio) : Consecutive(<<audio[i - 1][FrameLen], audio[i][1]>>)
  /\ Alike(Append(demod.tail, demod))
  /\ demod.tail # <<>> => Consecutive(Append(demod.tail, [at |-> made]))
  /\ made = After(heard, Len(demod.tail))

(* A local spectrum is made of successive samples, and when a packet is no    *)
(* longer than a chunk its label is the tuning of the chunk's last sample.    *)
(* Samples of the tuning before, and from before a gap, may come first.       *)
SpectrumWhole ==
  \A i \in 1 .. Len(spectrum) :
    LET c == spectrum[i].samples
    IN  /\ Len(c) = FftSize /\ Consecutive(c)
        /\ PacketLen <= FftSize => c[FftSize].tuning = spectrum[i].tuning

(* A gap in the sequence numbers shows in the audio as a discontinuity: no    *)
(* frame holds audio from both sides of it.                                   *)
NoFrameAcrossGap ==
  \A i \in 1 .. Len(audio) : \A j \in 1 .. FrameLen : audio[i][j].gaps = audio[i][1].gaps
===============================================================================
