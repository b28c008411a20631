---------------------------- MODULE PsdReassembler ----------------------------
(* rpi/backend/sdr_backend/psd.py: the buffer that puts the segments of a        *)
(* wideband PSD frame back together.  Frames are keyed by frame_seq (the backend *)
(* runs one psd_id); a segment's payload is abstracted to the identity of the    *)
(* frame it was cut from, which is what the properties tell apart.               *)
EXTENDS Naturals, FiniteSets

CONSTANTS Segs,     \* segment_count
          SeqSpan    \* 2^32 in the code: frame_seq counts modulo SeqSpan

ASSUME SegsAssumption == Segs \in Nat \ {0}
ASSUME SeqSpanAssumption == SeqSpan \in Nat \ {0} /\ SeqSpan % 2 = 0

VARIABLES frames,      \* _frames: frame_seq -> segment_index -> payload
          stats,       \* complete_frames, dropped_frame_count, missing_segment_count
          published    \* the last frame returned by ingest, or NoFrame

psdVars == <<frames, stats, published>>

Indices == 0 .. Segs - 1
Seqs == 0 .. SeqSpan - 1
NoFrame == [seq |-> 0, header |-> <<>>, segments |-> <<>>]
NoStats == [complete |-> 0, dropped |-> 0, missing |-> 0]

PsdInit == frames = <<>> /\ stats = NoStats /\ published = NoFrame

(* Variant: sequence numbers compared as plain numbers. *)
SeqLessPlain(left, right) == left < right

(* _seq_less: right is less than half the range ahead of left. *)
SeqLess(left, right) == left # right /\ (right + SeqSpan - left) % SeqSpan < SeqSpan \div 2

(* Variant: frames older than the last published one are thrown away. *)
StaleAndPassed(seq) ==
  {k \in DOMAIN frames : SeqLess(k, seq) \/ (published # NoFrame /\ SeqLess(k, published.seq))}

(* The keys _drop_older_frames removes, and the segments it finds missing. *)
Stale(seq) == {k \in DOMAIN frames : SeqLess(k, seq)}

Missing(seq) == Cardinality({m \in Stale(seq) \X Indices : m[2] \notin DOMAIN frames[m[1]]})

(* Segments with that of p, which takes the place of an earlier copy. *)
With(segments, p) == [i \in DOMAIN segments \cup {p.index} |-> IF i = p.index THEN p.tag ELSE segments[i]]

(* Variant: one buffer for all frames. *)
StoredOneBuffer(p) ==
  [k \in {p.seq} |-> With(IF frames = <<>> THEN <<>> ELSE frames[CHOOSE f \in DOMAIN frames : TRUE], p)]

(* The buffers after the older ones are dropped and the segment is stored. *)
Stored(p) ==
  LET kept == DOMAIN frames \ Stale(p.seq)
      old == IF p.seq \in kept THEN frames[p.seq] ELSE <<>>
  IN  [k \in kept \cup {p.seq} |-> IF k = p.seq THEN With(old, p) ELSE frames[k]]

Complete(segments) == Cardinality(DOMAIN segments) >= Segs /\ Indices \subseteq DOMAIN segments

(* Variant: dropped frames are not counted. *)
IngestNoDropCount(p) ==
  LET stored == Stored(p)
      done == Complete(stored[p.seq])
  IN  /\ frames' = IF done THEN [k \in DOMAIN stored \ {p.seq} |-> stored[k]] ELSE stored
      /\ stats' = [stats EXCEPT !.complete = @ + (IF done THEN 1 ELSE 0),
                                !.missing = @ + Missing(p.seq)]
      /\ published' = IF done
                        THEN [seq |-> p.seq, header |-> p.tag, segments |-> stored[p.seq]]
                        ELSE published

(* ingest: the frame is returned with the header of the segment that         *)
(* completed it.                                                             *)
Ingest(p) ==
  LET stored == Stored(p)
      done == Complete(stored[p.seq])
  IN  /\ frames' = IF done THEN [k \in DOMAIN stored \ {p.seq} |-> stored[k]] ELSE stored
      /\ stats' = [complete |-> stats.complete + (IF done THEN 1 ELSE 0),
                   dropped |-> stats.dropped + Cardinality(Stale(p.seq)),
                   missing |-> stats.missing + Missing(p.seq)]
      /\ published' = IF done
                        THEN [seq |-> p.seq, header |-> p.tag, segments |-> stored[p.seq]]
                        ELSE published

(* reset *)
ResetReassembler == frames' = <<>> /\ stats' = NoStats /\ UNCHANGED published
===============================================================================
