------------------------------- MODULE AsyncFifo -------------------------------
(* fpga/rtl/stream/axis_async_fifo.v: the clock-domain-crossing FIFO between   *)
(* the packetizer (s_clk, the ADC clock) and the AXI DMA (m_clk).  Each side   *)
(* owns a binary pointer one bit wider than the address, and sees the other    *)
(* side's pointer through a two-flop synchroniser; full and empty are          *)
(* registers computed from those late copies.  The pointers cross in Gray code *)
(* so that a sample taken while the other clock moves is the old or the new    *)
(* pointer and never a mixture; here a pointer is the number it encodes, and   *)
(* module GrayFifo has the bits.                                               *)
EXTENDS Naturals, Sequences

CONSTANTS Depth,   \* DEPTH = 2^ADDR_WIDTH words
          Data     \* what a word may hold

ASSUME DepthAssumption == Depth \in Nat \ {0}
ASSUME DataAssumption == Data # {}

VARIABLES
  mem,         \* mem[0:DEPTH-1]
  s_rst, s_bin, s_full,    \* write side: reset, pointer, registered full
  s_m1, s_m2,              \* its two-flop copies of m_bin (s_gray_m1/m2)
  m_rst, m_bin, m_empty,   \* read side: reset, pointer, registered empty
  m_s1, m_s2,              \* its two-flop copies of s_bin (m_gray_s1/s2)
  delivered                \* the last word taken by the consumer

sVars == <<s_rst, s_bin, s_full, s_m1, s_m2, mem>>
mVars == <<m_rst, m_bin, m_empty, m_s1, m_s2, delivered>>
vars == <<sVars, mVars>>

Pointers == 0 .. 2 * Depth - 1

(* {ADDR_WIDTH+1}-bit increment, and the address part of a pointer. *)
Inc(p) == IF p = 2 * Depth - 1 THEN 0 ELSE p + 1
Addr(p) == IF p < Depth THEN p ELSE p - Depth

(* How far pointer b is ahead of pointer a on the ring of 2*Depth values. *)
Ahead(a, b) == IF a <= b THEN b - a ELSE b - a + 2 * Depth

(* The reset values of the two always blocks. *)
Init ==
  /\ mem \in [0 .. Depth - 1 -> Data]
  /\ delivered \in Data
  /\ s_rst = TRUE /\ s_bin = 0 /\ s_m1 = 0 /\ s_m2 = 0 /\ s_full = FALSE
  /\ m_rst = TRUE /\ m_bin = 0 /\ m_s1 = 0 /\ m_s2 = 0 /\ m_empty = TRUE

(* full_next: the next write pointer is one lap ahead of the late copy.      *)
(* The Gray comparison with the two top bits inverted says exactly this.     *)
FullNext(next) == Ahead(s_m2, next) = Depth

(* empty_next: the next read pointer has caught up with the late copy. *)
EmptyNext(next) == next = m_s2

(* s_push/s_bin_next and m_pop/m_bin_next. *)
SPush(valid) == valid /\ ~s_full
MPop(ready) == ready /\ ~m_empty
SBinNext(valid) == IF SPush(valid) THEN Inc(s_bin) ELSE s_bin
MBinNext(ready) == IF MPop(ready) THEN Inc(m_bin) ELSE m_bin

(* One posedge of s_clk out of reset: the word d is on s_tdata, valid is     *)
(* s_tvalid, and the first synchroniser flop captures the pointer sample.    *)
SEdge(valid, d, sample) ==
  /\ ~s_rst
  /\ mem' = IF SPush(valid) THEN [mem EXCEPT ![Addr(s_bin)] = d] ELSE mem
  /\ s_m1' = sample
  /\ s_m2' = s_m1
  /\ s_bin' = SBinNext(valid)
  /\ s_full' = FullNext(SBinNext(valid))
  /\ UNCHANGED s_rst

(* One posedge of m_clk out of reset. *)
MEdge(ready, sample) ==
  /\ ~m_rst
  /\ delivered' = IF MPop(ready) THEN mem[Addr(m_bin)] ELSE delivered
  /\ m_s1' = sample
  /\ m_s2' = m_s1
  /\ m_bin' = MBinNext(ready)
  /\ m_empty' = EmptyNext(MBinNext(ready))
  /\ UNCHANGED m_rst

SClock(valid, d) == SEdge(valid, d, m_bin) /\ UNCHANGED mVars
MClock(ready) == MEdge(ready, s_bin) /\ UNCHANGED sVars

(* Both clocks rise together: each first flop captures the pointer before or *)
(* after the other side's step.                                              *)
BothClocks(valid, d, ready) ==
  /\ \E sample \in {m_bin, MBinNext(ready)} : SEdge(valid, d, sample)
  /\ \E sample \in {s_bin, SBinNext(valid)} : MEdge(ready, sample)

(* The two resets come from one reset input, which is held until both sides  *)
(* have seen a clock edge; each side leaves reset in its own time.           *)
Reset ==
  /\ s_rst' = TRUE /\ s_bin' = 0 /\ s_m1' = 0 /\ s_m2' = 0 /\ s_full' = FALSE
  /\ m_rst' = TRUE /\ m_bin' = 0 /\ m_s1' = 0 /\ m_s2' = 0 /\ m_empty' = TRUE
  /\ UNCHANGED <<mem, delivered>>

LeaveResetS == s_rst /\ s_rst' = FALSE /\ UNCHANGED <<s_bin, s_full, s_m1, s_m2, mem, mVars>>
LeaveResetM == m_rst /\ m_rst' = FALSE /\ UNCHANGED <<m_bin, m_empty, m_s1, m_s2, delivered, sVars>>

Next ==
  \/ \E valid \in BOOLEAN, d \in Data : SClock(valid, d)
  \/ \E ready \in BOOLEAN : MClock(ready)
  \/ \E valid, ready \in BOOLEAN, d \in Data : BothClocks(valid, d, ready)
  \/ Reset \/ LeaveResetS \/ LeaveResetM

Spec == Init /\ [][Next]_vars

-------------------------------------------------------------------------------
Occupancy == Ahead(m_bin, s_bin)

TypeOK ==
  /\ mem \in [0 .. Depth - 1 -> Data]
  /\ delivered \in Data
  /\ s_bin \in Pointers /\ s_m1 \in Pointers /\ s_m2 \in Pointers
  /\ m_bin \in Pointers /\ m_s1 \in Pointers /\ m_s2 \in Pointers
  /\ s_rst \in BOOLEAN /\ s_full \in BOOLEAN
  /\ m_rst \in BOOLEAN /\ m_empty \in BOOLEAN

(* Going round the ring from the writer's oldest copy of the read pointer,   *)
(* one meets its newer copy, the read pointer, the reader's copies of the    *)
(* write pointer and the write pointer, all within one lap of Depth words:   *)
(* no side ever acts on a pointer the other has not really reached.          *)
RingOrder ==
  Ahead(s_m2, s_m1) + Ahead(s_m1, m_bin) + Ahead(m_bin, m_s2)
    + Ahead(m_s2, m_s1) + Ahead(m_s1, s_bin) <= Depth

(* The registered flags are conservative: when the writer is allowed to push *)
(* there is a free slot by its own copy, and when the reader is allowed to   *)
(* pop there is a word by its own copy.                                      *)
FlagsSafe ==
  /\ ~s_full => Ahead(s_m2, s_bin) < Depth
  /\ ~m_empty => m_bin # m_s2

(* A side in reset has not moved and has sampled nothing. *)
ResetQuiet ==
  /\ s_rst => s_bin = 0 /\ s_m1 = 0 /\ s_m2 = 0
  /\ m_rst => m_bin = 0 /\ m_s1 = 0 /\ m_s2 = 0

(* The strengthening that is inductive. *)
IInv == TypeOK /\ RingOrder /\ FlagsSafe /\ ResetQuiet

(* The words between the pointers are the contents of an abstract FIFO of    *)
(* Depth words: axis_async_fifo loses, duplicates, reorders and corrupts     *)
(* nothing between two resets, whatever the clocks do.                       *)
Wrap(n) == IF n < 2 * Depth THEN n ELSE n - 2 * Depth
Contents == [i \in 1 .. Occupancy |-> mem[Addr(Wrap(m_bin + i - 1))]]
Abstract == INSTANCE StreamFifo WITH q <- Contents
ImplementsFifo == Abstract!Spec

(* A word that was pushed is offered to the DMA (m_tvalid) unless a reset    *)
(* discards it: the empty flag cannot stay set on a nonempty FIFO.           *)
WordsSurface == (Occupancy > 0) ~> (~m_empty \/ Occupancy = 0)

===============================================================================
