-------------------------------- MODULE GrayFifo --------------------------------
(* axis_async_fifo.v at the level of its registers' bits: what crosses between  *)
(* the clocks is a Gray-coded vector, a flop that captures it while it changes  *)
(* may take each changing bit old or new, and full_next and empty_next compare  *)
(* the vectors without decoding them.  Binary pointers, memory and flags are    *)
(* AsyncFifo's; its numeric copies s_m1, s_m2, m_s1 and m_s2 are what the       *)
(* captured vectors decode to, so that whatever is said of AsyncFifo's          *)
(* variables is said of the bits.                                               *)
EXTENDS AsyncFifo

CONSTANT AddrWidth   \* ADDR_WIDTH; the slice [ADDR_WIDTH-2:0] needs 2 or more

ASSUME AddrWidthAssumption == AddrWidth \in Nat \ {0, 1} /\ Depth = 2 ^ AddrWidth

VARIABLES s_gray, s_gray_m1, s_gray_m2, m_gray, m_gray_s1, m_gray_s2

sGray == <<s_gray, s_gray_m1, s_gray_m2>>
mGray == <<m_gray, m_gray_s1, m_gray_s2>>
bitVars == <<vars, sGray, mGray>>

Bits == 0 .. AddrWidth
Bit(n, i) == (n \div 2 ^ i) % 2
Zero == [i \in Bits |-> 0]

(* Variant: the pointer crosses in binary. *)
PlainBinary == [n \in Pointers |-> [i \in Bits |-> Bit(n, i)]]

(* (n >> 1) ^ n *)
Gray == [n \in Pointers |-> [i \in Bits |-> (Bit(n, i) + Bit(n \div 2, i)) % 2]]

(* The pointer a vector stands for. *)
Decoded(v) == CHOOSE p \in Pointers : Gray[p] = v

(* Variant: only the top bit inverted, as full is tested on binary pointers. *)
GrayFullTopBitOnly(gray) ==
  \A i \in Bits : gray[i] = IF i = AddrWidth THEN 1 - s_gray_m2[i] ELSE s_gray_m2[i]

(* The code equals the late copy with its two top bits inverted. *)
GrayFull(gray) ==
  \A i \in Bits : gray[i] = IF i >= AddrWidth - 1 THEN 1 - s_gray_m2[i] ELSE s_gray_m2[i]

GrayEmpty(gray) == gray = m_gray_s2

(* What a flop may capture from a register going from old to new. *)
Captures(old, new) ==
  {[i \in Bits |-> IF i \in late THEN old[i] ELSE new[i]] : late \in SUBSET {i \in Bits : old[i] # new[i]}}

GrayInit ==
  /\ Init
  /\ s_gray = Zero /\ s_gray_m1 = Zero /\ s_gray_m2 = Zero
  /\ m_gray = Zero /\ m_gray_s1 = Zero /\ m_gray_s2 = Zero

(* Variant: the second flop of a synchroniser never loads. *)
GrayMEdgeStuck(ready, sample) ==
  /\ ~m_rst
  /\ delivered' = IF MPop(ready) THEN mem[Addr(m_bin)] ELSE delivered
  /\ m_gray_s1' = sample /\ m_s1' = Decoded(sample)
  /\ m_bin' = MBinNext(ready)
  /\ m_gray' = Gray[MBinNext(ready)]
  /\ m_empty' = GrayEmpty(Gray[MBinNext(ready)])
  /\ UNCHANGED <<m_rst, m_gray_s2, m_s2>>

GraySEdge(valid, d, sample) ==
  /\ ~s_rst
  /\ s_gray_m1' = sample /\ s_m1' = Decoded(sample)
  /\ s_gray_m2' = s_gray_m1 /\ s_m2' = s_m1
  /\ mem' = IF SPush(valid) THEN [mem EXCEPT ![Addr(s_bin)] = d] ELSE mem
  /\ s_bin' = SBinNext(valid)
  /\ s_gray' = Gray[SBinNext(valid)]
  /\ s_full' = GrayFull(Gray[SBinNext(valid)])
  /\ UNCHANGED s_rst

GrayMEdge(ready, sample) ==
  /\ ~m_rst
  /\ delivered' = IF MPop(ready) THEN mem[Addr(m_bin)] ELSE delivered
  /\ m_gray_s1' = sample /\ m_s1' = Decoded(sample)
  /\ m_gray_s2' = m_gray_s1 /\ m_s2' = m_s1
  /\ m_bin' = MBinNext(ready)
  /\ m_gray' = Gray[MBinNext(ready)]
  /\ m_empty' = GrayEmpty(Gray[MBinNext(ready)])
  /\ UNCHANGED m_rst

GraySClock(valid, d) == GraySEdge(valid, d, m_gray) /\ UNCHANGED <<mVars, mGray>>
GrayMClock(ready) == GrayMEdge(ready, s_gray) /\ UNCHANGED <<sVars, sGray>>

GrayBothClocks(valid, d, ready) ==
  /\ \E sample \in Captures(m_gray, Gray[MBinNext(ready)]) : GraySEdge(valid, d, sample)
  /\ \E sample \in Captures(s_gray, Gray[SBinNext(valid)]) : GrayMEdge(ready, sample)

GrayReset ==
  /\ Reset
  /\ s_gray' = Zero /\ s_gray_m1' = Zero /\ s_gray_m2' = Zero
  /\ m_gray' = Zero /\ m_gray_s1' = Zero /\ m_gray_s2' = Zero

GrayLeaveResetS == LeaveResetS /\ UNCHANGED <<sGray, mGray>>
GrayLeaveResetM == LeaveResetM /\ UNCHANGED <<sGray, mGray>>

GrayNext ==
  \/ \E valid \in BOOLEAN, d \in Data : GraySClock(valid, d)
  \/ \E ready \in BOOLEAN : GrayMClock(ready)
  \/ \E valid, ready \in BOOLEAN, d \in Data : GrayBothClocks(valid, d, ready)
  \/ GrayReset \/ GrayLeaveResetS \/ GrayLeaveResetM

(* The clocks do not stop, and the DMA accepts a word again and again. *)
GraySRuns == \E valid, ready \in BOOLEAN, d \in Data : GraySClock(valid, d) \/ GrayBothClocks(valid, d, ready)
GrayMRuns == \E valid \in BOOLEAN, d \in Data : GrayMClock(TRUE) \/ GrayBothClocks(valid, d, TRUE)
-------------------------------------------------------------------------------
(* The bit-level FIFO implements AsyncFifo: the captures and the vector      *)
(* comparisons do what the pointers they encode do.                          *)
ImplementsAsyncFifo == Spec
===============================================================================
