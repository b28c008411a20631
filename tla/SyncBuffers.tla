------------------------------ MODULE SyncBuffers ------------------------------
(* The single-clock stream buffers of the RTL library: axis_fifo.v, a FIFO of    *)
(* 2^DEPTH_LOG2 words, and skid_buffer.v, the one-register stage that            *)
(* axis_rate_adapter.v wraps.  They are separate blocks, each with a producer    *)
(* and a consumer of its own.                                                    *)
EXTENDS Naturals, Sequences

CONSTANTS Depth, Data

VARIABLES mem, wr_ptr, rd_ptr, fifoOut,   \* axis_fifo, and the last word it delivered
          data_reg, valid_reg, skidOut    \* skid_buffer, and the last word it delivered

fifoVars == <<mem, wr_ptr, rd_ptr, fifoOut>>
skidVars == <<data_reg, valid_reg, skidOut>>
vars == <<fifoVars, skidVars>>

Inc(p) == IF p = 2 * Depth - 1 THEN 0 ELSE p + 1
Addr(p) == IF p < Depth THEN p ELSE p - Depth

(* Variant: full is raised one word too late. *)
FullOneShort == wr_ptr = rd_ptr + Depth + 1

full == Addr(wr_ptr) = Addr(rd_ptr) /\ (wr_ptr >= Depth) # (rd_ptr >= Depth)
empty == wr_ptr = rd_ptr

s_ready(m_ready) == ~valid_reg \/ m_ready

Init ==
  /\ mem \in [0 .. Depth - 1 -> Data] /\ wr_ptr = 0 /\ rd_ptr = 0 /\ fifoOut \in Data
  /\ data_reg \in Data /\ valid_reg = FALSE /\ skidOut \in Data

(* axis_fifo, posedge clk: a write and a read may happen on the same edge. *)
FifoClock(s_valid, d, m_ready) ==
  /\ mem' = IF s_valid /\ ~full THEN [mem EXCEPT ![Addr(wr_ptr)] = d] ELSE mem
  /\ wr_ptr' = IF s_valid /\ ~full THEN Inc(wr_ptr) ELSE wr_ptr
  /\ rd_ptr' = IF m_ready /\ ~empty THEN Inc(rd_ptr) ELSE rd_ptr
  /\ fifoOut' = IF m_ready /\ ~empty THEN mem[Addr(rd_ptr)] ELSE fifoOut
  /\ UNCHANGED skidVars

FifoReset == wr_ptr' = 0 /\ rd_ptr' = 0 /\ UNCHANGED <<mem, fifoOut, skidVars>>

(* skid_buffer, posedge clk: the register is loaded, valid or not, whenever  *)
(* s_ready is high.                                                          *)
SkidClock(s_valid, d, m_ready) ==
  /\ data_reg' = IF s_ready(m_ready) THEN d ELSE data_reg
  /\ valid_reg' = IF s_ready(m_ready) THEN s_valid ELSE valid_reg
  /\ skidOut' = IF valid_reg /\ m_ready THEN data_reg ELSE skidOut
  /\ UNCHANGED fifoVars

(* data_reg becomes zero, one of the words. *)
SkidReset == valid_reg' = FALSE /\ data_reg' \in Data /\ UNCHANGED <<skidOut, fifoVars>>

Next ==
  \/ \E s_valid, m_ready \in BOOLEAN, d \in Data : FifoClock(s_valid, d, m_ready)
  \/ \E s_valid, m_ready \in BOOLEAN, d \in Data : SkidClock(s_valid, d, m_ready)
  \/ FifoReset \/ SkidReset

Spec == Init /\ [][Next]_vars
-------------------------------------------------------------------------------
Occupancy == IF rd_ptr <= wr_ptr THEN wr_ptr - rd_ptr ELSE wr_ptr - rd_ptr + 2 * Depth
Wrap(n) == IF n < 2 * Depth THEN n ELSE n - 2 * Depth
FifoContents == [i \in 1 .. Occupancy |-> mem[Addr(Wrap(rd_ptr + i - 1))]]
SkidContents == IF valid_reg THEN <<data_reg>> ELSE <<>>

(* axis_fifo is a FIFO of Depth words: nothing is lost, repeated, reordered  *)
(* or overwritten, also when a write and a read share an edge.               *)
Fifo == INSTANCE StreamFifo WITH q <- FifoContents, delivered <- fifoOut
FifoImplements == Fifo!Spec

(* skid_buffer is a FIFO of one word that can take a word on the edge on     *)
(* which it gives one away.                                                  *)
Skid == INSTANCE StreamFifo WITH Depth <- 1, q <- SkidContents, delivered <- skidOut
SkidImplements == Skid!Spec
===============================================================================
