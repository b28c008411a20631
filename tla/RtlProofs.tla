------------------------------- MODULE RtlProofs -------------------------------
(* The stream buffers of the RTL library, for every depth and every set of     *)
(* words: axis_async_fifo's inductive invariant, and that it implements the    *)
(* abstract FIFO; that axis_fifo and skid_buffer implement it.  Then the       *)
(* register path, whose lemmas are in CsrProofs.                               *)
EXTENDS MCRtlLibrary, TLAPS

USE DepthAssumption

LEMMA SameWords ==
  ASSUME NEW S, NEW p \in Seq(S), NEW q \in Seq(S), Len(p) = Len(q), \A i \in 1 .. Len(p) : p[i] = q[i]
  PROVE  p = q
  OBVIOUS

LEMMA PointersAreNat == Pointers \subseteq Nat /\ 0 \in Pointers
  BY DEF Pointers

LEMMA IncType == \A p \in Pointers : Inc(p) \in Pointers
  BY DEF Pointers, Inc

LEMMA AheadType == \A a, b \in Pointers : Ahead(a, b) \in 0 .. 2 * Depth - 1
  BY DEF Pointers, Ahead

LEMMA AddrType == \A p \in Pointers : Addr(p) \in 0 .. Depth - 1
  BY DEF Pointers, Addr

(* Type correctness of one edge on each side. *)
LEMMA SEdgeType ==
  ASSUME TypeOK, NEW valid \in BOOLEAN, NEW d \in Data, NEW sample \in Pointers,
         SEdge(valid, d, sample)
  PROVE  /\ mem' \in [0 .. Depth - 1 -> Data]
         /\ s_bin' \in Pointers /\ s_m1' \in Pointers /\ s_m2' \in Pointers
         /\ s_rst' \in BOOLEAN /\ s_full' \in BOOLEAN
  BY IncType, AddrType DEF TypeOK, SEdge, SBinNext, FullNext

LEMMA MEdgeType ==
  ASSUME TypeOK, NEW ready \in BOOLEAN, NEW sample \in Pointers, MEdge(ready, sample)
  PROVE  /\ delivered' \in Data
         /\ m_bin' \in Pointers /\ m_s1' \in Pointers /\ m_s2' \in Pointers
         /\ m_rst' \in BOOLEAN /\ m_empty' \in BOOLEAN
  BY IncType, AddrType DEF TypeOK, MEdge, MBinNext, EmptyNext

(* The six pointers r2, r1, r, w2, w1, w met in this order within one lap. *)
InOrder(r2, r1, r, w2, w1, w) ==
  Ahead(r2, r1) + Ahead(r1, r) + Ahead(r, w2) + Ahead(w2, w1) + Ahead(w1, w) <= Depth

(* Pure ring arithmetic: what one write edge, one read edge, or both at once *)
(* do to six pointers in order.                                              *)
LEMMA WriteMove ==
  ASSUME NEW r2 \in Pointers, NEW r1 \in Pointers, NEW r \in Pointers,
         NEW w2 \in Pointers, NEW w1 \in Pointers, NEW w \in Pointers,
         InOrder(r2, r1, r, w2, w1, w),
         NEW wn \in Pointers, wn = w \/ (wn = Inc(w) /\ Ahead(r2, w) < Depth)
  PROVE  /\ InOrder(r2, r1, r, w2, w1, wn)
         /\ Ahead(r2, wn) # Depth => Ahead(r1, wn) < Depth
  BY DEF InOrder, Pointers, Inc, Ahead

LEMMA ReadMove ==
  ASSUME NEW r2 \in Pointers, NEW r1 \in Pointers, NEW r \in Pointers,
         NEW w2 \in Pointers, NEW w1 \in Pointers, NEW w \in Pointers,
         InOrder(r2, r1, r, w2, w1, w),
         NEW rn \in Pointers, rn = r \/ (rn = Inc(r) /\ r # w2)
  PROVE  /\ InOrder(r2, r1, rn, w2, w1, w)
         /\ rn # w2 => rn # w1
  BY DEF InOrder, Pointers, Inc, Ahead

(* Dropping the oldest copy on either side, and sampling in between. *)
LEMMA CopiesShift ==
  ASSUME NEW r2 \in Pointers, NEW r1 \in Pointers, NEW r \in Pointers,
         NEW w2 \in Pointers, NEW w1 \in Pointers, NEW w \in Pointers,
         InOrder(r2, r1, r, w2, w1, w)
  PROVE  /\ InOrder(r1, r, r, w2, w1, w)
         /\ InOrder(r2, r1, r, w1, w, w)
         /\ InOrder(r1, r, r, w1, w, w)
  BY DEF InOrder, Pointers, Ahead

(* What the guards of the two sides say about the next pointers. *)
LEMMA NextWrite ==
  ASSUME IInv, NEW valid \in BOOLEAN
  PROVE  /\ SBinNext(valid) = s_bin
              \/ (SBinNext(valid) = Inc(s_bin) /\ Ahead(s_m2, s_bin) < Depth)
         /\ SBinNext(valid) \in Pointers
  BY IncType DEF IInv, TypeOK, FlagsSafe, SBinNext, SPush

LEMMA NextRead ==
  ASSUME IInv, NEW ready \in BOOLEAN
  PROVE  /\ MBinNext(ready) = m_bin
              \/ (MBinNext(ready) = Inc(m_bin) /\ m_bin # m_s2)
         /\ MBinNext(ready) \in Pointers
  BY IncType DEF IInv, TypeOK, FlagsSafe, MBinNext, MPop

LEMMA PointersInOrder ==
  ASSUME IInv
  PROVE  /\ s_m2 \in Pointers /\ s_m1 \in Pointers /\ m_bin \in Pointers
         /\ m_s2 \in Pointers /\ m_s1 \in Pointers /\ s_bin \in Pointers
         /\ InOrder(s_m2, s_m1, m_bin, m_s2, m_s1, s_bin)
  BY DEF IInv, TypeOK, RingOrder, InOrder

LEMMA InitIInv == Init => IInv
<1> SUFFICES ASSUME Init PROVE IInv
  OBVIOUS
<1>1. Ahead(0, 0) = 0
  BY DEF Ahead
<1>2. TypeOK
  BY PointersAreNat, Zenon DEF Init, TypeOK
<1>3. RingOrder
  BY <1>1 DEF Init, RingOrder
<1>4. FlagsSafe
  BY <1>1 DEF Init, FlagsSafe
<1>5. ResetQuiet
  BY DEF Init, ResetQuiet
<1> QED BY <1>2, <1>3, <1>4, <1>5 DEF IInv

(* The registered full and empty flags stay conservative over an edge. *)
LEMMA FullStaysSafe ==
  ASSUME IInv, NEW valid \in BOOLEAN, NEW d \in Data, NEW sample \in Pointers,
         SEdge(valid, d, sample)
  PROVE  ~s_full' => Ahead(s_m2', s_bin') < Depth
<1>1. Ahead(s_m2, SBinNext(valid)) # Depth => Ahead(s_m1, SBinNext(valid)) < Depth
  BY PointersInOrder, NextWrite, WriteMove, Zenon
<1> QED
  BY <1>1, Zenon DEF SEdge, FullNext

LEMMA EmptyStaysSafe ==
  ASSUME IInv, NEW ready \in BOOLEAN, NEW sample \in Pointers, MEdge(ready, sample)
  PROVE  ~m_empty' => m_bin' # m_s2'
<1>1. MBinNext(ready) # m_s2 => MBinNext(ready) # m_s1
  <2> DEFINE rn == MBinNext(ready)
  <2>1. rn \in Pointers /\ (rn = m_bin \/ (rn = Inc(m_bin) /\ m_bin # m_s2))
    BY NextRead
  <2> HIDE DEF rn
  <2>2. /\ s_m2 \in Pointers /\ s_m1 \in Pointers /\ m_bin \in Pointers
        /\ m_s2 \in Pointers /\ m_s1 \in Pointers /\ s_bin \in Pointers
    BY PointersInOrder
  <2>3. InOrder(s_m2, s_m1, m_bin, m_s2, m_s1, s_bin)
    BY PointersInOrder
  <2>4. rn # m_s2 => rn # m_s1
    BY <2>1, <2>2, <2>3 DEF InOrder, Pointers, Inc, Ahead
  <2> QED BY <2>4 DEF rn
<1> QED
  BY <1>1, Zenon DEF MEdge, EmptyNext

LEMMA SClockIInv ==
  ASSUME IInv, NEW valid \in BOOLEAN, NEW d \in Data, SClock(valid, d)
  PROVE  IInv'
<1>1. SEdge(valid, d, m_bin) /\ UNCHANGED mVars
  BY DEF SClock
<1>2. TypeOK'
  BY <1>1, SEdgeType DEF IInv, TypeOK, mVars
<1>3. RingOrder'
  <2>1. InOrder(s_m2, s_m1, m_bin, m_s2, m_s1, SBinNext(valid))
    BY PointersInOrder, NextWrite, WriteMove, Zenon
  <2>2. InOrder(s_m1, m_bin, m_bin, m_s2, m_s1, SBinNext(valid))
    BY <2>1, PointersInOrder, NextWrite, CopiesShift
  <2> QED BY <1>1, <2>2 DEF RingOrder, InOrder, SEdge, mVars
<1>4. FlagsSafe'
  BY <1>1, PointersInOrder, FullStaysSafe DEF IInv, FlagsSafe, mVars
<1>5. ResetQuiet'
  BY <1>1 DEF IInv, ResetQuiet, SEdge, mVars
<1> QED BY <1>2, <1>3, <1>4, <1>5 DEF IInv

LEMMA MClockIInv ==
  ASSUME IInv, NEW ready \in BOOLEAN, MClock(ready)
  PROVE  IInv'
<1>1. MEdge(ready, s_bin) /\ UNCHANGED sVars
  BY DEF MClock
<1>2. TypeOK'
  BY <1>1, MEdgeType DEF IInv, TypeOK, sVars
<1>3. RingOrder'
  <2>1. InOrder(s_m2, s_m1, MBinNext(ready), m_s2, m_s1, s_bin)
    BY PointersInOrder, NextRead, ReadMove, Zenon
  <2>2. InOrder(s_m2, s_m1, MBinNext(ready), m_s1, s_bin, s_bin)
    BY <2>1, PointersInOrder, NextRead, CopiesShift
  <2> QED BY <1>1, <2>2 DEF RingOrder, InOrder, MEdge, sVars
<1>4. FlagsSafe'
  BY <1>1, PointersInOrder, EmptyStaysSafe DEF IInv, FlagsSafe, sVars
<1>5. ResetQuiet'
  BY <1>1 DEF IInv, ResetQuiet, MEdge, sVars
<1> QED BY <1>2, <1>3, <1>4, <1>5 DEF IInv

LEMMA BothClocksIInv ==
  ASSUME IInv, NEW valid \in BOOLEAN, NEW d \in Data, NEW ready \in BOOLEAN,
         BothClocks(valid, d, ready)
  PROVE  IInv'
<1>1. PICK rd \in {m_bin, MBinNext(ready)} : SEdge(valid, d, rd)
  BY DEF BothClocks
<1>2. PICK wd \in {s_bin, SBinNext(valid)} : MEdge(ready, wd)
  BY DEF BothClocks
<1>3. rd \in Pointers /\ wd \in Pointers
  BY PointersInOrder, NextWrite, NextRead
<1>4. TypeOK'
  BY <1>1, <1>2, <1>3, SEdgeType, MEdgeType DEF IInv, TypeOK
<1>5. RingOrder'
  <2>1. InOrder(s_m1, rd, MBinNext(ready), m_s1, wd, SBinNext(valid))
    <3> DEFINE rn == MBinNext(ready)
               wn == SBinNext(valid)
    <3>1. /\ rn \in Pointers /\ (rn = m_bin \/ (rn = Inc(m_bin) /\ m_bin # m_s2))
          /\ wn \in Pointers
          /\ wn = s_bin \/ (wn = Inc(s_bin) /\ Ahead(s_m2, s_bin) < Depth)
          /\ rd = m_bin \/ rd = rn
          /\ wd = s_bin \/ wd = wn
      BY NextWrite, NextRead
    <3> HIDE DEF rn, wn
    <3>2. /\ s_m2 \in Pointers /\ s_m1 \in Pointers /\ m_bin \in Pointers
          /\ m_s2 \in Pointers /\ m_s1 \in Pointers /\ s_bin \in Pointers
      BY PointersInOrder
    <3>3. InOrder(s_m2, s_m1, rn, m_s2, m_s1, s_bin)
      BY <3>1, PointersInOrder, ReadMove, Zenon
    <3>4. InOrder(s_m2, s_m1, rn, m_s2, m_s1, wn)
      BY <3>1, <3>2, <3>3, WriteMove, Zenon
    <3>5. InOrder(s_m2, s_m1, m_bin, m_s2, m_s1, wn)
      BY <3>1, PointersInOrder, WriteMove, Zenon
    <3>6. InOrder(s_m1, rn, rn, m_s1, wn, wn)
      BY <3>1, <3>2, <3>4, CopiesShift, Zenon
    <3>7. Ahead(s_m1, m_bin) + Ahead(m_bin, rn) = Ahead(s_m1, rn) /\ Ahead(rn, rn) = 0
      BY <3>1, <3>2, <3>3, <3>5, SMTT(30) DEF InOrder, Pointers, Inc, Ahead
    <3>8. Ahead(m_s1, s_bin) + Ahead(s_bin, wn) = Ahead(m_s1, wn) /\ Ahead(wn, wn) = 0
      BY <3>1, <3>2, <3>3, <3>4, SMTT(30) DEF InOrder, Pointers, Inc, Ahead
    <3>9. InOrder(s_m1, rd, rn, m_s1, wd, wn)
      BY <1>3, <3>1, <3>2, <3>6, <3>7, <3>8, AheadType, SMTT(30) DEF InOrder
    <3> QED BY <3>9 DEF rn, wn
  <2> QED BY <1>1, <1>2, <2>1 DEF RingOrder, InOrder, SEdge, MEdge
<1>6. FlagsSafe'
  BY <1>1, <1>2, <1>3, FullStaysSafe, EmptyStaysSafe DEF FlagsSafe
<1>7. ResetQuiet'
  BY <1>1, <1>2 DEF IInv, ResetQuiet, SEdge, MEdge
<1> QED BY <1>4, <1>5, <1>6, <1>7 DEF IInv

LEMMA ResetIInv == IInv /\ (Reset \/ LeaveResetS \/ LeaveResetM) => IInv'
<1>1. Ahead(0, 0) = 0
  BY DEF Ahead
<1>2. ASSUME IInv, Reset PROVE IInv'
  <2>1. TypeOK'
    BY <1>2, PointersAreNat, Zenon DEF IInv, TypeOK, Reset
  <2>2. RingOrder'
    BY <1>1, <1>2 DEF RingOrder, Reset
  <2>3. FlagsSafe'
    BY <1>1, <1>2 DEF FlagsSafe, Reset
  <2>4. ResetQuiet'
    BY <1>2 DEF ResetQuiet, Reset
  <2> QED BY <2>1, <2>2, <2>3, <2>4 DEF IInv
<1>3. ASSUME IInv, LeaveResetS PROVE IInv'
  BY <1>3, Zenon DEF IInv, TypeOK, RingOrder, FlagsSafe, ResetQuiet, LeaveResetS, mVars
<1>4. ASSUME IInv, LeaveResetM PROVE IInv'
  BY <1>4, Zenon DEF IInv, TypeOK, RingOrder, FlagsSafe, ResetQuiet, LeaveResetM, sVars
<1> QED BY <1>2, <1>3, <1>4

LEMMA NextIInv == IInv /\ [Next]_vars => IInv'
<1> SUFFICES ASSUME IInv, [Next]_vars PROVE IInv'
  OBVIOUS
<1>1. CASE \E valid \in BOOLEAN, d \in Data : SClock(valid, d)
  BY <1>1, SClockIInv
<1>2. CASE \E ready \in BOOLEAN : MClock(ready)
  BY <1>2, MClockIInv
<1>3. CASE \E valid, ready \in BOOLEAN, d \in Data : BothClocks(valid, d, ready)
  BY <1>3, BothClocksIInv
<1>4. CASE Reset \/ LeaveResetS \/ LeaveResetM
  BY <1>4, ResetIInv
<1>5. CASE UNCHANGED vars
  BY <1>5 DEF IInv, TypeOK, RingOrder, FlagsSafe, ResetQuiet, vars, sVars, mVars
<1> QED BY <1>1, <1>2, <1>3, <1>4, <1>5 DEF Next

(* For every depth, whatever the two clocks and the resets do: the pointers  *)
(* and their late copies stay in order within one lap, and the registered    *)
(* full and empty flags of axis_async_fifo are conservative.                 *)
THEOREM FifoInvariant == Spec => []IInv
<1> QED BY InitIInv, NextIInv, PTL DEF Spec
-------------------------------------------------------------------------------
(* The n words of memory m from read pointer r on, as a sequence. *)
Window(m, r, n) == [i \in 1 .. n |-> m[Addr(Wrap(r + i - 1))]]

Memories == [0 .. Depth - 1 -> Data]

LEMMA WindowType ==
  ASSUME NEW m \in Memories, NEW r \in Pointers, NEW n \in 0 .. Depth
  PROVE  /\ Window(m, r, n) \in Seq(Data)
         /\ Len(Window(m, r, n)) = n
         /\ \A i \in 1 .. n : Window(m, r, n)[i] = m[Addr(Wrap(r + i - 1))]
<1>1. \A i \in 1 .. n : Addr(Wrap(r + i - 1)) \in 0 .. Depth - 1
  BY DEF Pointers, Wrap, Addr
<1>2. \A i \in 1 .. n : m[Addr(Wrap(r + i - 1))] \in Data
  BY <1>1 DEF Memories
<1>3. Window(m, r, n) \in Seq(Data)
  BY <1>2 DEF Window
<1> QED BY <1>3 DEF Window

(* Writing one word at the write pointer appends it. *)
LEMMA WindowPush ==
  ASSUME NEW m \in Memories, NEW r \in Pointers, NEW n \in 0 .. Depth - 1,
         NEW d \in Data
  PROVE  Window([m EXCEPT ![Addr(Wrap(r + n))] = d], r, n + 1)
           = Append(Window(m, r, n), d)
<1> DEFINE w == Addr(Wrap(r + n))
           mm == [m EXCEPT ![w] = d]
<1>1. w \in 0 .. Depth - 1 /\ mm \in Memories
  BY DEF Memories, Pointers, Wrap, Addr
<1>2. mm[w] = d /\ \A a \in 0 .. Depth - 1 : a # w => mm[a] = m[a]
  BY <1>1 DEF Memories
<1>3. \A i \in 1 .. n : /\ Addr(Wrap(r + i - 1)) \in 0 .. Depth - 1
                        /\ Addr(Wrap(r + i - 1)) # w
  BY DEF Pointers, Wrap, Addr
<1> HIDE DEF w, mm
<1>4. /\ Window(mm, r, n + 1) \in Seq(Data)
      /\ Len(Window(mm, r, n + 1)) = n + 1
      /\ \A i \in 1 .. n + 1 : Window(mm, r, n + 1)[i] = mm[Addr(Wrap(r + i - 1))]
  BY <1>1, WindowType
<1>5. /\ Append(Window(m, r, n), d) \in Seq(Data)
      /\ Len(Append(Window(m, r, n), d)) = n + 1
      /\ \A i \in 1 .. n : Append(Window(m, r, n), d)[i] = m[Addr(Wrap(r + i - 1))]
      /\ Append(Window(m, r, n), d)[n + 1] = d
  <2>1. /\ Window(m, r, n) \in Seq(Data)
        /\ Len(Window(m, r, n)) = n
        /\ \A i \in 1 .. n : Window(m, r, n)[i] = m[Addr(Wrap(r + i - 1))]
    <3>1. n \in 0 .. Depth
      OBVIOUS
    <3> QED BY <3>1, WindowType
  <2> QED BY <2>1
<1>6. \A i \in 1 .. n : mm[Addr(Wrap(r + i - 1))] = m[Addr(Wrap(r + i - 1))]
  BY <1>2, <1>3
<1>7. mm[Addr(Wrap(r + (n + 1) - 1))] = d
  <2>1. r + (n + 1) - 1 = r + n
    BY DEF Pointers
  <2> QED BY <1>2, <2>1 DEF w
<1>8. \A i \in 1 .. n + 1 : Window(mm, r, n + 1)[i] = Append(Window(m, r, n), d)[i]
  <2> SUFFICES ASSUME NEW i \in 1 .. n + 1
               PROVE  Window(mm, r, n + 1)[i] = Append(Window(m, r, n), d)[i]
    BY Zenon
  <2>1. CASE i = n + 1
    BY <2>1, <1>4, <1>5, <1>7
  <2>2. CASE i \in 1 .. n
    BY <2>2, <1>4, <1>5, <1>6
  <2>3. i = n + 1 \/ i \in 1 .. n
    OBVIOUS
  <2> QED BY <2>1, <2>2, <2>3, Zenon
<1>9. Window(mm, r, n + 1) = Append(Window(m, r, n), d)
  <2> DEFINE s == Window(mm, r, n + 1)
             t == Append(Window(m, r, n), d)
  <2>1. s \in Seq(Data) /\ t \in Seq(Data) /\ Len(s) = Len(t)
    BY <1>4, <1>5
  <2>2. \A i \in 1 .. Len(s) : s[i] = t[i]
    BY <1>4, <1>8, Zenon
  <2> HIDE DEF s, t
  <2>3. s = t
    BY <2>1, <2>2, SameWords
  <2> QED BY <2>3 DEF s, t
<1> QED BY <1>9, Zenon DEF w, mm

(* Advancing the read pointer removes the first word. *)
LEMMA WindowPop ==
  ASSUME NEW m \in Memories, NEW r \in Pointers, NEW n \in 1 .. Depth
  PROVE  /\ Window(m, r, n) # <<>>
         /\ Head(Window(m, r, n)) = m[Addr(r)]
         /\ Window(m, Inc(r), n - 1) = Tail(Window(m, r, n))
<1>0. n \in 0 .. Depth
  OBVIOUS
<1>1. /\ Window(m, r, n) \in Seq(Data)
      /\ Len(Window(m, r, n)) = n
      /\ \A i \in 1 .. n : Window(m, r, n)[i] = m[Addr(Wrap(r + i - 1))]
  BY <1>0, WindowType, Zenon
<1>2. Window(m, r, n) # <<>>
  BY <1>1
<1>3. Head(Window(m, r, n)) = m[Addr(r)]
  <2>1. Head(Window(m, r, n)) = Window(m, r, n)[1]
    BY <1>1, <1>2
  <2>2. Wrap(r + 1 - 1) = r
    BY DEF Wrap, Pointers
  <2>3. Window(m, r, n)[1] = m[Addr(Wrap(r + 1 - 1))]
    BY <1>1
  <2> QED BY <2>1, <2>2, <2>3
<1>4. Inc(r) \in Pointers /\ n - 1 \in 0 .. Depth
  BY IncType
<1>5. /\ Window(m, Inc(r), n - 1) \in Seq(Data)
      /\ Len(Window(m, Inc(r), n - 1)) = n - 1
      /\ \A i \in 1 .. n - 1 : Window(m, Inc(r), n - 1)[i] = m[Addr(Wrap(Inc(r) + i - 1))]
  BY <1>4, WindowType, Zenon
<1>6. /\ Tail(Window(m, r, n)) \in Seq(Data)
      /\ Len(Tail(Window(m, r, n))) = n - 1
      /\ \A i \in 1 .. n - 1 : Tail(Window(m, r, n))[i] = Window(m, r, n)[i + 1]
  BY <1>1, <1>2
<1>7. \A i \in 1 .. n - 1 : Wrap(Inc(r) + i - 1) = Wrap(r + (i + 1) - 1)
  BY DEF Pointers, Wrap, Inc
<1>8. \A i \in 1 .. n - 1 : Window(m, Inc(r), n - 1)[i] = Tail(Window(m, r, n))[i]
  <2> DEFINE w == Window(m, r, n)
             v == Window(m, Inc(r), n - 1)
  <2> HIDE DEF w, v
  <2> SUFFICES ASSUME NEW i \in 1 .. n - 1 PROVE v[i] = Tail(w)[i]
    BY Zenon DEF w, v
  <2>1. i + 1 \in 1 .. n
    OBVIOUS
  <2>2. v[i] = m[Addr(Wrap(Inc(r) + i - 1))]
    BY ONLY <1>5, i \in 1 .. n - 1, Zenon DEF v
  <2>3. Tail(w)[i] = w[i + 1]
    BY ONLY <1>6, i \in 1 .. n - 1, Zenon DEF w
  <2>4. w[i + 1] = m[Addr(Wrap(r + (i + 1) - 1))]
    BY ONLY <1>1, <2>1, Zenon DEF w
  <2>5. Wrap(Inc(r) + i - 1) = Wrap(r + (i + 1) - 1)
    BY ONLY <1>7, i \in 1 .. n - 1, Zenon
  <2> QED BY ONLY <2>2, <2>3, <2>4, <2>5, Zenon
<1>9. Window(m, Inc(r), n - 1) = Tail(Window(m, r, n))
  BY <1>5, <1>6, <1>8, SameWords
<1> QED BY <1>2, <1>3, <1>9

LEMMA AheadInc ==
  ASSUME NEW a \in Pointers, NEW b \in Pointers
  PROVE  /\ Ahead(a, b) < Depth => Ahead(a, Inc(b)) = Ahead(a, b) + 1
         /\ Ahead(a, b) \in 1 .. Depth => Ahead(Inc(a), b) = Ahead(a, b) - 1
         /\ Ahead(a, b) \in 1 .. Depth - 1 => Ahead(Inc(a), Inc(b)) = Ahead(a, b)
  BY SMTT(30) DEF Pointers, Ahead, Inc

LEMMA AheadWrap ==
  ASSUME NEW r \in Pointers, NEW w \in Pointers, Ahead(r, w) <= Depth
  PROVE  Ahead(r, w) \in 0 .. Depth /\ w = Wrap(r + Ahead(r, w))
  BY DEF Pointers, Ahead, Wrap

(* The words between a read and a write pointer of one ring, and how a write,  *)
(* a read, and both on one edge show in them.                                  *)
Between(m, r, w) == Window(m, r, Ahead(r, w))

LEMMA RingPush ==
  ASSUME NEW m \in Memories, NEW r \in Pointers, NEW w \in Pointers, NEW d \in Data, Ahead(r, w) < Depth
  PROVE  /\ Len(Between(m, r, w)) < Depth
         /\ Between([m EXCEPT ![Addr(w)] = d], r, Inc(w)) = Append(Between(m, r, w), d)
<1> DEFINE n == Ahead(r, w)
<1>1. n \in 0 .. Depth - 1 /\ n \in 0 .. Depth /\ w = Wrap(r + n) BY AheadWrap, AheadType, SMTT(30)
<1>2. Ahead(r, Inc(w)) = n + 1 BY AheadInc
<1> HIDE DEF n
<1>3. Window([m EXCEPT ![Addr(w)] = d], r, n + 1) = Append(Window(m, r, n), d) BY <1>1, WindowPush, Zenon
<1>4. Len(Window(m, r, n)) = n BY <1>1, WindowType
<1>5. Len(Window(m, r, n)) < Depth BY <1>1, <1>4
<1> QED BY <1>2, <1>3, <1>5, Zenon DEF Between, n

LEMMA RingPop ==
  ASSUME NEW m \in Memories, NEW r \in Pointers, NEW w \in Pointers, Ahead(r, w) \in 1 .. Depth
  PROVE  /\ Between(m, r, w) # <<>> /\ Head(Between(m, r, w)) = m[Addr(r)]
         /\ Between(m, Inc(r), w) = Tail(Between(m, r, w))
<1> DEFINE n == Ahead(r, w)
<1>1. Ahead(Inc(r), w) = n - 1 BY AheadInc
<1>2. n \in 1 .. Depth OBVIOUS
<1> HIDE DEF n
<1>3. /\ Window(m, r, n) # <<>> /\ Head(Window(m, r, n)) = m[Addr(r)]
      /\ Window(m, Inc(r), n - 1) = Tail(Window(m, r, n))
  BY <1>2, WindowPop
<1> QED BY <1>1, <1>3 DEF Between, n

LEMMA RingPushPop ==
  ASSUME NEW m \in Memories, NEW r \in Pointers, NEW w \in Pointers, NEW d \in Data, Ahead(r, w) \in 1 .. Depth - 1
  PROVE  /\ Between(m, r, w) # <<>> /\ Head(Between(m, r, w)) = m[Addr(r)]
         /\ Len(Between(m, r, w)) <= Depth
         /\ Between([m EXCEPT ![Addr(w)] = d], Inc(r), Inc(w)) = Append(Tail(Between(m, r, w)), d)
<1> DEFINE n == Ahead(r, w)
           mm == [m EXCEPT ![Addr(w)] = d]
<1>1. /\ n \in 1 .. Depth /\ n \in 0 .. Depth - 1 /\ n + 1 \in 1 .. Depth /\ n \in 0 .. Depth
      /\ w = Wrap(r + n)
  BY AheadWrap
<1>2. Ahead(Inc(r), Inc(w)) = n BY AheadInc
<1>3. mm \in Memories BY AddrType DEF Memories
<1> HIDE DEF n
<1>4. Window(mm, r, n + 1) = Append(Window(m, r, n), d) BY <1>1, WindowPush, Zenon
<1> HIDE DEF mm
<1>5. Window(mm, Inc(r), (n + 1) - 1) = Tail(Window(mm, r, n + 1)) BY <1>1, <1>3, WindowPop
<1>6. (n + 1) - 1 = n BY <1>1
<1>7. Window(m, r, n) \in Seq(Data) /\ Len(Window(m, r, n)) = n BY <1>1, WindowType
<1>8. Window(m, r, n) # <<>> /\ Head(Window(m, r, n)) = m[Addr(r)] BY <1>1, WindowPop
<1>9. Len(Window(m, r, n)) <= Depth BY <1>1, <1>7
<1>10. Tail(Append(Window(m, r, n), d)) = Append(Tail(Window(m, r, n)), d) BY <1>7, <1>8
<1> QED BY <1>2, <1>4, <1>5, <1>6, <1>8, <1>9, <1>10, Zenon DEF Between, n, mm
-------------------------------------------------------------------------------
(* The abstract FIFO's contents, and how each side's move shows in them. *)
LEMMA ContentsBetween == Contents = Between(mem, m_bin, s_bin)
  BY DEF Contents, Window, Between, Occupancy

LEMMA OccupancyFacts ==
  ASSUME IInv
  PROVE  /\ mem \in Memories /\ m_bin \in Pointers /\ s_bin \in Pointers
         /\ Occupancy \in 0 .. Depth
         /\ s_bin = Wrap(m_bin + Occupancy)
         /\ ~s_full => Occupancy < Depth
         /\ ~m_empty => Occupancy > 0
<1>1. /\ s_m2 \in Pointers /\ s_m1 \in Pointers /\ m_bin \in Pointers
      /\ m_s2 \in Pointers /\ m_s1 \in Pointers /\ s_bin \in Pointers
  BY PointersInOrder
<1>2. InOrder(s_m2, s_m1, m_bin, m_s2, m_s1, s_bin)
  BY PointersInOrder
<1>3. mem \in Memories
  BY DEF IInv, TypeOK, Memories
<1>4. Occupancy \in 0 .. Depth /\ s_bin = Wrap(m_bin + Occupancy)
  BY <1>1, <1>2, SMTT(30) DEF InOrder, Pointers, Ahead, Occupancy, Wrap
<1>5. Ahead(s_m2, s_bin) < Depth => Occupancy < Depth
  BY <1>1, <1>2, SMTT(30) DEF InOrder, Pointers, Ahead, Occupancy
<1>6. m_bin # m_s2 => Occupancy > 0
  BY <1>1, <1>2, SMTT(30) DEF InOrder, Pointers, Ahead, Occupancy
<1> QED BY <1>1, <1>3, <1>4, <1>5, <1>6 DEF IInv, FlagsSafe

LEMMA PushMaps ==
  ASSUME IInv, NEW d \in Data, ~s_full, s_bin' = Inc(s_bin), m_bin' = m_bin,
         mem' = [mem EXCEPT ![Addr(s_bin)] = d]
  PROVE  Len(Contents) < Depth /\ Contents' = Append(Contents, d)
<1>1. mem \in Memories /\ m_bin \in Pointers /\ s_bin \in Pointers /\ Ahead(m_bin, s_bin) < Depth
  BY OccupancyFacts DEF Occupancy
<1>2. Contents' = Between(mem', m_bin', s_bin') BY DEF Contents, Window, Between, Occupancy
<1> QED BY <1>1, <1>2, ContentsBetween, RingPush, Zenon

LEMMA PopMaps ==
  ASSUME IInv, ~m_empty, s_bin' = s_bin, m_bin' = Inc(m_bin), mem' = mem
  PROVE  /\ Contents # <<>> /\ Head(Contents) = mem[Addr(m_bin)]
         /\ Contents' = Tail(Contents)
<1>1. mem \in Memories /\ m_bin \in Pointers /\ s_bin \in Pointers /\ Ahead(m_bin, s_bin) \in 1 .. Depth
  BY OccupancyFacts DEF Occupancy
<1>2. Contents' = Between(mem', m_bin', s_bin') BY DEF Contents, Window, Between, Occupancy
<1> QED BY <1>1, <1>2, ContentsBetween, RingPop

LEMMA PushPopMaps ==
  ASSUME IInv, NEW d \in Data, ~s_full, ~m_empty, s_bin' = Inc(s_bin),
         m_bin' = Inc(m_bin), mem' = [mem EXCEPT ![Addr(s_bin)] = d]
  PROVE  /\ Contents # <<>> /\ Head(Contents) = mem[Addr(m_bin)]
         /\ Len(Contents) <= Depth /\ Contents' = Append(Tail(Contents), d)
<1>1. mem \in Memories /\ m_bin \in Pointers /\ s_bin \in Pointers /\ Ahead(m_bin, s_bin) \in 1 .. Depth - 1
  BY OccupancyFacts, SMTT(30) DEF Occupancy
<1>2. Contents' = Between(mem', m_bin', s_bin') BY DEF Contents, Window, Between, Occupancy
<1> QED BY <1>1, <1>2, ContentsBetween, RingPushPop, Zenon

LEMMA SClockMaps ==
  ASSUME IInv, NEW valid \in BOOLEAN, NEW d \in Data, SClock(valid, d)
  PROVE  Abstract!Push(d) \/ UNCHANGED <<Contents, delivered>>
<1>1. CASE SPush(valid)
  <2>1. /\ ~s_full /\ s_bin' = Inc(s_bin) /\ m_bin' = m_bin
        /\ mem' = [mem EXCEPT ![Addr(s_bin)] = d] /\ delivered' = delivered
    BY <1>1 DEF SClock, SEdge, SBinNext, SPush, mVars
  <2> QED BY <2>1, PushMaps, Zenon DEF Abstract!Push
<1>2. CASE ~SPush(valid)
  <2>1. s_bin' = s_bin /\ m_bin' = m_bin /\ mem' = mem /\ delivered' = delivered
    BY <1>2 DEF SClock, SEdge, SBinNext, mVars
  <2> QED BY <2>1 DEF Contents, Occupancy
<1> QED BY <1>1, <1>2

LEMMA MClockMaps ==
  ASSUME IInv, NEW ready \in BOOLEAN, MClock(ready)
  PROVE  Abstract!Pop \/ UNCHANGED <<Contents, delivered>>
<1>1. CASE MPop(ready)
  <2>1. /\ ~m_empty /\ m_bin' = Inc(m_bin) /\ s_bin' = s_bin /\ mem' = mem
        /\ delivered' = mem[Addr(m_bin)]
    BY <1>1 DEF MClock, MEdge, MBinNext, MPop, sVars
  <2> QED BY <2>1, PopMaps DEF Abstract!Pop
<1>2. CASE ~MPop(ready)
  <2>1. s_bin' = s_bin /\ m_bin' = m_bin /\ mem' = mem /\ delivered' = delivered
    BY <1>2 DEF MClock, MEdge, MBinNext, sVars
  <2> QED BY <2>1 DEF Contents, Occupancy
<1> QED BY <1>1, <1>2

LEMMA BothClocksMaps ==
  ASSUME IInv, NEW valid \in BOOLEAN, NEW d \in Data, NEW ready \in BOOLEAN,
         BothClocks(valid, d, ready)
  PROVE  \/ Abstract!Push(d) \/ Abstract!Pop \/ Abstract!PushPop(d)
         \/ UNCHANGED <<Contents, delivered>>
<1>1. /\ s_bin' = SBinNext(valid) /\ m_bin' = MBinNext(ready)
      /\ mem' = IF SPush(valid) THEN [mem EXCEPT ![Addr(s_bin)] = d] ELSE mem
      /\ delivered' = IF MPop(ready) THEN mem[Addr(m_bin)] ELSE delivered
  BY DEF BothClocks, SEdge, MEdge
<1>2. CASE SPush(valid) /\ MPop(ready)
  <2>1. /\ ~s_full /\ ~m_empty /\ s_bin' = Inc(s_bin) /\ m_bin' = Inc(m_bin)
        /\ mem' = [mem EXCEPT ![Addr(s_bin)] = d] /\ delivered' = mem[Addr(m_bin)]
    BY <1>1, <1>2 DEF SBinNext, MBinNext, SPush, MPop
  <2> QED BY <2>1, PushPopMaps, Zenon DEF Abstract!PushPop
<1>3. CASE SPush(valid) /\ ~MPop(ready)
  <2>1. /\ ~s_full /\ s_bin' = Inc(s_bin) /\ m_bin' = m_bin
        /\ mem' = [mem EXCEPT ![Addr(s_bin)] = d] /\ delivered' = delivered
    BY <1>1, <1>3 DEF SBinNext, MBinNext, SPush
  <2> QED BY <2>1, PushMaps, Zenon DEF Abstract!Push
<1>4. CASE ~SPush(valid) /\ MPop(ready)
  <2>1. /\ ~m_empty /\ m_bin' = Inc(m_bin) /\ s_bin' = s_bin /\ mem' = mem
        /\ delivered' = mem[Addr(m_bin)]
    BY <1>1, <1>4 DEF SBinNext, MBinNext, MPop
  <2> QED BY <2>1, PopMaps DEF Abstract!Pop
<1>5. CASE ~SPush(valid) /\ ~MPop(ready)
  <2>1. s_bin' = s_bin /\ m_bin' = m_bin /\ mem' = mem /\ delivered' = delivered
    BY <1>1, <1>5 DEF SBinNext, MBinNext
  <2> QED BY <2>1 DEF Contents, Occupancy
<1> QED BY <1>2, <1>3, <1>4, <1>5

(* Equal pointers mean an empty FIFO. *)
LEMMA EmptyContents ==
  ASSUME NEW m, NEW r \in Pointers
  PROVE  Ahead(r, r) = 0 /\ Window(m, r, 0) = <<>>
  BY DEF Ahead, Pointers, Window

LEMMA NextMaps == IInv /\ [Next]_vars => [Abstract!Next]_<<Contents, delivered>>
<1> SUFFICES ASSUME IInv, [Next]_vars
             PROVE  Abstract!Next \/ UNCHANGED <<Contents, delivered>>
  OBVIOUS
<1>1. CASE \E valid \in BOOLEAN, d \in Data : SClock(valid, d)
  BY <1>1, SClockMaps DEF Abstract!Next
<1>2. CASE \E ready \in BOOLEAN : MClock(ready)
  BY <1>2, MClockMaps DEF Abstract!Next
<1>3. CASE \E valid, ready \in BOOLEAN, d \in Data : BothClocks(valid, d, ready)
  BY <1>3, BothClocksMaps DEF Abstract!Next
<1>4. CASE Reset
  <2>1. m_bin' = 0 /\ s_bin' = 0 /\ delivered' = delivered
    BY <1>4 DEF Reset
  <2>2. Contents' = <<>>
    <3>1. Occupancy' = 0
      BY <2>1, PointersAreNat, EmptyContents DEF Occupancy
    <3> QED BY <3>1 DEF Contents
  <2> QED BY <2>1, <2>2 DEF Abstract!Next, Abstract!Flush
<1>5. CASE LeaveResetS \/ LeaveResetM \/ UNCHANGED vars
  <2>1. s_bin' = s_bin /\ m_bin' = m_bin /\ mem' = mem /\ delivered' = delivered
    BY <1>5 DEF LeaveResetS, LeaveResetM, vars, sVars, mVars
  <2> QED BY <2>1 DEF Contents, Occupancy
<1> QED BY <1>1, <1>2, <1>3, <1>4, <1>5 DEF Next

LEMMA InitMaps == Init => Abstract!Init
<1> SUFFICES ASSUME Init PROVE Abstract!Init
  OBVIOUS
<1>1. Occupancy = 0
  BY PointersAreNat, EmptyContents DEF Init, Occupancy
<1>2. Contents = <<>>
  BY <1>1 DEF Contents
<1> QED BY <1>2 DEF Init, Abstract!Init

(* For every depth and every set of words, axis_async_fifo implements the    *)
(* abstract FIFO: every word written is read once, unchanged and in order,   *)
(* unless a reset flushes it.                                                *)
THEOREM FifoRefinement == Spec => ImplementsFifo
<1> QED BY InitMaps, NextMaps, FifoInvariant, PTL DEF Spec, ImplementsFifo, Abstract!Spec
-------------------------------------------------------------------------------
(* The single-clock buffers: the two pointers of axis_fifo are at most Depth   *)
(* apart.                                                                      *)
SyncInv ==
  /\ fifo_mem \in Memories /\ wr_ptr \in Pointers /\ rd_ptr \in Pointers /\ Ahead(rd_ptr, wr_ptr) <= Depth
  /\ data_reg \in Data /\ valid_reg \in BOOLEAN

LEMMA SyncRing == Sync!Inc(wr_ptr) = Inc(wr_ptr) /\ Sync!Inc(rd_ptr) = Inc(rd_ptr)
                  /\ Sync!Addr(wr_ptr) = Addr(wr_ptr) /\ Sync!Addr(rd_ptr) = Addr(rd_ptr)
  BY DEF Sync!Inc, Sync!Addr, Inc, Addr

(* full is exact: the pointers differ in their top bit alone when they are     *)
(* Depth apart.                                                                *)
LEMMA FullExact ==
  ASSUME wr_ptr \in Pointers, rd_ptr \in Pointers
  PROVE  /\ Sync!full <=> Ahead(rd_ptr, wr_ptr) = Depth
         /\ Sync!empty <=> Ahead(rd_ptr, wr_ptr) = 0
<1>1. (wr_ptr >= Depth) # (rd_ptr >= Depth) <=> (wr_ptr >= Depth /\ rd_ptr < Depth) \/ (wr_ptr < Depth /\ rd_ptr >= Depth)
  BY DEF Pointers
<1>2. Sync!full <=> Addr(wr_ptr) = Addr(rd_ptr) /\ ((wr_ptr >= Depth /\ rd_ptr < Depth) \/ (wr_ptr < Depth /\ rd_ptr >= Depth))
  BY <1>1, SyncRing DEF Sync!full
<1>3. Addr(wr_ptr) = Addr(rd_ptr) /\ ((wr_ptr >= Depth /\ rd_ptr < Depth) \/ (wr_ptr < Depth /\ rd_ptr >= Depth))
      <=> Ahead(rd_ptr, wr_ptr) = Depth
  BY DEF Addr, Ahead, Pointers
<1>4. Sync!empty <=> Ahead(rd_ptr, wr_ptr) = 0 BY DEF Sync!empty, Ahead, Pointers
<1> QED BY <1>2, <1>3, <1>4

(* An edge of axis_fifo, in terms of the ring. *)
LEMMA FifoEdge ==
  ASSUME SyncInv, NEW v \in BOOLEAN, NEW d \in Data, NEW r \in BOOLEAN, Sync!FifoClock(v, d, r)
  PROVE  LET push == v /\ Ahead(rd_ptr, wr_ptr) < Depth
             pop == r /\ Ahead(rd_ptr, wr_ptr) \in 1 .. Depth
         IN  /\ fifo_mem' = (IF push THEN [fifo_mem EXCEPT ![Addr(wr_ptr)] = d] ELSE fifo_mem)
             /\ wr_ptr' = (IF push THEN Inc(wr_ptr) ELSE wr_ptr)
             /\ rd_ptr' = (IF pop THEN Inc(rd_ptr) ELSE rd_ptr)
             /\ fifoOut' = (IF pop THEN fifo_mem[Addr(rd_ptr)] ELSE fifoOut)
             /\ UNCHANGED <<data_reg, valid_reg, skidOut>>
<1>1. Ahead(rd_ptr, wr_ptr) \in 0 .. Depth BY AheadWrap DEF SyncInv
<1>2. (~Sync!full <=> Ahead(rd_ptr, wr_ptr) < Depth) /\ (~Sync!empty <=> Ahead(rd_ptr, wr_ptr) \in 1 .. Depth)
  BY <1>1, FullExact DEF SyncInv
<1> QED BY <1>2, SyncRing DEF Sync!FifoClock, Sync!skidVars

LEMMA SyncStep == SyncInv /\ [Sync!Next]_syncVars => SyncInv'
<1> SUFFICES ASSUME SyncInv, [Sync!Next]_syncVars PROVE SyncInv' OBVIOUS
<1>1. ASSUME NEW v \in BOOLEAN, NEW d \in Data, NEW r \in BOOLEAN, Sync!FifoClock(v, d, r) PROVE SyncInv'
  <2> DEFINE n == Ahead(rd_ptr, wr_ptr)
             push == v /\ n < Depth
             pop == r /\ n \in 1 .. Depth
  <2>1. /\ fifo_mem' = (IF push THEN [fifo_mem EXCEPT ![Addr(wr_ptr)] = d] ELSE fifo_mem)
        /\ wr_ptr' = (IF push THEN Inc(wr_ptr) ELSE wr_ptr)
        /\ rd_ptr' = (IF pop THEN Inc(rd_ptr) ELSE rd_ptr)
        /\ UNCHANGED <<data_reg, valid_reg>>
    BY <1>1, FifoEdge
  <2>2. n \in 0 .. Depth BY AheadWrap DEF SyncInv
  <2>3. wr_ptr' \in Pointers /\ rd_ptr' \in Pointers /\ fifo_mem' \in Memories
    BY <2>1, IncType, AddrType DEF SyncInv, Memories
  <2>4. push /\ ~pop => Ahead(rd_ptr, Inc(wr_ptr)) = n + 1 BY AheadInc DEF SyncInv
  <2>5. ~push /\ pop => Ahead(Inc(rd_ptr), wr_ptr) = n - 1 BY AheadInc DEF SyncInv
  <2>6. push /\ pop => Ahead(Inc(rd_ptr), Inc(wr_ptr)) = n
    <3>1. push /\ pop => n \in 1 .. Depth - 1 BY <2>2
    <3> QED BY <3>1, AheadInc DEF SyncInv
  <2>7. Ahead(rd_ptr', wr_ptr') <= Depth BY <2>1, <2>2, <2>4, <2>5, <2>6, SMTT(30)
  <2> QED BY <2>1, <2>3, <2>7 DEF SyncInv
<1>2. ASSUME NEW v \in BOOLEAN, NEW d \in Data, NEW r \in BOOLEAN, Sync!SkidClock(v, d, r) PROVE SyncInv'
  BY <1>2 DEF SyncInv, Sync!SkidClock, Sync!s_ready, Sync!fifoVars
<1>3. CASE Sync!FifoReset
  <2>1. Ahead(0, 0) = 0 BY DEF Ahead
  <2> QED BY <1>3, <2>1, PointersAreNat DEF SyncInv, Sync!FifoReset, Sync!skidVars
<1>4. CASE Sync!SkidReset BY <1>4, Zenon DEF SyncInv, Sync!SkidReset, Sync!fifoVars
<1>5. CASE UNCHANGED syncVars BY <1>5 DEF SyncInv, syncVars
<1> QED BY <1>1, <1>2, <1>3, <1>4, <1>5 DEF Sync!Next

(* What a step of the buffers is for the abstract FIFOs. *)
LEMMA FifoContentsBetween == Sync!FifoContents = Between(fifo_mem, rd_ptr, wr_ptr)
  BY DEF Sync!FifoContents, Sync!Occupancy, Sync!Addr, Sync!Wrap, Between, Window, Ahead, Addr, Wrap

LEMMA FifoMaps ==
  ASSUME SyncInv, [Sync!Next]_syncVars
  PROVE  Sync!Fifo!Next \/ UNCHANGED <<Sync!FifoContents, fifoOut>>
<1> DEFINE q == Sync!FifoContents
<1>0. /\ q = Between(fifo_mem, rd_ptr, wr_ptr) /\ q' = Between(fifo_mem', rd_ptr', wr_ptr')
  BY FifoContentsBetween, Zenon
     DEF Sync!FifoContents, Sync!Occupancy, Sync!Addr, Sync!Wrap, Between, Window, Ahead, Addr, Wrap
<1>1. ASSUME NEW v \in BOOLEAN, NEW d \in Data, NEW r \in BOOLEAN, Sync!FifoClock(v, d, r)
      PROVE  Sync!Fifo!Next \/ UNCHANGED <<q, fifoOut>>
  <2> DEFINE n == Ahead(rd_ptr, wr_ptr)
             push == v /\ n < Depth
             pop == r /\ n \in 1 .. Depth
  <2>1. /\ fifo_mem' = (IF push THEN [fifo_mem EXCEPT ![Addr(wr_ptr)] = d] ELSE fifo_mem)
        /\ wr_ptr' = (IF push THEN Inc(wr_ptr) ELSE wr_ptr)
        /\ rd_ptr' = (IF pop THEN Inc(rd_ptr) ELSE rd_ptr)
        /\ fifoOut' = (IF pop THEN fifo_mem[Addr(rd_ptr)] ELSE fifoOut)
    BY <1>1, FifoEdge
  <2>2. /\ n \in 0 .. Depth /\ fifo_mem \in Memories /\ rd_ptr \in Pointers /\ wr_ptr \in Pointers
    BY AheadWrap DEF SyncInv
  <2> HIDE DEF q
  <2>3. CASE push /\ pop
    <3>1. n \in 1 .. Depth - 1 BY <2>2, <2>3
    <3>2. q # <<>> /\ fifoOut' = Head(q) /\ Len(q) <= Depth /\ q' = Append(Tail(q), d)
      BY <1>0, <2>1, <2>2, <2>3, <3>1, RingPushPop, Zenon
    <3> QED BY <3>2 DEF Sync!Fifo!Next, Sync!Fifo!PushPop, q
  <2>4. CASE push /\ ~pop
    <3>1. Len(q) < Depth /\ q' = Append(q, d) /\ fifoOut' = fifoOut
      BY <1>0, <2>1, <2>2, <2>4, RingPush, Zenon
    <3> QED BY <3>1 DEF Sync!Fifo!Next, Sync!Fifo!Push, q
  <2>5. CASE ~push /\ pop
    <3>1. q # <<>> /\ fifoOut' = Head(q) /\ q' = Tail(q)
      BY <1>0, <2>1, <2>2, <2>5, RingPop
    <3> QED BY <3>1 DEF Sync!Fifo!Next, Sync!Fifo!Pop, q
  <2>6. CASE ~push /\ ~pop BY <1>0, <2>1, <2>6
  <2> QED BY <2>3, <2>4, <2>5, <2>6
<1>2. CASE Sync!FifoReset
  <2>1. wr_ptr' = 0 /\ rd_ptr' = 0 /\ fifoOut' = fifoOut BY <1>2 DEF Sync!FifoReset
  <2>2. q' = <<>> BY <1>0, <2>1, PointersAreNat, EmptyContents DEF Between
  <2> QED BY <2>1, <2>2 DEF Sync!Fifo!Next, Sync!Fifo!Flush
<1>3. ASSUME UNCHANGED <<fifo_mem, wr_ptr, rd_ptr, fifoOut>> PROVE UNCHANGED <<q, fifoOut>>
  BY <1>0, <1>3
<1>4. CASE \/ \E v, r \in BOOLEAN, d \in Data : Sync!SkidClock(v, d, r)
           \/ Sync!SkidReset \/ UNCHANGED syncVars
  <2>1. UNCHANGED <<fifo_mem, wr_ptr, rd_ptr, fifoOut>>
    BY <1>4 DEF Sync!SkidClock, Sync!SkidReset, Sync!fifoVars, syncVars
  <2> QED BY <1>3, <2>1
<1> QED BY <1>1, <1>2, <1>4 DEF Sync!Next

LEMMA SkidMaps ==
  ASSUME SyncInv, [Sync!Next]_syncVars
  PROVE  Sync!Skid!Next \/ UNCHANGED <<Sync!SkidContents, skidOut>>
<1> DEFINE q == Sync!SkidContents
<1>0. q = (IF valid_reg THEN <<data_reg>> ELSE <<>>) /\ q' = (IF valid_reg' THEN <<data_reg'>> ELSE <<>>)
  BY DEF Sync!SkidContents
<1> SUFFICES Sync!Skid!Next \/ UNCHANGED <<q, skidOut>> OBVIOUS
<1> HIDE DEF q
<1>1. ASSUME NEW v \in BOOLEAN, NEW d \in Data, NEW r \in BOOLEAN, Sync!SkidClock(v, d, r)
      PROVE  Sync!Skid!Next \/ UNCHANGED <<q, skidOut>>
  <2>1. /\ data_reg' = (IF ~valid_reg \/ r THEN d ELSE data_reg)
        /\ valid_reg' = (IF ~valid_reg \/ r THEN v ELSE valid_reg)
        /\ skidOut' = (IF valid_reg /\ r THEN data_reg ELSE skidOut)
    BY <1>1 DEF Sync!SkidClock, Sync!s_ready
  <2>2. CASE valid_reg /\ r /\ v
    <3>1. q = <<data_reg>> /\ q' = <<d>> /\ skidOut' = data_reg BY <1>0, <2>1, <2>2
    <3>2. q # <<>> /\ Len(q) <= 1 /\ skidOut' = Head(q) /\ q' = Append(Tail(q), d) BY <3>1
    <3> QED BY <3>2 DEF Sync!Skid!Next, Sync!Skid!PushPop, q
  <2>3. CASE valid_reg /\ r /\ ~v
    <3>1. q = <<data_reg>> /\ q' = <<>> /\ skidOut' = data_reg BY <1>0, <2>1, <2>3
    <3>2. q # <<>> /\ skidOut' = Head(q) /\ q' = Tail(q) BY <3>1
    <3> QED BY <3>2 DEF Sync!Skid!Next, Sync!Skid!Pop, q
  <2>4. CASE valid_reg /\ ~r BY <1>0, <2>1, <2>4
  <2>5. CASE ~valid_reg /\ v
    <3>1. q = <<>> /\ q' = <<d>> /\ skidOut' = skidOut BY <1>0, <2>1, <2>5
    <3>2. Len(q) < 1 /\ q' = Append(q, d) BY <3>1
    <3> QED BY <3>1, <3>2 DEF Sync!Skid!Next, Sync!Skid!Push, q
  <2>6. CASE ~valid_reg /\ ~v BY <1>0, <2>1, <2>6
  <2> QED BY <2>2, <2>3, <2>4, <2>5, <2>6
<1>2. CASE Sync!SkidReset
  <2>1. q' = <<>> /\ skidOut' = skidOut BY <1>0, <1>2 DEF Sync!SkidReset
  <2> QED BY <2>1 DEF Sync!Skid!Next, Sync!Skid!Flush, q
<1>3. ASSUME UNCHANGED <<valid_reg, data_reg, skidOut>> PROVE UNCHANGED <<q, skidOut>> BY <1>0, <1>3
<1>4. CASE \/ \E v, r \in BOOLEAN, d \in Data : Sync!FifoClock(v, d, r)
           \/ Sync!FifoReset \/ UNCHANGED syncVars
  <2>1. UNCHANGED <<valid_reg, data_reg, skidOut>>
    BY <1>4 DEF Sync!FifoClock, Sync!FifoReset, Sync!skidVars, syncVars
  <2> QED BY <1>3, <2>1
<1> QED BY <1>1, <1>2, <1>4 DEF Sync!Next

LEMMA SyncInitMaps == Sync!Init => SyncInv /\ Sync!Fifo!Init /\ Sync!Skid!Init
<1> SUFFICES ASSUME Sync!Init PROVE SyncInv /\ Sync!Fifo!Init /\ Sync!Skid!Init OBVIOUS
<1>1. Ahead(0, 0) = 0 BY DEF Ahead
<1>2. SyncInv
  <2>1. wr_ptr = 0 /\ rd_ptr = 0 /\ valid_reg = FALSE /\ data_reg \in Data /\ fifo_mem \in Memories
    BY DEF Sync!Init, Memories
  <2>2. Ahead(rd_ptr, wr_ptr) <= Depth BY <1>1, <2>1
  <2> QED BY <2>1, <2>2, PointersAreNat, Zenon DEF SyncInv
<1>3. Sync!FifoContents = <<>>
  BY PointersAreNat, EmptyContents, FifoContentsBetween DEF Sync!Init, Between
<1> QED BY <1>2, <1>3 DEF Sync!Init, Sync!Fifo!Init, Sync!Skid!Init, Sync!SkidContents

(* For every depth and every set of words, axis_fifo implements a FIFO of that *)
(* depth and skid_buffer a FIFO of one word: SyncImplements.                   *)
THEOREM SyncRefinement == BenchSpec => SyncImplements
<1>1. BenchInit => Sync!Init BY DEF BenchInit
<1>2. [BenchNext]_benchVars => [Sync!Next]_syncVars
  BY DEF BenchNext, benchVars, Async, OnSync, OnSpi, OnCsr
<1>3. SyncInv /\ [BenchNext]_benchVars => SyncInv' BY <1>2, SyncStep
<1>4. SyncInv /\ [BenchNext]_benchVars => [Sync!Fifo!Next]_<<Sync!FifoContents, fifoOut>>
  BY <1>2, FifoMaps
<1>5. SyncInv /\ [BenchNext]_benchVars => [Sync!Skid!Next]_<<Sync!SkidContents, skidOut>>
  BY <1>2, SkidMaps
<1> QED
  BY <1>1, <1>3, <1>4, <1>5, SyncInitMaps, PTL
     DEF BenchSpec, SyncImplements, Sync!FifoImplements, Sync!SkidImplements, Sync!Fifo!Spec, Sync!Skid!Spec
-------------------------------------------------------------------------------
(* The register path: SettingsCross holds in every reachable state, whatever   *)
(* the number of writes and however many ADC edges, at least two, fall between *)
(* two AXI edges.                                                              *)
THEOREM CsrSettingsCross == BenchSpec => []SettingsCross
<1>1. BenchInit => Csr!CsrInv BY RatioAssumption, Csr!CsrInit DEF BenchInit
<1>2. Csr!CsrInv /\ [BenchNext]_benchVars => Csr!CsrInv'
  <2>1. [BenchNext]_benchVars => Csr!Next \/ UNCHANGED csrVars
    BY DEF BenchNext, benchVars, Async, OnSync, OnSpi, OnCsr
  <2>2. UNCHANGED csrVars => UNCHANGED Csr!vars BY DEF csrVars, Csr!vars, Csr!axi, Csr!adc
  <2> QED BY <2>1, <2>2, Csr!CsrStep
<1>3. Csr!CsrInv => SettingsCross BY Csr!CsrCrosses DEF SettingsCross
<1> QED BY <1>1, <1>2, <1>3, PTL DEF BenchSpec
===============================================================================
