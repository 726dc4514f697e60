--------------------------- MODULE TcpFlush_proofs ---------------------------
(***************************************************************************)
(* For any width of the count and any size of the pieces: what a flush     *)
(* returns is what it has taken, and nothing earlier is left.              *)
(***************************************************************************)
EXTENDS TcpFlush, TLAPS

(* What a flush may return. *)
LEMMA Results == 0 \in -1..UINT16_MAX /\ -1 \in -1..UINT16_MAX /\ 0 \in 0..(UINT16_MAX + 1)
BY FlushAssumption

(* A piece is no more than recv takes, and what is left is no less than    *)
(* nothing; a piece that is not whole leaves nothing.                      *)
LEMMA Pieces ==
  ASSUME TypeOK, NEW rc \in 0..MODBUS_TCP_MAX_ADU_LENGTH, Take(rc)
  PROVE  /\ earlier' \in 0..MaxUnread /\ later' \in 0..MaxUnread
         /\ earlier' + later' <= MaxUnread
         /\ taken' \in 0..(UINT16_MAX + 1)
         /\ rc # MODBUS_TCP_MAX_ADU_LENGTH => earlier' = 0 /\ later' = 0
BY FlushAssumption DEF TypeOK, Take, Least

(* A piece is received. *)
LEMMA RecvInvariant ==
  ASSUME IInv, NEW rc \in 0..MODBUS_TCP_MAX_ADU_LENGTH, Recv(rc)
  PROVE  IInv'
<1>1. /\ earlier' \in 0..MaxUnread /\ later' \in 0..MaxUnread
      /\ earlier' + later' <= MaxUnread /\ taken' \in 0..(UINT16_MAX + 1)
      /\ rc # MODBUS_TCP_MAX_ADU_LENGTH => earlier' = 0 /\ later' = 0
  BY Pieces DEF IInv, Recv
<1>2. rc_sum' = rc_sum + rc /\ rc_sum' \in 0..UINT16_MAX /\ rc_sum = taken
  BY FlushAssumption DEF IInv, TypeOK, Recv, Fits
<1>3. taken' = rc_sum'
  BY <1>2, FlushAssumption DEF Recv, Take, Least, IInv, TypeOK
<1>4. flushing' \in BOOLEAN /\ result' \in -1..UINT16_MAX
  BY <1>2, FlushAssumption DEF Recv, IInv, TypeOK
<1>5. Discards'
  BY <1>1, <1>3 DEF Recv, Discards
<1> QED
  BY <1>1, <1>2, <1>3, <1>4, <1>5 DEF IInv, TypeOK

(* An overflow is reported. *)
LEMMA OverflowInvariant ==
  ASSUME IInv, NEW rc \in 0..MODBUS_TCP_MAX_ADU_LENGTH, Overflow(rc)
  PROVE  IInv'
<1>1. /\ earlier' \in 0..MaxUnread /\ later' \in 0..MaxUnread
      /\ earlier' + later' <= MaxUnread /\ taken' \in 0..(UINT16_MAX + 1)
  BY Pieces DEF IInv, Overflow
<1>2. flushing' = FALSE /\ result' = -1 /\ rc_sum' \in 0..UINT16_MAX
  BY DEF Overflow, IInv, TypeOK
<1>3. TypeOK'
  BY <1>1, <1>2, Results DEF TypeOK
<1>4. ~flushing' /\ Discards'
  BY <1>2 DEF Discards
<1> QED
  BY <1>3, <1>4 DEF IInv

(* The invariant of the flush. *)
THEOREM Invariance == Spec => []IInv
<1>1. Init => IInv
  <2> SUFFICES ASSUME Init PROVE IInv
    OBVIOUS
  <2>1. TypeOK
    <3>1. /\ earlier \in 0..MaxUnread /\ later \in 0..MaxUnread
          /\ earlier + later <= MaxUnread /\ rc_sum \in 0..UINT16_MAX
      BY FlushAssumption DEF Init
    <3>2. result \in -1..UINT16_MAX /\ taken \in 0..(UINT16_MAX + 1) /\ flushing \in BOOLEAN
      BY Results DEF Init
    <3> QED
      BY <3>1, <3>2 DEF TypeOK
  <2>2. rc_sum = taken /\ Discards
    BY DEF Init, Discards
  <2> QED
    BY <2>1, <2>2 DEF IInv
<1>2. IInv /\ [Next]_vars => IInv'
  <2> SUFFICES ASSUME IInv, [Next]_vars PROVE IInv'
    OBVIOUS
  <2>1. CASE Arrive
    <3>1. TypeOK'
      <4>1. later' \in 0..MaxUnread /\ earlier + later' <= MaxUnread
        BY <2>1, FlushAssumption DEF Arrive, IInv, TypeOK
      <4> QED
        BY <2>1, <4>1 DEF Arrive, IInv, TypeOK
    <3>2. (flushing' => rc_sum' = taken') /\ Discards'
      BY <2>1 DEF Arrive, IInv, Discards
    <3> QED
      BY <3>1, <3>2 DEF IInv
  <2>2. CASE Flush
    BY <2>2, FlushAssumption DEF Flush, IInv, TypeOK, Discards
  <2>3. CASE Step
    BY <2>3, RecvInvariant, OverflowInvariant DEF Step
  <2>4. CASE UNCHANGED vars
    BY <2>4 DEF vars, IInv, TypeOK, Discards
  <2> QED
    BY <2>1, <2>2, <2>3, <2>4 DEF Next
<1> QED
  BY <1>1, <1>2, PTL DEF Spec

(* A flush that reports no overflow leaves nothing that was unread when it *)
(* was called, and returns the number of bytes it has taken.               *)
THEOREM DiscardsAll == Spec => []Discards
<1>1. IInv => Discards
  BY DEF IInv
<1> QED
  BY <1>1, Invariance, PTL
=============================================================================
