------------------------------ MODULE TcpFlush -------------------------------
(***************************************************************************)
(* modbus_flush over TCP: _modbus_tcp_flush takes what is unread piece by  *)
(* piece, counting in 16 bits, while the peer may go on sending.           *)
(***************************************************************************)
EXTENDS Integers

CONSTANTS
  UINT16_MAX,                 \* what rc_sum can count
  MODBUS_TCP_MAX_ADU_LENGTH,  \* the bytes that one recv takes at most
  MaxUnread                   \* bound: what the system keeps unread

ASSUME FlushAssumption ==
  /\ UINT16_MAX \in Nat /\ MODBUS_TCP_MAX_ADU_LENGTH \in Nat \ {0} /\ MaxUnread \in Nat
  /\ MODBUS_TCP_MAX_ADU_LENGTH <= UINT16_MAX

VARIABLES
  earlier,   \* the unread bytes that were there when the flush began
  later,     \* those that came since
  flushing,  \* a flush is in progress
  rc_sum,    \* the bytes it has counted
  taken,     \* history: the bytes it has taken, up to one more than rc_sum can count
  result     \* what the last flush has returned

vars == <<earlier, later, flushing, rc_sum, taken, result>>

Least(a, b) == IF a <= b THEN a ELSE b

Init ==
  /\ earlier = 0 /\ later \in 0..MaxUnread
  /\ flushing = FALSE /\ rc_sum = 0 /\ taken = 0 /\ result = 0

(* The peer sends. *)
Arrive ==
  /\ \E n \in 1..MaxUnread : earlier + later + n <= MaxUnread /\ later' = later + n
  /\ UNCHANGED <<earlier, flushing, rc_sum, taken, result>>

Flush ==
  /\ ~flushing
  /\ flushing' = TRUE /\ rc_sum' = 0 /\ taken' = 0
  /\ earlier' = earlier + later /\ later' = 0
  /\ UNCHANGED result

(* recv takes rc bytes; the unread are in order. *)
Take(rc) ==
  /\ rc = Least(earlier + later, MODBUS_TCP_MAX_ADU_LENGTH)
  /\ earlier' = earlier - Least(earlier, rc)
  /\ later' = later - (rc - Least(earlier, rc))
  /\ taken' = Least(taken + rc, UINT16_MAX + 1)

(* Seeded fault: the sum wraps. *)
Recv_Wraps(rc) ==
  /\ flushing /\ Take(rc)
  /\ rc_sum' = (rc_sum + rc) % (UINT16_MAX + 1)
  /\ flushing' = (rc = MODBUS_TCP_MAX_ADU_LENGTH)
  /\ result' = IF flushing' THEN result ELSE rc_sum'

(* Seeded fault: the loop ends with any piece. *)
Recv_Once(rc) ==
  /\ flushing /\ Take(rc)
  /\ rc_sum' = rc /\ result' = rc
  /\ flushing' = FALSE

(* Seeded fault: the overflow is noticed one byte too late. *)
Fits_OffByOne(rc) == rc_sum + rc <= UINT16_MAX + 1

Fits(rc) == rc_sum <= UINT16_MAX - rc

(* A piece; with less than a whole one, or none, nothing is left. *)
Recv(rc) ==
  /\ flushing /\ Take(rc) /\ Fits(rc)
  /\ rc_sum' = rc_sum + rc
  /\ flushing' = (rc = MODBUS_TCP_MAX_ADU_LENGTH)
  /\ result' = IF flushing' THEN result ELSE rc_sum'

(* EOVERFLOW: the piece is taken, and the flush ends. *)
Overflow(rc) ==
  /\ flushing /\ Take(rc) /\ ~Fits(rc)
  /\ flushing' = FALSE /\ result' = -1
  /\ UNCHANGED rc_sum

Step == \E rc \in 0..MODBUS_TCP_MAX_ADU_LENGTH : Recv(rc) \/ Overflow(rc)

Next == Arrive \/ Flush \/ Step

Spec == Init /\ [][Next]_vars

(* recv does not wait. *)
FairSpec == Spec /\ WF_vars(Step)

(***************************************************************************)
(* Properties.                                                             *)
(***************************************************************************)

TypeOK ==
  /\ earlier \in 0..MaxUnread /\ later \in 0..MaxUnread /\ earlier + later <= MaxUnread
  /\ flushing \in BOOLEAN
  /\ rc_sum \in 0..UINT16_MAX /\ taken \in 0..(UINT16_MAX + 1)
  /\ result \in -1..UINT16_MAX

(* A flush that does not report an overflow leaves nothing that was unread *)
(* when it was called, however fast the peer sends, and returns the number *)
(* of bytes it has taken (_modbus_tcp_flush).                              *)
Discards ==
  ~flushing /\ result # -1 => earlier = 0 /\ result = taken

(* The inductive invariant: while it goes on, the sum is what was taken.   *)
IInv ==
  /\ TypeOK
  /\ flushing => rc_sum = taken
  /\ Discards

(* Every flush ends: a peer that sends without a pause cannot keep the     *)
(* caller in it (_modbus_tcp_flush).                                       *)
FlushEnds == flushing ~> ~flushing
=============================================================================
