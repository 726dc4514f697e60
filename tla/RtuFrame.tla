------------------------------ MODULE RtuFrame -------------------------------
(***************************************************************************)
(* A float on its way over a serial line: the application of the server    *)
(* puts it into two registers in one of four orders of its bytes, with one *)
(* of modbus_set_float_abcd to _cdab, the frame that answers a read of     *)
(* them gets its checksum (crc16, _modbus_rtu_send_msg_pre), the line may  *)
(* damage it, and the client checks it (_modbus_rtu_check_integrity) and   *)
(* takes the float out again.  A float is its four bytes, A first.         *)
(***************************************************************************)
EXTENDS CrcTables

CONSTANTS
  Slaves,   \* the slaves that answer
  Floats,   \* the floats sent
  Noise     \* bound: what the second byte of a burst may be changed by

VARIABLES
  order,  \* "abcd", "dcba", "badc" or "cdab"
  float,  \* what is sent
  frame,  \* the bytes on the line
  sent,   \* history: the bytes that were sent
  flips,  \* history: the bits that noise has changed, a burst counting as two
  state,  \* "on the line", "accepted" or "refused" by the client
  value   \* the float that the client has got, once it is accepted

vars == <<order, float, frame, sent, flips, state, value>>

Byte == 0..255
Float == [a : Byte, b : Byte, c : Byte, d : Byte]

ASSUME FrameAssumption == Slaves \subseteq Byte /\ Floats \subseteq Float /\ Noise \subseteq Byte

Orders == {"abcd", "dcba", "badc", "cdab"}

(***************************************************************************)
(* Bits.                                                                   *)
(***************************************************************************)
Bit(n, i) == (n \div 2^i) % 2

XorNibble ==
  [a \in 0..15 |-> [b \in 0..15 |->
     LET x(i) == ((Bit(a, i) + Bit(b, i)) % 2) * 2^i
     IN  x(0) + x(1) + x(2) + x(3)]]

(* a ^ b of two bytes. *)
Xor(a, b) == 16 * XorNibble[a \div 16][b \div 16] + XorNibble[a % 16][b % 16]

(***************************************************************************)
(* The checksum.                                                           *)
(***************************************************************************)
(* Seeded fault: the tables are swapped. *)
CrcStep_Swapped(crc, byte) ==
  LET i == Xor(crc.lo, byte) + 1
  IN  [lo |-> Xor(crc.hi, table_crc_lo[i]), hi |-> table_crc_hi[i]]

(* One byte more of the buffer. *)
CrcStep(crc, byte) ==
  LET i == Xor(crc.lo, byte) + 1
  IN  [lo |-> Xor(crc.hi, table_crc_hi[i]), hi |-> table_crc_lo[i]]

crc16(buffer) ==
  LET crc[n \in 0..Len(buffer)] ==
        IF n = 0 THEN [hi |-> 255, lo |-> 255] ELSE CrcStep(crc[n - 1], buffer[n])
  IN  crc[Len(buffer)]

(* _modbus_rtu_send_msg_pre: the low byte first. *)
send_msg_pre(req) == req \o <<crc16(req).lo, crc16(req).hi>>

(* Seeded fault: one byte of the checksum is compared. *)
check_integrity_LowOnly(msg) ==
  crc16(SubSeq(msg, 1, Len(msg) - 2)).lo = msg[Len(msg) - 1]

(* _modbus_rtu_check_integrity *)
check_integrity(msg) ==
  crc16(SubSeq(msg, 1, Len(msg) - 2)) = [lo |-> msg[Len(msg) - 1], hi |-> msg[Len(msg)]]

(***************************************************************************)
(* Floats in registers.                                                    *)
(***************************************************************************)
(* Seeded fault: the low byte first, wherever registers are made of bytes. *)
Word_LowFirst(high, low) == low * 256 + high

(* A register of two bytes, and its bytes. *)
Word(high, low) == high * 256 + low
High(w) == w \div 256
Low(w) == w % 256

(* modbus_set_float_abcd, _dcba, _badc, _cdab. *)
set_float(f, o) ==
  CASE o = "abcd" -> <<Word(f.a, f.b), Word(f.c, f.d)>>
    [] o = "dcba" -> <<Word(f.d, f.c), Word(f.b, f.a)>>
    [] o = "badc" -> <<Word(f.b, f.a), Word(f.d, f.c)>>
    [] o = "cdab" -> <<Word(f.c, f.d), Word(f.a, f.b)>>

(* modbus_get_float_abcd, _dcba, _badc, _cdab. *)
get_float(r, o) ==
  LET h1 == High(r[1])  l1 == Low(r[1])  h2 == High(r[2])  l2 == Low(r[2])
  IN  CASE o = "abcd" -> [a |-> h1, b |-> l1, c |-> h2, d |-> l2]
        [] o = "dcba" -> [a |-> l2, b |-> h2, c |-> l1, d |-> h1]
        [] o = "badc" -> [a |-> l1, b |-> h1, c |-> l2, d |-> h2]
        [] o = "cdab" -> [a |-> h2, b |-> l2, c |-> h1, d |-> l1]

(* The answer to a read of two registers, and the registers in it. *)
Response(slave, r) == <<slave, 3, 4, High(r[1]), Low(r[1]), High(r[2]), Low(r[2])>>

RegistersIn(rsp) == <<Word(rsp[4], rsp[5]), Word(rsp[6], rsp[7])>>

(***************************************************************************)
(* The specification.                                                      *)
(***************************************************************************)
Init ==
  /\ order \in Orders /\ float \in Floats
  /\ \E slave \in Slaves : sent = send_msg_pre(Response(slave, set_float(float, order)))
  /\ frame = sent /\ flips = 0
  /\ state = "on the line" /\ value = float

FlipBit ==
  /\ state = "on the line" /\ flips < 2
  /\ \E i \in DOMAIN frame, n \in 0..7 : frame' = [frame EXCEPT ![i] = Xor(@, 2^n)]
  /\ flips' = flips + 1
  /\ UNCHANGED <<order, float, sent, state, value>>

(* Two bytes next to each other. *)
Burst ==
  /\ state = "on the line" /\ flips = 0
  /\ \E i \in 1..(Len(frame) - 1), e \in Byte, f \in Noise :
       frame' = [frame EXCEPT ![i] = Xor(@, e), ![i + 1] = Xor(@, f)]
  /\ flips' = 2
  /\ UNCHANGED <<order, float, sent, state, value>>

Receive ==
  /\ state = "on the line"
  /\ IF check_integrity(frame)
     THEN state' = "accepted" /\ value' = get_float(RegistersIn(frame), order)
     ELSE state' = "refused" /\ UNCHANGED value
  /\ UNCHANGED <<order, float, frame, sent, flips>>

Next == FlipBit \/ Burst \/ Receive

Spec == Init /\ [][Next]_vars

(***************************************************************************)
(* Properties.                                                             *)
(***************************************************************************)

(* The checksum by its definition: a register of 16 bits that begins with  *)
(* ones and is divided by x^16 + x^15 + x^2 + 1, the low bit first.        *)
Shift(r) ==
  IF r % 2 = 1
  THEN Word(Xor(High(r \div 2), 160), Xor(Low(r \div 2), 1))
  ELSE r \div 2

Remainder(buffer) ==
  LET rest[n \in 0..(8 * Len(buffer))] ==
        IF n = 0 THEN 65535
        ELSE LET r == rest[n - 1]
             IN  IF n % 8 = 1 THEN Shift(Word(High(r), Xor(Low(r), buffer[(n \div 8) + 1])))
                 ELSE Shift(r)
  IN  rest[8 * Len(buffer)]

(* The tables of crc16 compute the checksum of the Modbus specification,   *)
(* for whatever is on the line.                                            *)
ChecksumIsModbus ==
  LET crc == crc16(frame) IN Word(crc.hi, crc.lo) = Remainder(frame)

(* A frame is accepted if, and only if, it is what was sent: any two bits, *)
(* and any burst in two bytes, of the message or of its checksum, are      *)
(* noticed (_modbus_rtu_check_integrity).                                  *)
RefusesDamage == state # "on the line" => (state = "accepted" <=> frame = sent)

(* The bytes of a float on the line, as the name of an order spells them.  *)
Spelled(f) ==
  [abcd |-> <<f.a, f.b, f.c, f.d>>, dcba |-> <<f.d, f.c, f.b, f.a>>,
   badc |-> <<f.b, f.a, f.d, f.c>>, cdab |-> <<f.c, f.d, f.a, f.b>>]

(* The bytes are sent in the order that the functions are named for, so    *)
(* that a device of another make reads the same float, and no swap that    *)
(* both sides share goes unnoticed; and the float that arrives is the one  *)
(* sent, or none does (modbus_set_float_abcd, modbus_get_float_abcd and    *)
(* the others).                                                            *)
FloatArrives ==
  /\ <<sent[4], sent[5], sent[6], sent[7]>> = Spelled(float)[order]
  /\ state = "accepted" => value = float
=============================================================================
