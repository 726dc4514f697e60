----------------------------- MODULE ModbusData -----------------------------
(***************************************************************************)
(* How cells travel in messages.  A coil or discrete input is a bit; a     *)
(* register is a word of two bytes, high byte first.  A byte of the data   *)
(* of a message holds BitsPerByte bits (8 in the code), lowest first.      *)
(***************************************************************************)
EXTENDS Integers, Sequences

CONSTANT BitsPerByte

ASSUME BitsPerByteAssumption == BitsPerByte \in Nat \ {0}

Bit == {0, 1}

(* A byte that holds bits, and a byte of a register: the low bits of the   *)
(* latter do not matter to the code, one stands for all of them.           *)
BitsByte == [1..BitsPerByte -> Bit]
Half == Bit
Word == Half \X Half

(* (nb / 8) + ((nb % 8) ? 1 : 0) *)
ByteCount(nb) == (nb \div BitsPerByte) + (IF nb % BitsPerByte # 0 THEN 1 ELSE 0)

(* response_io_status, and the loop of modbus_write_bits: bits packed into *)
(* bytes, the rest of the last byte zero.                                  *)
BytesOfBits(bits) ==
  [ j \in 1..ByteCount(Len(bits)) |->
      [ k \in 1..BitsPerByte |->
          LET i == (j - 1) * BitsPerByte + k
          IN  IF i <= Len(bits) THEN bits[i] ELSE 0 ] ]

(* modbus_set_bits_from_bytes, and the loop of read_io_status: the first   *)
(* nb bits of some bytes.                                                  *)
BitsOf(bytes, nb) ==
  [ i \in 1..nb |->
      bytes[((i - 1) \div BitsPerByte) + 1][((i - 1) % BitsPerByte) + 1] ]

(* Registers on the wire: high byte, low byte. *)
BytesOfWords(words) ==
  [ i \in 1..(2 * Len(words)) |-> words[(i + 1) \div 2][2 - (i % 2)] ]

WordsOf(bytes) ==
  [ i \in 1..(Len(bytes) \div 2) |-> <<bytes[2 * i - 1], bytes[2 * i]>> ]

(* data = (data & and) | (or & (~and)), bit by bit. *)
MaskHalf(data, and, or) == IF and = 1 THEN data ELSE or

MaskWord(data, and, or) ==
  <<MaskHalf(data[1], and[1], or[1]), MaskHalf(data[2], and[2], or[2])>>
=============================================================================
