--------------------------- MODULE ModbusProtocol ---------------------------
(***************************************************************************)
(* Function codes, exception codes and the message geometry of libmodbus:  *)
(* how many bytes follow the function code of a message, as                *)
(* src/modbus.c computes them while it receives.  Bytes are 0..255; a      *)
(* message is a sequence of bytes whose function code stands right after   *)
(* the header of the backend (7 bytes over TCP, 1 byte over RTU).          *)
(***************************************************************************)
EXTENDS Integers, Sequences

Byte == 0..255

(* modbus.h: the function codes. *)
FC_READ_COILS                == 1
FC_READ_DISCRETE_INPUTS      == 2
FC_READ_HOLDING_REGISTERS    == 3
FC_READ_INPUT_REGISTERS      == 4
FC_WRITE_SINGLE_COIL         == 5
FC_WRITE_SINGLE_REGISTER     == 6
FC_READ_EXCEPTION_STATUS     == 7
FC_WRITE_MULTIPLE_COILS      == 15
FC_WRITE_MULTIPLE_REGISTERS  == 16
FC_REPORT_SLAVE_ID           == 17
FC_MASK_WRITE_REGISTER       == 22
FC_WRITE_AND_READ_REGISTERS  == 23

ReadBitsFCs == {FC_READ_COILS, FC_READ_DISCRETE_INPUTS}
ReadRegistersFCs == {FC_READ_HOLDING_REGISTERS, FC_READ_INPUT_REGISTERS}
WriteSingleFCs == {FC_WRITE_SINGLE_COIL, FC_WRITE_SINGLE_REGISTER}
WriteMultipleFCs == {FC_WRITE_MULTIPLE_COILS, FC_WRITE_MULTIPLE_REGISTERS}

(* modbus-private.h: what the receiver is waiting for. *)
MSG_INDICATION   == "MSG_INDICATION"
MSG_CONFIRMATION == "MSG_CONFIRMATION"

(* compute_meta_length_after_function: bytes between the function code and *)
(* the point where the length of the rest is known.                        *)
MetaLength(function, msg_type) ==
  IF msg_type = MSG_INDICATION
  THEN CASE function <= FC_WRITE_SINGLE_REGISTER -> 4
         [] function \in WriteMultipleFCs -> 5
         [] function = FC_MASK_WRITE_REGISTER -> 6
         [] function = FC_WRITE_AND_READ_REGISTERS -> 9
         [] OTHER -> 0
  ELSE CASE function \in WriteSingleFCs \union WriteMultipleFCs -> 4
         [] function = FC_MASK_WRITE_REGISTER -> 6
         [] OTHER -> 1

(* Seeded fault: the byte count is sought one byte too early. *)
CountOffset_ValueCount(function, msg_type) ==
  IF function \in WriteMultipleFCs THEN 4 ELSE 0

(* compute_data_length_after_meta without the checksum: 0, or the byte of  *)
(* the message that carries a byte count.  CountOffset is the distance of  *)
(* that byte from the function code, 0 when the message has none.          *)
CountOffset(function, msg_type) ==
  IF msg_type = MSG_INDICATION
  THEN CASE function \in WriteMultipleFCs -> 5
         [] function = FC_WRITE_AND_READ_REGISTERS -> 9
         [] OTHER -> 0
  ELSE IF \/ function <= FC_READ_INPUT_REGISTERS
          \/ function \in {FC_REPORT_SLAVE_ID, FC_WRITE_AND_READ_REGISTERS}
       THEN 1
       ELSE 0
=============================================================================
