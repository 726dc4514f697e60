---------------------------- MODULE ModbusReply ----------------------------
(***************************************************************************)
(* modbus_reply (src/modbus.c): a server answers one request from the four *)
(* tables of a modbus_mapping_t.                                           *)
(*                                                                         *)
(* A request is a record with the fields of its PDU: function, slave,      *)
(* address, nb (quantity), value (of a single write), count (byte count),  *)
(* data (the bytes the count announces), and (where a function has them)   *)
(* the masks or the write half.  length says how the length of what was    *)
(* received compares with that of the PDU: "exact", as modbus_receive      *)
(* leaves it, or "short" or "long", which only a caller with a request of  *)
(* its own can have.                                                       *)
(***************************************************************************)
EXTENDS ModbusProtocol, ModbusData

CONSTANTS
  Start, Nb,         \* of each table: the first address, and the cells
  InitialTables,     \* what the server's application put in the tables
  MaxRead, MaxWrite, \* MODBUS_MAX_READ_BITS and the like, of each table
  MaxWrWrite,        \* MODBUS_MAX_WR_WRITE_REGISTERS
  MaxWrRead          \* MODBUS_MAX_WR_READ_REGISTERS

Tables == {"bits", "input_bits", "registers", "input_registers"}
BitTables == {"bits", "input_bits"}

ASSUME TablesAssumption ==
  /\ Start \in [Tables -> Nat] /\ Nb \in [Tables -> Nat]
  /\ MaxRead \in [Tables -> Nat] /\ MaxWrite \in [Tables -> Nat]
  /\ MaxWrWrite \in Nat /\ MaxWrRead \in Nat
  /\ DOMAIN InitialTables = Tables
  /\ \A t \in Tables :
       InitialTables[t] \in [0..(Nb[t] - 1) -> IF t \in BitTables THEN Bit ELSE Word]

VARIABLES
  backend,   \* "TCP" or "RTU"
  quirks,    \* ctx->quirks of the server: may hold "REPLY_TO_BROADCAST"
  mapping,   \* mapping[t][i]: cell i of table t, at address Start[t] + i
  req,       \* the request being answered
  rsp        \* the response, or NoResponse

(* The exceptions of modbus.h that modbus_reply answers with. *)
ILLEGAL_FUNCTION     == 1
ILLEGAL_DATA_ADDRESS == 2
ILLEGAL_DATA_VALUE   == 3

NoResponse == [function |-> "none"]

TableOf(function) ==
  CASE function \in {FC_READ_COILS, FC_WRITE_SINGLE_COIL, FC_WRITE_MULTIPLE_COILS} -> "bits"
    [] function = FC_READ_DISCRETE_INPUTS -> "input_bits"
    [] function = FC_READ_INPUT_REGISTERS -> "input_registers"
    [] OTHER -> "registers"

Table == TableOf(req.function)

(* mapping_address: below zero when the address is before the table. *)
MappingAddress(address, t) == address - Start[t]

InTable(address, nb, t) ==
  /\ MappingAddress(address, t) >= 0
  /\ MappingAddress(address, t) + nb <= Nb[t]

(* 0xFF00 and 0x0000, the values modbus_reply takes for a coil. *)
CoilOn  == <<1, 0>>
CoilOff == <<0, 0>>

(***************************************************************************)
(* The checks of each function, in the order the code makes them.  Where   *)
(* it sleeps and flushes before the exception (illegal quantities, unknown *)
(* functions, truncated requests) nothing of this module changes: it keeps *)
(* no transport.                                                           *)
(***************************************************************************)
Answered == {FC_REPORT_SLAVE_ID, FC_MASK_WRITE_REGISTER, FC_WRITE_AND_READ_REGISTERS}
              \union ReadBitsFCs \union ReadRegistersFCs
              \union WriteSingleFCs \union WriteMultipleFCs

Reads == ReadBitsFCs \union ReadRegistersFCs

(* Echoed requests are copied into the response: their length must be the  *)
(* one of the response.                                                    *)
Echoed == WriteSingleFCs \union {FC_MASK_WRITE_REGISTER}

(* What a request holds, whatever its quantities and addresses say.        *)
IsRequest(q) ==
  /\ q.function \in Byte
  /\ q.function \in Answered \ {FC_REPORT_SLAVE_ID} => q.address \in Nat
  /\ q.function \in Reads \union WriteMultipleFCs \union {FC_WRITE_AND_READ_REGISTERS} =>
       q.nb \in Nat
  /\ q.function = FC_WRITE_SINGLE_REGISTER => q.value \in Word
  /\ q.function = FC_WRITE_MULTIPLE_COILS =>
       q.data \in Seq(BitsByte) /\ q.count = Len(q.data)
  /\ q.function \in {FC_WRITE_MULTIPLE_REGISTERS, FC_WRITE_AND_READ_REGISTERS} =>
       q.data \in Seq(Half) /\ q.count = Len(q.data)
  /\ q.function = FC_MASK_WRITE_REGISTER => q.and \in Word /\ q.or \in Word
  /\ q.function = FC_WRITE_AND_READ_REGISTERS =>
       q.write_address \in Nat /\ q.write_nb \in Nat

IllegalCount ==
  CASE req.function \in Reads -> req.nb \notin 1..MaxRead[Table]
    [] req.function = FC_WRITE_MULTIPLE_COILS ->
         req.nb \notin 1..MaxWrite[Table] \/ req.count * BitsPerByte < req.nb
    [] req.function = FC_WRITE_MULTIPLE_REGISTERS ->
         req.nb \notin 1..MaxWrite[Table] \/ req.count # req.nb * 2
    [] req.function = FC_WRITE_AND_READ_REGISTERS ->
         \/ req.write_nb \notin 1..MaxWrWrite \/ req.nb \notin 1..MaxWrRead
         \/ req.count # req.write_nb * 2
    [] OTHER -> FALSE

(* Seeded fault: the write half of a write and read is not checked. *)
IllegalAddress_ReadHalf ==
  CASE req.function \in Reads \union WriteMultipleFCs ->
         ~InTable(req.address, req.nb, Table)
    [] req.function \in Echoed -> ~InTable(req.address, 1, Table)
    [] req.function = FC_WRITE_AND_READ_REGISTERS ->
         ~InTable(req.address, req.nb, Table)
    [] OTHER -> FALSE

IllegalAddress ==
  CASE req.function \in Reads \union WriteMultipleFCs ->
         ~InTable(req.address, req.nb, Table)
    [] req.function \in Echoed -> ~InTable(req.address, 1, Table)
    [] req.function = FC_WRITE_AND_READ_REGISTERS ->
         \/ ~InTable(req.address, req.nb, Table)
         \/ ~InTable(req.write_address, req.write_nb, Table)
    [] OTHER -> FALSE

IllegalEcho ==
  /\ req.function \in Echoed
  /\ \/ req.length = "long"
     \/ req.function = FC_WRITE_SINGLE_COIL /\ req.value \notin {CoilOn, CoilOff}

(* The code of the exception the request earns, 0 when it is carried out.  *)
ExceptionCode ==
  CASE req.length = "short"        -> ILLEGAL_DATA_VALUE
    [] req.length # "short" /\ req.function \notin Answered -> ILLEGAL_FUNCTION
    [] req.length # "short" /\ req.function \in Answered ->
         IF IllegalCount THEN ILLEGAL_DATA_VALUE
         ELSE IF IllegalAddress THEN ILLEGAL_DATA_ADDRESS
         ELSE IF IllegalEcho THEN ILLEGAL_DATA_VALUE
         ELSE 0

Legal == ExceptionCode = 0

(***************************************************************************)
(* Answering.  Over RTU a broadcast (slave 0) is carried out, but nothing  *)
(* is sent, unless the quirk asks for it.                                  *)
(***************************************************************************)
Silent == backend = "RTU" /\ req.slave = 0 /\ "REPLY_TO_BROADCAST" \notin quirks

Send(response) ==
  /\ rsp' = IF Silent THEN NoResponse ELSE response
  /\ UNCHANGED req

(* Seeded fault: one value fills the table from an address on. *)
Stored_ToTheEnd(address, values, t) ==
  [ mapping EXCEPT ![t] =
      [ i \in DOMAIN @ |-> IF i >= MappingAddress(address, t) THEN values[1] ELSE @[i] ] ]

(* The cells from an address on take new values.  A store outside of the   *)
(* table leaves cells the table does not have.                             *)
Stored(address, values, t) ==
  LET first == MappingAddress(address, t)
      cells == first..(first + Len(values) - 1)
  IN  [ mapping EXCEPT ![t] =
          [ i \in DOMAIN @ \union cells |->
              IF i \in cells THEN values[i - first + 1] ELSE @[i] ] ]

(* The nb cells from an address on, of a table. *)
Cells(table, address, nb, t) ==
  [ i \in 1..nb |-> table[MappingAddress(address, t) + i - 1] ]

(* response_exception: the function code is a byte. *)
ReplyException ==
  /\ ~Legal
  /\ Send([function |-> (req.function + 128) % 256, code |-> ExceptionCode])
  /\ UNCHANGED mapping

(* Seeded fault: a last byte that is not full is not counted. *)
ReplyReadBits_FullBytes ==
  /\ Legal /\ req.function \in ReadBitsFCs
  /\ Send([function |-> req.function, count |-> req.nb \div BitsPerByte,
           data |-> BytesOfBits(Cells(mapping[Table], req.address, req.nb, Table))])
  /\ UNCHANGED mapping

ReplyReadBits ==
  /\ Legal /\ req.function \in ReadBitsFCs
  /\ Send([function |-> req.function, count |-> ByteCount(req.nb),
           data |-> BytesOfBits(Cells(mapping[Table], req.address, req.nb, Table))])
  /\ UNCHANGED mapping

ReplyReadRegisters ==
  /\ Legal /\ req.function \in ReadRegistersFCs
  /\ Send([function |-> req.function, count |-> req.nb * 2,
           data |-> BytesOfWords(Cells(mapping[Table], req.address, req.nb, Table))])
  /\ UNCHANGED mapping

ReplyWriteBit ==
  /\ Legal /\ req.function = FC_WRITE_SINGLE_COIL
  /\ mapping' = Stored(req.address, <<IF req.value = CoilOff THEN 0 ELSE 1>>, Table)
  /\ Send([function |-> req.function, address |-> req.address, value |-> req.value])

ReplyWriteRegister ==
  /\ Legal /\ req.function = FC_WRITE_SINGLE_REGISTER
  /\ mapping' = Stored(req.address, <<req.value>>, Table)
  /\ Send([function |-> req.function, address |-> req.address, value |-> req.value])

ReplyWriteBits ==
  /\ Legal /\ req.function = FC_WRITE_MULTIPLE_COILS
  /\ mapping' = Stored(req.address, BitsOf(req.data, req.nb), Table)
  /\ Send([function |-> req.function, address |-> req.address, nb |-> req.nb])

ReplyWriteRegisters ==
  /\ Legal /\ req.function = FC_WRITE_MULTIPLE_REGISTERS
  /\ mapping' = Stored(req.address, WordsOf(req.data), Table)
  /\ Send([function |-> req.function, address |-> req.address, nb |-> req.nb])

(* The device's own answer: three bytes stand for id, status and name.     *)
ReplyReportSlaveId ==
  /\ Legal /\ req.function = FC_REPORT_SLAVE_ID
  /\ Send([function |-> req.function, count |-> 3, data |-> <<1, 1, 1>>])
  /\ UNCHANGED mapping

ReplyMaskWrite ==
  /\ Legal /\ req.function = FC_MASK_WRITE_REGISTER
  /\ LET old == mapping[Table][MappingAddress(req.address, Table)]
     IN  mapping' = Stored(req.address, <<MaskWord(old, req.and, req.or)>>, Table)
  /\ Send([function |-> req.function, address |-> req.address,
           and |-> req.and, or |-> req.or])

(* Seeded fault: the read before the write. *)
ReplyWriteAndRead_ReadFirst ==
  /\ Legal /\ req.function = FC_WRITE_AND_READ_REGISTERS
  /\ mapping' = Stored(req.write_address, WordsOf(req.data), Table)
  /\ Send([function |-> req.function, count |-> req.nb * 2,
           data |-> BytesOfWords(Cells(mapping[Table], req.address, req.nb, Table))])

(* Write first, and read the data for the response. *)
ReplyWriteAndRead ==
  /\ Legal /\ req.function = FC_WRITE_AND_READ_REGISTERS
  /\ mapping' = Stored(req.write_address, WordsOf(req.data), Table)
  /\ Send([function |-> req.function, count |-> req.nb * 2,
           data |-> BytesOfWords(Cells(mapping'[Table], req.address, req.nb, Table))])

Reply ==
  \/ ReplyException
  \/ ReplyReadBits \/ ReplyReadRegisters
  \/ ReplyWriteBit \/ ReplyWriteRegister
  \/ ReplyWriteBits \/ ReplyWriteRegisters
  \/ ReplyReportSlaveId
  \/ ReplyMaskWrite \/ ReplyWriteAndRead
=============================================================================
