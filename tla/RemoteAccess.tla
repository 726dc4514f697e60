---------------------------- MODULE RemoteAccess ----------------------------
(***************************************************************************)
(* The read and write functions of a libmodbus client (src/modbus.c)       *)
(* against the server of ModbusReply, one request at a time over a         *)
(* transport that loses nothing: what the client builds, what it accepts   *)
(* as the confirmation, and what it hands to its application.              *)
(***************************************************************************)
EXTENDS ModbusReply

CONSTANTS
  Ops,           \* the calls the application of the client may make
  RawRequests,   \* what it may send with modbus_send_raw_request
  Settings,      \* the contexts of client and server: backend, quirks, slave, byHand
  AddressSpace   \* 65536: addresses travel in two bytes

(* The calls of the library, with any addresses and quantities.            *)
IsCall(o) ==
  /\ o.call \in {"read", "write_one", "write", "mask_write", "write_and_read"}
  /\ o.addr \in Nat
  /\ o.call = "read" => o.table \in Tables /\ o.nb \in Nat
  /\ o.call \in {"write_one", "write"} =>
       \/ o.table = "bits" /\ o.values \in Seq(Bit)
       \/ o.table = "registers" /\ o.values \in Seq(Word)
  /\ o.call = "write_one" => Len(o.values) = 1
  /\ o.call = "mask_write" => o.and \in Word /\ o.or \in Word
  /\ o.call = "write_and_read" =>
       o.nb \in Nat /\ o.write_addr \in Nat /\ o.values \in Seq(Word)

ASSUME CallsAssumption ==
  /\ \A o \in Ops : IsCall(o)
  /\ \A q \in RawRequests : IsRequest(q)
  /\ AddressSpace \in Nat \ {0}

ASSUME SettingsAssumption ==
  \A c \in Settings :
    /\ c.backend \in {"TCP", "RTU"} /\ c.quirks \subseteq {"REPLY_TO_BROADCAST"}
    /\ c.slave \in 0..255 /\ c.byHand \in BOOLEAN

VARIABLES
  slave,         \* ctx->slave of the client: 0 is the broadcast address
  byHand,        \* the application makes requests of its own, too
  op,            \* the call in progress
  phase,         \* "idle", "requested", "replied"
  result         \* what the last call returned, when it has

setting == <<backend, quirks, slave, byHand>>
vars == <<setting, mapping, req, rsp, op, phase, result>>

NoOp == [call |-> "none"]

Values(vs)  == [status |-> "ok", values |-> vs]
Exception(code) == [status |-> "exception", code |-> code]
Error(errno) == [status |-> errno]

(***************************************************************************)
(* Requests.                                                               *)
(***************************************************************************)

(* The checks of the client, before anything is sent. *)
Refused(o) ==
  \/ o.call = "read" /\ o.nb \notin 1..MaxRead[o.table]
  \/ o.call = "write" /\ Len(o.values) \notin 1..MaxWrite[o.table]
  \/ /\ o.call = "write_and_read"
     /\ Len(o.values) \notin 1..MaxWrWrite \/ o.nb \notin 1..MaxWrRead

(* write_and_read tells a call for nothing from one for too much. *)
RefusedWith(o) ==
  IF o.call = "write_and_read" /\ (Len(o.values) < 1 \/ o.nb < 1)
  THEN "EINVAL" ELSE "EMBXILVAL"

ReadFunctionOf(table) ==
  CASE table = "bits" -> FC_READ_COILS
    [] table = "input_bits" -> FC_READ_DISCRETE_INPUTS
    [] table = "registers" -> FC_READ_HOLDING_REGISTERS
    [] table = "input_registers" -> FC_READ_INPUT_REGISTERS

(* build_request_basis, and the fields that follow: of an address only the *)
(* low 16 bits travel.                                                     *)
Basis(function, addr, rest) ==
  LET basis == [function |-> function, slave |-> slave, length |-> "exact",
                address |-> addr % AddressSpace]
  IN  [ f \in DOMAIN basis \union DOMAIN rest |->
          IF f \in DOMAIN rest THEN rest[f] ELSE basis[f] ]

(* One register's data of a request, and many bits'. *)
Packed(table, values) ==
  IF table = "bits" THEN BytesOfBits(values) ELSE BytesOfWords(values)

RequestOf(o) ==
  CASE o.call = "read" ->
         Basis(ReadFunctionOf(o.table), o.addr, [nb |-> o.nb])
    [] o.call = "write_one" /\ o.table = "bits" ->
         Basis(FC_WRITE_SINGLE_COIL, o.addr,
               [value |-> IF o.values[1] = 1 THEN CoilOn ELSE CoilOff])
    [] o.call = "write_one" /\ o.table = "registers" ->
         Basis(FC_WRITE_SINGLE_REGISTER, o.addr, [value |-> o.values[1]])
    [] o.call = "write" ->
         Basis(IF o.table = "bits" THEN FC_WRITE_MULTIPLE_COILS
                                   ELSE FC_WRITE_MULTIPLE_REGISTERS, o.addr,
               [nb |-> Len(o.values), count |-> Len(Packed(o.table, o.values)),
                data |-> Packed(o.table, o.values)])
    [] o.call = "mask_write" ->
         Basis(FC_MASK_WRITE_REGISTER, o.addr, [and |-> o.and, or |-> o.or])
    [] o.call = "write_and_read" ->
         Basis(FC_WRITE_AND_READ_REGISTERS, o.addr,
               [nb |-> o.nb, write_address |-> o.write_addr % AddressSpace,
                write_nb |-> Len(o.values), count |-> 2 * Len(o.values),
                data |-> BytesOfWords(o.values)])

(***************************************************************************)
(* Confirmations.                                                          *)
(***************************************************************************)
MSG_LENGTH_UNDEFINED == -1

(* Seeded fault: a write and read is expected to be as long as a write. *)
ResponseLength_WriteLike(q) ==
  IF q.function \in ReadBitsFCs THEN 2 + ByteCount(q.nb)
  ELSE IF q.function \in ReadRegistersFCs THEN 2 + 2 * q.nb
  ELSE IF q.function = FC_MASK_WRITE_REGISTER THEN 7 ELSE 5

(* compute_response_length_from_request, without header and checksum: the  *)
(* length of the PDU that answers q.                                       *)
ResponseLength(q) ==
  CASE q.function \in ReadBitsFCs -> 2 + ByteCount(q.nb)
    [] q.function \in ReadRegistersFCs \union {FC_WRITE_AND_READ_REGISTERS} ->
         2 + 2 * q.nb
    [] q.function = FC_READ_EXCEPTION_STATUS -> 3
    [] q.function = FC_REPORT_SLAVE_ID -> MSG_LENGTH_UNDEFINED
    [] q.function = FC_MASK_WRITE_REGISTER -> 7
    [] OTHER -> 5

(* The length _modbus_receive_msg gives the response: by its function code *)
(* and, where it has one, by its byte count.                               *)
ReceivedLength(r) ==
  LET k == CountOffset(r.function, MSG_CONFIRMATION)
  IN  1 + MetaLength(r.function, MSG_CONFIRMATION) + (IF k = 0 THEN 0 ELSE r.count)

(* check_confirmation, once the header has passed: the number of values,   *)
(* or the error.                                                           *)
CountsAgree(q, r) ==
  CASE q.function \in ReadBitsFCs -> ByteCount(q.nb) = r.count
    [] q.function \in ReadRegistersFCs \union {FC_WRITE_AND_READ_REGISTERS} ->
         q.nb = r.count \div 2
    [] q.function \in WriteMultipleFCs -> q.address = r.address /\ q.nb = r.nb
    [] q.function \in WriteSingleFCs -> q.address = r.address /\ q.value = r.value
    [] OTHER -> TRUE

Checked(q, r) ==
  IF r.function >= 128
  THEN IF r.function - 128 = q.function THEN Exception(r.code) ELSE Error("EMBBADEXC")
  ELSE IF /\ ResponseLength(q) \in {ReceivedLength(r), MSG_LENGTH_UNDEFINED}
          /\ r.function = q.function
          /\ CountsAgree(q, r)
       THEN Error("confirmed")
       ELSE Error("EMBBADDATA")

(* What the call hands to the application from a confirmed response. *)
Unpacked(q, r) ==
  CASE q.function \in ReadBitsFCs -> BitsOf(r.data, q.nb)
    [] q.function \in ReadRegistersFCs \union {FC_WRITE_AND_READ_REGISTERS} ->
         WordsOf(r.data)
    [] OTHER -> <<>>

ResultOf(q, r) ==
  IF r = NoResponse THEN Error("ETIMEDOUT")
  ELSE IF Checked(q, r) = Error("confirmed") THEN Values(Unpacked(q, r))
  ELSE Checked(q, r)

(***************************************************************************)
(* Steps.                                                                  *)
(***************************************************************************)
Refuse(o) ==
  /\ phase = "idle" /\ Refused(o)
  /\ result' = Error(RefusedWith(o))
  /\ UNCHANGED <<setting, mapping, req, rsp, op, phase>>

Request(o) ==
  /\ phase = "idle" /\ ~Refused(o)
  /\ op' = o /\ req' = RequestOf(o) /\ result' = Error("none")
  /\ phase' = "requested"
  /\ UNCHANGED <<setting, mapping, rsp>>

(* modbus_send_raw_request: the client's checks do not apply. *)
RawRequest(q) ==
  /\ phase = "idle" /\ byHand
  /\ op' = [call |-> "raw"] /\ req' = q /\ result' = Error("none")
  /\ phase' = "requested"
  /\ UNCHANGED <<setting, mapping, rsp>>

Serve ==
  /\ phase = "requested"
  /\ Reply
  /\ phase' = "replied"
  /\ UNCHANGED <<setting, op, result>>

Confirm ==
  /\ phase = "replied"
  /\ result' = IF op.call = "raw" THEN Error("raw") ELSE ResultOf(req, rsp)
  /\ op' = NoOp /\ req' = NoOp /\ rsp' = NoResponse
  /\ phase' = "idle"
  /\ UNCHANGED <<setting, mapping>>

Init ==
  /\ \E c \in Settings :
       backend = c.backend /\ quirks = c.quirks /\ slave = c.slave /\ byHand = c.byHand
  /\ mapping = InitialTables
  /\ req = NoOp /\ rsp = NoResponse /\ op = NoOp
  /\ phase = "idle" /\ result = Error("idle")

Next ==
  \/ \E o \in Ops : Refuse(o) \/ Request(o)
  \/ \E q \in RawRequests : RawRequest(q)
  \/ Serve \/ Confirm

Spec == Init /\ [][Next]_vars

(* One side runs after the other. *)
FairSpec == Spec /\ WF_vars(Serve) /\ WF_vars(Confirm)

(***************************************************************************)
(* Properties.                                                             *)
(***************************************************************************)

(* The type invariant: the tables keep their size and their kind of cell,  *)
(* whatever a request says.                                                *)
TypeOK ==
  /\ DOMAIN mapping = Tables
  /\ \A t \in Tables :
       mapping[t] \in [0..(Nb[t] - 1) -> IF t \in BitTables THEN Bit ELSE Word]
  /\ backend \in {"TCP", "RTU"} /\ quirks \subseteq {"REPLY_TO_BROADCAST"}
  /\ slave \in 0..255 /\ byHand \in BOOLEAN
  /\ phase \in {"idle", "requested", "replied"}
  /\ op \in Ops \union {NoOp, [call |-> "raw"]}

(* The cells a request asks to write: of one table, a run of addresses. *)
Asked(t, a) ==
  \/ /\ req.function \in WriteSingleFCs \union {FC_MASK_WRITE_REGISTER}
     /\ t = Table /\ a = req.address
  \/ /\ req.function \in WriteMultipleFCs
     /\ t = Table /\ a \in req.address..(req.address + req.nb - 1)
  \/ /\ req.function = FC_WRITE_AND_READ_REGISTERS
     /\ t = "registers" /\ a \in req.write_address..(req.write_address + req.write_nb - 1)

(* A request, even one built by hand with quantities that do not agree,    *)
(* changes no cell but those it names, and none at all when the answer is  *)
(* an exception (modbus_reply).                                            *)
Confined ==
  [][ \A t \in Tables : \A i \in DOMAIN mapping[t] :
        mapping'[t][i] # mapping[t][i] =>
          /\ Asked(t, Start[t] + i)
          /\ "code" \notin DOMAIN rsp' ]_vars

(* A response carries the bytes its byte count announces: the receiver     *)
(* knows its length by that count alone (compute_data_length_after_meta).  *)
Framed ==
  "count" \in DOMAIN rsp => Len(rsp.data) = rsp.count

(* A confirmation that the server sends for a request of the library's own *)
(* functions is never taken for bad data: what the client expects          *)
(* (compute_response_length_from_request) is what the server builds.       *)
Understood ==
  phase = "replied" /\ op \in Ops =>
    ResultOf(req, rsp).status \in {"ok", "exception", "ETIMEDOUT"}

(* The tables at their addresses, as RemoteTables has them. *)
ByAddress ==
  [ t \in Tables |->
      [ a \in Start[t]..(Start[t] + Nb[t] - 1) |-> mapping[t][a - Start[t]] ] ]

InitialByAddress ==
  [ t \in Tables |->
      [ a \in Start[t]..(Start[t] + Nb[t] - 1) |-> InitialTables[t][a - Start[t]] ] ]

Answer ==
  CASE phase = "requested" -> result
    [] phase = "replied"   -> ResultOf(req, rsp)
    [] phase = "idle"      ->
         IF result.status \in {"EMBXILVAL", "EINVAL"} THEN Error("refused") ELSE result

(* Requests made by hand, and broadcasts on a serial line: there the quirk *)
(* alone makes a server answer.                                            *)
Unwatched ==
  byHand \/ (backend = "RTU" /\ slave = 0 /\ "REPLY_TO_BROADCAST" \notin quirks)

Remote == INSTANCE RemoteTables
            WITH mem <- IF Unwatched THEN InitialByAddress ELSE ByAddress,
                 pending <- IF Unwatched THEN NoOp ELSE op,
                 answer <- IF Unwatched THEN Error("idle") ELSE Answer,
                 InitialTables <- InitialByAddress

(* The client's read and write functions, the encoding of their requests   *)
(* and the server's answers together are reads and writes of four tables   *)
(* of addressed cells, each atomic: what a call returns is what the tables *)
(* held, and a write that was confirmed is there, all of it.  Nothing is   *)
(* said of requests made by hand, nor of broadcasts that no one answers.   *)
ImplementsTables == Remote!Spec
=============================================================================
