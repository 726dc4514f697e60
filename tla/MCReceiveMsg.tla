---------------------------- MODULE MCReceiveMsg ----------------------------
(***************************************************************************)
(* Instances of ReceiveMsg for TLC.  The header and checksum lengths, the  *)
(* largest ADU and the byte counts are those of the two backends; only the *)
(* number of frames sent and of connections made is small.                 *)
(***************************************************************************)
EXTENDS ReceiveMsg

(* A TCP frame: the MBAP header (its length field counts the unit          *)
(* identifier and the PDU), then the PDU.                                  *)
Tcp(pdu) == <<0, 1, 0, 0, 0, Len(pdu) + 1, 255>> \o pdu

(* An RTU frame of slave 17; the two checksum bytes are any bytes here,    *)
(* ValidCrc says which of the frames carry the right ones.                 *)
Rtu(pdu, crc) == <<17>> \o pdu \o crc

(* Requests as the client functions of modbus.c build them: read           *)
(* registers, write one register with function 16, read exception status,  *)
(* and two of modbus_send_raw_request: a function libmodbus does not know, *)
(* with three bytes after it, and a byte count that cannot fit.            *)
ReadRequest == <<3, 0, 0, 0, 1>>
WriteRequest == <<16, 0, 0, 0, 1, 2, 9, 9>>
StatusRequest == <<7>>
UnknownRequest == <<43, 14, 1, 0>>
HugeRequest == <<16, 0, 0, 0, 1, 255>>

TcpRequests ==
  { Tcp(pdu) : pdu \in {ReadRequest, WriteRequest, StatusRequest} }

TcpRequestsAndOthers ==
  TcpRequests \union { Tcp(UnknownRequest), Tcp(HugeRequest) }

(* Responses as modbus_reply builds them: one register, the echo of a      *)
(* write, an exception, and a read response damaged on the line.           *)
GoodResponses ==
  { Rtu(<<3, 2, 9, 9>>, <<1, 2>>), Rtu(<<6, 0, 0, 9, 9>>, <<3, 4>>),
    Rtu(<<131, 2>>, <<5, 6>>) }

RtuResponses == GoodResponses \union { Rtu(<<3, 3, 9, 9>>, <<1, 2>>) }

Nothing == {}
LinkOnly == {"LINK"}
LinkAndProtocol == {"LINK", "PROTOCOL"}
=============================================================================
