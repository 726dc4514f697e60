----------------------------- MODULE ReceiveMsg -----------------------------
(***************************************************************************)
(* _modbus_receive_msg (src/modbus.c) over one connection, byte by byte.   *)
(*                                                                         *)
(* The transport is a stream of bytes: the peer appends whole frames, the  *)
(* bytes become readable in order but in pieces of any size, and the       *)
(* receiver has no mark in the stream that tells where a frame begins (it  *)
(* never looks at the length field of a TCP header).  It reads just enough *)
(* to see the function code, then the meta information that follows it,    *)
(* then the data whose length the two of them give.                        *)
(*                                                                         *)
(* The caller is the loop of a server (msg_type MSG_INDICATION) or of a    *)
(* client that waits for answers (MSG_CONFIRMATION): it calls again after  *)
(* every return, whatever the result was.  Positions in the stream stand   *)
(* for the buffer: msg[i] is stream[start + i + 1].                        *)
(***************************************************************************)
EXTENDS ModbusProtocol, FiniteSets

CONSTANTS
  Frames,          \* the frames (sequences of bytes) the peer may send
  ValidCrc,        \* byte strings whose checksum is right (RTU only)
  HeaderLength,    \* backend->header_length: 7 over TCP, 1 over RTU
  ChecksumLength,  \* backend->checksum_length: 0 over TCP, 2 over RTU
  MaxAdu,          \* backend->max_adu_length: 260 over TCP, 256 over RTU
  MsgType,         \* MSG_INDICATION or MSG_CONFIRMATION
  FirstTimeout,    \* the indication or response timeout is set
  ByteTimeout,     \* ctx->byte_timeout is not zero
  Recovery,        \* ctx->error_recovery: subset of {"LINK", "PROTOCOL"}
  MaxFrames,       \* bound: frames sent on one connection
  MaxConnections   \* bound: connections made, the first one included

ASSUME GeometryAssumption ==
  /\ HeaderLength \in Nat /\ ChecksumLength \in Nat /\ MaxAdu \in Nat
  /\ HeaderLength + 10 <= MaxAdu
  /\ MsgType \in {MSG_INDICATION, MSG_CONFIRMATION}

ASSUME FramesAssumption == Frames \subseteq Seq(Byte) \ {<<>>}

ASSUME ContextAssumption ==
  /\ FirstTimeout \in BOOLEAN /\ ByteTimeout \in BOOLEAN
  /\ Recovery \subseteq {"LINK", "PROTOCOL"}
  /\ MaxFrames \in Nat /\ MaxConnections \in Nat

VARIABLES
  stream,          \* every byte the peer has sent on this connection
  ends,            \* history: positions where a frame of the peer ends, and 0
  arrived,         \* how many bytes of the stream have become readable
  closed,          \* the peer has closed its side
  connected,       \* ctx->s >= 0
  connections,     \* history: connections made so far
  start,           \* position in the stream where msg begins
  taken,           \* bytes consumed: msg_length is taken - start
  step,            \* what the bytes being read lead to
  length_to_read,
  timer,           \* p_tv is not NULL
  phase,           \* "idle" in the caller, "reading", or "sleeping" before a flush
  rc               \* what the last call returned: "message" or its errno

wire == <<stream, ends, arrived, closed>>
link == <<connected, connections>>
call == <<start, taken, step, length_to_read, timer>>
vars == <<wire, link, call, phase, rc>>

(***************************************************************************)
(* The lengths of the message that begins at position p of the stream.     *)
(***************************************************************************)
FunctionAt(p) == stream[p + HeaderLength + 1]

Meta(p) == MetaLength(FunctionAt(p), MsgType)

(* Seeded fault: the byte count taken for a number of registers. *)
Data_CountsRegisters(p) ==
  LET k == CountOffset(FunctionAt(p), MsgType)
  IN  ChecksumLength
        + (IF k = 0 THEN 0 ELSE 2 * stream[p + HeaderLength + 1 + k])

(* compute_data_length_after_meta *)
Data(p) ==
  LET k == CountOffset(FunctionAt(p), MsgType)
  IN  ChecksumLength + (IF k = 0 THEN 0 ELSE stream[p + HeaderLength + 1 + k])

(* check_integrity: over TCP every message passes, over RTU the checksum   *)
(* must be right.  (The slave filter of RTU changes what the caller does   *)
(* with the message, not what is read.)                                    *)
Intact(p, q) == ChecksumLength = 0 \/ SubSeq(stream, p + 1, q) \in ValidCrc

(***************************************************************************)
(* The peer and the transport.                                             *)
(***************************************************************************)
PeerSend(m) ==
  /\ connected /\ ~closed
  /\ Cardinality(ends) <= MaxFrames
  /\ stream' = stream \o m
  /\ ends' = ends \union {Len(stream) + Len(m)}
  /\ UNCHANGED <<arrived, closed, link, call, phase, rc>>

Arrive ==
  /\ arrived < Len(stream)
  /\ arrived' \in (arrived + 1)..Len(stream)
  /\ UNCHANGED <<stream, ends, closed, link, call, phase, rc>>

PeerClose ==
  /\ connected /\ ~closed
  /\ closed' = TRUE
  /\ UNCHANGED <<stream, ends, arrived, link, call, phase, rc>>

(***************************************************************************)
(* The receiver.                                                           *)
(***************************************************************************)
Return(result) ==
  /\ phase' = "idle"
  /\ rc' = result
  /\ UNCHANGED <<wire, link>>

Call ==
  /\ phase = "idle" /\ connected
  /\ start' = taken
  /\ step' = "FUNCTION"
  /\ length_to_read' = HeaderLength + 1
  /\ timer' = FirstTimeout
  /\ phase' = "reading"
  /\ UNCHANGED <<wire, link, taken, rc>>

(* is_connected fails: the call returns at once, without touching errno. *)
CallNotConnected ==
  /\ phase = "idle" /\ ~connected
  /\ Return("not connected")
  /\ UNCHANGED call

(* recv gives n of the bytes that have arrived, never more than asked for. *)
Readable(n) ==
  /\ phase = "reading"
  /\ n \in 1..length_to_read
  /\ taken + n <= arrived

(* Seeded fault: after the first bytes nothing bounds the wait. *)
ReadOn_NoTimeout(next, left) ==
  /\ step' = next
  /\ length_to_read' = left
  /\ timer' = FALSE
  /\ UNCHANGED <<wire, link, start, phase, rc>>

(* The loop goes round; from now on the byte timeout, when there is one,   *)
(* bounds the wait for what is left.                                       *)
ReadOn(next, left) ==
  /\ step' = next
  /\ length_to_read' = left
  /\ timer' = (timer \/ ByteTimeout)
  /\ UNCHANGED <<wire, link, start, phase, rc>>

(* Fewer bytes than asked for. *)
ReadPart(n) ==
  /\ n < length_to_read /\ Readable(n)
  /\ taken' = taken + n
  /\ ReadOn(step, length_to_read - n)

(* The last byte asked for: where the bytes of this step end. *)
StepEnd == taken + length_to_read

(* Seeded fault: the meta information is forgotten. *)
ReadFunction_SkipsMeta ==
  /\ Readable(length_to_read)
  /\ step = "FUNCTION" /\ Meta(start) # 0
  /\ taken' = StepEnd
  /\ ReadOn("DATA", Meta(start))

(* The function code is read and tells of meta information. *)
ReadFunction ==
  /\ Readable(length_to_read)
  /\ step = "FUNCTION" /\ Meta(start) # 0
  /\ taken' = StepEnd
  /\ ReadOn("META", Meta(start))

(* The meta information is read, or the function has none. *)
MetaKnown == step = "META" \/ (step = "FUNCTION" /\ Meta(start) = 0)

(* Seeded fault: the bytes already read are not counted. *)
Fits_DataOnly(left) == left <= MaxAdu

Fits(left) == StepEnd - start + left <= MaxAdu

ReadMeta ==
  /\ Readable(length_to_read)
  /\ MetaKnown /\ Data(start) > 0 /\ Fits(Data(start))
  /\ taken' = StepEnd
  /\ ReadOn("DATA", Data(start))

(* "too many data": the call returns, and the data stay unread. *)
ReadTooMany ==
  /\ Readable(length_to_read)
  /\ MetaKnown /\ ~Fits(Data(start))
  /\ taken' = StepEnd
  /\ Return("EMBBADDATA")
  /\ UNCHANGED <<start, step, length_to_read, timer>>

(* Seeded fault: the message ends with its meta information. *)
LastStep_AfterMeta == step = "DATA" \/ MetaKnown

(* Nothing more is to be read: check_integrity.  Over RTU a message with a *)
(* wrong checksum is an error, and PROTOCOL recovery flushes the input.    *)
LastStep ==
  \/ step = "DATA"
  \/ MetaKnown /\ Data(start) = 0 /\ Fits(0)

ReadLast ==
  /\ Readable(length_to_read)
  /\ LastStep /\ Intact(start, StepEnd)
  /\ taken' = StepEnd
  /\ Return("message")
  /\ UNCHANGED <<start, step, length_to_read, timer>>

ReadCorrupt ==
  /\ Readable(length_to_read)
  /\ LastStep /\ ~Intact(start, StepEnd)
  /\ taken' = IF "PROTOCOL" \in Recovery THEN arrived ELSE StepEnd
  /\ Return("EMBBADCRC")
  /\ UNCHANGED <<start, step, length_to_read, timer>>

(* select expires: nothing is readable.  Under LINK recovery the receiver  *)
(* sleeps for the response timeout and flushes before it returns.          *)
Timeout ==
  /\ phase = "reading" /\ timer
  /\ taken = arrived /\ ~closed
  /\ rc' = "ETIMEDOUT"
  /\ phase' = IF "LINK" \in Recovery THEN "sleeping" ELSE "idle"
  /\ UNCHANGED <<wire, link, call>>

(* Seeded fault: the flush leaves a byte behind. *)
Flush_AllButOne ==
  /\ phase = "sleeping"
  /\ taken' = IF arrived > taken THEN arrived - 1 ELSE taken
  /\ phase' = "idle"
  /\ UNCHANGED <<wire, link, start, step, length_to_read, timer, rc>>

Flush ==
  /\ phase = "sleeping"
  /\ taken' = arrived
  /\ phase' = "idle"
  /\ UNCHANGED <<wire, link, start, step, length_to_read, timer, rc>>

(* recv gives 0 (or fails with ECONNRESET): the peer has gone.  Under LINK *)
(* recovery the receiver closes and connects again, once.                  *)
PeerGone ==
  /\ phase = "reading"
  /\ closed /\ taken = Len(stream)
  /\ rc' = "ECONNRESET"
  /\ phase' = "idle"

LoseConnection ==
  /\ PeerGone
  /\ "LINK" \notin Recovery
  /\ UNCHANGED <<wire, link, call>>

Reconnect ==
  /\ PeerGone
  /\ "LINK" \in Recovery /\ connections < MaxConnections
  /\ stream' = <<>> /\ ends' = {0} /\ arrived' = 0 /\ closed' = FALSE
  /\ start' = 0 /\ taken' = 0
  /\ connections' = connections + 1
  /\ UNCHANGED <<connected, step, length_to_read, timer>>

FailToReconnect ==
  /\ PeerGone
  /\ "LINK" \in Recovery
  /\ connected' = FALSE
  /\ UNCHANGED <<wire, connections, call>>

(***************************************************************************)
(* The specification.                                                      *)
(***************************************************************************)
Init ==
  /\ stream = <<>> /\ ends = {0} /\ arrived = 0 /\ closed = FALSE
  /\ connected = TRUE /\ connections = 1
  /\ start = 0 /\ taken = 0
  /\ step = "FUNCTION" /\ length_to_read = 0 /\ timer = FALSE
  /\ phase = "idle" /\ rc = "none"

Peer == PeerClose \/ \E m \in Frames : PeerSend(m)

Recv ==
  \/ \E n \in 1..(length_to_read - 1) : ReadPart(n)
  \/ ReadFunction
  \/ ReadMeta \/ ReadTooMany
  \/ ReadLast \/ ReadCorrupt

Receiver ==
  \/ Call \/ CallNotConnected
  \/ Recv
  \/ Timeout \/ Flush
  \/ LoseConnection \/ Reconnect \/ FailToReconnect

Next == Peer \/ Arrive \/ Receiver

Spec == Init /\ [][Next]_vars

(* Bytes sent arrive, and the receiver runs. *)
FairSpec == Spec /\ WF_vars(Arrive) /\ WF_vars(Receiver)

(***************************************************************************)
(* Properties.                                                             *)
(***************************************************************************)
Results ==
  {"none", "message", "not connected",
   "EMBBADDATA", "EMBBADCRC", "ETIMEDOUT", "ECONNRESET"}

(* The type invariant. *)
TypeOK ==
  /\ stream \in Seq(Byte)
  /\ ends \subseteq 0..Len(stream)
  /\ arrived \in 0..Len(stream)
  /\ start \in 0..taken /\ taken \in 0..arrived
  /\ closed \in BOOLEAN /\ connected \in BOOLEAN /\ timer \in BOOLEAN
  /\ connections \in Nat /\ length_to_read \in Nat
  /\ step \in {"FUNCTION", "META", "DATA"}
  /\ phase \in {"idle", "reading", "sleeping"}
  /\ rc \in Results

(* Whatever bytes the peer sends, a recv never writes past the ADU that    *)
(* the caller's buffer holds: what is read plus what the next recv may     *)
(* read fits, and the receiver never asks for nothing.                     *)
BufferBound ==
  phase = "reading" =>
    /\ length_to_read > 0
    /\ StepEnd - start <= MaxAdu

(* A frame of the peer begins at position p. *)
FrameAt(p, m) ==
  /\ p + Len(m) \in ends
  /\ \A i \in 1..Len(m) : stream[p + i] = m[i]

(* The length the receiver computes for a frame. *)
FrameLength(m) ==
  LET function == m[HeaderLength + 1]
      k == CountOffset(function, MsgType)
  IN  HeaderLength + 1 + MetaLength(function, MsgType) + ChecksumLength
        + (IF k = 0 THEN 0 ELSE m[HeaderLength + 1 + k])

(* A frame the receiver understands: its function is one the receiver      *)
(* knows the geometry of, and its length is the one that geometry gives.   *)
WellFormed(m) ==
  /\ Len(m) >= HeaderLength + 1
  /\ Len(m) >= HeaderLength + 1 + MetaLength(m[HeaderLength + 1], MsgType)
  /\ Len(m) = FrameLength(m)
  /\ Len(m) <= MaxAdu

(* As long as a call began where a well-formed frame begins, it never      *)
(* takes, and never waits for, a byte of the frame after it, however the   *)
(* transport cuts the bytes and however many requests are pipelined.       *)
NoOverread ==
  phase = "reading" /\ start \in ends =>
    \A m \in Frames : FrameAt(start, m) /\ WellFormed(m) =>
      StepEnd <= start + Len(m)

(* A message returned by a call that began at a well-formed frame is that  *)
(* frame, whole and alone.                                                 *)
ExactFrame ==
  phase = "idle" /\ rc = "message" /\ start \in ends =>
    \A m \in Frames : FrameAt(start, m) /\ WellFormed(m) =>
      taken = start + Len(m)

(* Where the current call began, or the next one will. *)
Base == IF phase = "reading" THEN start ELSE taken

Aligned == Base \in ends

(* The only ways to lose the frame boundaries: a frame without a known     *)
(* geometry, a timeout in the middle of a frame, or a flush while a frame  *)
(* is still on its way.                                                    *)
LostOnlyBy ==
  [][ Aligned /\ ~Aligned' =>
        \/ \E m \in Frames : FrameAt(start, m) /\ ~WellFormed(m)
        \/ rc' = "ETIMEDOUT" /\ taken \notin ends
        \/ taken' = arrived /\ arrived \notin ends ]_vars

(* The byte timeout brings the receiver back to the boundary of a frame:   *)
(* whatever was lost, once the peer stays quiet the receiver stands at the *)
(* end of the last frame, ready for the next one.                          *)
Resync == []<>(~connected \/ closed \/ (Aligned /\ Base = Len(stream)))

(***************************************************************************)
(* The channel of frames the receiver implements: the frames sent are what *)
(* lies between the boundaries of the stream; those delivered end at or    *)
(* before the place where the receiver is, which must be a boundary.       *)
(***************************************************************************)

(* How many members of S lie before p; and the member with i before it. *)
Rank(S, p) == Cardinality({ e \in S : e < p })

Nth(S, i) == CHOOSE e \in S : Rank(S, e) = i

(* What lies between the boundaries S of the stream s. *)
Cut(s, S) ==
  [ i \in 1..(Cardinality(S) - 1) |-> SubSeq(s, Nth(S, i - 1) + 1, Nth(S, i)) ]

Channel ==
  INSTANCE FrameChannel
    WITH sent <- Cut(stream, ends),
         delivered <- IF Aligned THEN Rank(ends, Base) ELSE -1

(* Nothing but the frames decides what the receiver does: the peer sends   *)
(* only frames it understands, their checksums are right, no timer bounds  *)
(* the wait, and a lost connection stays lost.                             *)
Orderly ==
  /\ ~FirstTimeout /\ ~ByteTimeout /\ "LINK" \notin Recovery
  /\ \A m \in Frames :
       WellFormed(m) /\ (ChecksumLength = 0 \/ m \in ValidCrc)

(* Without timeouts and with frames of known geometry the receiver is a    *)
(* reliable channel of frames: each is returned once, whole, in the order  *)
(* sent, and every frame sent is returned in the end, though the receiver  *)
(* sees only a stream cut anywhere (_modbus_receive_msg).                  *)
ImplementsChannel == Channel!Spec

(***************************************************************************)
(* The inductive invariant behind BufferBound, NoOverread and ExactFrame.  *)
(***************************************************************************)

(* The length the bytes of the stream give to the message that begins at p *)
MsgLength(p) == HeaderLength + 1 + Meta(p) + Data(p)

(* Every boundary is the end of the stream or the place of a frame. *)
EndsInv ==
  /\ 0 \in ends /\ Len(stream) \in ends
  /\ \A e \in ends : e = Len(stream) \/ \E m \in Frames : FrameAt(e, m)

(* The bytes before position q tell the length of the message at p. *)
Known(p, q) ==
  /\ q - p >= HeaderLength + 1
  /\ q - p >= HeaderLength + 1 + Meta(p)

(* What is being read ends where the bytes already read say. *)
StepInv ==
  phase = "reading" =>
    /\ length_to_read > 0
    /\ step = "FUNCTION" => StepEnd - start = HeaderLength + 1
    /\ step = "META" =>
         /\ taken - start >= HeaderLength + 1
         /\ StepEnd - start = HeaderLength + 1 + Meta(start)
    /\ step = "DATA" =>
         /\ Known(start, taken)
         /\ StepEnd - start = MsgLength(start)
         /\ MsgLength(start) <= MaxAdu

(* What was returned is one message; a pending flush follows a timeout. *)
ReturnInv ==
  /\ phase = "idle" /\ rc = "message" =>
       /\ Known(start, taken)
       /\ taken - start = MsgLength(start)
       /\ MsgLength(start) <= MaxAdu
  /\ phase = "sleeping" => rc = "ETIMEDOUT"

IInv == TypeOK /\ EndsInv /\ StepInv /\ ReturnInv

(***************************************************************************)
(* What an orderly receiver keeps besides: the invariant behind the safety *)
(* part of ImplementsChannel.                                              *)
(***************************************************************************)

(* No wait is bounded, so no flush is pending. *)
Quiet == ~timer /\ phase # "sleeping"

(* The next boundary after a frame's begin is that frame's end. *)
NextFrame(e, m) ==
  FrameAt(e, m) /\ \A f \in ends : ~(e < f /\ f < e + Len(m))

Follow == \A e \in ends : e = Len(stream) \/ \E m \in Frames : NextFrame(e, m)

(* The boundaries are counted without a gap. *)
Numbered == \A i \in 0..(Cardinality(ends) - 1) : \E e \in ends : Rank(ends, e) = i

ChInv == IInv /\ Aligned /\ Quiet /\ Follow /\ Numbered
=============================================================================
