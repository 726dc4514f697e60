-------------------------- MODULE ReceiveMsg_proofs --------------------------
(***************************************************************************)
(* Proofs about ReceiveMsg for every set of frames, every geometry of the  *)
(* backend, every setting of the timeouts and every recovery mode.         *)
(***************************************************************************)
EXTENDS ReceiveMsg, FiniteSetTheorems, SequenceTheorems, TLAPS

USE GeometryAssumption

-----------------------------------------------------------------------------
(***************************************************************************)
(* The geometry of a message.                                              *)
(***************************************************************************)

(* compute_meta_length_after_function asks for at most nine bytes, and the *)
(* byte count that compute_data_length_after_meta looks at is one of them. *)
LEMMA MetaRange ==
  ASSUME NEW function \in Byte
  PROVE  /\ MetaLength(function, MsgType) \in 0..9
         /\ CountOffset(function, MsgType) \in 0..MetaLength(function, MsgType)
<1>1. CASE MsgType = MSG_INDICATION
  BY <1>1 DEF Byte, MetaLength, CountOffset, WriteMultipleFCs, MSG_INDICATION,
    FC_WRITE_SINGLE_REGISTER, FC_WRITE_MULTIPLE_COILS,
    FC_WRITE_MULTIPLE_REGISTERS, FC_MASK_WRITE_REGISTER,
    FC_WRITE_AND_READ_REGISTERS
<1>2. CASE MsgType = MSG_CONFIRMATION
  BY <1>2 DEF Byte, MetaLength, CountOffset, WriteSingleFCs, WriteMultipleFCs,
    MSG_INDICATION, MSG_CONFIRMATION, FC_WRITE_SINGLE_COIL,
    FC_WRITE_SINGLE_REGISTER, FC_WRITE_MULTIPLE_COILS,
    FC_WRITE_MULTIPLE_REGISTERS, FC_MASK_WRITE_REGISTER,
    FC_WRITE_AND_READ_REGISTERS, FC_READ_INPUT_REGISTERS, FC_REPORT_SLAVE_ID
<1>3. QED
  BY <1>1, <1>2

(* The lengths read from the stream are numbers once the bytes they come   *)
(* from are there.                                                         *)
LEMMA MetaType ==
  ASSUME stream \in Seq(Byte), NEW p \in Nat,
         p + HeaderLength + 1 <= Len(stream)
  PROVE  /\ FunctionAt(p) \in Byte
         /\ Meta(p) \in 0..9
<1>1. FunctionAt(p) \in Byte
  BY ElementOfSeq DEF FunctionAt
<1>2. QED
  BY <1>1, MetaRange DEF Meta

LEMMA DataType ==
  ASSUME stream \in Seq(Byte), NEW p \in Nat,
         p + HeaderLength + 1 + Meta(p) <= Len(stream),
         p + HeaderLength + 1 <= Len(stream)
  PROVE  Data(p) \in Nat
<1> DEFINE k == CountOffset(FunctionAt(p), MsgType)
           count == stream[p + HeaderLength + 1 + k]
<1>1. FunctionAt(p) \in Byte
  BY MetaType
<1>2. k \in 0..Meta(p) /\ Meta(p) \in 0..9
  BY <1>1, MetaRange DEF Meta
<1>3. k # 0 => count \in Byte
  <2>1. k # 0 => p + HeaderLength + 1 + k \in 1..Len(stream)
    BY <1>2, LenProperties
  <2>2. QED
    BY <2>1, ElementOfSeq
<1>4. Data(p) = ChecksumLength + (IF k = 0 THEN 0 ELSE count)
  BY DEF Data
<1>5. CASE k = 0
  BY <1>4, <1>5
<1>6. CASE k # 0
  <2>1. Data(p) = ChecksumLength + count /\ count \in 0..255
    BY <1>3, <1>4, <1>6 DEF Byte
  <2> HIDE DEF count
  <2>2. QED
    BY <2>1
<1>7. QED
  BY <1>5, <1>6

(* Bytes appended to the stream change no length read from it before. *)
LEMMA GeometryStable ==
  ASSUME TypeOK, NEW p \in Nat,
         stream' \in Seq(Byte), Len(stream) <= Len(stream'),
         \A i \in 1..Len(stream) : stream'[i] = stream[i],
         p + HeaderLength + 1 <= Len(stream)
  PROVE  /\ Meta(p)' = Meta(p)
         /\ p + HeaderLength + 1 + Meta(p) <= Len(stream) =>
              Data(p)' = Data(p)
<1> USE DEF TypeOK
<1>0. Len(stream) \in Nat
  BY LenProperties
<1>1. FunctionAt(p)' = FunctionAt(p)
  BY <1>0 DEF FunctionAt
<1>2. Meta(p)' = Meta(p)
  BY <1>1 DEF Meta
<1>3. ASSUME p + HeaderLength + 1 + Meta(p) <= Len(stream)
      PROVE  Data(p)' = Data(p)
  <2> DEFINE k == CountOffset(FunctionAt(p), MsgType)
  <2>1. k \in 0..Meta(p) /\ Meta(p) \in 0..9
    BY MetaType, MetaRange DEF Meta
  <2>2. k # 0 => stream'[p + HeaderLength + 1 + k] = stream[p + HeaderLength + 1 + k]
    <3> HIDE DEF k, TypeOK
    <3>1. p + HeaderLength + 1 + k \in 1..Len(stream)
      BY <1>0, <1>3, <2>1, SMTT(30)
    <3> QED
      BY <3>1
  <2>3. QED
    BY <1>1, <2>2 DEF Data
<1>4. QED
  BY <1>2, <1>3

(* A well-formed frame in the stream has the length its bytes give it. *)
LEMMA FrameGeometry ==
  ASSUME TypeOK, FramesAssumption, NEW p \in Nat, NEW m \in Frames,
         FrameAt(p, m), WellFormed(m)
  PROVE  /\ Len(m) \in Nat /\ p + Len(m) <= Len(stream)
         /\ HeaderLength + 1 + Meta(p) <= Len(m)
         /\ HeaderLength + 1 <= Len(m)
         /\ MsgLength(p) = Len(m)
         /\ Len(m) <= MaxAdu
<1>1. m \in Seq(Byte) /\ Len(m) \in Nat /\ Len(stream) \in Nat
  BY LenProperties DEF TypeOK, FramesAssumption
<1>2. p + Len(m) <= Len(stream)
  BY <1>1 DEF FrameAt, TypeOK
<1> DEFINE function == m[HeaderLength + 1]
           k == CountOffset(function, MsgType)
<1>4. /\ HeaderLength + 1 <= Len(m)
      /\ HeaderLength + 1 + MetaLength(function, MsgType) <= Len(m)
      /\ Len(m) = FrameLength(m)
      /\ Len(m) <= MaxAdu
  BY DEF WellFormed
<1>5. function \in Byte
  BY <1>1, <1>4, ElementOfSeq
<1>6. FunctionAt(p) = function
  BY <1>1, <1>4 DEF FrameAt, FunctionAt
<1>7. Meta(p) = MetaLength(function, MsgType)
  BY <1>6 DEF Meta
<1>8. k \in 0..Meta(p) /\ Meta(p) \in 0..9
  BY <1>5, <1>7, MetaRange
<1>9. k # 0 => stream[p + HeaderLength + 1 + k] = m[HeaderLength + 1 + k]
  <2> HIDE DEF function, k
  <2>1. HeaderLength + 1 + k \in 1..Len(m)
    BY <1>1, <1>4, <1>7, <1>8
  <2>2. stream[p + (HeaderLength + 1 + k)] = m[HeaderLength + 1 + k]
    BY <2>1 DEF FrameAt
  <2>3. p + (HeaderLength + 1 + k) = p + HeaderLength + 1 + k
    BY <1>8
  <2>4. QED
    BY <2>2, <2>3
<1>10. Data(p) = ChecksumLength + (IF k = 0 THEN 0 ELSE m[HeaderLength + 1 + k])
  BY <1>6, <1>9 DEF Data
<1>11. FrameLength(m) = HeaderLength + 1 + MetaLength(function, MsgType) + ChecksumLength
          + (IF k = 0 THEN 0 ELSE m[HeaderLength + 1 + k])
  BY DEF FrameLength
<1>12. k # 0 => m[HeaderLength + 1 + k] \in Byte
  <2> HIDE DEF function, k
  <2>1. HeaderLength + 1 + k \in 1..Len(m)
    BY <1>1, <1>4, <1>7, <1>8, SMTT(30)
  <2> QED
    BY <1>1, <2>1, ElementOfSeq
<1>13. MsgLength(p) = Len(m)
  <2> DEFINE count == IF k = 0 THEN 0 ELSE m[HeaderLength + 1 + k]
  <2>1. count \in Nat
    <3>1. CASE k = 0
      BY <3>1
    <3>2. CASE k # 0
      <4>1. count = m[HeaderLength + 1 + k]
        BY <3>2
      <4>2. count \in Byte
        BY <4>1, <3>2, <1>12
      <4> HIDE DEF count
      <4>3. QED
        BY <4>2 DEF Byte
    <3>3. QED
      BY <3>1, <3>2
  <2>2. /\ Data(p) = ChecksumLength + count
        /\ Len(m) = HeaderLength + 1 + MetaLength(function, MsgType) + ChecksumLength + count
    BY <1>4, <1>10, <1>11
  <2>3. Len(m) = HeaderLength + 1 + Meta(p) + ChecksumLength + count
    BY <1>7, <2>2
  <2>4. Meta(p) \in Nat
    BY <1>8
  <2> HIDE DEF function, k, count
  <2>5. QED
    BY <2>1, <2>2, <2>3, <2>4 DEF MsgLength
<1>14. QED
  BY <1>1, <1>2, <1>4, <1>7, <1>13

-----------------------------------------------------------------------------
(***************************************************************************)
(* The invariant holds at first and every step keeps it.                   *)
(***************************************************************************)

LEMMA InitInv ==
  ASSUME Init
  PROVE  IInv
<1>1. Len(stream) = 0 /\ stream \in Seq(Byte)
  BY EmptySeq DEF Init
<1>2. TypeOK
  <2>1. /\ ends \subseteq 0..Len(stream) /\ arrived \in 0..Len(stream)
        /\ start \in 0..taken /\ taken \in 0..arrived
    BY <1>1 DEF Init
  <2>2. rc \in Results
    BY DEF Init, Results
  <2>3. QED
    BY <1>1, <2>1, <2>2 DEF Init, TypeOK
<1>3. EndsInv
  <2>1. ends = {0} /\ Len(stream) = 0
    BY <1>1 DEF Init
  <2>2. QED
    BY <2>1, Zenon DEF EndsInv
<1>4. StepInv /\ ReturnInv
  BY DEF Init, StepInv, ReturnInv
<1>5. QED
  BY <1>2, <1>3, <1>4 DEF IInv

(* The lengths of a message whose meta information is in the stream. *)
LEMMA KnownTypes ==
  ASSUME TypeOK, NEW p \in Nat, NEW q \in Nat, q <= Len(stream), Known(p, q)
  PROVE  /\ Meta(p) \in 0..9 /\ Data(p) \in Nat /\ MsgLength(p) \in Nat
         /\ p + HeaderLength + 1 <= Len(stream)
         /\ p + HeaderLength + 1 + Meta(p) <= Len(stream)
<1>1. stream \in Seq(Byte) /\ Len(stream) \in Nat
  BY LenProperties DEF TypeOK
<1>2. p + HeaderLength + 1 <= Len(stream)
  BY <1>1 DEF Known
<1>3. Meta(p) \in 0..9
  BY <1>1, <1>2, MetaType
<1>4. p + HeaderLength + 1 + Meta(p) <= Len(stream)
  <2>1. q - p >= HeaderLength + 1 + Meta(p)
    BY DEF Known
  <2> QED
    BY <1>1, <1>3, <2>1, SMTT(30)
<1>5. Data(p) \in Nat
  BY <1>1, <1>2, <1>4, DataType
<1>6. MsgLength(p) \in Nat
  BY <1>3, <1>5 DEF MsgLength
<1>7. QED
  BY <1>2, <1>3, <1>4, <1>5, <1>6

(* What is known of the lengths of a message stays so when bytes are       *)
(* appended to the stream.                                                 *)
LEMMA KnownStable ==
  ASSUME TypeOK, NEW p \in Nat, NEW q \in Nat, q <= Len(stream), Known(p, q),
         stream' \in Seq(Byte), Len(stream) <= Len(stream'),
         \A i \in 1..Len(stream) : stream'[i] = stream[i]
  PROVE  Meta(p)' = Meta(p) /\ Data(p)' = Data(p) /\ MsgLength(p)' = MsgLength(p)
<1>1. /\ p + HeaderLength + 1 <= Len(stream)
      /\ p + HeaderLength + 1 + Meta(p) <= Len(stream)
  BY KnownTypes
<1>2. Meta(p)' = Meta(p) /\ Data(p)' = Data(p)
  BY <1>1, GeometryStable
<1>3. QED
  BY <1>2 DEF MsgLength

(* A frame appended to the stream leaves those before it where they are.   *)
LEMMA PeerSendFrames ==
  ASSUME TypeOK, EndsInv, FramesAssumption, NEW m \in Frames, PeerSend(m)
  PROVE  /\ stream' \in Seq(Byte)
         /\ Len(stream') = Len(stream) + Len(m)
         /\ \A i \in 1..Len(stream) : stream'[i] = stream[i]
         /\ ends' = ends \union {Len(stream')}
         /\ Len(stream) \in ends
         /\ \A e \in ends, f \in Frames : FrameAt(e, f) => FrameAt(e, f)'
         /\ \A e \in Nat : e = Len(stream) => FrameAt(e, m)'
<1>1. /\ stream \in Seq(Byte) /\ Len(stream) \in Nat
      /\ m \in Seq(Byte) /\ Len(m) \in Nat
  BY LenProperties DEF TypeOK, FramesAssumption
<1>2. /\ stream' \in Seq(Byte)
      /\ Len(stream') = Len(stream) + Len(m)
      /\ \A i \in 1..Len(stream) : stream'[i] = stream[i]
      /\ \A i \in 1..Len(m) : stream'[Len(stream) + i] = m[i]
  <2>1. stream' = stream \o m
    BY DEF PeerSend
  <2>2. /\ stream' \in Seq(Byte)
        /\ Len(stream') = Len(stream) + Len(m)
        /\ \A i \in 1..(Len(stream) + Len(m)) :
             stream'[i] = IF i <= Len(stream) THEN stream[i] ELSE m[i - Len(stream)]
    BY <1>1, <2>1, ConcatProperties
  <2>3. ASSUME NEW i \in 1..Len(m)
        PROVE  stream'[Len(stream) + i] = m[i]
    <3>1. /\ Len(stream) + i \in 1..(Len(stream) + Len(m))
          /\ ~(Len(stream) + i <= Len(stream))
          /\ Len(stream) + i - Len(stream) = i
      BY <1>1
    <3>2. QED
      BY <2>2, <3>1
  <2>4. QED
    BY <1>1, <2>2, <2>3
<1>3. ends' = ends \union {Len(stream')} /\ Len(stream) \in ends
  BY <1>2 DEF PeerSend, EndsInv
<1>4. ASSUME NEW e \in ends, NEW f \in Frames, FrameAt(e, f)
      PROVE  FrameAt(e, f)'
  <2>1. f \in Seq(Byte) /\ Len(f) \in Nat /\ e \in Nat /\ e + Len(f) <= Len(stream)
    BY <1>1, LenProperties, <1>4 DEF FramesAssumption, TypeOK, FrameAt
  <2>2. \A i \in 1..Len(f) : e + i \in 1..Len(stream) /\ stream'[e + i] = f[i]
    BY <1>1, <1>2, <1>4, <2>1 DEF FrameAt
  <2>3. QED
    BY <1>3, <1>4, <2>2 DEF FrameAt
<1>5. ASSUME NEW e \in Nat, e = Len(stream)
      PROVE  FrameAt(e, m)'
  <2>1. e + Len(m) \in ends'
    BY <1>2, <1>3, <1>5
  <2>2. QED
    BY <1>2, <1>5, <2>1 DEF FrameAt
<1>6. QED
  BY <1>2, <1>3, <1>4, <1>5

(* The peer appends a frame. *)
LEMMA PeerSendInv ==
  ASSUME IInv, FramesAssumption, NEW m \in Frames, PeerSend(m)
  PROVE  IInv'
<1> USE DEF IInv
<1>1. /\ stream \in Seq(Byte) /\ Len(stream) \in Nat
      /\ m \in Seq(Byte) /\ Len(m) \in Nat
  BY LenProperties DEF TypeOK, FramesAssumption
<1>2. /\ stream' \in Seq(Byte)
      /\ Len(stream') = Len(stream) + Len(m)
      /\ Len(stream) <= Len(stream')
      /\ \A i \in 1..Len(stream) : stream'[i] = stream[i]
      /\ ends' = ends \union {Len(stream')}
      /\ \A e \in ends, f \in Frames : FrameAt(e, f) => FrameAt(e, f)'
      /\ \A e \in Nat : e = Len(stream) => FrameAt(e, m)'
  BY <1>1, PeerSendFrames
<1>3. TypeOK'
  <2>1. ends' \subseteq 0..Len(stream')
    BY <1>1, <1>2 DEF TypeOK, PeerSend
  <2>2. arrived' \in 0..Len(stream')
    BY <1>1, <1>2 DEF TypeOK, PeerSend
  <2>3. QED
    BY <1>2, <2>1, <2>2 DEF TypeOK, PeerSend, link, call
<1>4. EndsInv'
  <2>1. ASSUME NEW e \in ends'
        PROVE  e = Len(stream') \/ \E f \in Frames : FrameAt(e, f)'
    <3>1. CASE e \in ends /\ e # Len(stream)
      <4>1. PICK f \in Frames : FrameAt(e, f)
        BY <3>1 DEF EndsInv
      <4>2. FrameAt(e, f)'
        BY <3>1, <4>1, <1>2
      <4>3. QED
        BY <4>2
    <3>2. CASE e = Len(stream)
      BY <1>1, <1>2, <3>2
    <3>3. CASE e = Len(stream')
      BY <3>3
    <3>4. QED
      BY <1>2, <2>1, <3>1, <3>2, <3>3
  <2>2. QED
    BY <1>2, <2>1 DEF EndsInv
<1>5. /\ start' = start /\ taken' = taken /\ step' = step /\ phase' = phase /\ rc' = rc
      /\ length_to_read' = length_to_read
      /\ start \in Nat /\ taken \in Nat /\ taken <= Len(stream)
  BY <1>1 DEF PeerSend, call, TypeOK
<1>6. StepInv'
  <2>1. CASE phase = "reading" /\ step = "META"
    <3>1. start + HeaderLength + 1 <= Len(stream)
      BY <1>1, <1>5, <2>1 DEF StepInv
    <3>2. Meta(start)' = Meta(start)
      BY <1>1, <1>2, <1>5, <3>1, GeometryStable
    <3>3. QED
      BY <1>5, <2>1, <3>2 DEF StepInv, StepEnd
  <2>2. CASE phase = "reading" /\ step = "DATA"
    <3>1. Meta(start)' = Meta(start) /\ MsgLength(start)' = MsgLength(start)
      BY <1>1, <1>2, <1>5, <2>2, KnownStable DEF StepInv
    <3>2. QED
      BY <1>5, <2>2, <3>1 DEF StepInv, StepEnd, Known
  <2>3. CASE phase # "reading" \/ step = "FUNCTION"
    BY <1>5, <2>3 DEF StepInv, StepEnd
  <2>4. QED
    BY <2>1, <2>2, <2>3 DEF TypeOK
<1>7. ReturnInv'
  <2>1. CASE phase = "idle" /\ rc = "message"
    <3>0. Known(start, taken)
      BY <2>1 DEF ReturnInv
    <3>1. Meta(start)' = Meta(start) /\ MsgLength(start)' = MsgLength(start)
      BY <1>1, <1>2, <1>5, <3>0, KnownStable
    <3>2. QED
      BY <1>5, <2>1, <3>1 DEF ReturnInv, Known
  <2>2. CASE ~(phase = "idle" /\ rc = "message")
    BY <1>5, <2>2 DEF ReturnInv
  <2>3. QED
    BY <2>1, <2>2
<1>8. QED
  BY <1>3, <1>4, <1>6, <1>7

(* Steps that leave the stream alone leave its frames alone. *)
LEMMA EndsStable ==
  ASSUME EndsInv, UNCHANGED <<stream, ends>>
  PROVE  EndsInv'
BY DEF EndsInv, FrameAt

(* Bytes arrive, or the peer closes: nothing the receiver knows changes. *)
LEMMA TransportInv ==
  ASSUME IInv, Arrive \/ PeerClose
  PROVE  IInv'
<1> USE DEF IInv
<1>1. UNCHANGED <<stream, ends, connected, connections, call, phase, rc>>
  BY DEF Arrive, PeerClose, link
<1>2. arrived' \in arrived..Len(stream) /\ closed' \in BOOLEAN
  <2>1. arrived \in Nat /\ Len(stream) \in Nat /\ arrived <= Len(stream)
    BY LenProperties DEF TypeOK
  <2>2. CASE Arrive
    BY <2>1, <2>2 DEF Arrive, TypeOK
  <2>3. CASE PeerClose
    BY <2>1, <2>3 DEF PeerClose
  <2>4. QED
    BY <2>2, <2>3
<1>3. TypeOK'
  BY <1>1, <1>2 DEF TypeOK, call
<1>4. EndsInv'
  BY <1>1, EndsStable
<1>5. StepInv' /\ ReturnInv'
  BY <1>1 DEF StepInv, ReturnInv, Known, MsgLength, Meta, Data, FunctionAt,
    StepEnd, call
<1>6. QED
  BY <1>3, <1>4, <1>5

(* A call begins. *)
LEMMA CallInv ==
  ASSUME IInv, Call \/ CallNotConnected
  PROVE  IInv'
<1> USE DEF IInv
<1>1. CASE Call
  <2>1. EndsInv'
    BY <1>1, EndsStable DEF Call, wire
  <2>2. TypeOK'
    <3>1. start' \in 0..taken' /\ length_to_read' \in Nat /\ timer' \in BOOLEAN
      BY <1>1, ContextAssumption DEF TypeOK, Call
    <3>2. QED
      BY <1>1, <3>1 DEF TypeOK, Call, wire, link
  <2>3. StepInv' /\ ReturnInv'
    BY <1>1 DEF TypeOK, Call, StepInv, ReturnInv, StepEnd
  <2>4. QED
    BY <2>1, <2>2, <2>3
<1>2. CASE CallNotConnected
  <2>1. EndsInv'
    BY <1>2, EndsStable DEF CallNotConnected, Return, wire
  <2>2. TypeOK'
    BY <1>2 DEF TypeOK, CallNotConnected, Return, Results, wire, link, call
  <2>3. StepInv' /\ ReturnInv'
    BY <1>2 DEF CallNotConnected, Return, StepInv, ReturnInv
  <2>4. QED
    BY <2>1, <2>2, <2>3
<1>3. QED
  BY <1>1, <1>2

(* What a recv of n bytes finds: they are in the stream. *)
LEMMA ReadableTypes ==
  ASSUME TypeOK, NEW n \in Nat, Readable(n)
  PROVE  /\ start \in Nat /\ taken \in Nat /\ length_to_read \in Nat
         /\ taken + n \in Nat /\ n <= length_to_read /\ n > 0
         /\ taken + n <= arrived /\ taken + n <= Len(stream)
         /\ start <= taken /\ arrived \in Nat /\ Len(stream) \in Nat
BY LenProperties DEF TypeOK, Readable

(* The bytes of a step begun are enough to know the length of its message. *)
LEMMA MetaKnownTypes ==
  ASSUME IInv, Readable(length_to_read), MetaKnown
  PROVE  /\ Known(start, StepEnd)
         /\ StepEnd - start = HeaderLength + 1 + Meta(start)
         /\ Meta(start) \in 0..9 /\ Data(start) \in Nat
<1>1. /\ start \in Nat /\ taken \in Nat /\ length_to_read \in Nat
      /\ StepEnd \in Nat /\ StepEnd <= Len(stream) /\ start <= taken
      /\ Len(stream) \in Nat /\ stream \in Seq(Byte)
  BY ReadableTypes DEF IInv, TypeOK, StepEnd
<1>2. start + HeaderLength + 1 <= StepEnd
  BY <1>1 DEF IInv, StepInv, Readable, MetaKnown, StepEnd
<1>3. Meta(start) \in 0..9
  BY <1>1, <1>2, MetaType
<1>4. StepEnd - start = HeaderLength + 1 + Meta(start)
  BY <1>1, <1>3 DEF IInv, StepInv, Readable, MetaKnown
<1>5. Known(start, StepEnd)
  BY <1>1, <1>2, <1>3, <1>4 DEF Known
<1>6. QED
  BY <1>1, <1>3, <1>4, <1>5, KnownTypes DEF IInv

(* Reading on within a message: a piece of a step, or the next step. *)
LEMMA ReadOnInv ==
  ASSUME IInv, NEW n \in 1..length_to_read, Readable(n), taken' = taken + n,
         NEW next \in {"FUNCTION", "META", "DATA"}, NEW left \in Nat \ {0},
         ReadOn(next, left),
         next = "FUNCTION" => taken + n + left - start = HeaderLength + 1,
         next = "META" =>
           /\ taken + n - start >= HeaderLength + 1
           /\ taken + n + left - start = HeaderLength + 1 + Meta(start),
         next = "DATA" =>
           /\ Known(start, taken + n)
           /\ taken + n + left - start = MsgLength(start)
           /\ MsgLength(start) <= MaxAdu
  PROVE  IInv'
<1> USE DEF IInv
<1>1. /\ start \in Nat /\ taken \in Nat /\ n \in Nat /\ start <= taken
      /\ taken' \in Nat /\ taken' <= arrived /\ arrived \in Nat
  BY ReadableTypes DEF TypeOK
<1>2. /\ UNCHANGED <<wire, link, start, phase, rc>>
      /\ step' = next /\ length_to_read' = left
      /\ timer' \in BOOLEAN
  BY ContextAssumption DEF ReadOn, TypeOK
<1>3. EndsInv'
  BY <1>2, EndsStable DEF wire
<1>4. TypeOK'
  <2>1. start' \in 0..taken' /\ taken' \in 0..arrived'
    BY <1>1, <1>2 DEF wire
  <2>2. QED
    BY <1>2, <2>1 DEF TypeOK, wire, link
<1>5. StepInv'
  <2>1. StepEnd' = taken + n + left
    BY <1>2 DEF StepEnd
  <2>2. Meta(start)' = Meta(start) /\ MsgLength(start)' = MsgLength(start)
    BY <1>2 DEF Meta, MsgLength, Data, FunctionAt, wire
  <2>3. Known(start, taken + n) => Known(start, taken)'
    BY <1>2, <2>2 DEF Known
  <2>4. CASE next = "FUNCTION"
    BY <1>1, <1>2, <2>1, <2>4 DEF StepInv
  <2>5. CASE next = "META"
    BY <1>1, <1>2, <2>1, <2>2, <2>5 DEF StepInv
  <2>6. CASE next = "DATA"
    BY <1>1, <1>2, <2>1, <2>2, <2>3, <2>6 DEF StepInv
  <2>7. QED
    BY <2>4, <2>5, <2>6
<1>6. ReturnInv'
  BY <1>2 DEF ReturnInv, Readable
<1>7. QED
  BY <1>3, <1>4, <1>5, <1>6

LEMMA ReadPartInv ==
  ASSUME IInv, NEW n \in 1..(length_to_read - 1), ReadPart(n)
  PROVE  IInv'
<1>1. /\ start \in Nat /\ taken \in Nat /\ length_to_read \in Nat
      /\ start <= taken /\ n \in Nat
      /\ length_to_read - n \in Nat \ {0} /\ n \in 1..length_to_read
      /\ step \in {"FUNCTION", "META", "DATA"}
  BY DEF IInv, TypeOK
<1>2. /\ Readable(n) /\ taken' = taken + n /\ ReadOn(step, length_to_read - n)
      /\ phase = "reading"
  BY DEF ReadPart, Readable
<1>3. taken + n + (length_to_read - n) = StepEnd
  BY <1>1 DEF StepEnd
<1>4. step = "DATA" => Known(start, taken + n)
  <2>1. SUFFICES ASSUME step = "DATA"
                 PROVE  Known(start, taken + n)
    OBVIOUS
  <2>2. Known(start, taken)
    BY <1>2, <2>1 DEF IInv, StepInv
  <2>3. Meta(start) \in 0..9
    BY <1>1, <2>2, KnownTypes, ReadableTypes, <1>2 DEF IInv
  <2>4. QED
    BY <1>1, <2>2, <2>3 DEF Known
<1>5. step = "META" => taken + n - start >= HeaderLength + 1
  BY <1>1, <1>2 DEF IInv, StepInv
<1>6. /\ step = "FUNCTION" => StepEnd - start = HeaderLength + 1
      /\ step = "META" => StepEnd - start = HeaderLength + 1 + Meta(start)
      /\ step = "DATA" => StepEnd - start = MsgLength(start) /\ MsgLength(start) <= MaxAdu
  BY <1>2 DEF IInv, StepInv
<1>7. QED
  BY <1>1, <1>2, <1>3, <1>4, <1>5, <1>6, ReadOnInv

LEMMA ReadFunctionInv ==
  ASSUME IInv, ReadFunction
  PROVE  IInv'
<1>1. /\ Readable(length_to_read) /\ phase = "reading" /\ step = "FUNCTION"
      /\ Meta(start) # 0 /\ taken' = taken + length_to_read
      /\ ReadOn("META", Meta(start))
  BY DEF ReadFunction, Readable, StepEnd
<1>2. /\ start \in Nat /\ taken \in Nat /\ length_to_read \in Nat \ {0}
      /\ taken + length_to_read <= Len(stream) /\ Len(stream) \in Nat
      /\ stream \in Seq(Byte)
  BY <1>1, ReadableTypes DEF IInv, TypeOK
<1>3. taken + length_to_read - start = HeaderLength + 1
  <2>1. StepEnd - start = HeaderLength + 1
    BY <1>1 DEF IInv, StepInv
  <2>2. QED
    BY <1>2, <2>1 DEF StepEnd
<1>4. start + HeaderLength + 1 <= Len(stream)
  BY <1>2, <1>3
<1>5. Meta(start) \in Nat \ {0}
  BY <1>1, <1>2, <1>4, MetaType
<1>6. taken + length_to_read + Meta(start) - start = HeaderLength + 1 + Meta(start)
  BY <1>2, <1>3, <1>5
<1>7. taken + length_to_read - start >= HeaderLength + 1
  BY <1>3
<1>8. length_to_read \in 1..length_to_read
  BY <1>2
<1>9. QED
  BY <1>1, <1>5, <1>6, <1>7, <1>8, ReadOnInv

LEMMA ReadMetaInv ==
  ASSUME IInv, ReadMeta
  PROVE  IInv'
<1>1. /\ Readable(length_to_read) /\ MetaKnown /\ Data(start) > 0
      /\ StepEnd - start + Data(start) <= MaxAdu
      /\ taken' = taken + length_to_read /\ StepEnd = taken + length_to_read
      /\ ReadOn("DATA", Data(start))
  BY DEF ReadMeta, StepEnd, Fits
<1>2. /\ start \in Nat /\ taken \in Nat /\ length_to_read \in Nat \ {0}
  BY <1>1, ReadableTypes DEF IInv, TypeOK
<1>3. /\ Known(start, taken + length_to_read)
      /\ taken + length_to_read - start = HeaderLength + 1 + Meta(start)
      /\ Meta(start) \in 0..9 /\ Data(start) \in Nat
  <2>1. /\ Known(start, StepEnd) /\ StepEnd - start = HeaderLength + 1 + Meta(start)
        /\ Meta(start) \in 0..9 /\ Data(start) \in Nat
    BY <1>1, MetaKnownTypes
  <2>2. QED
    BY <1>2, <2>1 DEF StepEnd
<1>4. Data(start) \in Nat \ {0} /\ length_to_read \in 1..length_to_read
  BY <1>1, <1>2, <1>3
<1>5. taken + length_to_read + Data(start) - start = MsgLength(start)
  BY <1>2, <1>3 DEF MsgLength
<1>6. MsgLength(start) <= MaxAdu
  BY <1>1, <1>2, <1>3 DEF MsgLength
<1>7. QED
  BY <1>1, <1>3, <1>4, <1>5, <1>6, ReadOnInv

(* Leaving the call, or going to sleep before a flush: the stream stays,   *)
(* and what is returned as a message is one.                               *)
LEMMA LeaveInv ==
  ASSUME IInv, UNCHANGED <<wire, start, step, length_to_read, timer>>,
         UNCHANGED connections, connected' \in BOOLEAN,
         taken' \in taken..arrived,
         phase' \in {"idle", "sleeping"}, rc' \in Results,
         phase' = "sleeping" => rc' = "ETIMEDOUT",
         rc' = "message" =>
           /\ Known(start, taken')
           /\ taken' - start = MsgLength(start)
           /\ MsgLength(start) <= MaxAdu
  PROVE  IInv'
<1> USE DEF IInv
<1>1. EndsInv'
  BY EndsStable DEF wire
<1>2. TypeOK'
  <2>1. start' \in 0..taken' /\ taken' \in 0..arrived'
    BY DEF TypeOK, wire
  <2>2. QED
    BY <2>1 DEF TypeOK, wire
<1>3. StepInv'
  BY DEF StepInv
<1>4. ReturnInv'
  <2>1. Meta(start)' = Meta(start) /\ MsgLength(start)' = MsgLength(start)
    BY DEF Meta, MsgLength, Data, FunctionAt, wire
  <2>2. Known(start, taken') => Known(start, taken)'
    BY <2>1 DEF Known
  <2>3. QED
    BY <2>1, <2>2 DEF ReturnInv
<1>5. QED
  BY <1>1, <1>2, <1>3, <1>4

(* The message a call ends with. *)
LEMMA LastTypes ==
  ASSUME IInv, Readable(length_to_read), LastStep
  PROVE  /\ Known(start, StepEnd)
         /\ StepEnd - start = MsgLength(start)
         /\ MsgLength(start) <= MaxAdu
<1>1. /\ start \in Nat /\ taken \in Nat /\ length_to_read \in Nat
      /\ StepEnd = taken + length_to_read /\ StepEnd <= Len(stream)
      /\ start <= taken /\ phase = "reading"
  BY ReadableTypes DEF IInv, TypeOK, StepEnd, Readable
<1>2. CASE step = "DATA"
  <2>1. /\ Known(start, taken) /\ StepEnd - start = MsgLength(start)
        /\ MsgLength(start) <= MaxAdu
    BY <1>1, <1>2 DEF IInv, StepInv
  <2>2. Meta(start) \in 0..9
    BY <1>1, <2>1, KnownTypes, ReadableTypes DEF IInv
  <2>3. Known(start, StepEnd)
    <3>1. /\ taken - start >= HeaderLength + 1
          /\ taken - start >= HeaderLength + 1 + Meta(start)
      BY <2>1 DEF Known
    <3>2. StepEnd - start >= taken - start /\ StepEnd - start \in Int /\ taken - start \in Int
      BY <1>1
    <3> QED
      BY <2>2, <3>1, <3>2, SMTT(30) DEF Known
  <2>4. QED
    BY <2>1, <2>3
<1>3. CASE MetaKnown /\ Data(start) = 0 /\ Fits(0)
  <2>1. /\ Known(start, StepEnd)
        /\ StepEnd - start = HeaderLength + 1 + Meta(start)
        /\ Meta(start) \in 0..9
    BY <1>3, MetaKnownTypes
  <2>2. StepEnd - start <= MaxAdu
    BY <1>1, <1>3 DEF Fits
  <2>3. QED
    BY <1>3, <2>1, <2>2 DEF MsgLength
<1>4. QED
  BY <1>2, <1>3 DEF LastStep

LEMMA ReadReturnInv ==
  ASSUME IInv, ReadTooMany \/ ReadLast \/ ReadCorrupt
  PROVE  IInv'
<1>1. Readable(length_to_read)
  BY DEF ReadTooMany, ReadLast, ReadCorrupt
<1>2. /\ UNCHANGED <<wire, link, start, step, length_to_read, timer>>
      /\ phase' = "idle"
      /\ rc' \in Results
      /\ rc' = "message" => ReadLast
  BY DEF ReadTooMany, ReadLast, ReadCorrupt, Return, Results
<1>3. taken' \in taken..arrived
  <2>1. /\ taken \in Nat /\ arrived \in Nat
        /\ StepEnd \in taken..arrived /\ taken <= arrived
    BY <1>1, ReadableTypes DEF IInv, TypeOK, StepEnd
  <2>2. taken' = StepEnd \/ taken' = arrived
    BY DEF ReadTooMany, ReadLast, ReadCorrupt
  <2>3. QED
    BY <2>1, <2>2
<1>4. ReadLast => /\ Known(start, taken')
                  /\ taken' - start = MsgLength(start)
                  /\ MsgLength(start) <= MaxAdu
  BY <1>1, LastTypes DEF ReadLast
<1>5. connected' \in BOOLEAN /\ UNCHANGED connections
  BY <1>2 DEF link, IInv, TypeOK
<1>6. /\ UNCHANGED <<wire, start, step, length_to_read, timer>>
      /\ phase' \in {"idle", "sleeping"} /\ phase' # "sleeping"
  BY <1>2
<1>7. rc' \in Results /\ (phase' = "sleeping" => rc' = "ETIMEDOUT")
  BY <1>2, <1>6
<1>8. rc' = "message" =>
        /\ Known(start, taken')
        /\ taken' - start = MsgLength(start)
        /\ MsgLength(start) <= MaxAdu
  BY <1>2, <1>4
<1>9. QED
  BY <1>3, <1>5, <1>6, <1>7, <1>8, LeaveInv

(* Timeouts, flushes and lost connections. *)
LEMMA FailureInv ==
  ASSUME IInv, Timeout \/ Flush \/ LoseConnection \/ FailToReconnect
  PROVE  IInv'
<1>1. /\ UNCHANGED <<wire, start, step, length_to_read, timer>>
      /\ UNCHANGED connections
      /\ connected' \in BOOLEAN /\ phase' \in {"idle", "sleeping"}
      /\ rc' \in {"ETIMEDOUT", "ECONNRESET"}
      /\ phase' = "sleeping" => rc' = "ETIMEDOUT"
  BY DEF Timeout, Flush, LoseConnection, FailToReconnect, PeerGone, IInv,
    TypeOK, ReturnInv, link, call
<1>2. taken' \in taken..arrived
  <2>1. taken \in Nat /\ arrived \in Nat /\ taken <= arrived
    BY LenProperties DEF IInv, TypeOK
  <2>2. taken' = taken \/ taken' = arrived
    BY DEF Timeout, Flush, LoseConnection, FailToReconnect, call
  <2>3. QED
    BY <2>1, <2>2
<1>3. rc' \in Results /\ rc' # "message"
  BY <1>1 DEF Results
<1>4. QED
  BY <1>1, <1>2, <1>3, LeaveInv

LEMMA ReconnectInv ==
  ASSUME IInv, Reconnect
  PROVE  IInv'
<1>1. /\ stream' = <<>> /\ ends' = {0} /\ arrived' = 0 /\ start' = 0
      /\ taken' = 0 /\ closed' = FALSE /\ phase' = "idle"
      /\ rc' = "ECONNRESET"
  BY DEF Reconnect, PeerGone
<1>2. stream' \in Seq(Byte) /\ Len(stream') = 0
  BY <1>1, EmptySeq
<1>3. TypeOK'
  <2>1. connections' \in Nat
    BY DEF Reconnect, IInv, TypeOK
  <2>2. /\ ends' \subseteq 0..Len(stream') /\ arrived' \in 0..Len(stream')
        /\ start' \in 0..taken' /\ taken' \in 0..arrived' /\ rc' \in Results
    BY <1>1, <1>2 DEF Results
  <2>3. QED
    BY <1>1, <1>2, <2>1, <2>2 DEF TypeOK, Reconnect, IInv
<1>4. EndsInv'
  <2>1. ends' = {0} /\ Len(stream') = 0
    BY <1>1, <1>2
  <2>2. QED
    BY <2>1, Zenon DEF EndsInv
<1>5. StepInv' /\ ReturnInv'
  BY <1>1 DEF StepInv, ReturnInv
<1>6. QED
  BY <1>3, <1>4, <1>5 DEF IInv

(* Every step keeps the invariant. *)
LEMMA NextInv ==
  ASSUME IInv, FramesAssumption, [Next]_vars
  PROVE  IInv'
<1>1. CASE Peer
  BY <1>1, PeerSendInv, TransportInv DEF Peer
<1>2. CASE Arrive
  BY <1>2, TransportInv
<1>3. CASE Call \/ CallNotConnected
  BY <1>3, CallInv
<1>4. CASE Recv
  <2>1. CASE \E n \in 1..(length_to_read - 1) : ReadPart(n)
    BY <2>1, ReadPartInv
  <2>2. CASE ReadFunction
    BY <2>2, ReadFunctionInv
  <2>3. CASE ReadMeta
    BY <2>3, ReadMetaInv
  <2>4. CASE ReadTooMany \/ ReadLast \/ ReadCorrupt
    BY <2>4, ReadReturnInv
  <2>5. QED
    BY <1>4, <2>1, <2>2, <2>3, <2>4 DEF Recv
<1>5. CASE Timeout \/ Flush \/ LoseConnection \/ FailToReconnect
  BY <1>5, FailureInv
<1>6. CASE Reconnect
  BY <1>6, ReconnectInv
<1>7. CASE UNCHANGED vars
  <2>1. UNCHANGED <<wire, start, step, length_to_read, timer, connections>>
    BY <1>7 DEF vars, link, call
  <2>2. UNCHANGED <<connected, taken, phase, rc>>
    BY <1>7 DEF vars, link, call
  <2>3. EndsInv'
    BY <2>1, EndsStable DEF IInv, wire
  <2>4. TypeOK'
    BY <2>1, <2>2 DEF IInv, TypeOK, wire
  <2>5. StepInv' /\ ReturnInv'
    BY <2>1, <2>2 DEF IInv, StepInv, ReturnInv, Known, MsgLength, Meta, Data,
      FunctionAt, StepEnd, wire
  <2>6. QED
    BY <2>3, <2>4, <2>5 DEF IInv
<1>8. QED
  BY <1>1, <1>2, <1>3, <1>4, <1>5, <1>6, <1>7 DEF Next, Receiver

THEOREM Invariance == Spec => []IInv
<1>1. Init => IInv
  BY InitInv
<1>2. IInv /\ [Next]_vars => IInv'
  BY FramesAssumption, NextInv
<1>3. QED
  BY <1>1, <1>2, PTL DEF Spec

-----------------------------------------------------------------------------
(***************************************************************************)
(* What the invariant gives.                                               *)
(***************************************************************************)

(* The state of a receive call is always of its type. *)
THEOREM TypeCorrect == Spec => []TypeOK
<1>1. IInv => TypeOK
  BY DEF IInv
<1>2. QED
  BY <1>1, Invariance, PTL

(* Whatever the peer sends, _modbus_receive_msg keeps within the ADU its   *)
(* caller has room for.                                                    *)
THEOREM BufferSafe == Spec => []BufferBound
<1>1. IInv => BufferBound
  <2>1. SUFFICES ASSUME IInv, phase = "reading"
                 PROVE  length_to_read > 0 /\ StepEnd - start <= MaxAdu
    BY DEF BufferBound
  <2>2. /\ start \in Nat /\ taken \in Nat /\ length_to_read \in Nat
        /\ start <= taken /\ Len(stream) \in Nat /\ stream \in Seq(Byte)
        /\ taken <= Len(stream)
        /\ step \in {"FUNCTION", "META", "DATA"}
    BY <2>1, LenProperties DEF IInv, TypeOK
  <2>3. CASE step = "FUNCTION"
    BY <2>1, <2>3 DEF IInv, StepInv
  <2>4. CASE step = "META"
    <3>1. /\ taken - start >= HeaderLength + 1
          /\ StepEnd - start = HeaderLength + 1 + Meta(start)
      BY <2>1, <2>4 DEF IInv, StepInv
    <3>2. Meta(start) \in 0..9
      BY <2>2, <3>1, MetaType
    <3>3. QED
      BY <2>1, <3>1, <3>2 DEF IInv, StepInv
  <2>5. CASE step = "DATA"
    BY <2>1, <2>5 DEF IInv, StepInv
  <2>6. QED
    BY <2>2, <2>3, <2>4, <2>5
<1>2. QED
  BY <1>1, Invariance, PTL

(* Where the step being read ends, against the frame the call began with. *)
LEMMA StepWithinFrame ==
  ASSUME IInv, FramesAssumption, phase = "reading",
         NEW m \in Frames, FrameAt(start, m), WellFormed(m)
  PROVE  StepEnd <= start + Len(m)
<1>1. /\ start \in Nat /\ taken \in Nat /\ length_to_read \in Nat
      /\ StepEnd \in Nat /\ step \in {"FUNCTION", "META", "DATA"}
  BY DEF IInv, TypeOK, StepEnd
<1>2. /\ Len(m) \in Nat /\ HeaderLength + 1 <= Len(m)
      /\ HeaderLength + 1 + Meta(start) <= Len(m)
      /\ MsgLength(start) = Len(m)
  BY <1>1, FrameGeometry DEF IInv
<1>3. CASE step = "FUNCTION"
  BY <1>1, <1>2, <1>3 DEF IInv, StepInv
<1>4. CASE step = "META"
  <2>1. StepEnd - start = HeaderLength + 1 + Meta(start)
    BY <1>4 DEF IInv, StepInv
  <2>2. StepEnd - start <= Len(m)
    BY <1>2, <2>1
  <2>3. QED
    BY <1>1, <1>2, <2>2
<1>5. CASE step = "DATA"
  <2>1. StepEnd - start = MsgLength(start)
    BY <1>5 DEF IInv, StepInv
  <2>2. QED
    BY <1>1, <1>2, <2>1
<1>6. QED
  BY <1>1, <1>3, <1>4, <1>5

(* A call that began at a well-formed frame never takes, and never waits   *)
(* for, a byte of the frame after it: requests may be pipelined.           *)
THEOREM NeverOverreads == Spec => []NoOverread
<1>1. IInv => NoOverread
  BY FramesAssumption, StepWithinFrame DEF NoOverread
<1>2. QED
  BY <1>1, Invariance, PTL

(* What a call that began at a well-formed frame returns is that frame,    *)
(* however the transport cut the stream.                                   *)
THEOREM ReturnsExactFrame == Spec => []ExactFrame
<1>1. IInv => ExactFrame
  <2>1. SUFFICES ASSUME IInv, phase = "idle", rc = "message",
                        NEW m \in Frames, FrameAt(start, m), WellFormed(m)
                 PROVE  taken = start + Len(m)
    BY DEF ExactFrame
  <2>2. start \in Nat /\ taken \in Nat
    BY <2>1 DEF IInv, TypeOK
  <2>3. MsgLength(start) = Len(m) /\ Len(m) \in Nat
    BY <2>1, <2>2, FramesAssumption, FrameGeometry DEF IInv
  <2>4. taken - start = MsgLength(start)
    BY <2>1 DEF IInv, ReturnInv
  <2>5. QED
    BY <2>2, <2>3, <2>4
<1>2. QED
  BY <1>1, Invariance, PTL

(* A message, or one too long, that a call takes off the stream from the   *)
(* boundary of a frame ends at a boundary again, unless that frame was not *)
(* well formed.                                                            *)
LEMMA EndsAtBoundary ==
  ASSUME IInv, FramesAssumption, start \in ends,
         Readable(length_to_read), LastStep \/ (MetaKnown /\ ~Fits(Data(start)))
  PROVE  \/ StepEnd \in ends
         \/ \E m \in Frames : FrameAt(start, m) /\ ~WellFormed(m)
<1>1. /\ start \in Nat /\ taken \in Nat /\ length_to_read \in Nat \ {0}
      /\ StepEnd \in Nat /\ StepEnd <= Len(stream) /\ Len(stream) \in Nat
      /\ start <= taken /\ start # Len(stream)
  BY ReadableTypes DEF IInv, TypeOK, StepEnd
<1>2. PICK m \in Frames : FrameAt(start, m)
  BY <1>1 DEF IInv, EndsInv
<1>3. SUFFICES ASSUME WellFormed(m)
               PROVE  StepEnd \in ends
  BY <1>2
<1>4. MsgLength(start) = Len(m) /\ Len(m) \in Nat /\ Len(m) <= MaxAdu
  BY <1>1, <1>2, <1>3, FrameGeometry DEF IInv
<1>5. CASE LastStep
  <2>1. StepEnd - start = Len(m)
    BY <1>4, <1>5, LastTypes
  <2>2. StepEnd = start + Len(m)
    BY <1>1, <1>4, <2>1
  <2>3. QED
    BY <1>2, <2>2 DEF FrameAt
<1>6. CASE MetaKnown /\ ~Fits(Data(start))
  <2>1. /\ StepEnd - start = HeaderLength + 1 + Meta(start)
        /\ Meta(start) \in 0..9 /\ Data(start) \in Nat
    BY <1>6, MetaKnownTypes
  <2>2. ~(HeaderLength + 1 + Meta(start) + Data(start) <= MaxAdu)
    BY <1>6, <2>1 DEF Fits
  <2>3. QED
    BY <1>4, <2>1, <2>2 DEF MsgLength
<1>7. QED
  BY <1>5, <1>6

(* The receiver loses the boundaries of the frames only by a frame without *)
(* a known geometry, a timeout within a frame, or a flush while a frame is *)
(* still arriving.                                                         *)
THEOREM LosesBoundariesOnlyBy == Spec => LostOnlyBy
<1> DEFINE Excuse ==
      \/ \E m \in Frames : FrameAt(start, m) /\ ~WellFormed(m)
      \/ rc' = "ETIMEDOUT" /\ taken \notin ends
      \/ taken' = arrived /\ arrived \notin ends
<1>1. IInv /\ [Next]_vars => [Aligned /\ ~Aligned' => Excuse]_vars
  <2>1. SUFFICES ASSUME IInv, Next, Aligned, ~Aligned'
                 PROVE  Excuse
    OBVIOUS
  <2> USE DEF Aligned, Base
  <2>2. CASE Peer \/ Arrive
    <3>1. ends \subseteq ends' /\ UNCHANGED <<start, taken, phase>>
      BY <2>2 DEF Peer, PeerSend, PeerClose, Arrive, call
    <3>2. QED
      BY <2>1, <3>1
  <2>3. CASE Call \/ CallNotConnected
    BY <2>1, <2>3 DEF Call, CallNotConnected, Return, call, wire
  <2>4. CASE \/ \E n \in 1..(length_to_read - 1) : ReadPart(n)
             \/ ReadFunction \/ ReadMeta
    BY <2>1, <2>4 DEF ReadPart, ReadFunction, ReadMeta, ReadOn, Readable, wire
  <2>5. CASE ReadTooMany \/ ReadLast \/ ReadCorrupt
    <3>1. /\ Readable(length_to_read) /\ UNCHANGED ends
          /\ LastStep \/ (MetaKnown /\ ~Fits(Data(start)))
          /\ phase' = "idle" /\ taken' \in {StepEnd, arrived}
      BY <2>5 DEF ReadTooMany, ReadLast, ReadCorrupt, Return, wire
    <3>2. start \in ends
      BY <2>1, <3>1 DEF Readable
    <3>3. StepEnd \in ends \/ \E m \in Frames : FrameAt(start, m) /\ ~WellFormed(m)
      BY <2>1, <3>1, <3>2, FramesAssumption, EndsAtBoundary
    <3>4. taken' \notin ends
      BY <2>1, <3>1
    <3>5. QED
      BY <3>1, <3>3, <3>4
  <2>6. CASE Timeout
    BY <2>1, <2>6 DEF Timeout, wire, call
  <2>7. CASE Flush
    BY <2>1, <2>7 DEF Flush, wire
  <2>8. CASE LoseConnection \/ FailToReconnect
    <3>1. Len(stream) \in ends /\ taken = Len(stream)
      BY <2>1, <2>8 DEF LoseConnection, FailToReconnect, PeerGone, IInv, EndsInv
    <3>2. QED
      BY <2>1, <2>8, <3>1 DEF LoseConnection, FailToReconnect, PeerGone, wire, call
  <2>9. CASE Reconnect
    BY <2>1, <2>9 DEF Reconnect, PeerGone
  <2>10. QED
    BY <2>1, <2>2, <2>3, <2>4, <2>5, <2>6, <2>7, <2>8, <2>9 DEF Next, Receiver, Recv
<1>2. QED
  BY <1>1, Invariance, PTL DEF Spec, LostOnlyBy

-----------------------------------------------------------------------------
(***************************************************************************)
(* Counting boundaries: Rank, Nth and Cut for any finite set of numbers.   *)
(***************************************************************************)

LEMMA RankType ==
  ASSUME NEW S \in SUBSET Nat, IsFiniteSet(S), NEW p \in Nat
  PROVE  /\ Rank(S, p) \in Nat
         /\ p \in S => Rank(S, p) < Cardinality(S)
         /\ Cardinality(S) \in Nat
<1> DEFINE below == { e \in S : e < p }
<1>1. /\ IsFiniteSet(below) /\ Cardinality(below) \in Nat
      /\ Cardinality(S) \in Nat
  BY FS_Subset, FS_CardinalityType
<1>2. ASSUME p \in S
      PROVE  Cardinality(below) < Cardinality(S)
  <2>1. below \in SUBSET (S \ {p})
    OBVIOUS
  <2>2. IsFiniteSet(S \ {p}) /\ Cardinality(S \ {p}) = Cardinality(S) - 1
    BY <1>2, FS_RemoveElement
  <2>3. Cardinality(below) <= Cardinality(S \ {p})
    BY <2>1, <2>2, FS_Subset
  <2> HIDE DEF below
  <2>4. QED
    BY <1>1, <2>2, <2>3
<1>3. QED
  BY <1>1, <1>2 DEF Rank

(* The next member of S has one member more before it. *)
LEMMA RankNext ==
  ASSUME NEW S \in SUBSET Nat, IsFiniteSet(S),
         NEW p \in S, NEW q \in Nat, p < q,
         \A f \in S : ~(p < f /\ f < q)
  PROVE  Rank(S, q) = Rank(S, p) + 1
<1>1. { e \in S : e < q } = { e \in S : e < p } \union {p}
  <2>1. ASSUME NEW e \in S
        PROVE  e < q <=> e < p \/ e = p
    <3>1. e \in Nat /\ p \in Nat /\ ~(p < e /\ e < q)
      OBVIOUS
    <3>2. QED
      BY <3>1
  <2>2. QED
    BY <2>1
<1>2. IsFiniteSet({ e \in S : e < p }) /\ p \notin { e \in S : e < p }
  BY FS_Subset
<1>3. QED
  BY <1>1, <1>2, FS_AddElement DEF Rank

(* A greater member has more members before it. *)
LEMMA RankGrows ==
  ASSUME NEW S \in SUBSET Nat, IsFiniteSet(S), NEW p \in S, NEW q \in S, p < q
  PROVE  Rank(S, p) < Rank(S, q)
<1> DEFINE below(r) == { e \in S : e < r }
<1>1. /\ IsFiniteSet(below(p)) /\ IsFiniteSet(below(q))
      /\ Cardinality(below(p)) \in Nat /\ Cardinality(below(q)) \in Nat
  BY FS_Subset, FS_CardinalityType
<1>2. below(p) \in SUBSET below(q) /\ p \in below(q) /\ p \notin below(p)
  <2>1. ASSUME NEW e \in S
        PROVE  e < p => e < q
    <3>1. e \in Nat /\ p \in Nat /\ q \in Nat
      OBVIOUS
    <3>2. QED
      BY <3>1
  <2>2. ~(p < p)
    OBVIOUS
  <2>3. QED
    BY <2>1, <2>2, Zenon
<1>3. /\ Cardinality(below(p)) <= Cardinality(below(q))
      /\ Cardinality(below(p)) # Cardinality(below(q))
  BY <1>1, <1>2, FS_Subset
<1>4. Rank(S, p) = Cardinality(below(p)) /\ Rank(S, q) = Cardinality(below(q))
  BY DEF Rank
<1> HIDE DEF below
<1>5. QED
  BY <1>1, <1>3, <1>4

(* So a member is known by its rank. *)
LEMMA NthOfRank ==
  ASSUME NEW S \in SUBSET Nat, IsFiniteSet(S), NEW p \in S
  PROVE  Nth(S, Rank(S, p)) = p
<1>1. ASSUME NEW q \in S, Rank(S, q) = Rank(S, p)
      PROVE  q = p
  <2>1. Rank(S, q) \in Nat /\ Rank(S, p) \in Nat
    BY RankType
  <2>2. ~(q < p)
    <3>1. SUFFICES ASSUME q < p PROVE FALSE
      OBVIOUS
    <3>2. Rank(S, q) < Rank(S, p)
      BY <3>1, RankGrows
    <3>3. QED
      BY <1>1, <2>1, <3>2
  <2>3. ~(p < q)
    <3>1. SUFFICES ASSUME p < q PROVE FALSE
      OBVIOUS
    <3>2. Rank(S, p) < Rank(S, q)
      BY <3>1, RankGrows
    <3>3. QED
      BY <1>1, <2>1, <3>2
  <2>4. QED
    BY <2>2, <2>3
<1>2. QED
  BY <1>1 DEF Nth

(* A member above all others comes last and changes no other's rank. *)
LEMMA RankAppended ==
  ASSUME NEW S \in SUBSET Nat, IsFiniteSet(S),
         NEW q \in Nat, \A e \in S : e < q
  PROVE  /\ IsFiniteSet(S \union {q})
         /\ Cardinality(S \union {q}) = Cardinality(S) + 1
         /\ Rank(S \union {q}, q) = Cardinality(S)
         /\ \A p \in S : Rank(S \union {q}, p) = Rank(S, p)
<1>1. q \notin S
  OBVIOUS
<1>2. { e \in S \union {q} : e < q } = S
  <2>1. ~(q < q)
    OBVIOUS
  <2>2. QED
    BY <2>1
<1>3. ASSUME NEW p \in S
      PROVE  { e \in S \union {q} : e < p } = { e \in S : e < p }
  <2>1. ~(q < p)
    <3>1. p \in Nat /\ p < q
      OBVIOUS
    <3>2. QED
      BY <3>1
  <2>2. QED
    BY <2>1
<1>4. QED
  BY <1>1, <1>2, <1>3, FS_AddElement DEF Rank

LEMMA CutLength ==
  ASSUME NEW s, NEW S, IsFiniteSet(S), S # {}
  PROVE  Len(Cut(s, S)) = Cardinality(S) - 1
<1>1. Cardinality(S) - 1 \in Nat
  BY FS_EmptySet, FS_CardinalityType
<1>2. QED
  BY <1>1 DEF Cut

(* Cutting a stream that one more piece has been appended to gives the     *)
(* same pieces as before, and that one.                                    *)
LEMMA CutAppended ==
  ASSUME NEW s \in Seq(Byte), NEW m \in Seq(Byte), Len(m) > 0,
         NEW S \in SUBSET (0..Len(s)), Len(s) \in S,
         \A i \in 0..(Cardinality(S) - 1) : \E e \in S : Rank(S, e) = i
  PROVE  /\ Cut(s \o m, S \union {Len(s) + Len(m)}) = Append(Cut(s, S), m)
         /\ Len(Cut(s, S)) = Cardinality(S) - 1
         /\ \A i \in 0..Cardinality(S) :
              \E e \in S \union {Len(s) + Len(m)} :
                Rank(S \union {Len(s) + Len(m)}, e) = i
<1> DEFINE n == Cardinality(S)
           q == Len(s) + Len(m)
           T == S \union {q}
           t == s \o m
           cut == Cut(s, S)
           more == Cut(t, T)
<1>1. /\ Len(s) \in Nat /\ Len(m) \in Nat /\ q \in Nat /\ Len(s) < q
      /\ S \in SUBSET Nat /\ \A e \in S : e < q
  BY LenProperties
<1>2. IsFiniteSet(S) /\ n \in Nat \ {0}
  <2>1. IsFiniteSet(S) /\ n \in Nat
    <3>1. IsFiniteSet(0..Len(s))
      BY <1>1, FS_Interval
    <3>2. QED
      BY <3>1, FS_Subset, FS_CardinalityType
  <2>2. n # 0
    BY <2>1, FS_EmptySet
  <2>3. QED
    BY <2>1, <2>2
<1>3. /\ T \in SUBSET Nat /\ IsFiniteSet(T) /\ Cardinality(T) = n + 1
      /\ Rank(T, q) = n /\ \A p \in S : Rank(T, p) = Rank(S, p)
  BY <1>1, <1>2, RankAppended
<1>4. /\ t \in Seq(Byte) /\ Len(t) = q
      /\ \A i \in 1..q : t[i] = IF i <= Len(s) THEN s[i] ELSE m[i - Len(s)]
  BY ConcatProperties
<1>5. ASSUME NEW i \in 0..(n - 1)
      PROVE  Nth(T, i) = Nth(S, i) /\ Nth(S, i) \in S
  <2>1. PICK e \in S : Rank(S, e) = i
    OBVIOUS
  <2>2. Nth(S, i) = e
    BY <1>1, <1>2, <2>1, NthOfRank
  <2>3. Rank(T, e) = i /\ e \in T
    BY <1>3, <2>1
  <2>4. Nth(T, i) = e
    BY <1>3, <2>3, NthOfRank
  <2>5. QED
    BY <2>1, <2>2, <2>4
<1>6. Nth(T, n) = q
  BY <1>3, NthOfRank
<1>7. Nth(S, n - 1) = Len(s)
  <2>1. { e \in S : e < Len(s) } = S \ {Len(s)}
    <3>1. ASSUME NEW e \in S
          PROVE  e < Len(s) <=> e # Len(s)
      BY <1>1
    <3>2. QED
      BY <3>1
  <2>2. Rank(S, Len(s)) = n - 1
    BY <1>2, <2>1, FS_RemoveElement DEF Rank
  <2>3. QED
    BY <1>1, <1>2, <2>2, NthOfRank
<1> HIDE DEF n, q, T, t
<1>8. /\ cut = [ i \in 1..(n - 1) |-> SubSeq(s, Nth(S, i - 1) + 1, Nth(S, i)) ]
      /\ more = [ i \in 1..n |-> SubSeq(t, Nth(T, i - 1) + 1, Nth(T, i)) ]
  <2>1. (n + 1) - 1 = n
    BY <1>2
  <2>2. QED
    BY <1>3, <2>1 DEF Cut, n
<1> HIDE DEF cut, more
<1>9. ASSUME NEW i \in 1..(n - 1)
      PROVE  cut[i] \in Seq(Byte) /\ more[i] = cut[i]
  <2> DEFINE a == Nth(S, i - 1) + 1
             b == Nth(S, i)
  <2>0. i - 1 \in 0..(n - 1) /\ i \in 0..(n - 1) /\ i \in 1..n
    BY <1>2
  <2>1. /\ Nth(T, i - 1) = Nth(S, i - 1) /\ Nth(T, i) = Nth(S, i)
        /\ Nth(S, i - 1) \in S /\ Nth(S, i) \in S
    BY <2>0, <1>5
  <2>2. a \in Nat \ {0} /\ b \in 0..Len(s)
    <3>1. Nth(S, i - 1) \in Nat /\ Nth(S, i) \in 0..Len(s)
      BY <1>1, <2>1
    <3>2. QED
      BY <3>1
  <2>3. cut[i] = SubSeq(s, a, b) /\ more[i] = SubSeq(t, a, b)
    BY <1>8, <2>0, <2>1
  <2> HIDE DEF a, b
  <2>4. ASSUME NEW j \in a..b
        PROVE  s[j] \in Byte /\ t[j] \in Byte /\ t[j] = s[j]
    <3>1. j \in 1..Len(s) /\ j \in 1..q
      BY <1>1, <2>2
    <3>2. s[j] \in Byte
      BY <3>1, ElementOfSeq
    <3>3. QED
      BY <1>4, <3>1, <3>2
  <2>5. /\ SubSeq(s, a, b) \in Seq(Byte) /\ SubSeq(t, a, b) \in Seq(Byte)
        /\ Len(SubSeq(s, a, b)) = Len(SubSeq(t, a, b))
        /\ Len(SubSeq(s, a, b)) = IF a <= b THEN b - a + 1 ELSE 0
        /\ \A j \in 1..(b - a + 1) : SubSeq(s, a, b)[j] = s[a + j - 1]
        /\ \A j \in 1..(b - a + 1) : SubSeq(t, a, b)[j] = t[a + j - 1]
    <3>1. a \in Int /\ b \in Int
      BY <1>1, <2>2
    <3>2. QED
      BY <2>4, <3>1, SubSeqProperties
  <2>6. ASSUME NEW j \in 1..Len(SubSeq(s, a, b))
        PROVE  SubSeq(s, a, b)[j] = SubSeq(t, a, b)[j]
    <3>1. j \in 1..(b - a + 1) /\ a + j - 1 \in a..b
      BY <1>1, <2>2, <2>5
    <3>2. QED
      BY <2>4, <2>5, <3>1
  <2>7. SubSeq(s, a, b) = SubSeq(t, a, b)
    BY <2>5, <2>6, SeqEqual
  <2>8. QED
    BY <2>3, <2>5, <2>7
<1>10. more[n] = m
  <2> DEFINE a == Len(s) + 1
  <2>1. n \in 1..n /\ n - 1 \in 0..(n - 1)
    BY <1>2
  <2>2. Nth(T, n - 1) = Len(s) /\ Nth(T, n) = q
    BY <1>5, <1>6, <1>7, <2>1
  <2>3. more[n] = SubSeq(t, a, q)
    BY <1>8, <2>1, <2>2
  <2>4. q = Len(s) + Len(m) /\ a \in Int /\ q \in Int /\ q - a + 1 = Len(m)
    BY <1>1 DEF q
  <2>5. ASSUME NEW j \in a..q
        PROVE  t[j] \in Byte /\ t[j] = m[j - Len(s)]
    <3>1. j \in 1..q /\ ~(j <= Len(s)) /\ j - Len(s) \in 1..Len(m)
      BY <1>1, <2>4
    <3>2. t[j] = m[j - Len(s)]
      BY <1>4, <3>1
    <3>3. m[j - Len(s)] \in Byte
      BY <3>1, ElementOfSeq
    <3>4. QED
      BY <3>2, <3>3
  <2>6. /\ SubSeq(t, a, q) \in Seq(Byte)
        /\ Len(SubSeq(t, a, q)) = IF a <= q THEN q - a + 1 ELSE 0
        /\ \A j \in 1..(q - a + 1) : SubSeq(t, a, q)[j] = t[a + j - 1]
    BY <2>4, <2>5, SubSeqProperties
  <2>7. Len(SubSeq(t, a, q)) = Len(m)
    BY <1>1, <2>4, <2>6
  <2>8. ASSUME NEW j \in 1..Len(m)
        PROVE  SubSeq(t, a, q)[j] = m[j]
    <3>1. /\ j \in 1..(q - a + 1) /\ a + j - 1 \in a..q
          /\ a + j - 1 - Len(s) = j
      BY <1>1, <2>4
    <3>2. QED
      BY <2>5, <2>6, <3>1
  <2>9. QED
    BY <2>3, <2>6, <2>7, <2>8, SeqEqual
<1>11. cut \in Seq(Seq(Byte)) /\ Len(cut) = n - 1 /\ m \in Seq(Byte)
  <2>1. cut \in [1..(n - 1) -> Seq(Byte)]
    BY <1>8, <1>9
  <2>2. n - 1 \in Nat
    BY <1>2
  <2> HIDE DEF cut
  <2>3. cut \in Seq(Seq(Byte)) /\ Len(cut) = n - 1
    BY <2>1, <2>2
  <2>4. QED
    BY <2>3
<1>12. more \in Seq(Seq(Byte)) /\ Len(more) = n
  <2>1. ASSUME NEW i \in 1..n
        PROVE  more[i] \in Seq(Byte)
    <3>1. i \in 1..(n - 1) \/ i = n
      BY <1>2
    <3>2. QED
      BY <1>9, <1>10, <3>1
  <2>2. more \in [1..n -> Seq(Byte)]
    BY <1>8, <2>1
  <2>3. n \in Nat
    BY <1>2
  <2>4. QED
    BY <2>2, <2>3
<1>13. more = Append(cut, m)
  <2>1. /\ Append(cut, m) \in Seq(Seq(Byte))
        /\ Len(Append(cut, m)) = n
        /\ \A i \in 1..(n - 1) : Append(cut, m)[i] = cut[i]
        /\ Append(cut, m)[n] = m
    <3>1. Len(cut) + 1 = n
      BY <1>2, <1>11
    <3>2. QED
      BY <1>11, <3>1, AppendProperties
  <2>2. ASSUME NEW i \in 1..n
        PROVE  more[i] = Append(cut, m)[i]
    <3>1. i \in 1..(n - 1) \/ i = n
      BY <1>2
    <3>2. QED
      BY <1>9, <1>10, <2>1, <3>1
  <2>3. QED
    BY <1>12, <2>1, <2>2, SeqEqual
<1>14. ASSUME NEW i \in 0..n
       PROVE  \E e \in T : Rank(T, e) = i
  <2>1. CASE i = n
    BY <1>3, <2>1 DEF T
  <2>2. CASE i \in 0..(n - 1)
    <3>1. PICK e \in S : Rank(S, e) = i
      BY <2>2 DEF n
    <3>2. QED
      BY <1>3, <3>1 DEF T
  <2>3. QED
    BY <1>2, <2>1, <2>2
<1>15. QED
  BY <1>11, <1>13, <1>14 DEF n, q, T, t, cut, more

-----------------------------------------------------------------------------
(***************************************************************************)
(* The receiver as a channel of frames.                                    *)
(***************************************************************************)

LEMMA ChTypes ==
  ASSUME ChInv
  PROVE  /\ stream \in Seq(Byte) /\ Len(stream) \in Nat
         /\ ends \in SUBSET (0..Len(stream)) /\ ends \in SUBSET Nat
         /\ IsFiniteSet(ends)
         /\ Base \in ends /\ start \in Nat /\ taken \in Nat
<1>1. /\ stream \in Seq(Byte) /\ Len(stream) \in Nat
      /\ ends \in SUBSET (0..Len(stream)) /\ Base \in ends
      /\ start \in Nat /\ taken \in Nat
  BY LenProperties DEF ChInv, IInv, TypeOK, Aligned
<1>2. ends \in SUBSET Nat
  <2>1. 0..Len(stream) \subseteq Nat
    BY <1>1
  <2>2. QED
    BY <1>1, <2>1
<1>3. IsFiniteSet(ends)
  <2>1. IsFiniteSet(0..Len(stream))
    BY <1>1, FS_Interval
  <2>2. QED
    BY <1>1, <2>1, FS_Subset
<1>4. QED
  BY <1>1, <1>2, <1>3

LEMMA InitChannel ==
  ASSUME Init
  PROVE  ChInv /\ Channel!Init
<1>1. IInv
  BY InitInv
<1>2. /\ ends = {0} /\ Len(stream) = 0 /\ Base = 0
      /\ ~timer /\ phase = "idle"
  BY EmptySeq DEF Init, Base
<1>3. Cardinality({0}) = 1 /\ IsFiniteSet({0})
  BY FS_Singleton
<1>4. Rank(ends, 0) = 0
  <2>1. { e \in {0} : e < 0 } = {}
    OBVIOUS
  <2>2. QED
    BY <1>2, <2>1, FS_EmptySet DEF Rank
<1>5. Numbered
  <2>1. SUFFICES ASSUME NEW i \in 0..(Cardinality(ends) - 1)
                 PROVE  \E e \in ends : Rank(ends, e) = i
    BY DEF Numbered
  <2>2. i = 0
    BY <1>2, <1>3
  <2>3. QED
    BY <1>2, <1>4, <2>2
<1>6. Follow
  <2>1. \A e \in ends : e = Len(stream)
    BY <1>2
  <2>2. QED
    BY <2>1 DEF Follow
<1>7. Cut(stream, ends) = <<>>
  <2>1. Cut(stream, ends) =
          [ i \in 1..0 |-> SubSeq(stream, Nth(ends, i - 1) + 1, Nth(ends, i)) ]
    BY <1>2, <1>3 DEF Cut
  <2>2. QED
    BY <2>1
<1>8. Aligned /\ Quiet
  BY <1>2 DEF Aligned, Quiet
<1>9. QED
  BY <1>1, <1>2, <1>4, <1>5, <1>6, <1>7, <1>8 DEF ChInv, Channel!Init

(* A step that leaves the stream and the place of the receiver in it alone *)
(* is not seen in the channel.                                             *)
LEMMA Unseen ==
  ASSUME ChInv, IInv', UNCHANGED <<stream, ends>>, Base' = Base,
         ~timer', phase' # "sleeping"
  PROVE  ChInv' /\ UNCHANGED Channel!vars
<1>1. Aligned' /\ Quiet'
  BY DEF ChInv, Aligned, Quiet
<1>2. Follow'
  BY DEF ChInv, Follow, NextFrame, FrameAt
<1>3. Numbered'
  BY DEF ChInv, Numbered
<1>4. UNCHANGED Channel!vars
  BY <1>1 DEF ChInv, Channel!vars, Aligned
<1>5. QED
  BY <1>1, <1>2, <1>3, <1>4 DEF ChInv

(* The peer sends: a frame enters the channel. *)
LEMMA SendStep ==
  ASSUME ChInv, FramesAssumption, NEW m \in Frames, PeerSend(m)
  PROVE  ChInv' /\ Channel!Send(m)
<1> DEFINE last == Len(stream')
<1>1. IInv'
  BY PeerSendInv DEF ChInv
<1>2. /\ m \in Seq(Byte) /\ Len(m) \in Nat \ {0}
      /\ stream' = stream \o m
      /\ last = Len(stream) + Len(m)
      /\ ends' = ends \union {last}
      /\ Len(stream) \in ends
      /\ \A e \in ends, f \in Frames : FrameAt(e, f) => FrameAt(e, f)'
      /\ \A e \in Nat : e = Len(stream) => FrameAt(e, m)'
  <2>1. m \in Seq(Byte) /\ m # <<>>
    BY DEF FramesAssumption
  <2>2. Len(m) \in Nat /\ Len(m) # 0
    BY <2>1, LenProperties, EmptySeq, SeqEqual
  <2>3. QED
    BY <2>1, <2>2, PeerSendFrames DEF ChInv, IInv, PeerSend
<1>3. /\ UNCHANGED <<start, taken, timer, phase>>
      /\ Cardinality(ends) <= MaxFrames
  BY DEF PeerSend, call
<1>4. /\ Len(stream) \in Nat /\ ends \in SUBSET (0..Len(stream))
      /\ ends \in SUBSET Nat /\ IsFiniteSet(ends) /\ Base \in ends
      /\ stream \in Seq(Byte)
  BY ChTypes
<1>5. /\ last \in Nat /\ \A e \in ends : e < last
  BY <1>2, <1>4
<1>6. Base' = Base /\ Aligned' /\ Quiet'
  BY <1>2, <1>3 DEF ChInv, Base, Aligned, Quiet
<1>7. /\ Cut(stream', ends') = Append(Cut(stream, ends), m)
      /\ Len(Cut(stream, ends)) = Cardinality(ends) - 1
      /\ \A i \in 0..Cardinality(ends) : \E e \in ends' : Rank(ends', e) = i
  <2>1. \A i \in 0..(Cardinality(ends) - 1) : \E e \in ends : Rank(ends, e) = i
    BY DEF ChInv, Numbered
  <2>2. /\ Len(m) > 0
        /\ stream' = stream \o m
        /\ ends' = ends \union {Len(stream) + Len(m)}
    BY <1>2
  <2>3. /\ m \in Seq(Byte) /\ stream \in Seq(Byte)
        /\ ends \in SUBSET (0..Len(stream)) /\ Len(stream) \in ends
    BY <1>2, <1>4
  <2>4. /\ Cut(stream \o m, ends \union {Len(stream) + Len(m)})
             = Append(Cut(stream, ends), m)
        /\ Len(Cut(stream, ends)) = Cardinality(ends) - 1
        /\ \A i \in 0..Cardinality(ends) :
             \E e \in ends \union {Len(stream) + Len(m)} :
               Rank(ends \union {Len(stream) + Len(m)}, e) = i
    BY <2>1, <2>2, <2>3, CutAppended, ZenonT(90)
  <2>5. QED
    BY <2>2, <2>4, Zenon
<1>8. /\ Cardinality(ends') = Cardinality(ends) + 1
      /\ Rank(ends', Base) = Rank(ends, Base)
  BY <1>2, <1>4, <1>5, RankAppended, ZenonT(60)
<1>9. Cardinality(ends) \in Nat
  BY <1>4, FS_CardinalityType
<1>10. Numbered'
  <2>1. Cardinality(ends') - 1 = Cardinality(ends)
    BY <1>8, <1>9
  <2>2. QED
    BY <1>7, <2>1 DEF Numbered
<1>11. Follow'
  <2>1. SUFFICES ASSUME NEW e \in ends', e # last
                 PROVE  \E f \in Frames : NextFrame(e, f)'
    BY DEF Follow
  <2>2. e \in ends /\ e \in Nat
    BY <1>2, <1>4, <2>1
  <2>3. CASE e = Len(stream)
    <3>1. FrameAt(e, m)'
      BY <1>2, <2>2, <2>3
    <3>2. ASSUME NEW g \in ends'
          PROVE  ~(e < g /\ g < e + Len(m))
      BY <1>2, <1>4, <2>3
    <3>3. QED
      BY <3>1, <3>2 DEF NextFrame
  <2>4. CASE e # Len(stream)
    <3>1. PICK f \in Frames : NextFrame(e, f)
      BY <2>2, <2>4 DEF ChInv, Follow
    <3>2. FrameAt(e, f)'
      BY <1>2, <2>2, <3>1 DEF NextFrame
    <3>3. Len(f) \in Nat
      BY LenProperties DEF FramesAssumption
    <3>4. e + Len(f) <= Len(stream)
      <4>1. e + Len(f) \in ends
        BY <3>1 DEF NextFrame, FrameAt
      <4>2. e + Len(f) \in 0..Len(stream)
        BY <1>4, <4>1
      <4>3. QED
        BY <1>4, <4>2
    <3>5. ASSUME NEW g \in ends'
          PROVE  ~(e < g /\ g < e + Len(f))
      <4>1. CASE g \in ends
        BY <3>1, <4>1 DEF NextFrame
      <4>2. CASE g = last
        BY <1>2, <1>4, <2>2, <3>3, <3>4, <4>2
      <4>3. QED
        BY <1>2, <4>1, <4>2
    <3>6. QED
      BY <3>2, <3>5 DEF NextFrame
  <2>5. QED
    BY <2>3, <2>4
<1>12. ChInv'
  BY <1>1, <1>6, <1>10, <1>11 DEF ChInv
<1>13. Channel!Send(m)
  <2>1. Len(Cut(stream, ends)) < MaxFrames
    BY <1>3, <1>7, <1>9, ContextAssumption
  <2>2. Aligned
    BY DEF ChInv
  <2>3. QED
    BY <1>6, <1>7, <1>8, <2>1, <2>2 DEF Channel!Send
<1>14. QED
  BY <1>12, <1>13

(* Where a call that has read all it needs has come to: the end of the     *)
(* frame it began with, which is intact and fits.                          *)
LEMMA WholeFrame ==
  ASSUME ChInv, FramesAssumption, Orderly, Readable(length_to_read),
         LastStep \/ (MetaKnown /\ ~Fits(Data(start)))
  PROVE  /\ LastStep /\ Intact(start, StepEnd)
         /\ ~(MetaKnown /\ ~Fits(Data(start)))
         /\ start \in ends /\ start < StepEnd /\ StepEnd \in ends
         /\ \A f \in ends : ~(start < f /\ f < StepEnd)
<1>1. /\ start \in Nat /\ taken \in Nat /\ length_to_read \in Nat \ {0}
      /\ StepEnd \in Nat /\ StepEnd <= Len(stream) /\ Len(stream) \in Nat
      /\ start <= taken /\ start # Len(stream) /\ start < StepEnd
      /\ stream \in Seq(Byte)
  BY ReadableTypes, ChTypes DEF ChInv, IInv, TypeOK, StepEnd
<1>2. start \in ends
  BY DEF ChInv, Aligned, Base, Readable
<1>3. PICK m \in Frames : NextFrame(start, m)
  BY <1>1, <1>2 DEF ChInv, Follow
<1>4. FrameAt(start, m) /\ WellFormed(m) /\ (ChecksumLength = 0 \/ m \in ValidCrc)
  BY <1>3 DEF NextFrame, Orderly
<1>5. MsgLength(start) = Len(m) /\ Len(m) \in Nat /\ Len(m) <= MaxAdu
  BY <1>1, <1>4, FrameGeometry DEF ChInv, IInv
<1>6. ASSUME MetaKnown, ~Fits(Data(start))
      PROVE  FALSE
  <2>1. /\ StepEnd - start = HeaderLength + 1 + Meta(start)
        /\ Meta(start) \in 0..9 /\ Data(start) \in Nat
    BY <1>6, MetaKnownTypes DEF ChInv
  <2>2. ~(HeaderLength + 1 + Meta(start) + Data(start) <= MaxAdu)
    BY <1>6, <2>1 DEF Fits
  <2>3. QED
    BY <1>5, <2>1, <2>2 DEF MsgLength
<1>7. LastStep /\ StepEnd = start + Len(m)
  <2>1. LastStep
    BY <1>6
  <2>2. StepEnd - start = Len(m)
    BY <1>5, <2>1, LastTypes DEF ChInv
  <2>3. QED
    BY <1>1, <1>5, <2>1, <2>2
<1>8. SubSeq(stream, start + 1, StepEnd) = m
  <2> DEFINE a == start + 1
             b == StepEnd
             piece == SubSeq(stream, a, b)
  <2>1. a \in Int /\ b \in Int /\ a <= b /\ b - a + 1 = Len(m) /\ b <= Len(stream)
    BY <1>1, <1>5, <1>7
  <2>2. m \in Seq(Byte)
    BY DEF FramesAssumption
  <2>3. ASSUME NEW i \in a..b
        PROVE  stream[i] \in Byte
    <3>1. i \in 1..Len(stream)
      BY <1>1, <2>1
    <3>2. QED
      BY <1>1, <3>1, ElementOfSeq
  <2> HIDE DEF b
  <2>4. /\ piece \in Seq(Byte) /\ Len(piece) = Len(m)
        /\ \A i \in 1..Len(m) : piece[i] = stream[a + i - 1]
    BY <2>1, <2>3, SubSeqProperties
  <2>5. ASSUME NEW i \in 1..Len(m)
        PROVE  piece[i] = m[i]
    <3>1. a + i - 1 = start + i
      BY <1>1
    <3>2. QED
      BY <1>4, <2>4, <3>1 DEF FrameAt
  <2> HIDE DEF piece
  <2>6. piece = m
    BY <2>2, <2>4, <2>5, SeqEqual
  <2>7. QED
    BY <2>6 DEF piece, b
<1>9. Intact(start, StepEnd)
  BY <1>4, <1>8 DEF Intact
<1>10. StepEnd \in ends /\ \A f \in ends : ~(start < f /\ f < StepEnd)
  BY <1>3, <1>7 DEF NextFrame, FrameAt
<1>11. QED
  BY <1>1, <1>2, <1>6, <1>7, <1>9, <1>10

(* A message is returned: a frame leaves the channel. *)
LEMMA DeliverStep ==
  ASSUME ChInv, FramesAssumption, Orderly, ReadLast
  PROVE  ChInv' /\ Channel!Deliver
<1>1. /\ IInv' /\ Readable(length_to_read) /\ LastStep
      /\ UNCHANGED <<stream, ends, timer>>
      /\ taken' = StepEnd /\ phase = "reading" /\ phase' = "idle"
  BY ReadReturnInv DEF ChInv, ReadLast, Return, Readable, wire
<1>2. /\ start \in ends /\ start < StepEnd /\ StepEnd \in ends
      /\ \A f \in ends : ~(start < f /\ f < StepEnd)
  BY <1>1, WholeFrame
<1>3. Base = start /\ Base' = StepEnd
  BY <1>1 DEF Base
<1>4. Aligned /\ Aligned' /\ Quiet'
  BY <1>1, <1>2, <1>3 DEF ChInv, Aligned, Quiet
<1>5. Follow'
  BY <1>1 DEF ChInv, Follow, NextFrame, FrameAt
<1>6. Numbered'
  BY <1>1 DEF ChInv, Numbered
<1>7. /\ ends \in SUBSET (0..Len(stream)) /\ ends \in SUBSET Nat
      /\ IsFiniteSet(ends) /\ stream \in Seq(Byte) /\ Len(stream) \in ends
  BY ChTypes DEF ChInv, IInv, EndsInv
<1>8. Rank(ends, StepEnd) = Rank(ends, start) + 1
  <2>1. StepEnd \in Nat
    BY <1>2, <1>7
  <2>2. QED
    BY <1>2, <1>7, <2>1, RankNext
<1>9. Rank(ends, start) < Len(Cut(stream, ends))
  <2>1. Len(Cut(stream, ends)) = Cardinality(ends) - 1
    BY <1>7, CutLength
  <2>2. Rank(ends, StepEnd) < Cardinality(ends)
    BY <1>2, <1>7, RankType
  <2>3. Rank(ends, start) \in Nat /\ Cardinality(ends) \in Nat
    BY <1>2, <1>7, RankType
  <2>4. QED
    BY <1>8, <2>1, <2>2, <2>3
<1>10. Channel!Deliver
  BY <1>1, <1>3, <1>4, <1>8, <1>9 DEF Channel!Deliver
<1>11. QED
  BY <1>1, <1>4, <1>5, <1>6, <1>10 DEF ChInv

(* The peer goes only when every frame it sent has been returned. *)
LEMMA GoneAtEnd ==
  ASSUME ChInv, FramesAssumption, Orderly, PeerGone
  PROVE  start = taken
<1>1. /\ phase = "reading" /\ taken = Len(stream) /\ start \in ends
      /\ start \in Nat /\ taken \in Nat /\ Len(stream) \in Nat
      /\ length_to_read \in Nat /\ length_to_read > 0
  BY ChTypes DEF PeerGone, ChInv, Aligned, Base, IInv, StepInv, TypeOK
<1>2. SUFFICES ASSUME start # Len(stream) PROVE FALSE
  BY <1>1
<1>3. PICK m \in Frames : FrameAt(start, m) /\ WellFormed(m)
  BY <1>1, <1>2 DEF ChInv, Follow, NextFrame, Orderly
<1>4. StepEnd <= start + Len(m)
  BY <1>1, <1>3, StepWithinFrame DEF ChInv
<1>5. start + Len(m) <= Len(stream) /\ Len(m) \in Nat
  BY <1>1, <1>3, FrameGeometry DEF ChInv, IInv
<1>6. QED
  BY <1>1, <1>4, <1>5 DEF StepEnd

(* Every step of the receiver and its peer is a step of the channel. *)
LEMMA StepIsChannel ==
  ASSUME ChInv, FramesAssumption, Orderly, [Next]_vars
  PROVE  ChInv' /\ [Channel!Next]_(Channel!vars)
<1>0. IInv'
  BY NextInv DEF ChInv
<1>1. ~timer /\ phase # "sleeping" /\ ~FirstTimeout /\ ~ByteTimeout
      /\ "LINK" \notin Recovery
  BY DEF ChInv, Quiet, Orderly
<1>2. ASSUME NEW m \in Frames, PeerSend(m)
      PROVE  ChInv' /\ [Channel!Next]_(Channel!vars)
  BY <1>2, SendStep DEF Channel!Next
<1>3. CASE Arrive \/ PeerClose
  <2>1. UNCHANGED <<stream, ends, start, taken, timer, phase>>
    BY <1>3 DEF Arrive, PeerClose, call
  <2>2. QED
    BY <1>0, <1>1, <2>1, Unseen DEF Base
<1>4. CASE Call \/ CallNotConnected
  <2>1. UNCHANGED <<stream, ends>> /\ Base' = Base
    BY <1>4 DEF Call, CallNotConnected, Return, Base, wire, call
  <2>2. ~timer' /\ phase' # "sleeping"
    <3>1. CASE Call
      BY <1>1, <3>1 DEF Call
    <3>2. CASE CallNotConnected
      BY <1>1, <3>2 DEF CallNotConnected, Return, call
    <3>3. QED
      BY <1>4, <3>1, <3>2
  <2>3. QED
    BY <1>0, <2>1, <2>2, Unseen
<1>5. CASE \/ \E n \in 1..(length_to_read - 1) : ReadPart(n)
           \/ ReadFunction \/ ReadMeta
  <2>1. /\ UNCHANGED <<stream, ends, start, phase>>
        /\ phase = "reading" /\ ~timer'
    BY <1>1, <1>5 DEF ReadPart, ReadFunction, ReadMeta, ReadOn, Readable, wire
  <2>2. QED
    BY <1>0, <1>1, <2>1, Unseen DEF Base
<1>6. CASE ReadTooMany
  BY <1>6, WholeFrame DEF ReadTooMany
<1>7. CASE ReadLast
  BY <1>7, DeliverStep DEF Channel!Next
<1>8. CASE ReadCorrupt
  BY <1>8, WholeFrame DEF ReadCorrupt
<1>9. CASE LoseConnection
  <2>1. /\ UNCHANGED <<stream, ends, start, taken, timer>>
        /\ phase = "reading" /\ phase' = "idle" /\ start = taken
    BY <1>9, GoneAtEnd DEF LoseConnection, PeerGone, wire, call
  <2>2. QED
    BY <1>0, <1>1, <2>1, Unseen DEF Base
<1>10. CASE Timeout \/ Flush \/ Reconnect \/ FailToReconnect
  BY <1>1, <1>10 DEF Timeout, Flush, Reconnect, FailToReconnect
<1>11. CASE UNCHANGED vars
  <2>1. UNCHANGED <<stream, ends, start, taken, timer, phase>>
    BY <1>11 DEF vars, wire, call
  <2>2. QED
    BY <1>0, <1>1, <2>1, Unseen DEF Base
<1>12. QED
  BY <1>2, <1>3, <1>4, <1>5, <1>6, <1>7, <1>8, <1>9, <1>10, <1>11
  DEF Next, Peer, Receiver, Recv

(* When nothing but the frames decides what the receiver does, it is a     *)
(* reliable channel of frames, for any such frames and any geometry:       *)
(* _modbus_receive_msg returns each frame once, whole, in the order sent,  *)
(* however the transport cuts the stream.  That each one sent is returned  *)
(* in the end is not part of this theorem.                                 *)
THEOREM ReliableChannel ==
  ASSUME Orderly
  PROVE  Spec => Channel!SafeSpec
<1>1. Init => ChInv /\ Channel!Init
  BY InitChannel
<1>2. ChInv /\ [Next]_vars => ChInv' /\ [Channel!Next]_(Channel!vars)
  BY FramesAssumption, StepIsChannel
<1>3. QED
  BY <1>1, <1>2, PTL DEF Spec, Channel!SafeSpec
=============================================================================
