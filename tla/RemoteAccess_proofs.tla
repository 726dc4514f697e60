------------------------ MODULE RemoteAccess_proofs -------------------------
(***************************************************************************)
(* For tables of any size at any addresses, and requests with any          *)
(* quantities: modbus_reply stores nothing outside of the tables, and      *)
(* nothing that was not asked for; the length of a response is what it     *)
(* says; a client understands the response to its own request; and the two *)
(* together are atomic reads and writes of four tables (RemoteTables).     *)
(***************************************************************************)
EXTENDS RemoteAccess, SequenceTheorems, TLAPS

Cell(t) == IF t \in BitTables THEN Bit ELSE Word

TablesTyped ==
  /\ DOMAIN mapping = Tables
  /\ \A t \in Tables : mapping[t] \in [0..(Nb[t] - 1) -> Cell(t)]

(***************************************************************************)
(* Cells and bytes.                                                        *)
(***************************************************************************)

(* A part of a byte, and the byte it is in. *)
LEMMA DivisionBound ==
  ASSUME NEW B \in Nat \ {0}, NEW n \in Nat, NEW i \in Nat, i < n * B
  PROVE  i \div B \in 0..(n - 1) /\ i % B \in 0..(B - 1)
<1>1. i = B * (i \div B) + (i % B) /\ i % B \in 0..(B - 1) /\ i \div B \in Nat
  BY SMT
<1>2. ASSUME i \div B >= n PROVE FALSE
  <2>1. B * (i \div B) >= B * n
    BY <1>1, <1>2, SMT
  <2> QED
    BY <1>1, <2>1, SMT
<1> QED
  BY <1>1, <1>2, SMT

(* BitsOf takes the bits out of bytes that are enough for them. *)
LEMMA BitsOfBytes ==
  ASSUME NEW bytes \in Seq(BitsByte), NEW nb \in Nat, nb <= Len(bytes) * BitsPerByte
  PROVE  BitsOf(bytes, nb) \in Seq(Bit) /\ Len(BitsOf(bytes, nb)) = nb
<1>1. ASSUME NEW i \in 1..nb
      PROVE  bytes[((i - 1) \div BitsPerByte) + 1][((i - 1) % BitsPerByte) + 1] \in Bit
  <2>1. i - 1 \in Nat /\ Len(bytes) \in Nat /\ i - 1 < Len(bytes) * BitsPerByte
    BY <1>1, BitsPerByteAssumption
  <2>2. /\ (i - 1) \div BitsPerByte \in 0..(Len(bytes) - 1)
        /\ (i - 1) % BitsPerByte \in 0..(BitsPerByte - 1)
    BY <2>1, DivisionBound, BitsPerByteAssumption
  <2>3. bytes[((i - 1) \div BitsPerByte) + 1] \in BitsByte
    BY <2>2
  <2> QED
    BY <2>2, <2>3, BitsPerByteAssumption DEF BitsByte
<1> QED
  BY <1>1 DEF BitsOf

(* WordsOf makes registers of bytes, two by two. *)
LEMMA WordsOfBytes ==
  ASSUME NEW bytes \in Seq(Half)
  PROVE  WordsOf(bytes) \in Seq(Word) /\ Len(WordsOf(bytes)) = Len(bytes) \div 2
<1>1. ASSUME NEW i \in 1..(Len(bytes) \div 2) PROVE <<bytes[2 * i - 1], bytes[2 * i]>> \in Word
  <2>1. 2 * i - 1 \in 1..Len(bytes) /\ 2 * i \in 1..Len(bytes)
    BY <1>1
  <2> QED
    BY <2>1 DEF Word
<1> QED
  BY <1>1 DEF WordsOf

(* BytesOfWords makes two bytes of each. *)
LEMMA BytesOfAllWords ==
  ASSUME NEW words \in Seq(Word)
  PROVE  BytesOfWords(words) \in Seq(Half) /\ Len(BytesOfWords(words)) = 2 * Len(words)
<1>1. ASSUME NEW i \in 1..(2 * Len(words)) PROVE words[(i + 1) \div 2][2 - (i % 2)] \in Half
  <2>1. (i + 1) \div 2 \in 1..Len(words) /\ 2 - (i % 2) \in {1, 2}
    BY <1>1
  <2>2. words[(i + 1) \div 2] \in Half \X Half
    BY <2>1 DEF Word
  <2> QED
    BY <2>1, <2>2
<1> QED
  BY <1>1 DEF BytesOfWords

(* BytesOfBits makes as many bytes as ByteCount says, and they are enough. *)
LEMMA ByteCountEnough ==
  ASSUME NEW nb \in Nat
  PROVE  ByteCount(nb) \in Nat /\ nb <= ByteCount(nb) * BitsPerByte
<1>1. nb = BitsPerByte * (nb \div BitsPerByte) + (nb % BitsPerByte)
      /\ nb % BitsPerByte \in 0..(BitsPerByte - 1) /\ nb \div BitsPerByte \in Nat
  BY BitsPerByteAssumption, SMT
<1> DEFINE q == nb \div BitsPerByte
<1> DEFINE r == nb % BitsPerByte
<1>2. (q + 1) * BitsPerByte = BitsPerByte * q + BitsPerByte /\ q * BitsPerByte = BitsPerByte * q
  BY <1>1, BitsPerByteAssumption, SMT
<1>3. ByteCount(nb) = q + (IF r # 0 THEN 1 ELSE 0)
  BY DEF ByteCount
<1> HIDE DEF q, r
<1>4. q \in Nat /\ r \in Nat /\ r < BitsPerByte /\ nb = BitsPerByte * q + r
  BY <1>1, BitsPerByteAssumption DEF q, r
<1>5. CASE r = 0
  <2>1. ByteCount(nb) = q
    BY <1>3, <1>4, <1>5
  <2>2. nb = BitsPerByte * q
    BY <1>4, <1>5, BitsPerByteAssumption, SMT
  <2> QED
    BY <1>2, <1>4, <2>1, <2>2
<1>6. CASE r # 0
  <2>1. ByteCount(nb) = q + 1 /\ BitsPerByte * q \in Int
    BY <1>3, <1>4, <1>6, BitsPerByteAssumption
  <2>2. ByteCount(nb) * BitsPerByte = BitsPerByte * q + BitsPerByte
    BY <1>2, <2>1
  <2> QED
    BY <1>4, <2>1, <2>2, BitsPerByteAssumption
<1> QED
  BY <1>5, <1>6

LEMMA BytesOfAllBits ==
  ASSUME NEW bits \in Seq(Bit)
  PROVE  BytesOfBits(bits) \in Seq(BitsByte) /\ Len(BytesOfBits(bits)) = ByteCount(Len(bits))
<1>1. ByteCount(Len(bits)) \in Nat
  BY ByteCountEnough
<1>2. ASSUME NEW j \in 1..ByteCount(Len(bits)), NEW k \in 1..BitsPerByte
      PROVE  (IF (j - 1) * BitsPerByte + k <= Len(bits) THEN bits[(j - 1) * BitsPerByte + k] ELSE 0) \in Bit
  <2>1. (j - 1) * BitsPerByte \in Nat
    BY <1>1, BitsPerByteAssumption, SMT
  <2>2. (j - 1) * BitsPerByte + k \in Nat \ {0}
    BY <2>1, BitsPerByteAssumption
  <2> QED
    BY <2>2 DEF Bit
<1> QED
  BY <1>1, <1>2 DEF BytesOfBits, BitsByte

(***************************************************************************)
(* The tables.                                                             *)
(***************************************************************************)

(* A store inside of a table leaves every table what it is, and changes no *)
(* cell but those it is for.                                               *)
StoresOnly(t, address, nb) ==
  \A u \in Tables : \A i \in DOMAIN mapping[u] :
    mapping'[u][i] # mapping[u][i] => u = t /\ Start[u] + i \in address..(address + nb - 1)

LEMMA StoredInTable ==
  ASSUME TablesTyped, NEW t \in Tables, NEW address \in Nat, NEW values \in Seq(Cell(t)),
         InTable(address, Len(values), t), mapping' = Stored(address, values, t)
  PROVE  TablesTyped' /\ StoresOnly(t, address, Len(values))
<1> DEFINE first == address - Start[t]
<1> DEFINE cells == first..(first + Len(values) - 1)
<1>1. Start[t] \in Nat /\ Nb[t] \in Nat /\ Len(values) \in Nat
  BY TablesAssumption
<1>2. cells \subseteq 0..(Nb[t] - 1)
  BY <1>1 DEF InTable, MappingAddress
<1>3. mapping[t] \in [0..(Nb[t] - 1) -> Cell(t)] /\ DOMAIN mapping = Tables
  BY DEF TablesTyped
<1>4. /\ DOMAIN mapping' = Tables
      /\ \A u \in Tables \ {t} : mapping'[u] = mapping[u]
      /\ mapping'[t] = [ i \in 0..(Nb[t] - 1) |->
                           IF i \in cells THEN values[i - first + 1] ELSE mapping[t][i] ]
  BY <1>2, <1>3 DEF Stored, MappingAddress
<1>5. ASSUME NEW i \in cells PROVE values[i - first + 1] \in Cell(t)
  <2>1. i - first + 1 \in 1..Len(values)
    BY <1>1
  <2> QED
    BY <2>1
<1>6. mapping'[t] \in [0..(Nb[t] - 1) -> Cell(t)]
  BY <1>3, <1>4, <1>5
<1>7. TablesTyped'
  BY <1>4, <1>6 DEF TablesTyped
<1>8. ASSUME NEW i \in 0..(Nb[t] - 1), i \in cells PROVE Start[t] + i \in address..(address + Len(values) - 1)
  BY <1>1, <1>8
<1>9. StoresOnly(t, address, Len(values))
  BY <1>3, <1>4, <1>8 DEF StoresOnly
<1> QED
  BY <1>7, <1>9

(***************************************************************************)
(* What is answered.                                                       *)
(***************************************************************************)

(* The function codes are numbers from here on. *)
USE DEF FC_READ_COILS, FC_READ_DISCRETE_INPUTS, FC_READ_HOLDING_REGISTERS,
        FC_READ_INPUT_REGISTERS, FC_WRITE_SINGLE_COIL, FC_WRITE_SINGLE_REGISTER,
        FC_READ_EXCEPTION_STATUS, FC_WRITE_MULTIPLE_COILS, FC_WRITE_MULTIPLE_REGISTERS,
        FC_REPORT_SLAVE_ID, FC_MASK_WRITE_REGISTER, FC_WRITE_AND_READ_REGISTERS,
        ReadBitsFCs, ReadRegistersFCs, WriteSingleFCs, WriteMultipleFCs, Reads, Echoed

(* The responses to a request q, if there is one. *)
Answers(q, r) ==
  \/ r = NoResponse
  \/ \E code \in 1..3 : r = [function |-> (q.function + 128) % 256, code |-> code]
  \/ /\ q.function \in ReadBitsFCs
     /\ \E data : /\ r = [function |-> q.function, count |-> ByteCount(q.nb), data |-> data]
                  /\ Len(data) = ByteCount(q.nb)
  \/ /\ q.function \in ReadRegistersFCs \union {FC_WRITE_AND_READ_REGISTERS}
     /\ \E data : /\ r = [function |-> q.function, count |-> q.nb * 2, data |-> data]
                  /\ Len(data) = q.nb * 2
  \/ /\ q.function \in WriteSingleFCs
     /\ r = [function |-> q.function, address |-> q.address, value |-> q.value]
  \/ /\ q.function \in WriteMultipleFCs
     /\ r = [function |-> q.function, address |-> q.address, nb |-> q.nb]
  \/ /\ q.function = FC_REPORT_SLAVE_ID
     /\ r = [function |-> q.function, count |-> 3, data |-> <<1, 1, 1>>]
  \/ /\ q.function = FC_MASK_WRITE_REGISTER
     /\ r = [function |-> q.function, address |-> q.address, and |-> q.and, or |-> q.or]

(* What Confined says of a step. *)
Confines ==
  \A t \in Tables : \A i \in DOMAIN mapping[t] :
    mapping'[t][i] # mapping[t][i] => Asked(t, Start[t] + i) /\ "code" \notin DOMAIN rsp'

(* What every reply does. *)
Replied == TablesTyped' /\ Confines /\ Answers(req, rsp') /\ req' = req

(* The table of a function. *)
LEMMA TableOfFunction ==
  /\ req.function \in {1, 5, 15} => Table = "bits"
  /\ req.function = 2 => Table = "input_bits"
  /\ req.function = 4 => Table = "input_registers"
  /\ req.function \notin {1, 2, 4, 5, 15} => Table = "registers"
BY DEF Table, TableOf

LEMMA TableIsTable ==
  /\ Table \in Tables
  /\ req.function \in {1, 2, 5, 15} => Cell(Table) = Bit
  /\ req.function \notin {1, 2, 5, 15} => Cell(Table) = Word
BY TableOfFunction DEF Tables, BitTables, Cell

(* A legal request has a length and a function that are answered; what it  *)
(* counts and addresses has been checked.                                  *)
LEMMA LegalRequest ==
  ASSUME Legal
  PROVE  req.function \in Answered /\ ~IllegalCount /\ ~IllegalAddress /\ ~IllegalEcho
BY DEF Legal, ExceptionCode, ILLEGAL_DATA_VALUE, ILLEGAL_FUNCTION, ILLEGAL_DATA_ADDRESS

LEMMA ExceptionReplied ==
  ASSUME TablesTyped, ReplyException
  PROVE  Replied
<1>1. ExceptionCode \in 1..3
  BY DEF ReplyException, Legal, ExceptionCode, ILLEGAL_DATA_VALUE, ILLEGAL_FUNCTION, ILLEGAL_DATA_ADDRESS
<1>2. UNCHANGED <<mapping, req>>
  BY DEF ReplyException, Send
<1>3. rsp' \in {NoResponse, [function |-> (req.function + 128) % 256, code |-> ExceptionCode]}
  BY DEF ReplyException, Send
<1> QED
  BY <1>1, <1>2, <1>3 DEF Replied, TablesTyped, Confines, Answers

(* The cells that are read. *)
LEMMA CellsRead ==
  ASSUME NEW t \in Tables, NEW table \in [0..(Nb[t] - 1) -> Cell(t)],
         NEW address \in Nat, NEW nb \in Nat, InTable(address, nb, t)
  PROVE  Cells(table, address, nb, t) \in Seq(Cell(t)) /\ Len(Cells(table, address, nb, t)) = nb
<1>1. Start[t] \in Nat /\ Nb[t] \in Nat
  BY TablesAssumption
<1>2. ASSUME NEW i \in 1..nb PROVE table[MappingAddress(address, t) + i - 1] \in Cell(t)
  <2>1. MappingAddress(address, t) + i - 1 \in 0..(Nb[t] - 1)
    BY <1>1 DEF InTable, MappingAddress
  <2> QED
    BY <2>1
<1> QED
  BY <1>2 DEF Cells

LEMMA ReadReplied ==
  ASSUME TablesTyped, IsRequest(req), ReplyReadBits \/ ReplyReadRegisters
  PROVE  Replied
<1>1. Legal /\ req.function \in Reads /\ UNCHANGED <<mapping, req>>
  BY DEF ReplyReadBits, ReplyReadRegisters, Send
<1>2. TablesTyped' /\ Confines
  BY <1>1 DEF TablesTyped, Confines
<1>3. req.address \in Nat /\ req.nb \in Nat
  BY <1>1, LegalRequest DEF IsRequest
<1>4. InTable(req.address, req.nb, Table)
  BY <1>1, LegalRequest DEF IllegalAddress
<1> DEFINE cells == Cells(mapping[Table], req.address, req.nb, Table)
<1>5. cells \in Seq(Cell(Table)) /\ Len(cells) = req.nb
  BY <1>3, <1>4, TableIsTable, CellsRead DEF TablesTyped
<1> HIDE DEF cells
<1>6. CASE ReplyReadBits
  <2>1. Cell(Table) = Bit /\ req.function \in ReadBitsFCs
    BY <1>6, TableIsTable DEF ReplyReadBits
  <2>2. Len(BytesOfBits(cells)) = ByteCount(req.nb)
    BY <1>5, <2>1, BytesOfAllBits
  <2>3. rsp' \in {NoResponse, [function |-> req.function, count |-> ByteCount(req.nb), data |-> BytesOfBits(cells)]}
    BY <1>6 DEF ReplyReadBits, Send, cells
  <2>4. Answers(req, rsp')
    BY <2>1, <2>2, <2>3 DEF Answers
  <2> QED
    BY <1>1, <1>2, <2>4 DEF Replied
<1>7. CASE ReplyReadRegisters
  <2>1. Cell(Table) = Word /\ req.function \in ReadRegistersFCs
    BY <1>7, TableIsTable DEF ReplyReadRegisters
  <2>2. Len(BytesOfWords(cells)) = req.nb * 2
    BY <1>3, <1>5, <2>1, BytesOfAllWords
  <2>3. rsp' \in {NoResponse, [function |-> req.function, count |-> req.nb * 2, data |-> BytesOfWords(cells)]}
    BY <1>7 DEF ReplyReadRegisters, Send, cells
  <2>4. Answers(req, rsp')
    BY <2>1, <2>2, <2>3 DEF Answers
  <2> QED
    BY <1>1, <1>2, <2>4 DEF Replied
<1> QED
  BY <1>6, <1>7

(* A write that stays in the table of the request, and is not refused.     *)
LEMMA WriteReplied ==
  ASSUME TablesTyped, Answers(req, rsp'), req' = req, "code" \notin DOMAIN rsp',
         NEW address \in Nat, NEW values \in Seq(Cell(Table)),
         InTable(address, Len(values), Table), mapping' = Stored(address, values, Table),
         \A a \in address..(address + Len(values) - 1) : Asked(Table, a)
  PROVE  Replied
<1>1. TablesTyped' /\ StoresOnly(Table, address, Len(values))
  BY StoredInTable, TableIsTable
<1>2. Confines
  BY <1>1 DEF Confines, StoresOnly
<1> QED
  BY <1>1, <1>2 DEF Replied

(* One cell, at the request's address. *)
LEMMA WriteOneReplied ==
  ASSUME TablesTyped, Answers(req, rsp'), req' = req, "code" \notin DOMAIN rsp',
         IsRequest(req), Legal, req.function \in Echoed,
         NEW v \in Cell(Table), mapping' = Stored(req.address, <<v>>, Table)
  PROVE  Replied
<1>1. req.address \in Nat /\ InTable(req.address, 1, Table)
  BY LegalRequest DEF IsRequest, IllegalAddress
<1>2. <<v>> \in Seq(Cell(Table)) /\ Len(<<v>>) = 1
  OBVIOUS
<1>3. \A a \in req.address..(req.address + 1 - 1) : Asked(Table, a)
  BY <1>1 DEF Asked
<1> QED
  BY <1>1, <1>2, <1>3, WriteReplied

LEMMA WriteSingleReplied ==
  ASSUME TablesTyped, IsRequest(req), ReplyWriteBit \/ ReplyWriteRegister
  PROVE  Replied
<1>1. /\ Legal /\ req.function \in WriteSingleFCs /\ req' = req
      /\ rsp' \in {NoResponse, [function |-> req.function, address |-> req.address, value |-> req.value]}
  BY DEF ReplyWriteBit, ReplyWriteRegister, Send
<1>2. Answers(req, rsp') /\ "code" \notin DOMAIN rsp'
  BY <1>1 DEF Answers, NoResponse
<1>3. PICK v \in Cell(Table) : mapping' = Stored(req.address, <<v>>, Table)
  <2>1. CASE ReplyWriteBit
    BY <2>1, TableIsTable DEF ReplyWriteBit, Bit
  <2>2. CASE ReplyWriteRegister
    BY <2>2, TableIsTable DEF ReplyWriteRegister, IsRequest
  <2> QED
    BY <2>1, <2>2
<1> QED
  BY <1>1, <1>2, <1>3, WriteOneReplied

LEMMA MaskReplied ==
  ASSUME TablesTyped, IsRequest(req), ReplyMaskWrite
  PROVE  Replied
<1>1. /\ Legal /\ req.function = FC_MASK_WRITE_REGISTER /\ req' = req
      /\ rsp' \in {NoResponse, [function |-> req.function, address |-> req.address,
                                and |-> req.and, or |-> req.or]}
  BY DEF ReplyMaskWrite, Send
<1>2. Answers(req, rsp') /\ "code" \notin DOMAIN rsp'
  BY <1>1 DEF Answers, NoResponse
<1> DEFINE old == mapping[Table][MappingAddress(req.address, Table)]
<1>3. old \in Word
  <2>1. req.address \in Nat /\ InTable(req.address, 1, Table)
    BY <1>1, LegalRequest DEF IsRequest, IllegalAddress
  <2>2. Start[Table] \in Nat /\ Nb[Table] \in Nat /\ mapping[Table] \in [0..(Nb[Table] - 1) -> Word]
    BY <1>1, TableIsTable, TablesAssumption DEF TablesTyped
  <2>3. MappingAddress(req.address, Table) \in 0..(Nb[Table] - 1)
    BY <2>1, <2>2 DEF InTable, MappingAddress
  <2> QED
    BY <2>2, <2>3
<1>4. req.and \in Word /\ req.or \in Word
  BY <1>1 DEF IsRequest
<1> DEFINE new == MaskWord(old, req.and, req.or)
<1>5. new \in Cell(Table)
  <2> HIDE DEF old
  <2>1. new \in Word
    BY <1>3, <1>4 DEF MaskWord, MaskHalf, Word, Half, Bit
  <2> QED
    BY <1>1, <2>1, TableIsTable
<1>6. mapping' = Stored(req.address, <<new>>, Table)
  BY DEF ReplyMaskWrite
<1> HIDE DEF new
<1> QED
  BY <1>1, <1>2, <1>5, <1>6, WriteOneReplied

LEMMA WriteMultipleReplied ==
  ASSUME TablesTyped, IsRequest(req), ReplyWriteBits \/ ReplyWriteRegisters
  PROVE  Replied
<1>1. /\ Legal /\ req.function \in WriteMultipleFCs /\ req' = req
      /\ rsp' \in {NoResponse, [function |-> req.function, address |-> req.address, nb |-> req.nb]}
  BY DEF ReplyWriteBits, ReplyWriteRegisters, Send
<1>2. Answers(req, rsp') /\ "code" \notin DOMAIN rsp'
  BY <1>1 DEF Answers, NoResponse
<1>3. /\ req.address \in Nat /\ req.nb \in Nat
      /\ InTable(req.address, req.nb, Table)
  BY <1>1, LegalRequest DEF IsRequest, IllegalAddress
<1>4. PICK values \in Seq(Cell(Table)) :
        Len(values) = req.nb /\ mapping' = Stored(req.address, values, Table)
  <2>1. CASE ReplyWriteBits
    <3>1. req.function = FC_WRITE_MULTIPLE_COILS /\ Cell(Table) = Bit
      BY <2>1, TableIsTable DEF ReplyWriteBits
    <3>2. req.data \in Seq(BitsByte) /\ req.count = Len(req.data)
      BY <3>1 DEF IsRequest
    <3>3. ~(req.count * BitsPerByte < req.nb)
      BY <1>1, <3>1, LegalRequest DEF IllegalCount
    <3>4. req.nb <= Len(req.data) * BitsPerByte
      BY <1>3, <3>2, <3>3, BitsPerByteAssumption, SMT
    <3>5. BitsOf(req.data, req.nb) \in Seq(Bit) /\ Len(BitsOf(req.data, req.nb)) = req.nb
      BY <1>3, <3>2, <3>4, BitsOfBytes
    <3> QED
      BY <2>1, <3>1, <3>5 DEF ReplyWriteBits
  <2>2. CASE ReplyWriteRegisters
    <3>1. req.function = FC_WRITE_MULTIPLE_REGISTERS /\ Cell(Table) = Word
      BY <2>2, TableIsTable DEF ReplyWriteRegisters
    <3>2. req.data \in Seq(Half) /\ Len(req.data) = req.nb * 2
      BY <1>1, <3>1, LegalRequest DEF IsRequest, IllegalCount
    <3>3. WordsOf(req.data) \in Seq(Word) /\ Len(WordsOf(req.data)) = req.nb
      BY <1>3, <3>2, WordsOfBytes
    <3> QED
      BY <2>2, <3>1, <3>3 DEF ReplyWriteRegisters
  <2> QED
    BY <2>1, <2>2
<1>5. \A a \in req.address..(req.address + Len(values) - 1) : Asked(Table, a)
  BY <1>1, <1>4 DEF Asked
<1> QED
  BY <1>1, <1>2, <1>3, <1>4, <1>5, WriteReplied

LEMMA WriteAndReadReplied ==
  ASSUME TablesTyped, IsRequest(req), ReplyWriteAndRead
  PROVE  Replied
<1> DEFINE words == WordsOf(req.data)
<1> DEFINE cells == Cells(mapping'[Table], req.address, req.nb, Table)
<1>1. /\ Legal /\ req.function = FC_WRITE_AND_READ_REGISTERS /\ req' = req
      /\ rsp' \in {NoResponse, [function |-> req.function, count |-> req.nb * 2, data |-> BytesOfWords(cells)]}
      /\ mapping' = Stored(req.write_address, words, Table)
  BY DEF ReplyWriteAndRead, Send
<1>2. /\ req.address \in Nat /\ req.nb \in Nat /\ req.write_address \in Nat /\ req.write_nb \in Nat
      /\ InTable(req.address, req.nb, Table) /\ InTable(req.write_address, req.write_nb, Table)
      /\ req.data \in Seq(Half) /\ Len(req.data) = req.write_nb * 2
  BY <1>1, LegalRequest DEF IsRequest, IllegalAddress, IllegalCount
<1>3. Table = "registers" /\ Cell(Table) = Word
  BY <1>1, TableOfFunction, TableIsTable
<1>4. words \in Seq(Word) /\ Len(words) = req.write_nb
  BY <1>2, WordsOfBytes
<1> HIDE DEF words
<1>5. TablesTyped'
  BY <1>1, <1>2, <1>3, <1>4, StoredInTable, TableIsTable
<1>6. cells \in Seq(Word) /\ Len(cells) = req.nb
  <2>1. mapping'[Table] \in [0..(Nb[Table] - 1) -> Cell(Table)]
    BY <1>5, TableIsTable DEF TablesTyped
  <2> QED
    BY <1>2, <1>3, <2>1, CellsRead, TableIsTable
<1> HIDE DEF cells
<1>7. Len(BytesOfWords(cells)) = req.nb * 2
  BY <1>2, <1>6, BytesOfAllWords
<1>8. Answers(req, rsp') /\ "code" \notin DOMAIN rsp'
  BY <1>1, <1>7 DEF Answers, NoResponse
<1>9. \A a \in req.write_address..(req.write_address + Len(words) - 1) : Asked(Table, a)
  BY <1>1, <1>3, <1>4 DEF Asked
<1> QED
  BY <1>1, <1>2, <1>3, <1>4, <1>8, <1>9, WriteReplied

LEMMA ReportReplied ==
  ASSUME TablesTyped, ReplyReportSlaveId
  PROVE  Replied
<1>1. /\ req.function = FC_REPORT_SLAVE_ID /\ UNCHANGED <<mapping, req>>
      /\ rsp' \in {NoResponse, [function |-> req.function, count |-> 3, data |-> <<1, 1, 1>>]}
  BY DEF ReplyReportSlaveId, Send
<1>2. Answers(req, rsp')
  BY <1>1 DEF Answers
<1> QED
  BY <1>1, <1>2 DEF Replied, TablesTyped, Confines

(* Every reply to a request, whatever it says, stays inside of the tables. *)
LEMMA ReplyReplied ==
  ASSUME TablesTyped, IsRequest(req), Reply
  PROVE  Replied
BY ExceptionReplied, ReadReplied, WriteSingleReplied, MaskReplied, WriteMultipleReplied,
   WriteAndReadReplied, ReportReplied DEF Reply

(***************************************************************************)
(* The requests of the client functions.                                   *)
(***************************************************************************)
CallFunctions == {1, 2, 3, 4, 5, 6, 15, 16, 22, 23}

LEMMA BasisFields ==
  ASSUME NEW function, NEW addr, NEW rest,
         DOMAIN rest \intersect {"function", "slave", "length", "address"} = {}
  PROVE  /\ Basis(function, addr, rest).function = function
         /\ Basis(function, addr, rest).address = addr % AddressSpace
         /\ Basis(function, addr, rest).slave = slave
         /\ Basis(function, addr, rest).length = "exact"
         /\ \A f \in DOMAIN rest : Basis(function, addr, rest)[f] = rest[f]
BY DEF Basis

(* An address that has travelled. *)
LEMMA AddressCut ==
  ASSUME NEW addr \in Nat
  PROVE  addr % AddressSpace \in Nat
BY CallsAssumption

(* The fields of a call's request, of each function. *)
IsRequestOf(o, q) ==
  /\ q.slave = slave /\ q.length = "exact" /\ q.address = o.addr % AddressSpace
  /\ o.call = "read" => q.function = ReadFunctionOf(o.table) /\ q.nb = o.nb
  /\ o.call = "write_one" =>
       IF o.table = "bits"
       THEN q.function = 5 /\ q.value = IF o.values[1] = 1 THEN CoilOn ELSE CoilOff
       ELSE q.function = 6 /\ q.value = o.values[1]
  /\ o.call = "write" =>
       /\ q.function = IF o.table = "bits" THEN 15 ELSE 16
       /\ q.nb = Len(o.values)
       /\ q.data = Packed(o.table, o.values) /\ q.count = Len(q.data)
  /\ o.call = "mask_write" => q.function = 22 /\ q.and = o.and /\ q.or = o.or
  /\ o.call = "write_and_read" =>
       /\ q.function = 23 /\ q.nb = o.nb
       /\ q.write_address = o.write_addr % AddressSpace /\ q.write_nb = Len(o.values)
       /\ q.data = BytesOfWords(o.values) /\ q.count = 2 * Len(o.values)

LEMMA RequestFields ==
  ASSUME NEW o, IsCall(o)
  PROVE  IsRequestOf(o, RequestOf(o))
<1>1. CASE o.call = "read"
  <2> DEFINE rest == [nb |-> o.nb]
  <2>1. RequestOf(o) = Basis(ReadFunctionOf(o.table), o.addr, rest)
    BY <1>1 DEF RequestOf
  <2>2. DOMAIN rest = {"nb"} /\ rest.nb = o.nb
    OBVIOUS
  <2> HIDE DEF rest
  <2> QED
    BY <1>1, <2>1, <2>2, BasisFields DEF IsRequestOf
<1>2. CASE o.call = "write_one" /\ o.table = "bits"
  <2> DEFINE rest == [value |-> IF o.values[1] = 1 THEN CoilOn ELSE CoilOff]
  <2>1. RequestOf(o) = Basis(5, o.addr, rest)
    BY <1>2 DEF RequestOf
  <2>2. DOMAIN rest = {"value"} /\ rest.value = IF o.values[1] = 1 THEN CoilOn ELSE CoilOff
    OBVIOUS
  <2> HIDE DEF rest
  <2>3. /\ RequestOf(o).function = 5 /\ RequestOf(o).address = o.addr % AddressSpace
        /\ RequestOf(o).slave = slave /\ RequestOf(o).length = "exact"
        /\ RequestOf(o).value = IF o.values[1] = 1 THEN CoilOn ELSE CoilOff
    BY <2>1, <2>2, BasisFields
  <2> QED
    BY <1>2, <2>3 DEF IsRequestOf
<1>3. CASE o.call = "write_one" /\ o.table = "registers"
  <2> DEFINE rest == [value |-> o.values[1]]
  <2>1. RequestOf(o) = Basis(6, o.addr, rest)
    BY <1>3 DEF RequestOf
  <2>2. DOMAIN rest = {"value"} /\ rest.value = o.values[1]
    OBVIOUS
  <2> HIDE DEF rest
  <2>3. /\ RequestOf(o).function = 6 /\ RequestOf(o).address = o.addr % AddressSpace
        /\ RequestOf(o).slave = slave /\ RequestOf(o).length = "exact"
        /\ RequestOf(o).value = o.values[1]
    BY <2>1, <2>2, BasisFields
  <2> QED
    BY <1>3, <2>3 DEF IsRequestOf
<1>4. CASE o.call = "write"
  <2> DEFINE data == Packed(o.table, o.values)
  <2> DEFINE rest == [nb |-> Len(o.values), count |-> Len(data), data |-> data]
  <2>1. RequestOf(o) = Basis(IF o.table = "bits" THEN 15 ELSE 16, o.addr, rest)
    BY <1>4 DEF RequestOf
  <2>2. /\ DOMAIN rest = {"nb", "count", "data"}
        /\ rest.nb = Len(o.values) /\ rest.count = Len(data) /\ rest.data = data
    OBVIOUS
  <2> HIDE DEF rest, data
  <2>3. /\ RequestOf(o).function = (IF o.table = "bits" THEN 15 ELSE 16)
        /\ RequestOf(o).address = o.addr % AddressSpace /\ RequestOf(o).slave = slave
        /\ RequestOf(o).length = "exact" /\ RequestOf(o).nb = Len(o.values)
        /\ RequestOf(o).count = Len(data) /\ RequestOf(o).data = data
    BY <2>1, <2>2, BasisFields
  <2> QED
    BY <1>4, <2>3 DEF IsRequestOf, data
<1>5. CASE o.call = "mask_write"
  <2> DEFINE rest == [and |-> o.and, or |-> o.or]
  <2>1. RequestOf(o) = Basis(22, o.addr, rest)
    BY <1>5 DEF RequestOf
  <2>2. DOMAIN rest = {"and", "or"} /\ rest.and = o.and /\ rest.or = o.or
    OBVIOUS
  <2> HIDE DEF rest
  <2>3. /\ RequestOf(o).function = 22 /\ RequestOf(o).address = o.addr % AddressSpace
        /\ RequestOf(o).slave = slave /\ RequestOf(o).length = "exact"
        /\ RequestOf(o).and = o.and /\ RequestOf(o).or = o.or
    BY <2>1, <2>2, BasisFields
  <2> QED
    BY <1>5, <2>3 DEF IsRequestOf
<1>6. CASE o.call = "write_and_read"
  <2> DEFINE data == BytesOfWords(o.values)
  <2> DEFINE rest == [nb |-> o.nb, write_address |-> o.write_addr % AddressSpace,
                      write_nb |-> Len(o.values), count |-> 2 * Len(o.values), data |-> data]
  <2>1. RequestOf(o) = Basis(23, o.addr, rest)
    BY <1>6 DEF RequestOf
  <2>2. /\ DOMAIN rest = {"nb", "write_address", "write_nb", "count", "data"}
        /\ rest.nb = o.nb /\ rest.write_address = o.write_addr % AddressSpace
        /\ rest.write_nb = Len(o.values) /\ rest.count = 2 * Len(o.values) /\ rest.data = data
    OBVIOUS
  <2> HIDE DEF rest, data
  <2>3. /\ RequestOf(o).function = 23 /\ RequestOf(o).address = o.addr % AddressSpace
        /\ RequestOf(o).slave = slave /\ RequestOf(o).length = "exact"
        /\ RequestOf(o).nb = o.nb /\ RequestOf(o).write_address = o.write_addr % AddressSpace
        /\ RequestOf(o).write_nb = Len(o.values) /\ RequestOf(o).count = 2 * Len(o.values)
        /\ RequestOf(o).data = data
    BY <2>1, <2>2, BasisFields
  <2> QED
    BY <1>6, <2>3 DEF IsRequestOf, data
<1> QED
  BY <1>1, <1>2, <1>3, <1>4, <1>5, <1>6 DEF IsCall

(* That is a request of one of their functions. *)
LEMMA CallRequests ==
  ASSUME NEW o, IsCall(o), NEW q, IsRequestOf(o, q)
  PROVE  IsRequest(q) /\ q.function \in CallFunctions
<1>1. q.address \in Nat
  BY AddressCut DEF IsCall, IsRequestOf
<1>2. CASE o.call = "read"
  <2>1. q.function \in {1, 2, 3, 4} /\ q.nb \in Nat
    BY <1>2 DEF ReadFunctionOf, IsCall, Tables, IsRequestOf
  <2> QED
    BY <1>1, <2>1 DEF IsRequest, CallFunctions, Byte
<1>3. CASE o.call = "write_one"
  <2>1. q.function = 5 \/ (q.function = 6 /\ o.values \in Seq(Word) /\ Len(o.values) = 1 /\ q.value = o.values[1])
    BY <1>3 DEF IsCall, IsRequestOf
  <2>2. q.function = 5 \/ (q.function = 6 /\ q.value \in Word)
    BY <2>1
  <2> QED
    BY <1>1, <2>2 DEF IsRequest, CallFunctions, Byte
<1>4. CASE o.call = "write"
  <2>1. /\ q.nb \in Nat /\ q.count = Len(q.data)
        /\ \/ q.function = 15 /\ q.data \in Seq(BitsByte)
           \/ q.function = 16 /\ q.data \in Seq(Half)
    BY <1>4, BytesOfAllBits, BytesOfAllWords DEF IsCall, IsRequestOf, Packed
  <2> QED
    BY <1>1, <2>1 DEF IsRequest, CallFunctions, Byte
<1>5. CASE o.call = "mask_write"
  <2>1. q.function = 22 /\ q.and \in Word /\ q.or \in Word
    BY <1>5 DEF IsCall, IsRequestOf
  <2> QED
    BY <1>1, <2>1 DEF IsRequest, CallFunctions, Byte
<1>6. CASE o.call = "write_and_read"
  <2>1. /\ q.function = 23 /\ q.nb \in Nat /\ q.write_address \in Nat /\ q.write_nb \in Nat
        /\ q.data \in Seq(Half) /\ q.count = Len(q.data)
    <3>1. o.nb \in Nat /\ o.write_addr \in Nat /\ o.values \in Seq(Word)
      BY <1>6 DEF IsCall
    <3>2. Len(o.values) \in Nat
      BY <3>1
    <3>3. o.write_addr % AddressSpace \in Nat
      BY <3>1, AddressCut
    <3>4. BytesOfWords(o.values) \in Seq(Half) /\ Len(BytesOfWords(o.values)) = 2 * Len(o.values)
      BY <3>1, BytesOfAllWords
    <3> QED
      BY <1>6, <3>1, <3>2, <3>3, <3>4 DEF IsRequestOf
  <2> QED
    BY <1>1, <2>1 DEF IsRequest, CallFunctions, Byte
<1> QED
  BY <1>2, <1>3, <1>4, <1>5, <1>6 DEF IsCall

(***************************************************************************)
(* The inductive invariant: beside the types, that what is under way is a  *)
(* request, of the client's functions or by hand, and an answer to it.     *)
(***************************************************************************)
Underway ==
  /\ phase \in {"requested", "replied"} =>
       IsRequest(req) /\ (op \in Ops => req.function \in CallFunctions)
  /\ phase = "replied" => Answers(req, rsp)

RInv == TypeOK /\ Framed /\ Underway

LEMMA TypesAndTables ==
  TypeOK => TablesTyped
BY DEF TypeOK, TablesTyped, Cell

(* What answers a request is framed. *)
LEMMA AnswersFramed ==
  ASSUME NEW q, NEW r, Answers(q, r)
  PROVE  "count" \in DOMAIN r => Len(r.data) = r.count
<1>1. CASE r = NoResponse
  BY <1>1 DEF NoResponse
<1>2. CASE \E code \in 1..3 : r = [function |-> (q.function + 128) % 256, code |-> code]
  BY <1>2
<1>3. CASE \E count, data : /\ r = [function |-> q.function, count |-> count, data |-> data]
                           /\ Len(data) = count
  BY <1>3
<1>4. CASE \/ r = [function |-> q.function, address |-> q.address, value |-> q.value]
           \/ r = [function |-> q.function, address |-> q.address, nb |-> q.nb]
           \/ r = [function |-> q.function, address |-> q.address, and |-> q.and, or |-> q.or]
  BY <1>4
<1>5. CASE r = [function |-> q.function, count |-> 3, data |-> <<1, 1, 1>>]
  BY <1>5
<1> QED
  BY <1>1, <1>2, <1>3, <1>4, <1>5 DEF Answers

LEMMA RInvInit ==
  Init => RInv
<1> SUFFICES ASSUME Init PROVE RInv
  OBVIOUS
<1>1. PICK c \in Settings : backend = c.backend /\ quirks = c.quirks /\ slave = c.slave /\ byHand = c.byHand
  BY DEF Init
<1>2. mapping = InitialTables /\ phase = "idle" /\ op = NoOp /\ rsp = NoResponse
  BY DEF Init
<1>3. TypeOK
  BY <1>1, <1>2, TablesAssumption, SettingsAssumption DEF TypeOK
<1>4. Framed
  BY <1>2 DEF Framed, NoResponse
<1>5. Underway
  BY <1>2 DEF Underway
<1> QED
  BY <1>3, <1>4, <1>5 DEF RInv

LEMMA RequestKeeps ==
  ASSUME RInv, \/ \E o \in Ops : Refuse(o) \/ Request(o)
               \/ \E q \in RawRequests : RawRequest(q)
  PROVE  RInv' /\ UNCHANGED mapping
<1>1. CASE \E o \in Ops : Refuse(o)
  BY <1>1 DEF RInv, TypeOK, Framed, Underway, Refuse, setting
<1>2. ASSUME NEW o \in Ops, Request(o) PROVE RInv' /\ UNCHANGED mapping
  <2>1. IsRequest(req') /\ req'.function \in CallFunctions
    <3>1. IsRequest(RequestOf(o)) /\ RequestOf(o).function \in CallFunctions
      BY RequestFields, CallRequests, CallsAssumption
    <3> QED
      BY <1>2, <3>1 DEF Request
  <2> QED
    BY <1>2, <2>1 DEF RInv, TypeOK, Framed, Underway, Request, setting
<1>3. ASSUME NEW q \in RawRequests, RawRequest(q) PROVE RInv' /\ UNCHANGED mapping
  <2>1. IsRequest(req')
    BY <1>3, CallsAssumption DEF RawRequest
  <2>2. op' \notin Ops
    BY <1>3, CallsAssumption DEF RawRequest, IsCall
  <2> QED
    BY <1>3, <2>1, <2>2 DEF RInv, TypeOK, Framed, Underway, RawRequest, setting
<1> QED
  BY <1>1, <1>2, <1>3

LEMMA ServeKeeps ==
  ASSUME RInv, Serve
  PROVE  RInv' /\ Confines
<1>1. Replied
  BY TypesAndTables, ReplyReplied DEF RInv, Underway, Serve
<1>2. UNCHANGED <<setting, op>> /\ phase' = "replied" /\ phase = "requested"
  BY DEF Serve
<1>3. TypeOK'
  BY <1>1, <1>2 DEF RInv, Replied, TypeOK, TablesTyped, Cell, setting
<1>4. Framed'
  BY <1>1, AnswersFramed DEF Replied, Framed
<1>5. Underway'
  BY <1>1, <1>2 DEF RInv, Replied, Underway
<1> QED
  BY <1>1, <1>3, <1>4, <1>5 DEF RInv, Replied

LEMMA ConfirmKeeps ==
  ASSUME RInv, Confirm
  PROVE  RInv' /\ UNCHANGED mapping
BY DEF RInv, TypeOK, Framed, Underway, Confirm, setting, NoResponse

LEMMA RInvNext ==
  ASSUME RInv, [Next]_vars
  PROVE  RInv' /\ [Confines]_vars
<1>1. CASE UNCHANGED vars
  BY <1>1 DEF RInv, TypeOK, Framed, Underway, vars, setting
<1>2. CASE UNCHANGED mapping /\ RInv'
  BY <1>2 DEF Confines
<1> QED
  BY <1>1, <1>2, RequestKeeps, ServeKeeps, ConfirmKeeps DEF Next

(* The invariant holds in every reachable state. *)
THEOREM Invariance == Spec => []RInv
<1>1. Init => RInv
  BY RInvInit
<1>2. RInv /\ [Next]_vars => RInv'
  BY RInvNext
<1> QED
  BY <1>1, <1>2, PTL DEF Spec

(* The tables keep their sizes and their kinds of cells: modbus_reply      *)
(* stores nothing outside of them, for tables of any size and requests     *)
(* with any addresses and counts.                                          *)
THEOREM StaysInTables == Spec => []TypeOK
<1>1. RInv => TypeOK
  BY DEF RInv
<1> QED
  BY <1>1, Invariance, PTL

(* Every response is as long as its byte count says (modbus_reply).        *)
THEOREM ResponsesFramed == Spec => []Framed
<1>1. RInv => Framed
  BY DEF RInv
<1> QED
  BY <1>1, Invariance, PTL

(* A request changes no cell but those it names, and none when it is       *)
(* refused (modbus_reply).                                                 *)
THEOREM WritesConfined == Spec => Confined
<1>1. RInv /\ [Next]_vars =>
        [ \A t \in Tables : \A i \in DOMAIN mapping[t] :
            mapping'[t][i] # mapping[t][i] =>
              /\ Asked(t, Start[t] + i)
              /\ "code" \notin DOMAIN rsp' ]_vars
  BY RInvNext DEF Confines
<1> QED
  BY <1>1, Invariance, PTL DEF Spec, Confined

(***************************************************************************)
(* The client's check of its confirmation.                                 *)
(***************************************************************************)

(* An exception is taken for one of the function that was called. *)
LEMMA ExceptionChecked ==
  ASSUME NEW q, q.function \in CallFunctions, NEW code, NEW r,
         r = [function |-> (q.function + 128) % 256, code |-> code]
  PROVE  Checked(q, r) = Exception(code)
<1>1. r.function = (q.function + 128) % 256 /\ r.code = code
  OBVIOUS
<1>2. (q.function + 128) % 256 = q.function + 128 /\ q.function + 128 >= 128
      /\ (q.function + 128) - 128 = q.function
  BY DEF CallFunctions
<1> QED
  BY <1>1, <1>2 DEF Checked

(* Both sides compute the same length, and what is compared agrees. *)
LEMMA OthersChecked ==
  ASSUME NEW q, IsRequest(q), q.function \in CallFunctions, NEW r, r.function = q.function,
         \/ q.function \in ReadBitsFCs /\ r.count = ByteCount(q.nb)
         \/ q.function \in ReadRegistersFCs \union {FC_WRITE_AND_READ_REGISTERS} /\ r.count = q.nb * 2
         \/ q.function \in WriteSingleFCs /\ r.address = q.address /\ r.value = q.value
         \/ q.function \in WriteMultipleFCs /\ r.address = q.address /\ r.nb = q.nb
         \/ q.function = FC_MASK_WRITE_REGISTER
  PROVE  Checked(q, r) = Error("confirmed")
<1>1. ~(r.function >= 128)
  BY DEF CallFunctions
<1>2. ResponseLength(q) = ReceivedLength(r) /\ CountsAgree(q, r)
  <2>1. CASE q.function \in ReadBitsFCs
    <3> q.nb \in Nat
      BY <2>1 DEF IsRequest
    <3>1. ByteCount(q.nb) \in Nat /\ r.count = ByteCount(q.nb)
      BY <2>1, ByteCountEnough
    <3>2. ResponseLength(q) = 2 + ByteCount(q.nb) /\ CountsAgree(q, r)
      BY <2>1, <3>1 DEF ResponseLength, CountsAgree
    <3>3. ReceivedLength(r) = 2 + r.count
      BY <2>1, <3>1 DEF ReceivedLength, MetaLength, CountOffset, MSG_CONFIRMATION, MSG_INDICATION
    <3> QED
      BY <3>1, <3>2, <3>3
  <2>2. CASE q.function \in ReadRegistersFCs \union {FC_WRITE_AND_READ_REGISTERS}
    <3>1. q.nb \in Nat /\ r.count = q.nb * 2 /\ q.nb = r.count \div 2
      BY <2>2 DEF IsRequest
    <3>2. ResponseLength(q) = 2 + 2 * q.nb /\ CountsAgree(q, r)
      BY <2>2, <3>1 DEF ResponseLength, CountsAgree
    <3>3. ReceivedLength(r) = 2 + r.count
      BY <2>2, <3>1 DEF ReceivedLength, MetaLength, CountOffset, MSG_CONFIRMATION, MSG_INDICATION
    <3>4. 2 + 2 * q.nb = 2 + r.count
      BY <3>1
    <3> QED
      BY <3>2, <3>3, <3>4
  <2>3. CASE q.function \in WriteSingleFCs \union WriteMultipleFCs
    <3>1. ResponseLength(q) = 5 /\ CountsAgree(q, r)
      BY <2>3 DEF ResponseLength, CountsAgree
    <3>2. ReceivedLength(r) = 5
      BY <2>3 DEF ReceivedLength, MetaLength, CountOffset, MSG_CONFIRMATION, MSG_INDICATION
    <3> QED
      BY <3>1, <3>2
  <2>4. CASE q.function = FC_MASK_WRITE_REGISTER
    <3>1. ResponseLength(q) = 7 /\ CountsAgree(q, r)
      BY <2>4 DEF ResponseLength, CountsAgree
    <3>2. ReceivedLength(r) = 7
      BY <2>4 DEF ReceivedLength, MetaLength, CountOffset, MSG_CONFIRMATION, MSG_INDICATION
    <3> QED
      BY <3>1, <3>2
  <2> QED
    BY <2>1, <2>2, <2>3, <2>4
<1> QED
  BY <1>1, <1>2 DEF Checked

(* An answer, if there is one, is confirmed or is an exception. *)
LEMMA AnswersChecked ==
  ASSUME NEW q, IsRequest(q), q.function \in CallFunctions,
         NEW r, Answers(q, r), r # NoResponse
  PROVE  Checked(q, r) = Error("confirmed") \/ \E code : Checked(q, r) = Exception(code)
<1>1. CASE \E code \in 1..3 : r = [function |-> (q.function + 128) % 256, code |-> code]
  BY <1>1, ExceptionChecked
<1>2. CASE /\ q.function \in ReadBitsFCs
           /\ \E data : r = [function |-> q.function, count |-> ByteCount(q.nb), data |-> data]
  <2>1. r.function = q.function /\ r.count = ByteCount(q.nb)
    BY <1>2
  <2> QED
    BY <1>2, <2>1, OthersChecked
<1>3. CASE /\ q.function \in ReadRegistersFCs \union {FC_WRITE_AND_READ_REGISTERS}
           /\ \E data : r = [function |-> q.function, count |-> q.nb * 2, data |-> data]
  <2>1. r.function = q.function /\ r.count = q.nb * 2
    BY <1>3
  <2> QED
    BY <1>3, <2>1, OthersChecked
<1>4. CASE /\ q.function \in WriteSingleFCs
           /\ r = [function |-> q.function, address |-> q.address, value |-> q.value]
  <2>1. r.function = q.function /\ r.address = q.address /\ r.value = q.value
    BY <1>4
  <2> QED
    BY <1>4, <2>1, OthersChecked
<1>5. CASE /\ q.function \in WriteMultipleFCs
           /\ r = [function |-> q.function, address |-> q.address, nb |-> q.nb]
  <2>1. r.function = q.function /\ r.address = q.address /\ r.nb = q.nb
    BY <1>5
  <2> QED
    BY <1>5, <2>1, OthersChecked
<1>6. CASE /\ q.function = FC_MASK_WRITE_REGISTER
           /\ r = [function |-> q.function, address |-> q.address, and |-> q.and, or |-> q.or]
  <2>1. r.function = q.function
    BY <1>6
  <2> QED
    BY <1>6, <2>1, OthersChecked
<1>7. q.function # FC_REPORT_SLAVE_ID
  BY DEF CallFunctions
<1> QED
  BY <1>1, <1>2, <1>3, <1>4, <1>5, <1>6, <1>7 DEF Answers

(* What the client makes of an answer to its own request. *)
LEMMA UnderstoodInvariant ==
  ASSUME RInv, phase = "replied", op \in Ops
  PROVE  ResultOf(req, rsp).status \in {"ok", "exception", "ETIMEDOUT"}
<1>1. IsRequest(req) /\ req.function \in CallFunctions /\ Answers(req, rsp)
  BY DEF RInv, Underway
<1>2. CASE rsp = NoResponse
  BY <1>2 DEF ResultOf, Error
<1>3. CASE rsp # NoResponse /\ Checked(req, rsp) = Error("confirmed")
  BY <1>3 DEF ResultOf, Values
<1>4. CASE rsp # NoResponse /\ \E code : Checked(req, rsp) = Exception(code)
  <2>1. PICK code : Checked(req, rsp) = Exception(code)
    BY <1>4
  <2>2. Exception(code).status = "exception" /\ Error("confirmed").status = "confirmed"
    BY DEF Exception, Error
  <2>3. ResultOf(req, rsp) = Exception(code)
    BY <1>4, <2>1, <2>2 DEF ResultOf
  <2> QED
    BY <2>2, <2>3
<1> QED
  BY <1>1, <1>2, <1>3, <1>4, AnswersChecked

(* The client takes no answer to a request of its own functions for bad    *)
(* data, whatever it asked for (check_confirmation).                       *)
THEOREM AlwaysUnderstood == Spec => []Understood
<1>1. RInv => Understood
  BY UnderstoodInvariant DEF Understood
<1> QED
  BY <1>1, Invariance, PTL

(***************************************************************************)
(* What is packed is unpacked.                                             *)
(***************************************************************************)

(* The bits of a response, and of a request to write some, arrive.         *)
LEMMA BitsRoundTrip ==
  ASSUME NEW bits \in Seq(Bit)
  PROVE  BitsOf(BytesOfBits(bits), Len(bits)) = bits
<1> DEFINE bytes == BytesOfBits(bits)
<1>1. bytes \in Seq(BitsByte) /\ Len(bytes) = ByteCount(Len(bits)) /\ ByteCount(Len(bits)) \in Nat
      /\ Len(bits) \in Nat /\ Len(bits) <= ByteCount(Len(bits)) * BitsPerByte
  BY BytesOfAllBits, ByteCountEnough
<1>2. ASSUME NEW i \in 1..Len(bits)
      PROVE  bytes[((i - 1) \div BitsPerByte) + 1][((i - 1) % BitsPerByte) + 1] = bits[i]
  <2> DEFINE j == ((i - 1) \div BitsPerByte) + 1
  <2> DEFINE k == ((i - 1) % BitsPerByte) + 1
  <2>1. i - 1 \in Nat /\ i - 1 < ByteCount(Len(bits)) * BitsPerByte
    BY <1>1, BitsPerByteAssumption
  <2>2. j \in 1..ByteCount(Len(bits)) /\ k \in 1..BitsPerByte
    <3>1. /\ (i - 1) \div BitsPerByte \in 0..(ByteCount(Len(bits)) - 1)
          /\ (i - 1) % BitsPerByte \in 0..(BitsPerByte - 1)
      BY <1>1, <2>1, DivisionBound, BitsPerByteAssumption
    <3> QED
      BY <1>1, <3>1, BitsPerByteAssumption
  <2>3. (j - 1) * BitsPerByte + k = i
    <3>1. i - 1 = BitsPerByte * ((i - 1) \div BitsPerByte) + ((i - 1) % BitsPerByte)
      BY <2>1, BitsPerByteAssumption, SMT
    <3>2. j - 1 = (i - 1) \div BitsPerByte /\ (i - 1) \div BitsPerByte \in Int
          /\ (i - 1) % BitsPerByte \in Int
      BY <2>1, BitsPerByteAssumption
    <3>3. (j - 1) * BitsPerByte = BitsPerByte * ((i - 1) \div BitsPerByte)
      BY <3>2, BitsPerByteAssumption, SMT
    <3>4. BitsPerByte * ((i - 1) \div BitsPerByte) \in Int
      BY <3>2, BitsPerByteAssumption
    <3> HIDE DEF j
    <3> QED
      BY <3>1, <3>2, <3>3, <3>4
  <2> HIDE DEF j, k
  <2>4. bytes[j] = [ m \in 1..BitsPerByte |->
                       LET n == (j - 1) * BitsPerByte + m
                       IN  IF n <= Len(bits) THEN bits[n] ELSE 0 ]
    BY <2>2 DEF BytesOfBits
  <2> HIDE DEF bytes
  <2>5. bytes[j][k] = bits[i]
    BY <2>2, <2>3, <2>4
  <2> QED
    BY <2>5 DEF j, k
<1>3. BitsOf(bytes, Len(bits)) = [ i \in 1..Len(bits) |-> bits[i] ]
  <2> HIDE DEF bytes
  <2> QED
    BY <1>2 DEF BitsOf
<1> QED
  BY <1>3

(* And so do the registers. *)
LEMMA WordsRoundTrip ==
  ASSUME NEW words \in Seq(Word)
  PROVE  WordsOf(BytesOfWords(words)) = words
<1> DEFINE bytes == BytesOfWords(words)
<1>1. Len(bytes) = 2 * Len(words) /\ Len(words) \in Nat
  BY BytesOfAllWords
<1>2. ASSUME NEW i \in 1..Len(words)
      PROVE  <<bytes[2 * i - 1], bytes[2 * i]>> = words[i]
  <2>1. 2 * i - 1 \in 1..(2 * Len(words)) /\ 2 * i \in 1..(2 * Len(words))
    BY <1>1
  <2>2. bytes[2 * i - 1] = words[((2 * i - 1) + 1) \div 2][2 - ((2 * i - 1) % 2)]
        /\ bytes[2 * i] = words[((2 * i) + 1) \div 2][2 - ((2 * i) % 2)]
    BY <2>1 DEF BytesOfWords
  <2>3. /\ ((2 * i - 1) + 1) \div 2 = i /\ 2 - ((2 * i - 1) % 2) = 1
        /\ ((2 * i) + 1) \div 2 = i /\ 2 - ((2 * i) % 2) = 2
    BY <1>1
  <2>4. bytes[2 * i - 1] = words[i][1] /\ bytes[2 * i] = words[i][2]
    BY <2>2, <2>3
  <2>5. words[i] \in Half \X Half
    BY DEF Word
  <2> HIDE DEF bytes
  <2> QED
    BY <2>4, <2>5
<1>3. Len(bytes) \div 2 = Len(words)
  BY <1>1
<1>4. WordsOf(bytes) = [ i \in 1..Len(words) |-> words[i] ]
  <2> HIDE DEF bytes
  <2> QED
    BY <1>2, <1>3 DEF WordsOf
<1> QED
  BY <1>4
(***************************************************************************)
(* The tables at their addresses.                                          *)
(***************************************************************************)

(* The definitions of RemoteTables, of the tables of the server. *)
HasAt(t, addr, nb) == \A i \in 0..(nb - 1) : addr + i \in DOMAIN ByAddress[t]
CellsAt(t, addr, nb) == [ i \in 1..nb |-> ByAddress[t][addr + i - 1] ]
StoredAt(t, addr, vs) ==
  [ ByAddress EXCEPT ![t] =
      [ a \in DOMAIN @ |-> IF a \in addr..(addr + Len(vs) - 1) THEN vs[a - addr + 1] ELSE @[a] ] ]

LEMMA TableByAddress ==
  ASSUME NEW t \in Tables
  PROVE  /\ Start[t] \in Nat /\ Nb[t] \in Nat
         /\ ByAddress[t] = [ a \in Start[t]..(Start[t] + Nb[t] - 1) |-> mapping[t][a - Start[t]] ]
         /\ DOMAIN ByAddress[t] = Start[t]..(Start[t] + Nb[t] - 1)
BY TablesAssumption DEF ByAddress

(* mapping_address finds exactly the cells that are there. *)
LEMMA InTableHas ==
  ASSUME NEW t \in Tables, NEW addr \in Nat, NEW nb \in Nat \ {0}
  PROVE  InTable(addr, nb, t) <=> HasAt(t, addr, nb)
<1>1. Start[t] \in Nat /\ Nb[t] \in Nat /\ DOMAIN ByAddress[t] = Start[t]..(Start[t] + Nb[t] - 1)
  BY TableByAddress
<1>2. ASSUME InTable(addr, nb, t) PROVE HasAt(t, addr, nb)
  BY <1>1, <1>2, SMTT(30) DEF InTable, MappingAddress, HasAt
<1>3. ASSUME HasAt(t, addr, nb) PROVE InTable(addr, nb, t)
  <2>1. 0 \in 0..(nb - 1) /\ nb - 1 \in 0..(nb - 1)
    OBVIOUS
  <2>2. addr + 0 \in Start[t]..(Start[t] + Nb[t] - 1) /\ addr + (nb - 1) \in Start[t]..(Start[t] + Nb[t] - 1)
    BY <1>1, <1>3, <2>1 DEF HasAt
  <2> QED
    BY <1>1, <2>2 DEF InTable, MappingAddress
<1> QED
  BY <1>2, <1>3

LEMMA CellsByAddress ==
  ASSUME NEW t \in Tables, NEW addr \in Nat, NEW nb \in Nat, InTable(addr, nb, t)
  PROVE  Cells(mapping[t], addr, nb, t) = CellsAt(t, addr, nb)
<1>1. ASSUME NEW i \in 1..nb
      PROVE  mapping[t][MappingAddress(addr, t) + i - 1] = ByAddress[t][addr + i - 1]
  <2>1. addr + i - 1 \in Start[t]..(Start[t] + Nb[t] - 1) /\ Start[t] \in Nat
    <3>1. Start[t] \in Nat /\ Nb[t] \in Nat
      BY TableByAddress
    <3> QED
      BY <3>1 DEF InTable, MappingAddress
  <2>2. (addr + i - 1) - Start[t] = MappingAddress(addr, t) + i - 1
    BY <2>1 DEF MappingAddress
  <2>3. ByAddress[t][addr + i - 1] = mapping[t][(addr + i - 1) - Start[t]]
    BY <2>1, TableByAddress, ZenonT(60)
  <2> QED
    BY <2>2, <2>3
<1> QED
  BY <1>1 DEF Cells, CellsAt

LEMMA StoredByAddress ==
  ASSUME TablesTyped, NEW t \in Tables, NEW addr \in Nat, NEW values \in Seq(Cell(t)),
         InTable(addr, Len(values), t), mapping' = Stored(addr, values, t)
  PROVE  ByAddress' = StoredAt(t, addr, values)
<1> DEFINE Span(u) == Start[u]..(Start[u] + Nb[u] - 1)
<1> DEFINE run == addr..(addr + Len(values) - 1)
<1>1. /\ Start[t] \in Nat /\ Nb[t] \in Nat /\ Len(values) \in Nat
      /\ addr - Start[t] >= 0 /\ addr - Start[t] + Len(values) <= Nb[t]
  BY TablesAssumption DEF InTable, MappingAddress
<1>2. mapping[t] \in [0..(Nb[t] - 1) -> Cell(t)] /\ DOMAIN mapping = Tables
  BY DEF TablesTyped
<1>3. /\ \A u \in Tables \ {t} : mapping'[u] = mapping[u]
      /\ mapping'[t] = [ i \in 0..(Nb[t] - 1) |->
                           IF i \in (addr - Start[t])..(addr - Start[t] + Len(values) - 1)
                           THEN values[i - (addr - Start[t]) + 1] ELSE mapping[t][i] ]
  BY <1>1, <1>2 DEF Stored, MappingAddress
<1>4. ASSUME NEW a \in Span(t)
      PROVE  mapping'[t][a - Start[t]] = IF a \in run THEN values[a - addr + 1] ELSE mapping[t][a - Start[t]]
  <2> DEFINE i == a - Start[t]
  <2>1. i \in 0..(Nb[t] - 1)
    BY <1>1
  <2>2. i \in (addr - Start[t])..(addr - Start[t] + Len(values) - 1) <=> a \in run
    BY <1>1
  <2>3. i - (addr - Start[t]) + 1 = a - addr + 1
    BY <1>1
  <2> HIDE DEF i, run
  <2>4. mapping'[t][i] = IF a \in run THEN values[a - addr + 1] ELSE mapping[t][i]
    BY <1>3, <2>1, <2>2, <2>3
  <2> QED
    BY <2>4 DEF i
<1>5. ByAddress' = [ u \in Tables |-> [ a \in Span(u) |-> mapping'[u][a - Start[u]] ] ]
  BY DEF ByAddress
<1>6. StoredAt(t, addr, values) =
        [ u \in Tables |-> IF u = t
                           THEN [ a \in Span(t) |-> IF a \in run THEN values[a - addr + 1] ELSE mapping[t][a - Start[t]] ]
                           ELSE [ a \in Span(u) |-> mapping[u][a - Start[u]] ] ]
  BY TableByAddress DEF StoredAt, ByAddress
<1> HIDE DEF run
<1>7. [ a \in Span(t) |-> mapping'[t][a - Start[t]] ] =
        [ a \in Span(t) |-> IF a \in run THEN values[a - addr + 1] ELSE mapping[t][a - Start[t]] ]
  BY <1>4
<1> DEFINE Now(u) == IF u = t
                     THEN [ a \in Span(t) |-> IF a \in run THEN values[a - addr + 1] ELSE mapping[t][a - Start[t]] ]
                     ELSE [ a \in Span(u) |-> mapping[u][a - Start[u]] ]
<1>8. ASSUME NEW u \in Tables PROVE [ a \in Span(u) |-> mapping'[u][a - Start[u]] ] = Now(u)
  BY <1>3, <1>7
<1>9. StoredAt(t, addr, values) = [ u \in Tables |-> Now(u) ]
  BY <1>6
<1> HIDE DEF Span, Now
<1> QED
  BY <1>5, <1>8, <1>9

(***************************************************************************)
(* What the server makes of a call, and the client of its answer.          *)
(***************************************************************************)

(* A call that the client did not refuse is served, and answered. *)
ServesCall(o) ==
  TablesTyped /\ IsCall(o) /\ ~Refused(o) /\ IsRequestOf(o, req) /\ ~Silent /\ Reply

LEMMA ExceptionResult ==
  ASSUME NEW q, q.function \in CallFunctions, NEW code, NEW r,
         r = [function |-> (q.function + 128) % 256, code |-> code]
  PROVE  ResultOf(q, r) = Exception(code)
<1>1. r # NoResponse
  BY DEF NoResponse
<1>2. Checked(q, r) = Exception(code)
  BY ExceptionChecked
<1>3. Exception(code).status = "exception" /\ Error("confirmed").status = "confirmed"
  BY DEF Exception, Error
<1> QED
  BY <1>1, <1>2, <1>3 DEF ResultOf

LEMMA ConfirmedResult ==
  ASSUME NEW q, IsRequest(q), q.function \in CallFunctions, NEW r, r # NoResponse,
         r.function = q.function,
         \/ q.function \in ReadBitsFCs /\ r.count = ByteCount(q.nb)
         \/ q.function \in ReadRegistersFCs \union {FC_WRITE_AND_READ_REGISTERS} /\ r.count = q.nb * 2
         \/ q.function \in WriteSingleFCs /\ r.address = q.address /\ r.value = q.value
         \/ q.function \in WriteMultipleFCs /\ r.address = q.address /\ r.nb = q.nb
         \/ q.function = FC_MASK_WRITE_REGISTER
  PROVE  ResultOf(q, r) = Values(Unpacked(q, r))
<1>1. Checked(q, r) = Error("confirmed")
  BY OthersChecked
<1> QED
  BY <1>1 DEF ResultOf

LEMMA ReplyGuards ==
  ASSUME Reply
  PROVE  \/ ReplyException
         \/ Legal /\ req.function \in ReadBitsFCs /\ ReplyReadBits
         \/ Legal /\ req.function \in ReadRegistersFCs /\ ReplyReadRegisters
         \/ Legal /\ req.function = FC_WRITE_SINGLE_COIL /\ ReplyWriteBit
         \/ Legal /\ req.function = FC_WRITE_SINGLE_REGISTER /\ ReplyWriteRegister
         \/ Legal /\ req.function = FC_WRITE_MULTIPLE_COILS /\ ReplyWriteBits
         \/ Legal /\ req.function = FC_WRITE_MULTIPLE_REGISTERS /\ ReplyWriteRegisters
         \/ Legal /\ req.function = FC_REPORT_SLAVE_ID
         \/ Legal /\ req.function = FC_MASK_WRITE_REGISTER /\ ReplyMaskWrite
         \/ Legal /\ req.function = FC_WRITE_AND_READ_REGISTERS /\ ReplyWriteAndRead
<1>1. ReplyReadBits => Legal /\ req.function \in ReadBitsFCs
  BY DEF ReplyReadBits
<1>2. ReplyReadRegisters => Legal /\ req.function \in ReadRegistersFCs
  BY DEF ReplyReadRegisters
<1>3. ReplyWriteBit => Legal /\ req.function = FC_WRITE_SINGLE_COIL
  BY DEF ReplyWriteBit
<1>4. ReplyWriteRegister => Legal /\ req.function = FC_WRITE_SINGLE_REGISTER
  BY DEF ReplyWriteRegister
<1>5. ReplyWriteBits => Legal /\ req.function = FC_WRITE_MULTIPLE_COILS
  BY DEF ReplyWriteBits
<1>6. ReplyWriteRegisters => Legal /\ req.function = FC_WRITE_MULTIPLE_REGISTERS
  BY DEF ReplyWriteRegisters
<1>7. ReplyReportSlaveId => Legal /\ req.function = FC_REPORT_SLAVE_ID
  BY DEF ReplyReportSlaveId
<1>8. ReplyMaskWrite => Legal /\ req.function = FC_MASK_WRITE_REGISTER
  BY DEF ReplyMaskWrite
<1>9. ReplyWriteAndRead => Legal /\ req.function = FC_WRITE_AND_READ_REGISTERS
  BY DEF ReplyWriteAndRead
<1> QED
  BY <1>1, <1>2, <1>3, <1>4, <1>5, <1>6, <1>7, <1>8, <1>9 DEF Reply

(* The table of a call is that of its function. *)
LEMMA TableOfCall ==
  ASSUME NEW o, IsCall(o), IsRequestOf(o, req)
  PROVE  Table = IF o.call \in {"read", "write_one", "write"} THEN o.table ELSE "registers"
<1>1. CASE o.call = "read"
  <2>1. o.table \in Tables /\ req.function = ReadFunctionOf(o.table)
    BY <1>1 DEF IsCall, IsRequestOf
  <2>2. \/ o.table = "bits" /\ req.function = 1
        \/ o.table = "input_bits" /\ req.function = 2
        \/ o.table = "registers" /\ req.function = 3
        \/ o.table = "input_registers" /\ req.function = 4
    BY <2>1 DEF ReadFunctionOf, Tables
  <2> QED
    BY <1>1, <2>2, TableOfFunction
<1>2. CASE o.call \in {"write_one", "write"}
  <2>1. \/ o.table = "bits" /\ req.function \in {5, 15}
        \/ o.table = "registers" /\ req.function \in {6, 16}
    BY <1>2 DEF IsCall, IsRequestOf
  <2>2. Table = o.table
    <3>1. CASE o.table = "bits" /\ req.function \in {5, 15}
      <4>1. req.function \in {1, 5, 15}
        BY <3>1
      <4> QED
        BY <3>1, <4>1, TableOfFunction
    <3>2. CASE o.table = "registers" /\ req.function \in {6, 16}
      <4>1. req.function \notin {1, 2, 4, 5, 15}
        BY <3>2
      <4> QED
        BY <3>2, <4>1, TableOfFunction
    <3> QED
      BY <2>1, <3>1, <3>2
  <2> QED
    BY <1>2, <2>2
<1>3. CASE o.call \in {"mask_write", "write_and_read"}
  <2>1. req.function \in {22, 23}
    BY <1>3 DEF IsRequestOf
  <2>2. req.function \notin {1, 2, 4, 5, 15}
    BY <2>1
  <2>3. Table = "registers"
    BY <2>2, TableOfFunction
  <2> QED
    BY <1>3, <2>3
<1> QED
  BY <1>1, <1>2, <1>3 DEF IsCall

(* Of a call only the addresses can be illegal. *)
LEMMA CallLegality ==
  ASSUME NEW o, IsCall(o), ~Refused(o), IsRequestOf(o, req)
  PROVE  ExceptionCode = IF IllegalAddress THEN 2 ELSE 0
<1>1. ~IllegalCount
  <2>1. CASE o.call = "read"
    <3>1. req.function \in {1, 2, 3, 4} /\ req.nb = o.nb /\ o.nb \in 1..MaxRead[Table]
      BY <2>1, TableOfCall DEF ReadFunctionOf, IsCall, Tables, IsRequestOf, Refused
    <3> QED
      BY <3>1 DEF IllegalCount
  <2>2. CASE o.call = "write" /\ o.table = "bits"
    <3>1. /\ req.function = 15 /\ req.nb = Len(o.values) /\ Len(o.values) \in 1..MaxWrite[Table]
          /\ req.count = Len(BytesOfBits(o.values)) /\ o.values \in Seq(Bit)
      BY <2>2, TableOfCall DEF IsCall, IsRequestOf, Refused, Packed
    <3>2. req.count = ByteCount(Len(o.values)) /\ Len(o.values) \in Nat
      BY <3>1, BytesOfAllBits
    <3>3. ~(req.count * BitsPerByte < req.nb)
      <4>1. ByteCount(Len(o.values)) \in Nat /\ Len(o.values) <= ByteCount(Len(o.values)) * BitsPerByte
        BY <3>2, ByteCountEnough
      <4>2. ByteCount(Len(o.values)) * BitsPerByte \in Int
        BY <4>1, BitsPerByteAssumption
      <4> QED
        BY <3>1, <3>2, <4>1, <4>2
    <3> QED
      BY <3>1, <3>3 DEF IllegalCount
  <2>3. CASE o.call = "write" /\ o.table = "registers"
    <3>1. /\ req.function = 16 /\ req.nb = Len(o.values) /\ Len(o.values) \in 1..MaxWrite[Table]
          /\ req.count = Len(BytesOfWords(o.values)) /\ o.values \in Seq(Word)
      BY <2>3, TableOfCall DEF IsCall, IsRequestOf, Refused, Packed
    <3>2. req.count = req.nb * 2
      BY <3>1, BytesOfAllWords
    <3> QED
      BY <3>1, <3>2 DEF IllegalCount
  <2>4. CASE o.call = "write_and_read"
    <3>1. /\ req.function = 23 /\ req.nb \in 1..MaxWrRead /\ req.write_nb \in 1..MaxWrWrite
          /\ req.count = 2 * req.write_nb
      BY <2>4 DEF IsRequestOf, Refused
    <3> QED
      BY <3>1 DEF IllegalCount
  <2>5. CASE o.call \in {"write_one", "mask_write"}
    <3>1. req.function \in {5, 6, 22}
      BY <2>5 DEF IsRequestOf
    <3> QED
      BY <3>1 DEF IllegalCount
  <2> QED
    BY <2>1, <2>2, <2>3, <2>4, <2>5 DEF IsCall
<1>2. ~IllegalEcho
  <2>1. req.length = "exact"
    BY DEF IsRequestOf
  <2>2. ASSUME req.function = 5 PROVE req.value \in {CoilOn, CoilOff}
    <3>1. CASE o.call = "write_one" /\ o.table = "bits"
      BY <3>1 DEF IsRequestOf
    <3>2. CASE ~(o.call = "write_one" /\ o.table = "bits")
      <4>1. req.function \in {1, 2, 3, 4, 6, 15, 16, 22, 23}
        BY <3>2 DEF IsRequestOf, IsCall, ReadFunctionOf, Tables
      <4> QED
        BY <2>2, <4>1
    <3> QED
      BY <3>1, <3>2
  <2> QED
    BY <2>1, <2>2 DEF IllegalEcho
<1>3. req.length = "exact" /\ req.function \in Answered
  <2>1. req.function \in CallFunctions
    BY CallRequests
  <2> QED
    BY <2>1 DEF IsRequestOf, CallFunctions, Answered
<1> QED
  BY <1>1, <1>2, <1>3 DEF ExceptionCode, ILLEGAL_DATA_ADDRESS

(* Where an address is illegal, nothing is stored and the call gets that   *)
(* exception.                                                              *)
LEMMA IllegalServed ==
  ASSUME NEW o, ServesCall(o), IllegalAddress
  PROVE  mapping' = mapping /\ ResultOf(req', rsp') = Exception(2)
<1>1. ExceptionCode = 2 /\ ~Legal /\ req.function \in CallFunctions
  BY CallLegality, CallRequests DEF ServesCall, Legal
<1>2. ReplyException
  BY <1>1, ReplyGuards DEF ServesCall
<1>3. mapping' = mapping /\ req' = req /\ rsp' = [function |-> (req.function + 128) % 256, code |-> 2]
  BY <1>1, <1>2 DEF ReplyException, Send, ServesCall
<1> QED
  BY <1>1, <1>3, ExceptionResult

(* Elsewhere the call is legal. *)
LEMMA LegalServed ==
  ASSUME NEW o, ServesCall(o), ~IllegalAddress
  PROVE  Legal /\ ~ReplyException
BY CallLegality DEF ServesCall, Legal, ReplyException

(* The addresses that have travelled. *)
At(o) == o.addr % AddressSpace
WriteAt(o) == o.write_addr % AddressSpace

(* The cells a call is for are all there. *)
HasCells(o) ==
  CASE o.call = "read" -> HasAt(o.table, At(o), o.nb)
    [] o.call \in {"write_one", "write"} -> HasAt(o.table, At(o), Len(o.values))
    [] o.call = "mask_write" -> HasAt("registers", At(o), 1)
    [] o.call = "write_and_read" ->
         /\ HasAt("registers", WriteAt(o), Len(o.values))
         /\ HasAt("registers", At(o), o.nb)

LEMMA CallInTable ==
  ASSUME NEW o, IsCall(o), ~Refused(o), IsRequestOf(o, req)
  PROVE  /\ ~IllegalAddress <=> HasCells(o)
         /\ At(o) \in Nat /\ req.address = At(o)
<1>1. At(o) \in Nat /\ req.address = At(o)
  BY AddressCut DEF IsCall, IsRequestOf, At
<1>0. 1 \in Nat \ {0}
  OBVIOUS
<1>2. CASE o.call = "read"
  <2>1. req.nb = o.nb /\ o.nb \in Nat \ {0} /\ Table = o.table /\ o.table \in Tables
    <3>1. o.table \in Tables /\ o.nb \in 1..MaxRead[o.table] /\ req.nb = o.nb /\ Table = o.table
      BY <1>2, TableOfCall DEF IsCall, IsRequestOf, Refused
    <3>2. MaxRead[o.table] \in Nat
      BY <3>1, TablesAssumption
    <3> QED
      BY <3>1, <3>2
  <2>2. req.function \in Reads
    BY <1>2, <2>1 DEF IsRequestOf, ReadFunctionOf, Tables
  <2>3. ~IllegalAddress <=> InTable(At(o), o.nb, o.table)
    BY <1>1, <2>1, <2>2 DEF IllegalAddress
  <2> QED
    BY <1>1, <1>2, <2>1, <2>3, InTableHas DEF HasCells
<1>3. CASE o.call = "write"
  <2>1. /\ req.function \in WriteMultipleFCs /\ req.nb = Len(o.values) /\ Len(o.values) \in Nat \ {0}
        /\ Table = o.table /\ o.table \in Tables
    <3>1. /\ o.table \in Tables /\ Len(o.values) \in 1..MaxWrite[o.table] /\ req.nb = Len(o.values)
          /\ req.function \in WriteMultipleFCs /\ Table = o.table
      BY <1>3, TableOfCall DEF IsCall, IsRequestOf, Tables, Refused
    <3>2. MaxWrite[o.table] \in Nat
      BY <3>1, TablesAssumption
    <3> QED
      BY <3>1, <3>2
  <2>2. ~IllegalAddress <=> InTable(At(o), Len(o.values), o.table)
    BY <1>1, <2>1 DEF IllegalAddress
  <2> QED
    BY <1>1, <1>3, <2>1, <2>2, InTableHas DEF HasCells
<1>4. CASE o.call = "write_one"
  <2>1. /\ req.function \in {5, 6} /\ Len(o.values) = 1 /\ Table = o.table /\ o.table \in Tables
    BY <1>4, TableOfCall DEF IsCall, IsRequestOf, Tables
  <2>2. ~IllegalAddress <=> InTable(At(o), 1, o.table)
    BY <1>1, <2>1 DEF IllegalAddress
  <2> QED
    BY <1>1, <1>4, <2>1, <2>2, <1>0, InTableHas DEF HasCells
<1>5. CASE o.call = "mask_write"
  <2>1. req.function = 22 /\ Table = "registers" /\ "registers" \in Tables
    BY <1>5, TableOfCall DEF IsRequestOf, Tables
  <2>2. ~IllegalAddress <=> InTable(At(o), 1, "registers")
    BY <1>1, <2>1 DEF IllegalAddress
  <2> QED
    BY <1>1, <1>5, <2>1, <2>2, <1>0, InTableHas DEF HasCells
<1>6. CASE o.call = "write_and_read"
  <2>1. /\ req.function = 23 /\ Table = "registers" /\ "registers" \in Tables
        /\ req.nb = o.nb /\ req.write_nb = Len(o.values) /\ req.write_address = WriteAt(o)
    BY <1>6, TableOfCall DEF IsRequestOf, Tables, WriteAt
  <2>2. o.nb \in Nat \ {0} /\ Len(o.values) \in Nat \ {0} /\ WriteAt(o) \in Nat
    <3>1. o.nb \in 1..MaxWrRead /\ Len(o.values) \in 1..MaxWrWrite
      BY <1>6 DEF Refused
    <3>2. o.write_addr \in Nat
      BY <1>6 DEF IsCall
    <3>3. WriteAt(o) \in Nat
      BY <3>2, AddressCut DEF WriteAt
    <3>4. MaxWrRead \in Nat /\ MaxWrWrite \in Nat
      BY TablesAssumption
    <3> QED
      BY <3>1, <3>3, <3>4
  <2>3. ~IllegalAddress <=> InTable(At(o), o.nb, "registers") /\ InTable(WriteAt(o), Len(o.values), "registers")
    BY <1>1, <2>1 DEF IllegalAddress
  <2>4. /\ InTable(At(o), o.nb, "registers") <=> HasAt("registers", At(o), o.nb)
        /\ InTable(WriteAt(o), Len(o.values), "registers") <=> HasAt("registers", WriteAt(o), Len(o.values))
    BY <1>1, <2>1, <2>2, InTableHas
  <2> QED
    BY <1>1, <1>6, <2>3, <2>4 DEF HasCells
<1> QED
  BY <1>2, <1>3, <1>4, <1>5, <1>6 DEF IsCall

LEMMA ReadServed ==
  ASSUME NEW o, ServesCall(o), o.call = "read", HasCells(o)
  PROVE  mapping' = mapping /\ ResultOf(req', rsp') = Values(CellsAt(o.table, At(o), o.nb))
<1> DEFINE cells == CellsAt(o.table, At(o), o.nb)
<1>1. /\ ~IllegalAddress /\ req.address = At(o) /\ At(o) \in Nat /\ ~ReplyException
      /\ IsRequest(req) /\ req.function \in CallFunctions
  BY CallInTable, LegalServed, CallRequests DEF ServesCall
<1>2. /\ req.function = ReadFunctionOf(o.table) /\ req.nb = o.nb /\ o.nb \in Nat /\ Table = o.table
      /\ o.table \in Tables
  BY TableOfCall DEF ServesCall, IsCall, IsRequestOf
<1>3. InTable(At(o), o.nb, o.table)
  BY <1>1, <1>2, CallInTable DEF IllegalAddress, ReadFunctionOf, Tables
<1>4. Cells(mapping[Table], req.address, req.nb, Table) = cells
  BY <1>1, <1>2, <1>3, CellsByAddress
<1>5. cells \in Seq(Cell(o.table)) /\ Len(cells) = o.nb
  BY <1>1, <1>2, <1>3, <1>4, CellsRead DEF ServesCall, TablesTyped
<1> HIDE DEF cells
<1>6. CASE o.table \in BitTables
  <2>1. req.function \in ReadBitsFCs /\ cells \in Seq(Bit)
    BY <1>2, <1>5, <1>6 DEF ReadFunctionOf, BitTables, Cell
  <2>2. ReplyReadBits
    BY <1>1, <2>1, ReplyGuards DEF ServesCall
  <2> DEFINE r == [function |-> req.function, count |-> ByteCount(req.nb), data |-> BytesOfBits(cells)]
  <2>3. mapping' = mapping /\ req' = req /\ rsp' = r
    BY <1>4, <2>2 DEF ReplyReadBits, Send, ServesCall
  <2>4. r # NoResponse /\ r.function = req.function /\ r.count = ByteCount(req.nb) /\ r.data = BytesOfBits(cells)
    BY DEF NoResponse
  <2> HIDE DEF r
  <2>5. ResultOf(req, r) = Values(Unpacked(req, r))
    BY <1>1, <2>1, <2>4, ConfirmedResult
  <2>6. Unpacked(req, r) = BitsOf(BytesOfBits(cells), Len(cells))
    BY <1>2, <1>5, <2>1, <2>4 DEF Unpacked
  <2> QED
    BY <2>1, <2>3, <2>5, <2>6, BitsRoundTrip DEF cells
<1>7. CASE o.table \in Tables \ BitTables
  <2>1. req.function \in ReadRegistersFCs /\ cells \in Seq(Word)
    BY <1>2, <1>5, <1>7 DEF ReadFunctionOf, Tables, BitTables, Cell
  <2>2. ReplyReadRegisters
    BY <1>1, <2>1, ReplyGuards DEF ServesCall
  <2> DEFINE r == [function |-> req.function, count |-> req.nb * 2, data |-> BytesOfWords(cells)]
  <2>3. mapping' = mapping /\ req' = req /\ rsp' = r
    BY <1>4, <2>2 DEF ReplyReadRegisters, Send, ServesCall
  <2>4. r # NoResponse /\ r.function = req.function /\ r.count = req.nb * 2 /\ r.data = BytesOfWords(cells)
    BY DEF NoResponse
  <2> HIDE DEF r
  <2>5. ResultOf(req, r) = Values(Unpacked(req, r))
    BY <1>1, <2>1, <2>4, ConfirmedResult
  <2>6. Unpacked(req, r) = WordsOf(BytesOfWords(cells))
    BY <2>1, <2>4 DEF Unpacked
  <2> QED
    BY <2>1, <2>3, <2>5, <2>6, WordsRoundTrip DEF cells
<1> QED
  BY <1>2, <1>6, <1>7

LEMMA OneValue ==
  ASSUME NEW S, NEW s \in Seq(S), Len(s) = 1
  PROVE  s = <<s[1]>>
<1>1. <<s[1]>> \in Seq(S) /\ Len(<<s[1]>>) = 1 /\ <<s[1]>>[1] = s[1]
  OBVIOUS
<1> QED
  BY <1>1, SeqEqual

(* One cell. *)
LEMMA WriteOneServed ==
  ASSUME NEW o, ServesCall(o), o.call = "write_one", HasCells(o)
  PROVE  ByAddress' = StoredAt(o.table, At(o), o.values) /\ ResultOf(req', rsp') = Values(<<>>)
<1>1. /\ ~IllegalAddress /\ req.address = At(o) /\ At(o) \in Nat /\ ~ReplyException
      /\ IsRequest(req) /\ req.function \in CallFunctions
  BY CallInTable, LegalServed, CallRequests DEF ServesCall
<1>2. /\ Table = o.table /\ o.table \in Tables /\ req.function \in {5, 6}
      /\ o.values \in Seq(Cell(o.table)) /\ Len(o.values) = 1 /\ o.values = <<o.values[1]>>
  <2>1. /\ Table = o.table /\ Len(o.values) = 1 /\ req.function \in {5, 6}
        /\ \/ o.table = "bits" /\ o.values \in Seq(Bit)
           \/ o.table = "registers" /\ o.values \in Seq(Word)
    BY TableOfCall DEF ServesCall, IsCall, IsRequestOf
  <2>2. o.values \in Seq(Cell(o.table)) /\ o.table \in Tables
    BY <2>1 DEF Cell, BitTables, Tables
  <2> QED
    BY <2>1, <2>2, OneValue
<1>3. InTable(At(o), Len(o.values), o.table)
  BY <1>1, <1>2 DEF IllegalAddress
<1>4. mapping' = Stored(At(o), o.values, o.table) /\ req' = req
      /\ rsp' = [function |-> req.function, address |-> req.address, value |-> req.value]
  <2>1. CASE req.function = 5
    <3>1. ReplyWriteBit
      BY <1>1, <2>1, ReplyGuards DEF ServesCall
    <3>2. o.table = "bits" /\ req.value = (IF o.values[1] = 1 THEN CoilOn ELSE CoilOff) /\ o.values[1] \in Bit
      BY <1>2, <2>1 DEF ServesCall, IsRequestOf, IsCall, Cell, BitTables
    <3>3. (IF req.value = CoilOff THEN 0 ELSE 1) = o.values[1]
      BY <3>2 DEF CoilOn, CoilOff, Bit
    <3>4. mapping' = Stored(req.address, <<IF req.value = CoilOff THEN 0 ELSE 1>>, Table)
      BY <3>1 DEF ReplyWriteBit
    <3> QED
      BY <1>1, <1>2, <3>1, <3>3, <3>4 DEF ReplyWriteBit, Send, ServesCall
  <2>2. CASE req.function = 6
    <3>1. ReplyWriteRegister
      BY <1>1, <2>2, ReplyGuards DEF ServesCall
    <3>2. req.value = o.values[1]
      BY <2>2 DEF ServesCall, IsRequestOf, IsCall
    <3>3. mapping' = Stored(req.address, <<req.value>>, Table)
      BY <3>1 DEF ReplyWriteRegister
    <3> QED
      BY <1>1, <1>2, <3>1, <3>2, <3>3 DEF ReplyWriteRegister, Send, ServesCall
  <2> QED
    BY <1>2, <2>1, <2>2
<1>5. ByAddress' = StoredAt(o.table, At(o), o.values)
  BY <1>1, <1>2, <1>3, <1>4, StoredByAddress DEF ServesCall
<1>6. ResultOf(req, rsp') = Values(Unpacked(req, rsp'))
  <2>1. /\ rsp' # NoResponse /\ rsp'.function = req.function /\ rsp'.address = req.address
        /\ rsp'.value = req.value
    BY <1>4 DEF NoResponse
  <2> QED
    BY <1>1, <1>2, <2>1, ConfirmedResult
<1>7. Unpacked(req, rsp') = <<>>
  BY <1>2 DEF Unpacked
<1> QED
  BY <1>4, <1>5, <1>6, <1>7

(* Several. *)
LEMMA WriteServed ==
  ASSUME NEW o, ServesCall(o), o.call = "write", HasCells(o)
  PROVE  ByAddress' = StoredAt(o.table, At(o), o.values) /\ ResultOf(req', rsp') = Values(<<>>)
<1>1. /\ ~IllegalAddress /\ req.address = At(o) /\ At(o) \in Nat /\ ~ReplyException
      /\ IsRequest(req) /\ req.function \in CallFunctions
  BY CallInTable, LegalServed, CallRequests DEF ServesCall
<1>2. /\ Table = o.table /\ req.function \in {15, 16} /\ req.nb = Len(o.values)
      /\ req.data = Packed(o.table, o.values)
      /\ \/ o.table = "bits" /\ req.function = 15 /\ o.values \in Seq(Bit)
         \/ o.table = "registers" /\ req.function = 16 /\ o.values \in Seq(Word)
  BY TableOfCall DEF ServesCall, IsCall, IsRequestOf
<1>3. o.values \in Seq(Cell(o.table)) /\ o.table \in Tables
  BY <1>2 DEF Cell, BitTables, Tables
<1>4. InTable(At(o), Len(o.values), o.table)
  BY <1>1, <1>2 DEF IllegalAddress
<1>5. mapping' = Stored(At(o), o.values, o.table) /\ req' = req
      /\ rsp' = [function |-> req.function, address |-> req.address, nb |-> req.nb]
  <2>1. CASE req.function = 15
    <3>1. ReplyWriteBits
      BY <1>1, <2>1, ReplyGuards DEF ServesCall
    <3>2. BitsOf(req.data, req.nb) = o.values
      BY <1>2, <2>1, BitsRoundTrip DEF Packed
    <3> QED
      BY <1>1, <1>2, <3>1, <3>2 DEF ReplyWriteBits, Send, ServesCall
  <2>2. CASE req.function = 16
    <3>1. ReplyWriteRegisters
      BY <1>1, <2>2, ReplyGuards DEF ServesCall
    <3>2. WordsOf(req.data) = o.values
      BY <1>2, <2>2, WordsRoundTrip DEF Packed
    <3> QED
      BY <1>1, <1>2, <3>1, <3>2 DEF ReplyWriteRegisters, Send, ServesCall
  <2> QED
    BY <1>2, <2>1, <2>2
<1>6. ByAddress' = StoredAt(o.table, At(o), o.values)
  BY <1>1, <1>3, <1>4, <1>5, StoredByAddress DEF ServesCall
<1>7. ResultOf(req, rsp') = Values(Unpacked(req, rsp'))
  <2>1. /\ rsp' # NoResponse /\ rsp'.function = req.function /\ rsp'.address = req.address
        /\ rsp'.nb = req.nb
    BY <1>5 DEF NoResponse
  <2> QED
    BY <1>1, <1>2, <2>1, ConfirmedResult
<1>8. Unpacked(req, rsp') = <<>>
  BY <1>2 DEF Unpacked
<1> QED
  BY <1>5, <1>6, <1>7, <1>8

(* Some bits of a register. *)
LEMMA MaskServed ==
  ASSUME NEW o, ServesCall(o), o.call = "mask_write", HasCells(o)
  PROVE  /\ ByAddress' = StoredAt("registers", At(o),
                            <<MaskWord(ByAddress["registers"][At(o)], o.and, o.or)>>)
         /\ ResultOf(req', rsp') = Values(<<>>)
<1> DEFINE old == mapping[Table][MappingAddress(req.address, Table)]
<1> DEFINE new == MaskWord(old, o.and, o.or)
<1>1. /\ ~IllegalAddress /\ req.address = At(o) /\ At(o) \in Nat /\ ~ReplyException
      /\ IsRequest(req) /\ req.function \in CallFunctions
  BY CallInTable, LegalServed, CallRequests DEF ServesCall
<1>2. /\ Table = "registers" /\ "registers" \in Tables /\ Cell("registers") = Word
      /\ req.function = 22
  BY TableOfCall DEF ServesCall, IsRequestOf, Tables, Cell, BitTables
<1>0. req.and = o.and /\ req.or = o.or /\ o.and \in Word /\ o.or \in Word
  BY DEF ServesCall, IsRequestOf, IsCall
<1>3. InTable(At(o), 1, "registers")
  BY <1>1, <1>2 DEF IllegalAddress
<1>4. ReplyMaskWrite
  BY <1>1, <1>2, ReplyGuards DEF ServesCall
<1>5. mapping' = Stored(At(o), <<new>>, "registers") /\ req' = req
      /\ rsp' = [function |-> req.function, address |-> req.address, and |-> req.and, or |-> req.or]
  BY <1>0, <1>1, <1>2, <1>4 DEF ReplyMaskWrite, Send, ServesCall
<1>6. old = ByAddress["registers"][At(o)] /\ old \in Word
  <2>1. /\ Start["registers"] \in Nat /\ Nb["registers"] \in Nat
        /\ ByAddress["registers"] = [ a \in Start["registers"]..(Start["registers"] + Nb["registers"] - 1) |->
                                        mapping["registers"][a - Start["registers"]] ]
    BY <1>2, TableByAddress
  <2>2. /\ At(o) \in Start["registers"]..(Start["registers"] + Nb["registers"] - 1)
        /\ At(o) - Start["registers"] \in 0..(Nb["registers"] - 1)
    BY <1>1, <1>3, <2>1 DEF InTable, MappingAddress
  <2>3. mapping["registers"] \in [0..(Nb["registers"] - 1) -> Word]
    BY <1>2 DEF ServesCall, TablesTyped
  <2>4. ByAddress["registers"][At(o)] = mapping["registers"][At(o) - Start["registers"]]
    BY <2>1, <2>2
  <2> QED
    BY <1>1, <1>2, <2>2, <2>3, <2>4 DEF MappingAddress
<1> HIDE DEF old
<1>7. new \in Word
  BY <1>0, <1>6 DEF MaskWord, MaskHalf, Word, Half, Bit
<1> HIDE DEF new
<1>8. <<new>> \in Seq(Cell("registers")) /\ Len(<<new>>) = 1
  BY <1>2, <1>7
<1>9. ByAddress' = StoredAt("registers", At(o), <<new>>)
  BY <1>1, <1>2, <1>3, <1>5, <1>8, StoredByAddress DEF ServesCall
<1>10. ResultOf(req, rsp') = Values(Unpacked(req, rsp'))
  <2>1. rsp' # NoResponse /\ rsp'.function = req.function
    BY <1>5 DEF NoResponse
  <2> QED
    BY <1>1, <1>2, <2>1, ConfirmedResult
<1>11. Unpacked(req, rsp') = <<>>
  BY <1>2 DEF Unpacked
<1> QED
  BY <1>5, <1>6, <1>9, <1>10, <1>11 DEF new

(* A write and a read: the cells are those after the write. *)
LEMMA WriteAndReadServed ==
  ASSUME NEW o, ServesCall(o), o.call = "write_and_read", HasCells(o)
  PROVE  /\ ByAddress' = StoredAt("registers", WriteAt(o), o.values)
         /\ ResultOf(req', rsp') = Values([ i \in 1..o.nb |-> ByAddress'["registers"][At(o) + i - 1] ])
<1> DEFINE cells == Cells(mapping'[Table], req.address, req.nb, Table)
<1>1. /\ ~IllegalAddress /\ req.address = At(o) /\ At(o) \in Nat /\ ~ReplyException
      /\ IsRequest(req) /\ req.function \in CallFunctions
  BY CallInTable, LegalServed, CallRequests DEF ServesCall
<1>2. /\ Table = "registers" /\ "registers" \in Tables /\ Cell("registers") = Word
      /\ req.function = 23 /\ req.nb = o.nb /\ req.data = BytesOfWords(o.values)
      /\ req.write_nb = Len(o.values) /\ req.write_address = WriteAt(o)
  BY TableOfCall DEF ServesCall, IsRequestOf, Tables, Cell, BitTables, WriteAt
<1>3. o.nb \in Nat /\ o.values \in Seq(Word) /\ WriteAt(o) \in Nat
  <2>1. o.nb \in Nat /\ o.values \in Seq(Word) /\ o.write_addr \in Nat
    BY DEF ServesCall, IsCall
  <2> QED
    BY <2>1, AddressCut DEF WriteAt
<1>4. InTable(WriteAt(o), Len(o.values), "registers") /\ InTable(At(o), o.nb, "registers")
  BY <1>1, <1>2 DEF IllegalAddress
<1>5. ReplyWriteAndRead
  BY <1>1, <1>2, ReplyGuards DEF ServesCall
<1>6. WordsOf(req.data) = o.values
  BY <1>2, <1>3, WordsRoundTrip
<1> DEFINE r == [function |-> req.function, count |-> req.nb * 2, data |-> BytesOfWords(cells)]
<1>7. mapping' = Stored(WriteAt(o), o.values, "registers") /\ req' = req /\ rsp' = r
  <2>1. mapping' = Stored(req.write_address, WordsOf(req.data), Table)
    BY <1>5 DEF ReplyWriteAndRead
  <2>2. req' = req /\ rsp' = r
    BY <1>5 DEF ReplyWriteAndRead, Send, ServesCall
  <2> QED
    BY <1>2, <1>6, <2>1, <2>2
<1>8. ByAddress' = StoredAt("registers", WriteAt(o), o.values) /\ TablesTyped'
  BY <1>2, <1>3, <1>4, <1>7, StoredByAddress, StoredInTable DEF ServesCall
<1>9. cells = [ i \in 1..o.nb |-> ByAddress'["registers"][At(o) + i - 1] ]
  <2>1. ASSUME NEW i \in 1..o.nb
        PROVE  mapping'["registers"][MappingAddress(At(o), "registers") + i - 1] = ByAddress'["registers"][At(o) + i - 1]
    <3>1. /\ Start["registers"] \in Nat /\ Nb["registers"] \in Nat
          /\ ByAddress'["registers"] = [ a \in Start["registers"]..(Start["registers"] + Nb["registers"] - 1) |->
                                           mapping'["registers"][a - Start["registers"]] ]
      BY <1>2, TablesAssumption DEF ByAddress
    <3>2. /\ At(o) + i - 1 \in Start["registers"]..(Start["registers"] + Nb["registers"] - 1)
          /\ (At(o) + i - 1) - Start["registers"] = MappingAddress(At(o), "registers") + i - 1
      <4>1. Start["registers"] \in Nat /\ Nb["registers"] \in Nat
        BY <3>1
      <4>2. InTable(At(o), o.nb, "registers") /\ At(o) \in Nat /\ o.nb \in Nat
        BY <1>1, <1>3, <1>4
      <4> QED
        BY <4>1, <4>2 DEF InTable, MappingAddress
    <3> QED
      BY <3>1, <3>2
  <2> QED
    BY <1>1, <1>2, <2>1 DEF Cells
<1>10. cells \in Seq(Word)
  <2>1. mapping'["registers"] \in [0..(Nb["registers"] - 1) -> Cell("registers")]
    BY <1>2, <1>8 DEF TablesTyped
  <2> QED
    BY <1>1, <1>2, <1>3, <1>4, <2>1, CellsRead
<1> HIDE DEF cells
<1>11. r # NoResponse /\ r.function = req.function /\ r.count = req.nb * 2 /\ r.data = BytesOfWords(cells)
  BY DEF NoResponse
<1> HIDE DEF r
<1>12. ResultOf(req, r) = Values(Unpacked(req, r))
  BY <1>1, <1>2, <1>11, ConfirmedResult
<1>13. Unpacked(req, r) = cells
  BY <1>2, <1>10, <1>11, WordsRoundTrip DEF Unpacked
<1> QED
  BY <1>7, <1>8, <1>9, <1>12, <1>13

(***************************************************************************)
(* Every step is a step of RemoteTables.                                   *)
(***************************************************************************)

(* Between calls there is none; a call under way is one the client did not *)
(* refuse, and what travels is its request.                                *)
Calling ==
  /\ phase = "idle" => op = NoOp
  /\ phase # "idle" /\ ~byHand => op \in Ops /\ ~Refused(op) /\ IsRequestOf(op, req)
  /\ phase = "requested" => result = Error("none")

CInv == RInv /\ Calling

LEMMA CInvInit ==
  Init => CInv
BY RInvInit DEF Init, CInv, Calling

LEMMA CInvNext ==
  ASSUME CInv, [Next]_vars
  PROVE  CInv'
<1>1. RInv'
  BY RInvNext DEF CInv
<1>2. CASE UNCHANGED vars
  BY <1>1, <1>2 DEF CInv, Calling, IsRequestOf, vars, setting
<1>3. ASSUME NEW o \in Ops, Refuse(o) PROVE Calling'
  BY <1>3 DEF CInv, Calling, Refuse, setting
<1>4. ASSUME NEW o \in Ops, Request(o) PROVE Calling'
  <2>1. /\ phase' = "requested" /\ op' = o /\ req' = RequestOf(o) /\ result' = Error("none")
        /\ slave' = slave /\ ~Refused(o)
    BY <1>4 DEF Request, setting
  <2>2. IsRequestOf(o, RequestOf(o))
    BY CallsAssumption, RequestFields
  <2>3. IsRequestOf(op, req)'
    BY <2>1, <2>2 DEF IsRequestOf
  <2>4. ~Refused(op)'
    BY <2>1 DEF Refused
  <2> QED
    BY <2>1, <2>3, <2>4 DEF Calling
<1>5. ASSUME NEW q \in RawRequests, RawRequest(q) PROVE Calling'
  BY <1>5 DEF Calling, RawRequest, setting
<1>6. CASE Serve
  <2>1. /\ phase = "requested" /\ phase' = "replied" /\ op' = op /\ req' = req /\ UNCHANGED <<slave, byHand>>
    BY <1>6, TypesAndTables, ReplyReplied DEF CInv, RInv, Underway, Serve, setting, Replied
  <2> QED
    BY <1>1, <2>1 DEF CInv, Calling, IsRequestOf, Refused
<1>7. CASE Confirm
  <2>1. phase' = "idle" /\ op' = NoOp
    BY <1>7 DEF Confirm
  <2> QED
    BY <1>1, <2>1 DEF CInv, Calling
<1> QED
  BY <1>1, <1>2, <1>3, <1>4, <1>5, <1>6, <1>7 DEF CInv, Next

(* What RemoteTables says of the tables, of the cells at their addresses.  *)
LEMMA InView ==
  ASSUME ~Unwatched, NEW t, NEW addr, NEW nb, NEW vs
  PROVE  /\ Remote!Has(t, addr, nb) <=> HasAt(t, addr, nb)
         /\ Remote!Cells(t, addr, nb) = CellsAt(t, addr, nb)
         /\ Remote!Stored(t, addr, vs) = StoredAt(t, addr, vs)
BY DEF Remote!Has, HasAt, Remote!Cells, CellsAt, Remote!Stored, StoredAt

LEMMA SameAnswers ==
  /\ Remote!NoOp = NoOp /\ Remote!IllegalAddress = Exception(2)
  /\ \A vs : Remote!Values(vs) = Values(vs)
  /\ \A errno : Remote!Error(errno) = Error(errno)
  /\ \A o : Remote!Address(o) = At(o) /\ (Remote!Refused(o) <=> Refused(o))
  /\ \A data, and, or : Remote!MaskWord(data, and, or) = MaskWord(data, and, or)
BY DEF Remote!NoOp, NoOp, Remote!IllegalAddress, Remote!Exception, Exception, Remote!Values, Values,
       Remote!Error, Error, Remote!Address, At, Remote!Refused, Refused,
       Remote!MaskWord, MaskWord, Remote!MaskHalf, MaskHalf

LEMMA SettingsKept ==
  ASSUME UNCHANGED setting
  PROVE  Unwatched' <=> Unwatched
BY DEF setting, Unwatched

(* The client's refusal, and its request. *)
LEMMA RefuseRefuses ==
  ASSUME CInv, ~Unwatched, NEW o \in Ops, Refuse(o)
  PROVE  Remote!Refuse(o)
<1>1. /\ ~Unwatched' /\ op = NoOp /\ op' = op /\ mapping' = mapping /\ Refused(o)
      /\ phase' = "idle" /\ result' = Error(RefusedWith(o))
  BY SettingsKept DEF Refuse, CInv, Calling
<1>2. Answer' = Error("refused")
  <2>1. result'.status \in {"EMBXILVAL", "EINVAL"}
    BY <1>1 DEF Error, RefusedWith
  <2> QED
    BY <1>1, <2>1 DEF Answer
<1>3. ByAddress' = ByAddress
  BY <1>1 DEF ByAddress
<1> QED
  BY <1>1, <1>2, <1>3, SameAnswers DEF Remote!Refuse

LEMMA RequestInvokes ==
  ASSUME CInv, ~Unwatched, NEW o \in Ops, Request(o)
  PROVE  Remote!Invoke(o)
<1>1. /\ ~Unwatched' /\ op = NoOp /\ op' = o /\ mapping' = mapping /\ ~Refused(o)
      /\ phase' = "requested" /\ result' = Error("none")
  BY SettingsKept DEF Request, CInv, Calling
<1>2. Answer' = Error("none") /\ ByAddress' = ByAddress
  BY <1>1 DEF Answer, ByAddress
<1> QED
  BY <1>1, <1>2, SameAnswers DEF Remote!Invoke

(* The server's reply carries the call out: it is then that it happens.    *)
LEMMA ServeExecutes ==
  ASSUME CInv, ~Unwatched, Serve
  PROVE  Remote!Execute
<1> DEFINE pending == IF Unwatched THEN NoOp ELSE op
<1>1. /\ ~Unwatched' /\ phase = "requested" /\ phase' = "replied" /\ op' = op
      /\ result = Error("none") /\ op \in Ops
  BY SettingsKept DEF Serve, CInv, Calling, setting, Unwatched
<1>2. ServesCall(op) /\ req' = req
  <2>1. TablesTyped /\ IsCall(op) /\ ~Refused(op) /\ IsRequestOf(op, req) /\ Reply
    BY <1>1, TypesAndTables, CallsAssumption DEF CInv, RInv, Calling, Serve, Unwatched
  <2>2. ~Silent
    BY <2>1 DEF IsRequestOf, Silent, Unwatched
  <2>3. req' = req
    BY <1>1, TypesAndTables, ReplyReplied DEF CInv, RInv, Underway, Serve, Replied
  <2> QED
    BY <2>1, <2>2, <2>3 DEF ServesCall
<1>3. Answer = Error("none") /\ Answer' = ResultOf(req', rsp')
  BY <1>1 DEF Answer
<1>4. op # NoOp
  BY <1>1, CallsAssumption DEF IsCall, NoOp
<1>5. CASE ~HasCells(op)
  <2>1. ByAddress' = ByAddress /\ Answer' = Exception(2)
    <3>1. IllegalAddress
      BY <1>2, <1>5, CallInTable DEF ServesCall
    <3> QED
      BY <1>2, <1>3, <3>1, IllegalServed DEF ByAddress
  <2>2. CASE op.call = "read"
    <3>1. Remote!Read(pending)
      BY <1>1, <1>5, <2>1, <2>2, InView, SameAnswers DEF Remote!Read, HasCells
    <3> QED
      BY <1>1, <1>3, <1>4, <3>1, SameAnswers DEF Remote!Execute
  <2>3. CASE op.call \in {"write_one", "write"}
    <3>1. Remote!Write(pending)
      BY <1>1, <1>5, <2>1, <2>3, InView, SameAnswers DEF Remote!Write, HasCells
    <3> QED
      BY <1>1, <1>3, <1>4, <3>1, SameAnswers DEF Remote!Execute
  <2>4. CASE op.call = "mask_write"
    <3>1. Remote!MaskWrite(pending)
      BY <1>1, <1>5, <2>1, <2>4, InView, SameAnswers DEF Remote!MaskWrite, HasCells
    <3> QED
      BY <1>1, <1>3, <1>4, <3>1, SameAnswers DEF Remote!Execute
  <2>5. CASE op.call = "write_and_read"
    <3>1. Remote!WriteAndRead(pending)
      BY <1>1, <1>5, <2>1, <2>5, InView, SameAnswers DEF Remote!WriteAndRead, HasCells, WriteAt
    <3> QED
      BY <1>1, <1>3, <1>4, <3>1, SameAnswers DEF Remote!Execute
  <2> QED
    BY <1>2, <2>2, <2>3, <2>4, <2>5 DEF ServesCall, IsCall
<1>6. CASE HasCells(op)
  <2>1. CASE op.call = "read"
    <3>1. mapping' = mapping /\ Answer' = Values(CellsAt(op.table, At(op), op.nb))
      BY <1>2, <1>3, <1>6, <2>1, ReadServed
    <3>2. Remote!Read(pending)
      BY <1>1, <1>6, <2>1, <3>1, InView, SameAnswers DEF Remote!Read, HasCells, ByAddress
    <3> QED
      BY <1>1, <1>3, <1>4, <3>2, SameAnswers DEF Remote!Execute
  <2>2. CASE op.call \in {"write_one", "write"}
    <3>1. ByAddress' = StoredAt(op.table, At(op), op.values) /\ Answer' = Values(<<>>)
      BY <1>2, <1>3, <1>6, <2>2, WriteOneServed, WriteServed
    <3>2. Remote!Write(pending)
      BY <1>1, <1>6, <2>2, <3>1, InView, SameAnswers DEF Remote!Write, HasCells
    <3> QED
      BY <1>1, <1>3, <1>4, <3>2, SameAnswers DEF Remote!Execute
  <2>3. CASE op.call = "mask_write"
    <3>1. /\ ByAddress' = StoredAt("registers", At(op),
                             <<MaskWord(ByAddress["registers"][At(op)], op.and, op.or)>>)
          /\ Answer' = Values(<<>>)
      BY <1>2, <1>3, <1>6, <2>3, MaskServed
    <3>2. Remote!MaskWrite(pending)
      BY <1>1, <1>6, <2>3, <3>1, InView, SameAnswers DEF Remote!MaskWrite, HasCells
    <3> QED
      BY <1>1, <1>3, <1>4, <3>2, SameAnswers DEF Remote!Execute
  <2>4. CASE op.call = "write_and_read"
    <3>1. /\ ByAddress' = StoredAt("registers", WriteAt(op), op.values)
          /\ Answer' = Values([ i \in 1..op.nb |-> ByAddress'["registers"][At(op) + i - 1] ])
      BY <1>2, <1>3, <1>6, <2>4, WriteAndReadServed
    <3>2. Remote!WriteAndRead(pending)
      BY <1>1, <1>6, <2>4, <3>1, InView, SameAnswers DEF Remote!WriteAndRead, HasCells, WriteAt
    <3> QED
      BY <1>1, <1>3, <1>4, <3>2, SameAnswers DEF Remote!Execute
  <2> QED
    BY <1>2, <2>1, <2>2, <2>3, <2>4 DEF ServesCall, IsCall
<1> QED
  BY <1>5, <1>6

(* The client returns what it understands of the answer. *)
LEMMA ConfirmReturns ==
  ASSUME CInv, ~Unwatched, Confirm
  PROVE  Remote!Return
<1>1. /\ ~Unwatched' /\ phase = "replied" /\ phase' = "idle" /\ op \in Ops /\ op' = NoOp
      /\ mapping' = mapping
  BY SettingsKept DEF Confirm, CInv, Calling, Unwatched
<1>2. op # NoOp /\ op.call # "raw"
  BY <1>1, CallsAssumption DEF IsCall, NoOp
<1>3. result' = ResultOf(req, rsp)
  BY <1>2 DEF Confirm
<1>4. ResultOf(req, rsp).status \in {"ok", "exception", "ETIMEDOUT"}
  BY <1>1, UnderstoodInvariant DEF CInv
<1>5. Answer = ResultOf(req, rsp) /\ Answer' = ResultOf(req, rsp)
  <2>1. result'.status \notin {"EMBXILVAL", "EINVAL"}
    BY <1>3, <1>4
  <2> QED
    BY <1>1, <1>3, <2>1 DEF Answer
<1>6. Answer # Error("none")
  <2>1. Error("none").status = "none"
    BY DEF Error
  <2> QED
    BY <1>4, <1>5, <2>1
<1>7. ByAddress' = ByAddress
  BY <1>1 DEF ByAddress
<1> QED
  BY <1>1, <1>2, <1>5, <1>6, <1>7, SameAnswers DEF Remote!Return

(* Where nothing is said, nothing is seen. *)
LEMMA UnwatchedStutters ==
  ASSUME Unwatched, UNCHANGED setting
  PROVE  UNCHANGED Remote!vars
<1>1. Unwatched'
  BY SettingsKept
<1> QED
  BY <1>1 DEF Remote!vars, InitialByAddress, NoOp, Error

LEMMA StutterStutters ==
  ASSUME UNCHANGED vars
  PROVE  UNCHANGED Remote!vars
<1>1. Unwatched' <=> Unwatched
  BY SettingsKept DEF vars
<1>2. ByAddress' = ByAddress /\ Answer' = Answer /\ op' = op
  BY DEF vars, ByAddress, Answer, ResultOf, Checked, ResponseLength, ReceivedLength, CountsAgree, Unpacked
<1> QED
  BY <1>1, <1>2 DEF Remote!vars, InitialByAddress, NoOp, Error

LEMMA StepIsRemote ==
  ASSUME CInv, [Next]_vars
  PROVE  [Remote!Next]_(Remote!vars)
<1>1. CASE UNCHANGED vars
  BY <1>1, StutterStutters
<1>2. CASE Next /\ Unwatched
  <2>1. UNCHANGED setting
    BY <1>2 DEF Next, Refuse, Request, RawRequest, Serve, Confirm
  <2> QED
    BY <1>2, <2>1, UnwatchedStutters
<1>3. CASE Next /\ ~Unwatched
  <2>1. CASE \E o \in Ops : Refuse(o) \/ Request(o)
    BY <1>3, <2>1, RefuseRefuses, RequestInvokes DEF Remote!Next
  <2>2. CASE \E q \in RawRequests : RawRequest(q)
    BY <1>3, <2>2 DEF RawRequest, Unwatched
  <2>3. CASE Serve
    BY <1>3, <2>3, ServeExecutes DEF Remote!Next
  <2>4. CASE Confirm
    BY <1>3, <2>4, ConfirmReturns DEF Remote!Next
  <2> QED
    BY <1>3, <2>1, <2>2, <2>3, <2>4 DEF Next
<1> QED
  BY <1>1, <1>2, <1>3

LEMMA InitIsRemote ==
  ASSUME Init
  PROVE  Remote!Init
<1>1. mapping = InitialTables /\ op = NoOp /\ phase = "idle" /\ result = Error("idle")
  BY DEF Init
<1>2. ByAddress = InitialByAddress
  BY <1>1 DEF ByAddress, InitialByAddress
<1>3. Answer = Error("idle")
  BY <1>1 DEF Answer, Error
<1> QED
  BY <1>1, <1>2, <1>3, SameAnswers DEF Remote!Init

(* For tables, calls and addresses of every kind: client, encoding and     *)
(* server together are atomic reads and writes of four tables of addressed *)
(* cells.  A call that returns values returns what the tables held when it *)
(* was carried out, one that is confirmed has stored all it was given, and *)
(* one that is answered with an exception has changed nothing.             *)
THEOREM TablesAtomic == Spec => Remote!SafeSpec
<1>1. Init => CInv /\ Remote!Init
  BY CInvInit, InitIsRemote
<1>2. CInv /\ [Next]_vars => CInv' /\ [Remote!Next]_(Remote!vars)
  BY CInvNext, StepIsRemote
<1> QED
  BY <1>1, <1>2, PTL DEF Spec, Remote!SafeSpec
=============================================================================
