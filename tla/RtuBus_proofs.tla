---------------------------- MODULE RtuBus_proofs ----------------------------
(***************************************************************************)
(* For any slaves on the line: with paced timeouts on an orderly line no   *)
(* request for this slave is hidden from it, and whatever the line does it *)
(* handles nothing but requests.  The invariant says that the flag agrees  *)
(* with what the line carries next.                                        *)
(***************************************************************************)
EXTENDS RtuBus, TLAPS

(***************************************************************************)
(* Messages and what is unread.                                            *)
(***************************************************************************)

(* Damage changes neither the type nor the slave of a message. *)
LEMMA DamagedMessage ==
  ASSUME NEW m \in Message
  PROVE  /\ Damaged(m) \in Message
         /\ Damaged(m).type = m.type /\ Damaged(m).slave = m.slave
BY DEF Message, Damaged

(* The answer to a request. *)
LEMMA AnswerMessage ==
  ASSUME NEW r \in Requests
  PROVE  /\ r \in Message /\ AnswerTo(r) \in Message
         /\ AnswerTo(r).type = "CONFIRMATION" /\ AnswerTo(r).slave = r.slave
         /\ AnswerTo(r).whole /\ r.type = "INDICATION" /\ r.whole
BY DEF Message, AnswerTo, Requests

(* Who a message is for. *)
LEMMA Addresses ==
  ASSUME NEW m \in Message
  PROVE  /\ m.slave \in Others <=> ~Addressed(m)
         /\ m.type \in {"INDICATION", "CONFIRMATION"} /\ m.whole \in BOOLEAN
BY SlavesAssumption DEF Message, Addressed, MODBUS_BROADCAST_ADDRESS

(* What there may be at most one of. *)
LEMMA OptionalValue ==
  ASSUME NEW S, NEW s \in Optional(S)
  PROVE  /\ s # <<>> => Head(s) \in S /\ s = <<Head(s)>>
         /\ s # <<>> => DOMAIN s = {1} /\ s[1] = Head(s)
         /\ s = <<>> => DOMAIN s = {}
BY DEF Optional

LEMMA OptionalOf ==
  ASSUME NEW S
  PROVE  <<>> \in Optional(S) /\ \A x \in S : <<x>> \in Optional(S)
BY DEF Optional

(* The first message of a queue, and the queue without it. *)
LEMMA HeadAndTail ==
  ASSUME NEW X, NEW s \in Seq(X), s # <<>>
  PROVE  /\ Head(s) \in X /\ Head(s) = s[1] /\ 1 \in DOMAIN s
         /\ Tail(s) \in Seq(X) /\ Len(Tail(s)) = Len(s) - 1
         /\ DOMAIN Tail(s) = 1..(Len(s) - 1)
         /\ \A i \in 1..(Len(s) - 1) : i + 1 \in DOMAIN s /\ Tail(s)[i] = s[i + 1]
<1>1. Len(s) \in Nat \ {0} /\ 1 \in DOMAIN s /\ Head(s) = s[1] /\ Tail(s) \in Seq(X)
  OBVIOUS
<1>2. Len(Tail(s)) = Len(s) - 1 /\ DOMAIN Tail(s) = 1..(Len(s) - 1)
  BY <1>1
<1>3. \A i \in 1..(Len(s) - 1) : i + 1 \in DOMAIN s /\ Tail(s)[i] = s[i + 1]
  OBVIOUS
<1> QED
  BY <1>1, <1>2, <1>3

(* A queue with one more message. *)
LEMMA Appended ==
  ASSUME NEW X, NEW s \in Seq(X), NEW m \in X
  PROVE  /\ Append(s, m) \in Seq(X) /\ Len(Append(s, m)) = Len(s) + 1
         /\ DOMAIN Append(s, m) = 1..(Len(s) + 1)
         /\ \A i \in 1..(Len(s) + 1) :
              Append(s, m)[i] = IF i = Len(s) + 1 THEN m ELSE s[i]
         /\ Append(s, m) # <<>>
OBVIOUS

(* What a misread leaves: a part of the queue, its first message cut. *)
LEMMA CutQueue ==
  ASSUME NEW s \in Seq(Message), NEW n \in 1..(Len(s) + 1)
  PROVE  LET t == SubSeq(s, n, Len(s))
         IN  /\ t \in Seq(Message) /\ Cut(t) \in Seq(Message)
             /\ \A i \in DOMAIN t : i + n - 1 \in DOMAIN s /\ t[i] = s[i + n - 1]
             /\ \A i \in DOMAIN Cut(t) :
                  /\ i + n - 1 \in DOMAIN s
                  /\ Cut(t)[i].type = s[i + n - 1].type
                  /\ Cut(t)[i].slave = s[i + n - 1].slave
<1> DEFINE t == SubSeq(s, n, Len(s))
<1>1. /\ t \in Seq(Message)
      /\ DOMAIN t = 1..(Len(s) - n + 1)
      /\ \A i \in DOMAIN t : i + n - 1 \in DOMAIN s /\ t[i] = s[i + n - 1]
  OBVIOUS
<1> HIDE DEF t
<1>2. \A i \in DOMAIN t :
        LET m == IF i = 1 THEN Damaged(t[i]) ELSE t[i]
        IN  m \in Message /\ m.type = t[i].type /\ m.slave = t[i].slave
  BY <1>1, DamagedMessage
<1>3. Cut(t) = [i \in 1..Len(t) |-> IF i = 1 THEN Damaged(t[i]) ELSE t[i]]
  BY <1>1 DEF Cut
<1>4. DOMAIN Cut(t) = DOMAIN t /\ Cut(t) \in Seq(Message)
  BY <1>1, <1>2, <1>3
<1> QED
  BY <1>1, <1>2, <1>3, <1>4 DEF t

(***************************************************************************)
(* Types, and where answers come from.                                     *)
(***************************************************************************)
Base == TypeOK /\ AnswersOfOthers /\ HandlesRequestsOnly

(* At first the line is silent. *)
LEMMA InitBase == Init => Base
<1> SUFFICES ASSUME Init PROVE Base
  OBVIOUS
<1>1. TypeOK
  <2>1. <<>> \in Seq(Message) /\ <<>> \in Optional(Requests) /\ <<>> \in Optional(Message)
    BY OptionalOf
  <2>2. recovery \subseteq {"LINK", "PROTOCOL"} /\ margin \in 0..2
    BY DEF Init
  <2> QED
    BY <2>1, <2>2 DEF Init, TypeOK
<1>2. DOMAIN inbox = {} /\ DOMAIN late = {} /\ DOMAIN taken = {}
  BY DEF Init
<1> QED
  BY <1>1, <1>2 DEF Base, AnswersOfOthers, HandlesRequestsOnly

(* A message is heard. *)
LEMMA HearBase ==
  ASSUME Base, NEW m \in Message, Hear(m), m.type = "CONFIRMATION" => m.slave \in Others
  PROVE  /\ inbox' \in Seq(Message)
         /\ \A i \in DOMAIN inbox' :
              inbox'[i].type = "CONFIRMATION" => inbox'[i].slave \in Others
<1>1. inbox \in Seq(Message) /\ inbox' = Append(inbox, m)
  BY DEF Base, TypeOK, Hear
<1>2. \A i \in 1..Len(inbox) : inbox[i].type = "CONFIRMATION" => inbox[i].slave \in Others
  BY <1>1 DEF Base, AnswersOfOthers
<1> QED
  BY <1>1, <1>2, Appended

(* The master asks. *)
LEMMA AskBase == Base /\ (\E r \in Requests : AskWhole(r) \/ AskDamaged(r)) => Base'
<1> SUFFICES ASSUME Base, NEW r \in Requests, AskWhole(r) \/ AskDamaged(r) PROVE Base'
  OBVIOUS
<1>1. PICK m \in Message : Hear(m) /\ m.type = "INDICATION"
  BY AnswerMessage, DamagedMessage DEF AskWhole, AskDamaged
<1>2. /\ inbox' \in Seq(Message)
      /\ \A i \in DOMAIN inbox' :
           inbox'[i].type = "CONFIRMATION" => inbox'[i].slave \in Others
  BY <1>1, HearBase
<1>3. asked' \in Optional(Requests) /\ UNCHANGED <<setting, late, slave>>
  <2>1. asked' = <<r>> /\ UNCHANGED <<setting, late, slave>>
    BY DEF AskWhole, AskDamaged, Ask
  <2> QED
    BY <2>1, OptionalOf
<1>4. TypeOK'
  BY <1>2, <1>3 DEF Base, TypeOK, setting, slave
<1>5. AnswersOfOthers'
  BY <1>2, <1>3 DEF Base, AnswersOfOthers
<1>6. HandlesRequestsOnly'
  BY <1>3 DEF Base, HandlesRequestsOnly, Mine, slave
<1> QED
  BY <1>4, <1>5, <1>6 DEF Base

(* Another slave answers, in time or not. *)
LEMMA AnswerBase == Base /\ (AnswerInTime \/ AnswerBadly \/ AnswerLate) => Base'
<1> SUFFICES ASSUME Base, AnswerInTime \/ AnswerBadly \/ AnswerLate PROVE Base'
  OBVIOUS
<1>1. PICK m \in Message : Hear(m) /\ m.type = "CONFIRMATION" /\ m.slave \in Others
  <2>1. CASE AnswerInTime \/ AnswerBadly
    <3>1. Head(asked) \in Requests /\ Head(asked).slave \in Others
      BY <2>1, OptionalValue DEF AnswerInTime, AnswerBadly, Answer, Base, TypeOK
    <3> QED
      BY <2>1, <3>1, AnswerMessage, DamagedMessage DEF AnswerInTime, AnswerBadly, Answer
  <2>2. CASE AnswerLate
    <3>1. Head(late) \in Requests /\ Head(late) = late[1] /\ 1 \in DOMAIN late
      BY <2>2, OptionalValue DEF AnswerLate, Base, TypeOK
    <3>2. Head(late).slave \in Others
      BY <3>1 DEF Base, AnswersOfOthers
    <3> QED
      BY <2>2, <3>1, <3>2, AnswerMessage DEF AnswerLate
  <2> QED
    BY <2>1, <2>2
<1>2. /\ inbox' \in Seq(Message)
      /\ \A i \in DOMAIN inbox' :
           inbox'[i].type = "CONFIRMATION" => inbox'[i].slave \in Others
  BY <1>1, HearBase
<1>3. <<>> \in Optional(Requests) /\ DOMAIN <<>> = {}
  BY OptionalOf
<1>4. /\ asked' \in Optional(Requests) /\ late' \in Optional(Requests)
      /\ \A i \in DOMAIN late' : late'[i].slave \in Others
      /\ expired' \in BOOLEAN /\ UNCHANGED <<setting, confirmation_to_ignore, phase, taken, missed>>
  BY <1>3 DEF AnswerInTime, AnswerBadly, AnswerLate, Answer, Base, TypeOK, AnswersOfOthers, slave
<1>5. TypeOK'
  BY <1>2, <1>4 DEF Base, TypeOK, setting
<1>6. AnswersOfOthers'
  BY <1>2, <1>4 DEF Base, AnswersOfOthers
<1>7. HandlesRequestsOnly'
  BY <1>4 DEF Base, HandlesRequestsOnly, Mine
<1> QED
  BY <1>5, <1>6, <1>7 DEF Base

(* The master gives up. *)
LEMMA GiveUpBase == Base /\ GiveUp => Base'
<1> SUFFICES ASSUME Base, GiveUp PROVE Base'
  OBVIOUS
<1>1. /\ asked' = <<>> /\ expired' = FALSE
      /\ UNCHANGED <<setting, inbox, confirmation_to_ignore, phase, taken, missed>>
  BY DEF GiveUp
<1>2. asked' \in Optional(Requests)
  BY <1>1, OptionalOf
<1>3. late' \in Optional(Requests) /\ \A i \in DOMAIN late' : late'[i].slave \in Others
  <2>1. CASE late' = late
    BY <2>1 DEF Base, TypeOK, AnswersOfOthers
  <2>2. CASE late' = asked /\ Head(asked).slave \in Others
    <3>1. asked \in Optional(Requests) /\ asked # <<>>
      BY DEF GiveUp, Base, TypeOK
    <3> QED
      BY <2>2, <3>1, OptionalValue
  <2> QED
    BY <2>1, <2>2 DEF GiveUp
<1>4. TypeOK'
  BY <1>1, <1>2, <1>3 DEF Base, TypeOK, setting
<1>5. AnswersOfOthers'
  BY <1>1, <1>3 DEF Base, AnswersOfOthers
<1>6. HandlesRequestsOnly'
  BY <1>1 DEF Base, HandlesRequestsOnly, Mine
<1> QED
  BY <1>4, <1>5, <1>6 DEF Base

(* What is left of the queue comes from the queue. *)
Remains ==
  /\ inbox' \in Seq(Message)
  /\ \A i \in DOMAIN inbox' : \E j \in DOMAIN inbox :
       inbox'[i].type = inbox[j].type /\ inbox'[i].slave = inbox[j].slave

(* A message less. *)
LEMMA TailRemains == ASSUME TypeOK, inbox # <<>>, inbox' = Tail(inbox) PROVE Remains
<1>1. /\ Tail(inbox) \in Seq(Message) /\ DOMAIN Tail(inbox) = 1..(Len(inbox) - 1)
      /\ \A i \in 1..(Len(inbox) - 1) : i + 1 \in DOMAIN inbox /\ Tail(inbox)[i] = inbox[i + 1]
  BY HeadAndTail DEF TypeOK
<1> QED
  BY <1>1 DEF Remains

(* A flush. *)
LEMMA NothingRemains == ASSUME inbox' = <<>> PROVE Remains
<1>1. <<>> \in Seq(Message) /\ DOMAIN <<>> = {}
  OBVIOUS
<1> QED
  BY <1>1 DEF Remains

(* A step of modbus_receive that returns no request. *)
LEMMA IgnoreBase ==
  ASSUME Base, Remains \/ inbox' = inbox, UNCHANGED <<setting, master, taken>>,
         confirmation_to_ignore' \in BOOLEAN, expired' \in BOOLEAN, missed' \in BOOLEAN,
         phase' \in {"listening", "sleeping", "handling", "refusing"}
  PROVE  Base'
<1>1. TypeOK'
  BY DEF Base, TypeOK, Remains, setting, master
<1>2. AnswersOfOthers'
  BY DEF Base, AnswersOfOthers, Remains, master
<1>3. HandlesRequestsOnly'
  BY DEF Base, HandlesRequestsOnly, Mine
<1> QED
  BY <1>1, <1>2, <1>3 DEF Base

(* What is returned is a request. *)
LEMMA ReturnBase == Base /\ ReturnRequest => Base'
<1> SUFFICES ASSUME Base, ReturnRequest PROVE Base'
  OBVIOUS
<1> DEFINE m == Head(inbox)
<1>1. m \in Message /\ m = inbox[1] /\ 1 \in DOMAIN inbox /\ inbox # <<>>
  BY HeadAndTail DEF ReturnRequest, Read, Base, TypeOK
<1>2. Mine(m)
  <2>1. m.type # "CONFIRMATION"
    BY <1>1, Addresses DEF ReturnRequest, Base, AnswersOfOthers
  <2> QED
    BY <1>1, <2>1, Addresses DEF ReturnRequest, Legible, Addressed, Mine
<1>3. taken' = <<m>> /\ Remains
  BY <1>1, TailRemains DEF ReturnRequest, Base
<1>4. taken' \in Optional(Message)
  BY <1>1, <1>3, OptionalOf
<1>5. TypeOK'
  BY <1>3, <1>4 DEF ReturnRequest, Base, TypeOK, Remains, setting, master
<1>6. AnswersOfOthers'
  BY <1>3 DEF ReturnRequest, Base, AnswersOfOthers, Remains, master
<1>7. HandlesRequestsOnly'
  <2> HIDE DEF m
  <2>1. DOMAIN taken' = {1} /\ taken'[1] = m
    BY <1>3
  <2> QED
    BY <1>2, <2>1 DEF HandlesRequestsOnly, Mine
<1> QED
  BY <1>5, <1>6, <1>7 DEF Base

(* Everything else modbus_receive does. *)
LEMMA ReceivingBase == Base /\ Receiving => Base'
<1> SUFFICES ASSUME Base, Receiving PROVE Base'
  OBVIOUS
<1> USE DEF Base
<1>1. CASE ReturnRequest
  BY <1>1, ReturnBase
<1>2. CASE IgnoreRequest \/ IgnoreConfirmation
  <2>1. Remains
    BY <1>2, TailRemains DEF IgnoreRequest, IgnoreConfirmation, Read
  <2>2. expired' \in BOOLEAN /\ confirmation_to_ignore' \in BOOLEAN
    BY <1>2 DEF IgnoreRequest, IgnoreConfirmation, TypeOK
  <2>3. missed' \in BOOLEAN
    BY <1>2 DEF IgnoreRequest, IgnoreConfirmation, Hides
  <2> QED
    BY <1>2, <2>1, <2>2, <2>3, IgnoreBase DEF IgnoreRequest, IgnoreConfirmation, TypeOK
<1>3. ASSUME NEW n \in 1..Len(inbox), ReadBadly(n) PROVE Base'
  <2>1. inbox \in Seq(Message) /\ n \in 1..(Len(inbox) + 1) /\ n + 1 \in 1..(Len(inbox) + 1)
    BY DEF TypeOK
  <2>2. Remains
    <3>1. CASE inbox' = SubSeq(inbox, n + 1, Len(inbox))
      BY <2>1, <3>1, CutQueue DEF Remains
    <3>2. CASE inbox' = Cut(SubSeq(inbox, n, Len(inbox)))
      BY <2>1, <3>2, CutQueue DEF Remains
    <3> QED
      BY <1>3, <3>1, <3>2 DEF ReadBadly
  <2>3. missed' \in BOOLEAN
    BY <1>3 DEF ReadBadly, Hides
  <2> QED
    BY <1>3, <2>2, <2>3, IgnoreBase DEF ReadBadly, TypeOK
<1>4. CASE ReadBadlyAndFlush \/ ReadInVain \/ Flush
  <2>1. missed' \in BOOLEAN
    BY <1>4 DEF ReadBadlyAndFlush, ReadInVain, Flush, Hides
  <2>2. Remains
    BY <1>4, NothingRemains DEF ReadBadlyAndFlush, ReadInVain, Flush
  <2> QED
    BY <1>4, <2>1, <2>2, IgnoreBase DEF ReadBadlyAndFlush, ReadInVain, Flush, TypeOK
<1>5. CASE Timeout \/ IndicationTimeout
  <2>1. confirmation_to_ignore' \in BOOLEAN /\ expired' \in BOOLEAN
    BY <1>5 DEF Timeout, IndicationTimeout, TypeOK
  <2>2. phase' \in {"listening", "sleeping"} /\ missed' = FALSE
    BY <1>5 DEF Timeout, IndicationTimeout
  <2> QED
    BY <1>5, <2>1, <2>2, IgnoreBase DEF Timeout, IndicationTimeout, master
<1> QED
  BY <1>1, <1>2, <1>3, <1>4, <1>5 DEF Receiving

(* modbus_reply. *)
LEMMA ReplyingBase == Base /\ Replying => Base'
<1> SUFFICES ASSUME Base, Replying PROVE Base'
  OBVIOUS
<1>1. CASE Refuse
  BY <1>1, IgnoreBase DEF Refuse, Base, TypeOK
<1>2. CASE Reply \/ ReplyException
  <2>1. /\ SendAnswer /\ UNCHANGED <<setting, late, confirmation_to_ignore>>
        /\ missed' \in BOOLEAN
    BY <1>2 DEF Reply, ReplyException, Hides
  <2>2. inbox' = inbox \/ Remains
    BY <1>2, NothingRemains DEF Reply, ReplyException
  <2>3. taken' = <<>> /\ taken' \in Optional(Message) /\ DOMAIN taken' = {}
    BY <2>1, OptionalOf DEF SendAnswer
  <2>4. asked' \in Optional(Requests) /\ expired' \in BOOLEAN /\ phase' = "listening"
    BY <2>1, OptionalOf DEF SendAnswer, Base, TypeOK
  <2>5. TypeOK'
    BY <2>1, <2>2, <2>3, <2>4 DEF Base, TypeOK, Remains, setting
  <2>6. AnswersOfOthers'
    BY <2>1, <2>2 DEF Base, AnswersOfOthers, Remains
  <2> QED
    BY <2>3, <2>5, <2>6 DEF Base, HandlesRequestsOnly
<1> QED
  BY <1>1, <1>2 DEF Replying

(* All steps. *)
LEMMA NextBase == Base /\ [Next]_vars => Base'
<1>1. Base /\ UNCHANGED vars => Base'
  BY IgnoreBase DEF vars, slave, Base, TypeOK
<1> QED
  BY <1>1, AskBase, AnswerBase, GiveUpBase, ReceivingBase, ReplyingBase
  DEF Next, Disturbance

(***************************************************************************)
(* Paced timeouts on an orderly line.                                      *)
(***************************************************************************)
Ordered == Base /\ Paced /\ orderly /\ InTurn

Kept == InTurn' /\ ~missed'

(* What InTurn says of the first message: it is read to its end. *)
LEMMA HeadInTurn ==
  ASSUME Ordered, inbox # <<>>
  PROVE  /\ Head(inbox) \in Message /\ Head(inbox) = inbox[1] /\ 1 \in DOMAIN inbox
         /\ Head(inbox).type = "CONFIRMATION" <=> confirmation_to_ignore
         /\ Mine(Head(inbox)) => Len(inbox) = 1 /\ asked = <<Head(inbox)>>
         /\ Legible(Head(inbox))
         /\ ~expired
<1>1. Head(inbox) \in Message /\ Head(inbox) = inbox[1] /\ 1 \in DOMAIN inbox
  BY HeadAndTail DEF Ordered, Base, TypeOK
<1>2. /\ inbox[1].whole
      /\ inbox[1].type = "CONFIRMATION" <=> AnswerAt(1)
      /\ Mine(inbox[1]) => 1 = Len(inbox) /\ asked = <<inbox[1]>>
  BY <1>1 DEF Ordered, InTurn
<1>3. AnswerAt(1) <=> confirmation_to_ignore
  BY DEF AnswerAt
<1>4. Head(inbox).type \in {"INDICATION", "CONFIRMATION"}
  BY <1>1, Addresses
<1>5. Legible(Head(inbox))
  BY <1>1, <1>2, <1>3, <1>4 DEF Legible, Expected
<1> QED
  BY <1>1, <1>2, <1>3, <1>5 DEF Ordered, InTurn

(* A message is read, and the flag set as it says. *)
LEMMA ReadInTurn ==
  ASSUME Ordered, inbox # <<>>, inbox' = Tail(inbox),
         confirmation_to_ignore' = ForOther(Head(inbox)), expired' = FALSE,
         phase = "listening", phase' = "listening", UNCHANGED <<setting, master, taken>>
  PROVE  InTurn'
<1>1. /\ Len(inbox) \in Nat \ {0} /\ Len(inbox') = Len(inbox) - 1
      /\ DOMAIN inbox' = 1..(Len(inbox) - 1) /\ Head(inbox) = inbox[1]
      /\ \A i \in 1..(Len(inbox) - 1) : i + 1 \in DOMAIN inbox /\ inbox'[i] = inbox[i + 1]
  BY HeadAndTail DEF Ordered, Base, TypeOK
<1>2. \A i \in 1..Len(inbox) : AnswerAt(i)' <=> AnswerAt(i + 1)
  <2> SUFFICES ASSUME NEW i \in 1..Len(inbox) PROVE AnswerAt(i)' <=> AnswerAt(i + 1)
    OBVIOUS
  <2>1. AnswerAt(i + 1) = ForOther(inbox[i])
    BY DEF AnswerAt
  <2>2. CASE i = 1
    BY <1>1, <2>1, <2>2 DEF AnswerAt
  <2>3. CASE i # 1
    <3>1. i - 1 \in 1..(Len(inbox) - 1) /\ inbox'[i - 1] = inbox[i]
      BY <1>1, <2>3
    <3> QED
      BY <2>1, <2>3, <3>1 DEF AnswerAt, ForOther
  <2> QED
    BY <2>2, <2>3
<1>3. ASSUME NEW i \in DOMAIN inbox'
      PROVE  /\ inbox'[i].whole
             /\ inbox'[i].type = "CONFIRMATION" <=> AnswerAt(i)'
             /\ Mine(inbox'[i]) => i = Len(inbox') /\ asked' = <<inbox'[i]>>
  <2>1. /\ inbox[i + 1].whole
        /\ inbox[i + 1].type = "CONFIRMATION" <=> AnswerAt(i + 1)
        /\ Mine(inbox[i + 1]) => i + 1 = Len(inbox) /\ asked = <<inbox[i + 1]>>
    BY <1>1 DEF Ordered, InTurn
  <2>2. inbox'[i] = inbox[i + 1] /\ i \in 1..Len(inbox) /\ asked' = asked
    BY <1>1 DEF master
  <2> QED
    BY <1>1, <1>2, <2>1, <2>2
<1>4. AskedOther' <=> AnswerAt(Len(inbox) + 1)
  BY HeadInTurn DEF Ordered, InTurn, AskedOther, master
<1>5. (AnswerAt(Len(inbox) + 1))' <=> AnswerAt(Len(inbox) + 1)
  <2>1. Len(inbox') + 1 = Len(inbox)
    BY <1>1
  <2> QED
    BY <1>1, <1>2, <2>1 DEF AnswerAt
<1>6. late' = <<>>
  BY DEF Ordered, InTurn, master
<1> QED
  BY <1>3, <1>4, <1>5, <1>6 DEF InTurn, Mine

(* Requests and answers come to a line that is ordered. *)
LEMMA HearInTurn ==
  ASSUME Ordered, NEW m \in Message, Hear(m), m.whole, phase = "listening",
         ~expired, expired' = FALSE,
         \A i \in DOMAIN inbox : ~Mine(inbox[i]),
         m.type = "CONFIRMATION" <=> AnswerAt(Len(inbox) + 1),
         Mine(m) => asked' = <<m>>,
         AskedOther' <=> ForOther(m),
         UNCHANGED <<setting, late, confirmation_to_ignore, phase, taken>>
  PROVE  InTurn'
<1>1. /\ Len(inbox) \in Nat /\ Len(inbox') = Len(inbox) + 1
      /\ DOMAIN inbox' = 1..(Len(inbox) + 1) /\ inbox' # <<>>
      /\ \A i \in 1..(Len(inbox) + 1) :
           inbox'[i] = IF i = Len(inbox) + 1 THEN m ELSE inbox[i]
  BY Appended DEF Ordered, Base, TypeOK, Hear
<1>2. \A i \in 1..(Len(inbox) + 1) : AnswerAt(i)' <=> AnswerAt(i)
  BY <1>1 DEF AnswerAt
<1>3. (AnswerAt(Len(inbox) + 1))' <=> ForOther(m)
  <2>1. Len(inbox') + 1 # 1 /\ inbox'[Len(inbox') + 1 - 1] = m
    BY <1>1
  <2> QED
    BY <2>1 DEF AnswerAt, ForOther
<1>4. ASSUME NEW i \in DOMAIN inbox'
      PROVE  /\ inbox'[i].whole
             /\ inbox'[i].type = "CONFIRMATION" <=> AnswerAt(i)'
             /\ Mine(inbox'[i]) => i = Len(inbox') /\ asked' = <<inbox'[i]>>
  <2>1. CASE i = Len(inbox) + 1
    BY <1>1, <1>2, <2>1
  <2>2. CASE i # Len(inbox) + 1
    <3>1. i \in DOMAIN inbox /\ inbox'[i] = inbox[i]
      BY <1>1, <2>2
    <3> QED
      BY <1>1, <1>2, <3>1 DEF Ordered, InTurn
  <2> QED
    BY <2>1, <2>2
<1>5. late' = <<>>
  BY DEF Ordered, InTurn
<1> QED
  BY <1>3, <1>4, <1>5 DEF InTurn, Mine

(* The master asks. *)
LEMMA AskInTurn ==
  ASSUME Ordered, ~missed, NEW r \in Requests, AskWhole(r)
  PROVE  Kept
<1>1. r \in Message /\ r.type = "INDICATION" /\ r.whole
  BY AnswerMessage
<1>2. asked = <<>> /\ asked' = <<r>> /\ Hear(r) /\ UNCHANGED <<setting, late, slave>>
  BY DEF AskWhole, Ask
<1>3. ~AskedOther /\ ~expired /\ ~AnswerAt(Len(inbox) + 1) /\ phase = "listening"
  BY <1>2 DEF AskedOther, Ordered, InTurn, Base, TypeOK
<1>4. \A i \in DOMAIN inbox : ~Mine(inbox[i])
  BY <1>2 DEF Ordered, InTurn
<1>5. AskedOther' <=> ForOther(r)
  BY <1>1, <1>2 DEF AskedOther, ForOther
<1>6. /\ expired' = FALSE /\ r.type # "CONFIRMATION"
      /\ UNCHANGED <<setting, late, confirmation_to_ignore, phase, taken>>
  BY <1>1, <1>2, <1>3 DEF slave, Ordered, Base, TypeOK
<1>7. InTurn'
  BY <1>1, <1>2, <1>3, <1>4, <1>5, <1>6, HearInTurn DEF slave
<1> QED
  BY <1>2, <1>7 DEF Kept, slave

(* Another slave answers in time. *)
LEMMA AnswerInTurn == ASSUME Ordered, ~missed, AnswerInTime PROVE Kept
<1> DEFINE a == AnswerTo(Head(asked))
<1>1. /\ asked # <<>> /\ Head(asked) \in Requests /\ Head(asked).slave \in Others
      /\ asked = <<Head(asked)>>
  BY OptionalValue DEF AnswerInTime, Answer, Ordered, Base, TypeOK
<1>2. a \in Message /\ a.type = "CONFIRMATION" /\ a.whole /\ Hear(a)
  BY <1>1, AnswerMessage DEF AnswerInTime, Answer
<1>3. /\ asked' = <<>> /\ ~expired /\ expired' = FALSE
      /\ UNCHANGED <<setting, late, confirmation_to_ignore, phase, taken, missed>>
  BY DEF AnswerInTime, Answer
<1>4. ~Addressed(Head(asked))
  BY <1>1, AnswerMessage, Addresses
<1>5. AnswerAt(Len(inbox) + 1)
  BY <1>1, <1>3 DEF AskedOther, Ordered, InTurn
<1>6. \A i \in DOMAIN inbox : ~Mine(inbox[i])
  BY <1>1, <1>4 DEF Ordered, InTurn, Mine, Addressed
<1>7. phase = "listening"
  <2>1. phase # "sleeping"
    BY <1>3 DEF Ordered, InTurn
  <2>2. phase \notin {"handling", "refusing"}
    <3> SUFFICES ASSUME phase \in {"handling", "refusing"} PROVE FALSE
      OBVIOUS
    <3>1. taken # <<>> /\ asked = taken
      BY DEF Ordered, InTurn
    <3>2. Head(taken) = taken[1] /\ 1 \in DOMAIN taken
      BY <3>1, OptionalValue DEF Ordered, Base, TypeOK
    <3>3. Mine(Head(taken))
      BY <3>2 DEF Ordered, Base, HandlesRequestsOnly
    <3> QED
      BY <1>4, <3>1, <3>3 DEF Mine, Addressed
  <2> QED
    BY <2>1, <2>2 DEF Ordered, Base, TypeOK
<1>8. ~ForOther(a) /\ ~Mine(a)
  BY <1>2 DEF ForOther, Mine
<1>9. ~AskedOther'
  BY <1>3 DEF AskedOther
<1>10. InTurn'
  <2> HIDE DEF a
  <2> QED
    BY <1>2, <1>3, <1>5, <1>6, <1>7, <1>8, <1>9, HearInTurn
<1> QED
  BY <1>3, <1>10 DEF Kept

(* With nothing unread, InTurn is about the flag and the request alone. *)
LEMMA NothingUnread ==
  ASSUME inbox' = <<>>, late' = <<>>,
         AskedOther' <=> expired' \/ confirmation_to_ignore',
         expired' => (confirmation_to_ignore' => phase' = "sleeping"),
         phase' = "sleeping" => expired' /\ "LINK" \in recovery',
         phase' \in {"handling", "refusing"} =>
           ~confirmation_to_ignore' /\ taken' # <<>> /\ asked' = taken'
  PROVE  InTurn'
<1>1. DOMAIN inbox' = {} /\ Len(inbox') + 1 = 1
  OBVIOUS
<1>2. (AnswerAt(Len(inbox) + 1))' <=> confirmation_to_ignore'
  BY <1>1 DEF AnswerAt
<1> QED
  BY <1>1, <1>2 DEF InTurn

(* The master gives up: this slave has done so before. *)
LEMMA GiveUpInTurn == ASSUME Ordered, ~missed, GiveUp PROVE Kept
<1>1. /\ asked' = <<>> /\ expired' = FALSE /\ inbox' = inbox /\ late' = late
      /\ UNCHANGED <<setting, confirmation_to_ignore, phase, taken, missed>>
  BY DEF GiveUp, Ordered
<1>2. margin # 0 /\ ("LINK" \in recovery => margin = 2)
  BY DEF Ordered, Paced, Base, TypeOK
<1>3. inbox = <<>> /\ phase = "listening" /\ (confirmation_to_ignore => expired)
  BY <1>2 DEF GiveUp, Overtaken, Ordered, InTurn
<1>4. ~confirmation_to_ignore /\ late = <<>>
  BY <1>3 DEF Ordered, InTurn
<1>5. ~AskedOther'
  BY <1>1 DEF AskedOther
<1>6. InTurn'
  BY <1>1, <1>3, <1>4, <1>5, NothingUnread
<1> QED
  BY <1>1, <1>6 DEF Kept
(* On an orderly line every message is read for what it is. *)
LEMMA NeverMisread == ASSUME Ordered, NEW n \in Nat PROVE ~Misread(n)
BY HeadInTurn DEF Misread, Read

(* The handler has an empty line behind it. *)
LEMMA HandlesAlone ==
  ASSUME Ordered, phase \in {"handling", "refusing"}
  PROVE  /\ inbox = <<>> /\ ~confirmation_to_ignore /\ asked = taken /\ taken # <<>>
         /\ Mine(Head(taken)) /\ Head(taken) \in Message
         /\ ~AskedOther /\ ~expired
<1>1. inbox = <<>> /\ ~confirmation_to_ignore /\ asked = taken /\ taken # <<>>
  BY DEF Ordered, InTurn
<1>2. Head(taken) = taken[1] /\ 1 \in DOMAIN taken /\ Head(taken) \in Message
  BY <1>1, OptionalValue DEF Ordered, Base, TypeOK
<1>3. Mine(Head(taken))
  BY <1>2 DEF Ordered, Base, HandlesRequestsOnly
<1>4. ~AskedOther
  BY <1>1, <1>2, <1>3, Addresses DEF AskedOther, Mine, Addressed
<1> QED
  BY <1>1, <1>2, <1>3, <1>4 DEF Ordered, InTurn

(* modbus_receive returns a request, the last thing the line has carried. *)
LEMMA ReturnInTurn == ASSUME Ordered, ReturnRequest PROVE Kept
<1> DEFINE m == Head(inbox)
<1>1. /\ inbox # <<>> /\ ~confirmation_to_ignore /\ Addressed(m)
      /\ taken' = <<m>> /\ phase' = "handling" /\ inbox' = Tail(inbox) /\ missed' = FALSE
      /\ UNCHANGED <<setting, master, confirmation_to_ignore, expired>>
  BY DEF ReturnRequest, Read
<1>2. m \in Message /\ m.type # "CONFIRMATION" /\ m = inbox[1] /\ 1 \in DOMAIN inbox /\ ~expired
  BY <1>1, HeadInTurn
<1>3. Mine(m)
  BY <1>1, <1>2, Addresses DEF Mine, Addressed, Ordered, InTurn
<1>4. Len(inbox) = 1 /\ asked = <<m>>
  BY <1>1, <1>3, HeadInTurn
<1>5. inbox' = <<>>
  BY <1>1, <1>4 DEF Ordered, Base, TypeOK
<1>6. ~AskedOther
  <2> HIDE DEF m
  <2>1. Head(asked) = m
    BY <1>4
  <2> QED
    BY <1>2, <1>3, <2>1, Addresses DEF AskedOther, Mine, Addressed
<1>7. ~AskedOther'
  BY <1>1, <1>6 DEF AskedOther, master
<1>8. late' = <<>> /\ taken' # <<>> /\ asked' = taken' /\ ~expired' /\ ~confirmation_to_ignore'
  BY <1>1, <1>2, <1>4 DEF Ordered, InTurn, master
<1>9. InTurn'
  BY <1>1, <1>5, <1>7, <1>8, NothingUnread
<1> QED
  BY <1>1, <1>9 DEF Kept

(* A request for another slave, or an answer, is read and ignored. *)
LEMMA IgnoreInTurn == ASSUME Ordered, IgnoreRequest \/ IgnoreConfirmation PROVE Kept
<1> DEFINE m == Head(inbox)
<1>1. inbox # <<>> /\ phase = "listening"
  BY DEF IgnoreRequest, IgnoreConfirmation, Read
<1>2. /\ m \in Message /\ (m.type = "CONFIRMATION" <=> confirmation_to_ignore) /\ ~expired
      /\ m = inbox[1] /\ 1 \in DOMAIN inbox
  BY <1>1, HeadInTurn
<1>3. CASE IgnoreRequest
  <2>1. /\ confirmation_to_ignore' = TRUE /\ expired' = FALSE /\ inbox' = Tail(inbox)
        /\ missed' = FALSE /\ UNCHANGED <<setting, master, phase, taken>>
        /\ ~confirmation_to_ignore /\ ~Addressed(m)
    BY <1>3 DEF IgnoreRequest
  <2>2. ForOther(m) = TRUE
    BY <1>2, <2>1, Addresses DEF ForOther
  <2>3. InTurn'
    BY <1>1, <2>1, <2>2, ReadInTurn
  <2> QED
    BY <2>1, <2>3 DEF Kept
<1>4. CASE IgnoreConfirmation
  <2>1. /\ confirmation_to_ignore' = FALSE /\ inbox' = Tail(inbox) /\ Hides(<<m>>)
        /\ UNCHANGED <<setting, master, phase, taken, expired>> /\ confirmation_to_ignore
    BY <1>4 DEF IgnoreConfirmation
  <2>2. m.type = "CONFIRMATION" /\ expired = FALSE
    BY <1>2, <2>1 DEF Ordered, Base, TypeOK
  <2>3. ForOther(m) = FALSE /\ ~Mine(m)
    BY <2>2 DEF ForOther, Mine
  <2>4. InTurn'
    BY <1>1, <2>1, <2>2, <2>3, ReadInTurn
  <2>5. ~missed'
    <3> HIDE DEF m
    <3>1. missed' = \E i \in DOMAIN <<m>> : Mine(<<m>>[i])
      BY <2>1 DEF Hides
    <3> QED
      BY <2>3, <3>1
  <2> QED
    BY <2>4, <2>5 DEF Kept
<1> QED
  BY <1>3, <1>4

(* The timeouts: none while the application waits for requests. *)
LEMMA TimeoutInTurn == ASSUME Ordered, Timeout \/ IndicationTimeout PROVE Kept
<1>1. ~IndicationTimeout
  BY DEF IndicationTimeout, Ordered, Paced
<1>2. /\ inbox = <<>> /\ confirmation_to_ignore /\ phase = "listening"
      /\ IF "LINK" \in recovery
         THEN phase' = "sleeping" /\ UNCHANGED confirmation_to_ignore
         ELSE confirmation_to_ignore' = FALSE /\ UNCHANGED phase
      /\ expired' = (asked # <<>>) /\ missed' = FALSE
      /\ UNCHANGED <<setting, master, inbox, taken>>
  BY <1>1 DEF Timeout
<1>3. AskedOther /\ late = <<>>
  BY <1>2 DEF Ordered, InTurn, AnswerAt
<1>4. expired' /\ AskedOther' /\ late' = <<>> /\ recovery' = recovery /\ inbox' = <<>>
  BY <1>2, <1>3 DEF AskedOther, master, setting
<1>5. InTurn'
  BY <1>2, <1>4, NothingUnread
<1> QED
  BY <1>2, <1>5 DEF Kept

(* The flush that ends the sleep finds nothing. *)
LEMMA FlushInTurn == ASSUME Ordered, Flush PROVE Kept
<1>1. /\ phase = "sleeping" /\ phase' = "listening" /\ confirmation_to_ignore' = FALSE
      /\ inbox' = <<>> /\ Hides(inbox) /\ UNCHANGED <<setting, master, taken, expired>>
  BY DEF Flush
<1>2. expired /\ inbox = <<>> /\ late = <<>> /\ AskedOther
  BY <1>1 DEF Ordered, InTurn
<1>3. AskedOther' /\ expired' /\ late' = <<>>
  BY <1>1, <1>2 DEF AskedOther, master
<1>4. InTurn'
  BY <1>1, <1>3, NothingUnread
<1>5. ~missed'
  BY <1>1, <1>2 DEF Hides
<1> QED
  BY <1>4, <1>5 DEF Kept

(* modbus_receive. *)
LEMMA ReceivingInTurn == ASSUME Ordered, Receiving PROVE Kept
<1>1. \A n \in 1..Len(inbox) : ~ReadBadly(n)
  BY NeverMisread DEF ReadBadly, Ordered, Base, TypeOK
<1>2. ~ReadBadlyAndFlush
  BY NeverMisread DEF ReadBadlyAndFlush
<1>3. ~ReadInVain
  <2>1. Len(inbox) \in Nat
    BY DEF Ordered, Base, TypeOK
  <2> QED
    BY <2>1, NeverMisread DEF ReadInVain
<1> QED
  BY <1>1, <1>2, <1>3, ReturnInTurn, IgnoreInTurn, TimeoutInTurn, FlushInTurn DEF Receiving

(* modbus_reply. *)
LEMMA ReplyingInTurn == ASSUME Ordered, ~missed, Replying PROVE Kept
<1>1. phase \in {"handling", "refusing"}
  BY DEF Replying, Reply, Refuse, ReplyException
<1>2. /\ inbox = <<>> /\ ~confirmation_to_ignore /\ asked = taken /\ taken # <<>>
      /\ ~AskedOther /\ ~expired /\ late = <<>>
  BY <1>1, HandlesAlone DEF Ordered, InTurn
<1>3. CASE Refuse
  <2>1. phase' = "refusing"
        /\ UNCHANGED <<setting, master, inbox, confirmation_to_ignore, taken, expired, missed>>
    BY <1>3 DEF Refuse
  <2>2. ~AskedOther' /\ ~expired' /\ late' = <<>> /\ inbox' = <<>>
        /\ ~confirmation_to_ignore' /\ asked' = taken' /\ taken' # <<>>
    BY <1>2, <2>1 DEF AskedOther, master
  <2>3. InTurn'
    BY <2>1, <2>2, NothingUnread
  <2> QED
    BY <2>1, <2>3 DEF Kept
<1>4. CASE Reply \/ ReplyException
  <2>1. /\ SendAnswer /\ UNCHANGED <<setting, late, confirmation_to_ignore>>
        /\ inbox' = <<>> /\ missed' = FALSE
    <3>1. CASE Reply
      BY <1>2, <3>1 DEF Reply
    <3>2. CASE ReplyException
      <4>1. missed' = FALSE
        BY <1>2, <3>2 DEF ReplyException, Hides
      <4> QED
        BY <3>2, <4>1 DEF ReplyException
    <3> QED
      BY <1>4, <3>1, <3>2
  <2>2. phase' = "listening" /\ ~expired' /\ (asked' = <<>> \/ asked' = asked)
    BY <1>2, <2>1 DEF SendAnswer
  <2>3. ~AskedOther'
    BY <1>2, <2>2 DEF AskedOther
  <2>4. InTurn'
    BY <1>2, <2>1, <2>2, <2>3, NothingUnread
  <2> QED
    BY <2>1, <2>4 DEF Kept
<1> QED
  BY <1>3, <1>4 DEF Replying

(* At first nothing is asked. *)
LEMMA InitInTurn == Init => InTurn /\ ~missed
<1> SUFFICES ASSUME Init PROVE InTurn /\ ~missed
  OBVIOUS
<1>1. DOMAIN inbox = {} /\ Len(inbox) + 1 = 1
  BY DEF Init
<1>2. ~AnswerAt(Len(inbox) + 1)
  BY <1>1 DEF AnswerAt, Init
<1> QED
  BY <1>1, <1>2 DEF Init, InTurn, AskedOther

(* No step puts an orderly line out of order. *)
LEMMA NextInTurn == ASSUME Ordered, ~missed, [Next]_vars PROVE Kept
<1>1. ~Disturbance
  BY DEF Disturbance, AskDamaged, AnswerBadly, AnswerLate, Ordered
<1>2. CASE UNCHANGED vars
  BY <1>2 DEF vars, setting, master, slave, Kept, Ordered, InTurn, AskedOther, AnswerAt,
              ForOther, Mine
<1> QED
  BY <1>1, <1>2, AskInTurn, AnswerInTurn, GiveUpInTurn, ReceivingInTurn, ReplyingInTurn DEF Next

(* The settings stay. *)
LEMMA SettingStays == [Next]_vars => UNCHANGED setting
<1> USE DEF setting
<1>1. ASSUME NEW r \in Requests, AskWhole(r) \/ AskDamaged(r) PROVE UNCHANGED setting
  BY <1>1 DEF AskWhole, AskDamaged, Ask
<1>2. CASE AnswerInTime \/ AnswerBadly \/ AnswerLate \/ GiveUp
  BY <1>2 DEF AnswerInTime, AnswerBadly, AnswerLate, Answer, GiveUp
<1>3. CASE Receiving
  BY <1>3 DEF Receiving, ReturnRequest, IgnoreRequest, IgnoreConfirmation, ReadBadly,
              ReadBadlyAndFlush, ReadInVain, Timeout, IndicationTimeout, Flush
<1>4. CASE Replying
  BY <1>4 DEF Replying, Reply, Refuse, ReplyException
<1>5. CASE UNCHANGED vars
  BY <1>5 DEF vars
<1> QED
  BY <1>1, <1>2, <1>3, <1>4, <1>5 DEF Next, Disturbance

(***************************************************************************)
(* The theorems.                                                           *)
(***************************************************************************)

(* The invariant of the line and of _modbus_rtu_receive's flag. *)
THEOREM Invariance == Spec => []IInv
<1>1. Init => IInv
  BY InitBase, InitInTurn DEF IInv, Base
<1>2. IInv /\ [Next]_vars => IInv'
  <2> SUFFICES ASSUME IInv, [Next]_vars PROVE IInv'
    OBVIOUS
  <2>1. Base'
    BY NextBase DEF IInv, Base
  <2>2. (Paced /\ orderly)' <=> Paced /\ orderly
    BY SettingStays DEF setting, Paced
  <2>3. (Paced /\ orderly)' => InTurn' /\ ~missed'
    BY <2>2, NextInTurn DEF IInv, Base, Ordered, Kept
  <2> QED
    BY <2>1, <2>3 DEF IInv, Base
<1> QED
  BY <1>1, <1>2, PTL DEF Spec

(* The variables keep their types. *)
THEOREM Typing == Spec => []TypeOK
<1>1. IInv => TypeOK
  BY DEF IInv
<1> QED
  BY <1>1, Invariance, PTL

(* With paced timeouts, an orderly line hides no request for this slave,   *)
(* however many other slaves there are and however long they stay silent.  *)
THEOREM MissesNothing == Spec => []NeverMisses
<1>1. IInv => NeverMisses
  BY DEF IInv, NeverMisses
<1> QED
  BY <1>1, Invariance, PTL

(* Whatever the line does, modbus_receive returns requests for this slave  *)
(* and broadcasts, never the answer of another slave.                      *)
THEOREM RequestsOnly == Spec => []HandlesRequestsOnly
<1>1. IInv => HandlesRequestsOnly
  BY DEF IInv
<1> QED
  BY <1>1, Invariance, PTL
=============================================================================
