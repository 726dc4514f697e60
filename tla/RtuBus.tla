------------------------------- MODULE RtuBus --------------------------------
(***************************************************************************)
(* One slave among others on a serial line: it hears the requests for the  *)
(* others, and their answers.  A message does not say which of the two it  *)
(* is, and the length of one differs from that of the other, so            *)
(* _modbus_rtu_receive of src/modbus-rtu.c keeps count: the message after  *)
(* a request for another slave is read as its answer, and ignored.         *)
(*                                                                         *)
(* A master asks one slave at a time and waits for its answer, for so      *)
(* long.  Messages come whole, or damaged; read for what they are not they *)
(* are cut anywhere.  ReceiveMsg has the bytes.                            *)
(***************************************************************************)
EXTENDS Naturals, Sequences

CONSTANTS
  Slave,     \* ctx->slave
  Others,    \* the other slaves on the line
  MaxUnread  \* bound: messages this slave has yet to read

MODBUS_BROADCAST_ADDRESS == 0

ASSUME SlavesAssumption ==
  /\ Slave \in 1..255 /\ Others \subseteq 1..255 /\ Slave \notin Others
  /\ MaxUnread \in Nat \ {0}

VARIABLES
  recovery,    \* ctx->error_recovery: subset of {"LINK", "PROTOCOL"}
  indication,  \* an indication timeout is set
  orderly,     \* nothing is damaged; who answers, does so in time
  margin,      \* the response timeouts of this slave, one after the other,
               \* that fit into that of the master
  asked,       \* the request whose answer the master waits for, if any
  late,        \* the last request it gave up, whose answer may still come
  inbox,       \* messages this slave has not yet read
  confirmation_to_ignore,
  phase,       \* "listening", "sleeping" before a flush, "handling",
               \* "refusing": a sleep and a flush before an exception
  taken,       \* what modbus_receive has returned, while it is handled
  expired,     \* history: this slave has given up waiting for that answer
  missed       \* history: what was read last hid a request for this slave

setting == <<recovery, indication, orderly, margin>>
master == <<asked, late>>
slave == <<confirmation_to_ignore, phase, taken, expired, missed>>
vars == <<setting, master, inbox, slave>>

(* alike: a request and its answer have the same layout, as those of a     *)
(* single write; whole: not damaged, and not cut.                          *)
Message == [type : {"INDICATION", "CONFIRMATION"},
            slave : Others \union {Slave, MODBUS_BROADCAST_ADDRESS},
            alike : BOOLEAN, whole : BOOLEAN]

Requests == {m \in Message : m.type = "INDICATION" /\ m.whole}

AnswerTo(r) == [r EXCEPT !.type = "CONFIRMATION"]

Damaged(m) == [m EXCEPT !.whole = FALSE]

Mine(m) == m.type = "INDICATION" /\ m.slave \in {Slave, MODBUS_BROADCAST_ADDRESS} /\ m.whole

(***************************************************************************)
(* The master and the other slaves.                                        *)
(***************************************************************************)

(* What this slave must have done when the master gives up: its waits and  *)
(* sleeps are that much shorter than the wait of the master.               *)
Overtaken ==
  \/ margin = 0
  \/ /\ inbox = <<>>
     /\ \/ phase = "listening" /\ (confirmation_to_ignore => expired)
        \/ phase = "sleeping" /\ margin = 1

Hear(m) == inbox' = Append(inbox, m)

Ask(r) ==
  /\ asked = <<>> /\ Len(inbox) < MaxUnread
  /\ asked' = <<r>>
  /\ UNCHANGED <<setting, late, slave>>

AskWhole(r) == Ask(r) /\ Hear(r)

AskDamaged(r) == ~orderly /\ Ask(r) /\ Hear(Damaged(r))

(* Another slave answers. *)
Answer(a) ==
  /\ asked # <<>> /\ Head(asked).slave \in Others /\ Len(inbox) < MaxUnread
  /\ Hear(a) /\ asked' = <<>> /\ expired' = FALSE
  /\ UNCHANGED <<setting, late, confirmation_to_ignore, phase, taken, missed>>

AnswerInTime == ~expired /\ Answer(AnswerTo(Head(asked)))

(* In time for the master, but not for this slave; or damaged. *)
AnswerBadly ==
  /\ ~orderly
  /\ \/ expired /\ Answer(AnswerTo(Head(asked)))
     \/ Answer(Damaged(AnswerTo(Head(asked))))

AnswerLate ==
  /\ ~orderly /\ late # <<>> /\ Len(inbox) < MaxUnread
  /\ Hear(AnswerTo(Head(late))) /\ late' = <<>>
  /\ UNCHANGED <<setting, asked, slave>>

(* No answer: the slave is silent, or it is a broadcast. *)
GiveUp ==
  /\ asked # <<>> /\ Overtaken
  /\ asked' = <<>> /\ expired' = FALSE
  /\ late' = IF ~orderly /\ Head(asked).slave \in Others THEN asked ELSE late
  /\ UNCHANGED <<setting, inbox, confirmation_to_ignore, phase, taken, missed>>

(***************************************************************************)
(* This slave: modbus_receive.                                             *)
(***************************************************************************)
Expected == IF confirmation_to_ignore THEN "CONFIRMATION" ELSE "INDICATION"

(* The message is read to its end, and its checksum is right. *)
Legible(m) == m.whole /\ (m.type = Expected \/ m.alike)

Read == phase = "listening" /\ inbox # <<>>

Hides(s) == missed' = \E i \in DOMAIN s : Mine(s[i])

(* Seeded fault: the address is not looked at. *)
Addressed_Any(m) == TRUE

(* _modbus_rtu_check_integrity *)
Addressed(m) == m.slave \in {Slave, MODBUS_BROADCAST_ADDRESS}

(* modbus_receive returns the message: a request to reply to. *)
ReturnRequest ==
  /\ Read /\ ~confirmation_to_ignore
  /\ Legible(Head(inbox)) /\ Addressed(Head(inbox))
  /\ taken' = <<Head(inbox)>> /\ phase' = "handling"
  /\ inbox' = Tail(inbox) /\ missed' = FALSE
  /\ UNCHANGED <<setting, master, confirmation_to_ignore, expired>>

(* Seeded fault: the flag is not set. *)
IgnoreRequest_NoFlag ==
  /\ Read /\ ~confirmation_to_ignore
  /\ Legible(Head(inbox)) /\ ~Addressed(Head(inbox))
  /\ inbox' = Tail(inbox) /\ missed' = FALSE
  /\ UNCHANGED <<setting, master, confirmation_to_ignore, phase, taken, expired>>

(* A request for another slave: its answer comes next. *)
IgnoreRequest ==
  /\ Read /\ ~confirmation_to_ignore
  /\ Legible(Head(inbox)) /\ ~Addressed(Head(inbox))
  /\ confirmation_to_ignore' = TRUE /\ expired' = FALSE
  /\ inbox' = Tail(inbox) /\ missed' = FALSE
  /\ UNCHANGED <<setting, master, phase, taken>>

IgnoreConfirmation ==
  /\ Read /\ confirmation_to_ignore
  /\ Legible(Head(inbox))
  /\ confirmation_to_ignore' = FALSE
  /\ inbox' = Tail(inbox) /\ Hides(<<Head(inbox)>>)
  /\ UNCHANGED <<setting, master, phase, taken, expired>>

(* The next message is cut. *)
Cut(s) == [ i \in DOMAIN s |-> IF i = 1 THEN Damaged(s[i]) ELSE s[i] ]

(* Read for what it is not, or damaged: the bytes are taken as far as the  *)
(* length that was made out of them.                                       *)
Misread(n) ==
  /\ Read /\ ~Legible(Head(inbox))
  /\ n \in 1..Len(inbox)

(* EMBBADCRC or EMBBADDATA: any error ends the wait for a confirmation. *)
ReadBadly(n) ==
  /\ Misread(n)
  /\ inbox' \in {SubSeq(inbox, n + 1, Len(inbox)), Cut(SubSeq(inbox, n, Len(inbox)))}
  /\ Hides(SubSeq(inbox, 1, n))
  /\ confirmation_to_ignore' = FALSE
  /\ UNCHANGED <<setting, master, phase, taken, expired>>

(* PROTOCOL recovery flushes after a wrong checksum. *)
ReadBadlyAndFlush ==
  /\ Misread(1) /\ "PROTOCOL" \in recovery
  /\ inbox' = <<>> /\ Hides(inbox)
  /\ confirmation_to_ignore' = FALSE
  /\ UNCHANGED <<setting, master, phase, taken, expired>>

(* What there was did not make a message: ETIMEDOUT, and LINK recovery. *)
ReadInVain ==
  /\ Misread(Len(inbox)) /\ "LINK" \in recovery
  /\ inbox' = <<>> /\ Hides(inbox)
  /\ phase' = "sleeping"
  /\ UNCHANGED <<setting, master, confirmation_to_ignore, taken, expired>>

(* Seeded fault: an error leaves the flag set. *)
Timeout_KeepsFlag ==
  /\ phase = "listening" /\ inbox = <<>> /\ confirmation_to_ignore
  /\ phase' = IF "LINK" \in recovery THEN "sleeping" ELSE "listening"
  /\ expired' = (asked # <<>>) /\ missed' = FALSE
  /\ UNCHANGED <<setting, master, inbox, confirmation_to_ignore, taken>>

(* The response timeout, while it waits for the answer of another slave.   *)
Timeout ==
  /\ phase = "listening" /\ inbox = <<>> /\ confirmation_to_ignore
  /\ IF "LINK" \in recovery
     THEN phase' = "sleeping" /\ UNCHANGED confirmation_to_ignore
     ELSE confirmation_to_ignore' = FALSE /\ UNCHANGED phase
  /\ expired' = (asked # <<>>) /\ missed' = FALSE
  /\ UNCHANGED <<setting, master, inbox, taken>>

(* The indication timeout; without LINK recovery modbus_receive is just    *)
(* called again.                                                           *)
IndicationTimeout ==
  /\ phase = "listening" /\ inbox = <<>> /\ ~confirmation_to_ignore
  /\ indication /\ "LINK" \in recovery
  /\ phase' = "sleeping" /\ missed' = FALSE
  /\ UNCHANGED <<setting, master, inbox, confirmation_to_ignore, taken, expired>>

(* modbus_flush, after the sleep of LINK recovery. *)
Flush ==
  /\ phase = "sleeping"
  /\ phase' = "listening" /\ confirmation_to_ignore' = FALSE
  /\ inbox' = <<>> /\ Hides(inbox)
  /\ UNCHANGED <<setting, master, taken, expired>>

(***************************************************************************)
(* This slave: modbus_reply.  A broadcast is not answered.                 *)
(***************************************************************************)
SendAnswer ==
  /\ asked' = IF Head(taken).slave = Slave /\ asked # <<>> /\ Head(asked).slave = Slave
              THEN <<>> ELSE asked
  /\ expired' = (expired /\ asked' # <<>>)
  /\ taken' = <<>> /\ phase' = "listening"

Reply ==
  /\ phase = "handling"
  /\ SendAnswer /\ missed' = FALSE
  /\ UNCHANGED <<setting, late, inbox, confirmation_to_ignore>>

(* response_exception of an unknown function or a bad quantity: it sleeps  *)
(* for the response timeout, flushes, and only then answers.               *)
Refuse ==
  /\ phase = "handling"
  /\ phase' = "refusing"
  /\ UNCHANGED <<setting, master, inbox, confirmation_to_ignore, taken, expired, missed>>

ReplyException ==
  /\ phase = "refusing"
  /\ inbox' = <<>> /\ Hides(inbox)
  /\ SendAnswer
  /\ UNCHANGED <<setting, late, confirmation_to_ignore>>

(***************************************************************************)
(* The specification.                                                      *)
(***************************************************************************)
Init ==
  /\ recovery \in SUBSET {"LINK", "PROTOCOL"}
  /\ indication \in BOOLEAN /\ orderly \in BOOLEAN
  /\ margin \in 0..2
  /\ asked = <<>> /\ late = <<>> /\ inbox = <<>> /\ taken = <<>>
  /\ confirmation_to_ignore = FALSE /\ phase = "listening"
  /\ expired = FALSE /\ missed = FALSE

Receiving ==
  \/ ReturnRequest \/ IgnoreRequest \/ IgnoreConfirmation
  \/ \E n \in 1..Len(inbox) : ReadBadly(n)
  \/ ReadBadlyAndFlush \/ ReadInVain
  \/ Timeout \/ IndicationTimeout \/ Flush

Replying == Reply \/ Refuse \/ ReplyException

Disturbance ==
  \/ \E r \in Requests : AskDamaged(r)
  \/ AnswerBadly \/ AnswerLate

Next ==
  \/ \E r \in Requests : AskWhole(r)
  \/ AnswerInTime \/ GiveUp
  \/ Disturbance
  \/ Receiving \/ Replying

Spec == Init /\ [][Next]_vars

(* The slave reads what comes, and its timeouts end; the master may stop.  *)
FairSpec == Spec /\ WF_vars(Receiving) /\ WF_vars(Replying)

(***************************************************************************)
(* Properties.                                                             *)
(***************************************************************************)

Optional(S) == {<<>>} \union { <<x>> : x \in S }

(* The type invariant. *)
TypeOK ==
  /\ recovery \subseteq {"LINK", "PROTOCOL"}
  /\ indication \in BOOLEAN /\ orderly \in BOOLEAN
  /\ margin \in 0..2
  /\ asked \in Optional(Requests) /\ late \in Optional(Requests)
  /\ inbox \in Seq(Message) /\ taken \in Optional(Message)
  /\ confirmation_to_ignore \in BOOLEAN
  /\ phase \in {"listening", "sleeping", "handling", "refusing"}
  /\ expired \in BOOLEAN /\ missed \in BOOLEAN

(* The timeouts are set so that the slave is done with a silent slave      *)
(* before the master is.                                                   *)
Paced ==
  /\ margin >= IF "LINK" \in recovery THEN 2 ELSE 1
  /\ ~(indication /\ "LINK" \in recovery)

(* With such timeouts on an orderly line no request for this slave, and no *)
(* broadcast, is ever hidden from its application, though other slaves     *)
(* stay silent as they please (_modbus_rtu_receive).                       *)
NeverMisses == Paced /\ orderly => ~missed

(* Nothing but a request for this slave is handled, whatever the line does *)
(* and however the slave has lost count: an answer of another slave is     *)
(* never taken for a request (_modbus_rtu_check_integrity).                *)
HandlesRequestsOnly == \A i \in DOMAIN taken : Mine(taken[i])

(***************************************************************************)
(* The inductive invariant behind the two.                                 *)
(***************************************************************************)
ForOther(m) == m.type = "INDICATION" /\ m.slave \in Others

(* The answers that can be heard are those of other slaves. *)
AnswersOfOthers ==
  /\ \A i \in DOMAIN inbox : inbox[i].type = "CONFIRMATION" => inbox[i].slave \in Others
  /\ \A i \in DOMAIN late : late[i].slave \in Others

(* Whether an answer comes at place i of what is unread. *)
AnswerAt(i) == IF i = 1 THEN confirmation_to_ignore ELSE ForOther(inbox[i - 1])

AskedOther == asked # <<>> /\ Head(asked).slave \in Others

(* On an orderly line the flag agrees with what comes next, and a request  *)
(* for this slave is the last thing the line has carried, until it is      *)
(* answered or, a broadcast, handled.                                      *)
InTurn ==
  /\ late = <<>>
  /\ \A i \in DOMAIN inbox :
       /\ inbox[i].whole
       /\ inbox[i].type = "CONFIRMATION" <=> AnswerAt(i)
       /\ Mine(inbox[i]) => i = Len(inbox) /\ asked = <<inbox[i]>>
  /\ AskedOther <=> expired \/ AnswerAt(Len(inbox) + 1)
  /\ expired => inbox = <<>> /\ (confirmation_to_ignore => phase = "sleeping")
  /\ phase = "sleeping" => expired /\ "LINK" \in recovery
  /\ phase \in {"handling", "refusing"} =>
       inbox = <<>> /\ ~confirmation_to_ignore /\ taken # <<>> /\ asked = taken

IInv ==
  /\ TypeOK
  /\ AnswersOfOthers /\ HandlesRequestsOnly
  /\ Paced /\ orderly => InTurn /\ ~missed

(* The slave finds its place again: when the disturbances end it hides no  *)
(* more requests, though neither side starts anew (_modbus_rtu_receive).   *)
Misses == missed' /\ inbox' # inbox /\ Len(inbox') <= Len(inbox)

HearsAgain == Paced /\ <>[][~Disturbance]_vars => <>[][~Misses]_vars
=============================================================================
