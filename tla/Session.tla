------------------------------- MODULE Session ------------------------------
(***************************************************************************)
(* A client that makes one call after another, a server that answers them  *)
(* in order, and the link between them, message by message.  Answers may   *)
(* come after the client has given up; over TCP the connection may break,  *)
(* over a serial line messages may be lost or damaged.  What a call does   *)
(* about it: send_msg, _modbus_receive_msg and check_confirmation of       *)
(* src/modbus.c, with their error recovery.                                *)
(*                                                                         *)
(* TCP numbers its requests modulo Tids and checks the number; RTU has no  *)
(* number, as if there were only one.                                      *)
(***************************************************************************)
EXTENDS ModbusProtocol, FiniteSets

CONSTANTS
  Tids,          \* 65536, the values of a transaction identifier
  Requests,      \* [function, what]: what is the part an answer repeats
  MaxLag         \* bound: calls made while a message stays under way

ASSUME TidsAssumption == Tids \in Nat \ {0}

ASSUME SessionAssumption ==
  /\ \A r \in Requests : DOMAIN r = {"function", "what"}
  /\ MaxLag \in Nat \ {0}

VARIABLES
  recovery,      \* ctx->error_recovery: subset of {"LINK", "PROTOCOL"}
  serial,        \* RTU: a line that loses messages, not a connection
  sleepSuffices, \* what is under way arrives within the response timeout
  tid,        \* ctx_tcp->t_id
  cur,        \* the request of the present call, or the last
  phase,      \* "idle", "sending", "waiting", "sleeping" before a flush
  rc,         \* what the last call returned: "ok", "exception" or its errno
  connected,  \* ctx->s >= 0
  broken,     \* the connection is gone, and the client has yet to notice
  requests,   \* sent, and not yet handled by the server
  flight,     \* answers on their way
  inbox,      \* answers the client can read
  handled,    \* history: how often the server handled the present call
  accepted    \* history: the age of the answer the last call took, or -1

setting == <<recovery, serial, sleepSuffices>>
client == <<tid, cur, phase, rc>>
link == <<connected, broken>>
queues == <<requests, flight, inbox>>
history == <<handled, accepted>>
vars == <<setting, client, link, queues, history>>

(* How many identifiers there are. *)
Numbers == IF serial THEN 1 ELSE Tids

(* Every message carries, as history, its age: the number of calls made    *)
(* since the one it belongs to.                                            *)
Older(s) == [ i \in DOMAIN s |-> [s[i] EXCEPT !.age = @ + 1] ]

(* A message of the connection before this one. *)
Orphaned(s) == [ i \in DOMAIN s |-> [s[i] EXCEPT !.live = FALSE] ]

Recent(s) == \A i \in DOMAIN s : s[i].age < MaxLag

(* What a sleep of the response timeout leaves to a flush. *)
Settled == sleepSuffices => requests = <<>> /\ flight = <<>>

(***************************************************************************)
(* The client: sending.                                                    *)
(***************************************************************************)

(* Seeded fault: the number is not brought back to zero. *)
NextTid_NoWrap(t) == t + 1

(* _modbus_tcp_build_request_basis; _modbus_rtu_build_request_basis has none.*)
NextTid(t) == IF t < Numbers - 1 THEN t + 1 ELSE 0

Call(r) ==
  /\ phase = "idle"
  /\ Recent(requests) /\ Recent(flight) /\ Recent(inbox)
  /\ tid' = NextTid(tid) /\ cur' = r
  /\ phase' = "sending" /\ rc' = "none"
  /\ requests' = Older(requests) /\ flight' = Older(flight) /\ inbox' = Older(inbox)
  /\ handled' = 0 /\ accepted' = -1
  /\ UNCHANGED <<setting, link>>

Send ==
  /\ phase = "sending" /\ connected /\ ~broken
  /\ requests' = Append(requests, [tid |-> tid, request |-> cur, live |-> TRUE, age |-> 0])
  /\ phase' = "waiting"
  /\ UNCHANGED <<setting, tid, cur, rc, link, flight, inbox, history>>

(* The present call returns. *)
Return(result) == phase' = "idle" /\ rc' = result /\ UNCHANGED <<tid, cur>>

SendFails ==
  /\ phase = "sending" /\ (~connected \/ broken)
  /\ "LINK" \notin recovery
  /\ Return("EPIPE")
  /\ UNCHANGED <<setting, link, queues, history>>

(* Seeded fault: connect leaves the old connection in place. *)
Connect_StaysBroken ==
  /\ connected' = TRUE /\ broken' = broken
  /\ requests' = Orphaned(requests) /\ flight' = <<>> /\ inbox' = <<>>

(* modbus_close and modbus_connect: a new connection has no bytes in it;   *)
(* requests of the old one may still be in the hands of the server.        *)
Connect ==
  /\ connected' = TRUE /\ broken' = FALSE
  /\ requests' = Orphaned(requests) /\ flight' = <<>> /\ inbox' = <<>>

FailToConnect ==
  /\ connected' = FALSE /\ broken' = FALSE
  /\ requests' = Orphaned(requests) /\ flight' = <<>> /\ inbox' = <<>>

(* LINK: close, sleep, connect and send again, until it succeeds. *)
SendReconnects ==
  /\ phase = "sending" /\ (~connected \/ broken)
  /\ "LINK" \in recovery
  /\ Connect
  /\ UNCHANGED <<setting, client, history>>

SendFailsToReconnect ==
  /\ phase = "sending" /\ (~connected \/ broken)
  /\ "LINK" \in recovery
  /\ FailToConnect
  /\ UNCHANGED <<setting, client, history>>

(* Any other error of send: LINK sleeps, flushes and sends again. *)
SendRefused ==
  /\ phase = "sending" /\ connected /\ ~broken
  /\ "LINK" \notin recovery
  /\ Return("EAGAIN")
  /\ UNCHANGED <<setting, link, queues, history>>

SendFlushes ==
  /\ phase = "sending" /\ connected /\ ~broken
  /\ "LINK" \in recovery /\ Settled
  /\ inbox' = <<>>
  /\ UNCHANGED <<setting, client, link, requests, flight, history>>

(***************************************************************************)
(* The client: receiving and checking the confirmation.                    *)
(***************************************************************************)

(* Seeded fault: the number is not compared. *)
TidMatches_Any(a) == TRUE

(* pre_check_confirmation *)
TidMatches(a) == a.tid = tid

(* The rest of check_confirmation, for an answer that is no exception: the *)
(* function and what the answer repeats of its request; of a mask write    *)
(* nothing is compared.                                                    *)
Confirms(a) ==
  /\ a.request.function = cur.function
  /\ a.request.what = cur.what \/ cur.function = FC_MASK_WRITE_REGISTER

Take ==
  /\ phase = "waiting" /\ inbox # <<>>
  /\ inbox' = Tail(inbox)
  /\ UNCHANGED <<setting, link, requests, flight, handled>>

ReceiveConfirmation ==
  /\ Take
  /\ LET a == Head(inbox)
     IN  /\ TidMatches(a)
         /\ IF a.exception
            THEN a.request.function = cur.function /\ Return("exception")
            ELSE Confirms(a) /\ Return("ok")
         /\ accepted' = a.age

(* An exception for another function: no flush, whatever the recovery. *)
ReceiveBadException ==
  /\ Take
  /\ LET a == Head(inbox)
     IN  TidMatches(a) /\ a.exception /\ a.request.function # cur.function
  /\ Return("EMBBADEXC")
  /\ UNCHANGED accepted

Mismatch(a) == ~TidMatches(a) \/ (~a.exception /\ ~Confirms(a))

(* Seeded fault: PROTOCOL recovery is forgotten. *)
ReceiveMismatch_NoFlush ==
  /\ Take
  /\ Mismatch(Head(inbox))
  /\ Return("EMBBADDATA")
  /\ UNCHANGED accepted

(* PROTOCOL: sleep for the response timeout, flush, and only then return. *)
ReceiveMismatch ==
  /\ Take
  /\ Mismatch(Head(inbox))
  /\ rc' = "EMBBADDATA"
  /\ phase' = IF "PROTOCOL" \in recovery THEN "sleeping" ELSE "idle"
  /\ UNCHANGED <<tid, cur, accepted>>

(* A wrong checksum; the flush of PROTOCOL comes without a sleep here.     *)
ReceiveDamaged ==
  /\ serial /\ phase = "waiting" /\ inbox # <<>>
  /\ inbox' = IF "PROTOCOL" \in recovery THEN <<>> ELSE Tail(inbox)
  /\ Return("EMBBADCRC")
  /\ UNCHANGED <<setting, link, requests, flight, history>>

(* Seeded fault: LINK recovery does not flush after a timeout. *)
Timeout_NoFlush ==
  /\ phase = "waiting" /\ inbox = <<>> /\ ~broken
  /\ Return("ETIMEDOUT")
  /\ UNCHANGED <<setting, link, queues, history>>

Timeout ==
  /\ phase = "waiting" /\ inbox = <<>> /\ ~broken
  /\ rc' = "ETIMEDOUT"
  /\ phase' = IF "LINK" \in recovery THEN "sleeping" ELSE "idle"
  /\ UNCHANGED <<setting, tid, cur, link, queues, history>>

(* modbus_flush takes what can be read, and the call returns. *)
Flush ==
  /\ phase = "sleeping" /\ Settled
  /\ inbox' = <<>>
  /\ Return(rc)
  /\ UNCHANGED <<setting, link, requests, flight, history>>

(* recv tells that the peer has gone, after the last byte; LINK closes and *)
(* connects once, and the call fails all the same.                         *)
LoseConnection ==
  /\ phase = "waiting" /\ inbox = <<>> /\ broken
  /\ "LINK" \notin recovery
  /\ Return("ECONNRESET")
  /\ UNCHANGED <<setting, link, queues, history>>

(* Seeded fault: the request is sent again on the new connection. *)
LoseAndReconnect_SendsAgain ==
  /\ phase = "waiting" /\ inbox = <<>> /\ broken
  /\ "LINK" \in recovery
  /\ (Connect \/ FailToConnect)
  /\ phase' = "sending"
  /\ UNCHANGED <<setting, tid, cur, rc, history>>

LoseAndReconnect ==
  /\ phase = "waiting" /\ inbox = <<>> /\ broken
  /\ "LINK" \in recovery
  /\ (Connect \/ FailToConnect)
  /\ Return("ECONNRESET")
  /\ UNCHANGED <<setting, history>>

(* The application closes and connects after an error. *)
ApplicationReconnects ==
  /\ ~serial /\ phase = "idle" /\ rc \notin {"none", "ok", "exception"}
  /\ Connect
  /\ UNCHANGED <<setting, client, history>>

(* Or it calls modbus_flush between two calls. *)
ApplicationFlushes ==
  /\ phase = "idle" /\ inbox # <<>>
  /\ inbox' = <<>>
  /\ UNCHANGED <<setting, client, link, requests, flight, history>>

(***************************************************************************)
(* The server and the link.                                                *)
(***************************************************************************)

(* modbus_reply: the answer has the number of its request (get_response_tid). *)
Handle(exception) ==
  /\ requests # <<>>
  /\ LET r == Head(requests)
     IN  /\ flight' = IF r.live
                      THEN Append(flight, [tid |-> r.tid, request |-> r.request,
                                           exception |-> exception, age |-> r.age])
                      ELSE flight
         /\ handled' = IF r.age = 0 THEN handled + 1 ELSE handled
  /\ requests' = Tail(requests)
  /\ UNCHANGED <<setting, client, link, inbox, accepted>>

Deliver ==
  /\ flight # <<>>
  /\ inbox' = Append(inbox, Head(flight)) /\ flight' = Tail(flight)
  /\ UNCHANGED <<setting, client, link, requests, history>>

(* What the server had read of a connection that is gone, or what the line *)
(* damages.                                                                *)
LoseRequest ==
  /\ requests # <<>>
  /\ serial \/ ~Head(requests).live
  /\ requests' = Tail(requests)
  /\ UNCHANGED <<setting, client, link, flight, inbox, history>>

LoseAnswer ==
  /\ serial /\ flight # <<>>
  /\ flight' = Tail(flight)
  /\ UNCHANGED <<setting, client, link, requests, inbox, history>>

(* The server closes, crashes or restarts, or the network does it.         *)
Break ==
  /\ ~serial /\ connected /\ ~broken
  /\ broken' = TRUE
  /\ requests' = Orphaned(requests) /\ flight' = <<>>
  /\ UNCHANGED <<setting, client, connected, inbox, history>>

(***************************************************************************)
(* The specification.                                                      *)
(***************************************************************************)
Init ==
  /\ recovery \in SUBSET {"LINK", "PROTOCOL"}
  /\ serial \in BOOLEAN /\ sleepSuffices \in BOOLEAN
  /\ tid = 0 /\ cur \in Requests
  /\ phase = "idle" /\ rc = "none"
  /\ connected = TRUE /\ broken = FALSE
  /\ requests = <<>> /\ flight = <<>> /\ inbox = <<>>
  /\ handled = 0 /\ accepted = -1

Sending ==
  \/ Send \/ SendFails \/ SendReconnects \/ SendFailsToReconnect
  \/ SendRefused \/ SendFlushes

Receiving ==
  \/ ReceiveConfirmation \/ ReceiveBadException \/ ReceiveMismatch \/ ReceiveDamaged
  \/ Timeout \/ Flush
  \/ LoseConnection \/ LoseAndReconnect

Environment ==
  \/ \E exception \in BOOLEAN : Handle(exception)
  \/ Deliver \/ LoseRequest \/ LoseAnswer \/ Break

Next ==
  \/ \E r \in Requests : Call(r)
  \/ Sending \/ Receiving
  \/ ApplicationReconnects \/ ApplicationFlushes
  \/ Environment

Spec == Init /\ [][Next]_vars

(* The client runs and what is sent arrives; a peer that was lost can be   *)
(* reached again, at last, and then takes a request.                       *)
FairSpec ==
  /\ Spec
  /\ WF_vars(SendFails) /\ WF_vars(Receiving)
  /\ WF_vars(Deliver) /\ WF_vars(\E exception \in BOOLEAN : Handle(exception))
  /\ SF_vars(Send) /\ SF_vars(SendReconnects)

(***************************************************************************)
(* Properties.                                                             *)
(***************************************************************************)
Message == [tid : 0..(Numbers - 1), request : Requests, age : Nat, live : BOOLEAN]
Answer == [tid : 0..(Numbers - 1), request : Requests, age : Nat, exception : BOOLEAN]

Results ==
  {"none", "ok", "exception", "EPIPE", "EAGAIN", "EMBBADDATA", "EMBBADEXC",
   "EMBBADCRC", "ETIMEDOUT", "ECONNRESET"}

(* The type invariant. *)
TypeOK ==
  /\ recovery \subseteq {"LINK", "PROTOCOL"}
  /\ serial \in BOOLEAN /\ sleepSuffices \in BOOLEAN
  /\ tid \in 0..(Numbers - 1) /\ cur \in Requests
  /\ phase \in {"idle", "sending", "waiting", "sleeping"} /\ rc \in Results
  /\ connected \in BOOLEAN /\ broken \in BOOLEAN
  /\ requests \in Seq(Message) /\ flight \in Seq(Answer) /\ inbox \in Seq(Answer)
  /\ handled \in Nat /\ accepted \in Nat \union {-1}

(* An answer a call takes for its own is its own, or has been under way    *)
(* for as many calls as there are transaction identifiers: what is left in *)
(* the socket by calls that timed out never confirms a later call          *)
(* (pre_check_confirmation of modbus-tcp.c).                               *)
OwnUnlessWrapped == accepted # -1 => accepted = 0 \/ accepted >= Numbers

(* Why: the number of the call made so many calls ago, and that every      *)
(* message on its way has the number of its call, until numbers come again.*)
TidBefore(t, age) == IF age <= t THEN t - age ELSE t - age + Numbers

Numbered(s, t) ==
  \A i \in DOMAIN s : s[i].age < Numbers => s[i].tid = TidBefore(t, s[i].age)

NumberInv ==
  /\ TypeOK
  /\ Numbered(requests, tid) /\ Numbered(flight, tid) /\ Numbered(inbox, tid)
  /\ OwnUnlessWrapped

(* One late answer does not spoil all calls to come: when the link gives   *)
(* no more trouble and no number comes again, PROTOCOL recovery brings the *)
(* client back in step with the server, and calls no longer fail           *)
(* (check_confirmation).  Of a serial line, where every call has the same  *)
(* number, this says nothing while answers are late.                       *)
Trouble ==
  \/ Timeout \/ Break \/ LoseConnection \/ LoseAndReconnect \/ ReceiveDamaged
  \/ SendFails \/ SendRefused

Failure == phase # "idle" /\ phase' = "idle" /\ rc' \notin {"ok", "exception"}

(* No message is so old that its number has come again.                    *)
Unwrapped ==
  \A q \in {requests, flight, inbox} : \A i \in DOMAIN q : q[i].age < Numbers

Recovers ==
  /\ "PROTOCOL" \in recovery /\ sleepSuffices
  /\ <>[][~Trouble]_vars /\ <>[]Unwrapped
  => <>[][~Failure]_vars

(* No call is stuck, though LINK recovery repeats its send for as long as  *)
(* it fails: every call returns (send_msg, _modbus_receive_msg).           *)
EveryCallReturns == phase # "idle" ~> phase = "idle"

(* With LINK recovery, and answers that come within the response timeout   *)
(* of the sleep that follows a timeout, a call takes no answer but its own,*)
(* on a line without identifiers too (_modbus_receive_msg, modbus_flush).  *)
OwnUnderLink == "LINK" \in recovery /\ sleepSuffices => accepted <= 0

(* Why: then one message is under way at most, the request of the present  *)
(* call or its answer, and none between two calls, since every call that   *)
(* fails with something under way sleeps and flushes, or connects again.   *)
NoneLive(s) == \A i \in DOMAIN s : ~s[i].live

OneAtATime ==
  "LINK" \in recovery /\ sleepSuffices =>
    /\ phase \in {"idle", "sending"} => NoneLive(requests) /\ flight = <<>> /\ inbox = <<>>
    /\ inbox # <<>> => Len(inbox) = 1 /\ flight = <<>> /\ NoneLive(requests)
    /\ flight # <<>> => Len(flight) = 1 /\ NoneLive(requests)
    /\ \A i, j \in DOMAIN requests : requests[i].live /\ requests[j].live => i = j
    /\ \A i \in DOMAIN requests : requests[i].live => requests[i].age = 0
    /\ \A i \in DOMAIN flight : flight[i].age = 0
    /\ \A i \in DOMAIN inbox : inbox[i].age = 0

(* Why the server handles a call once at most, and every answer comes of   *)
(* it: a request is sent once, after every retry of its connection, and is *)
(* gone when it has been handled.                                          *)
NoneOfThisCall(s) == \A i \in DOMAIN s : s[i].age > 0

AtMostOne(s) == \A i, j \in DOMAIN s : s[i].age = 0 /\ s[j].age = 0 => i = j

HandledOnce ==
  /\ handled <= 1 /\ AtMostOne(requests)
  /\ phase = "sending" => handled = 0
  /\ phase = "sending" \/ handled = 1 => NoneOfThisCall(requests)
  /\ handled = 0 => NoneOfThisCall(flight) /\ NoneOfThisCall(inbox)
  /\ phase # "idle" => accepted = -1
  /\ phase = "sleeping" => rc # "none"

(* The inductive invariant. *)
IInv == NumberInv /\ OneAtATime /\ OwnUnderLink /\ HandledOnce

(* The flush that docs/modbus_set_error_recovery.md tells of for PROTOCOL, *)
(* when the function of what was received is not the expected one.         *)
FlushesOnWrongFunction ==
  [][ /\ "PROTOCOL" \in recovery
      /\ ReceiveConfirmation \/ ReceiveBadException \/ ReceiveMismatch
      /\ Head(inbox).request.function # cur.function
      => phase' = "sleeping" ]_vars

(* A confirmed call was handled exactly once, before it returned, and one  *)
(* that failed at most once, whatever the recovery repeats (send_msg):     *)
(* the client and the server are the calls of Calls.  Of a call that took  *)
(* an answer whose number has come again nothing is known.                 *)
Abandoned == { i \in DOMAIN requests : requests[i].age > 0 }

Outcome ==
  IF phase # "idle" \/ rc = "none" THEN "none"
  ELSE IF accepted \in 0..(Numbers - 1) THEN "confirmed" ELSE "failed"

Contract == INSTANCE Calls
              WITH open <- phase # "idle", abandoned <- Cardinality(Abandoned),
                   outcome <- Outcome

ImplementsCalls == Contract!Spec
=============================================================================
